# TLA+ models of Re Distinto (planner, coordinator, ESIs, Instances)

The repository is a distributed key-value store with a scheduler, written in C
over TCP sockets and threads. Scripts (ESI processes) run one line at a time
when the planner says so; each line is a `GET` (take the lock of a key), a
`SET` or a `STORE` (write the value to a file and give the lock back). This
directory models the four processes and their conversations, checks them with
TLC, and proves most of their safety properties with TLAPS.

Contents: [system](#1-the-system) · [modules](#2-modules-and-code) ·
[abstractions](#3-what-is-abstracted) · [windows](#4-timing-windows) ·
[runs](#5-runs) · [fairness](#6-fairness) · [proofs](#7-proofs) ·
[disagreements](#8-disagreements-with-the-texts) ·
[left out](#9-not-modelled) · [plan](#10-plan)

## 1. The system

| Part | State | Operations | Talks to |
| --- | --- | --- | --- |
| planner, listening thread (`planner/src/launcher.c:106-291`) | `ready_queue`, `running_queue`, `blocked_queue`, `finished_queue`, `esi_sockets_list`, `taken_keys`, the `ESI` structs | one `select` loop with a handler for each message: handshake, line finished, script finished, lock change, permission to get, set, store | coordinator and every ESI, by socket; the other two threads, by shared lists |
| planner, running thread (`:293-315`) | the same queues, `redo_last_operation` | busy loop: if the processor is free, dispatch the head of `ready_queue` | ESIs, by socket |
| planner, console (`include/plan_console.c`, `include/commands.c`) | `FLAG_PLANIFICATION_RUNNING`, `taken_keys`, and the queues through `release_key` | `pausar`, `reanudar`, `bloquear`, `desbloquear`, `deadlock`, `salir`; the others print or do nothing | the other two threads, by shared variables |
| coordinator (`coordinator/src/launcher.c`) | `instances`, `eq_load_alg_last_used_inst`, one thread for each ESI | accept, receive an instruction, ask the planner, choose an Instance, execute, tell the planner | everybody |
| ESI (`esi/src/launcher.c`) | position in the script, its beginning of line, its name | run the next line, run the last line again, finish, abort | planner and coordinator |
| Instance (`instance/src/launcher.c`) | `diccio_table`, `blocks_table`, `circular_alg_last_entry`, files | GET, SET, STORE | coordinator |
| libgrupo (`libgrupo/libgrupo`) | none | send a header, with content or without | linked into all four |

**Life of a line.** The planner sends `PLANNER_ESI_RUN`. The ESI parses a line
and sends it to its coordinator thread, which asks the planner
(`CAN_ESI_..._KEY`), reads the answer from the one planner socket all threads
share, and, if allowed, sends the instruction to an Instance. On success the
thread sends the planner two messages: the lock change (GET and STORE only) and
`ESI_EXECUTION_LINE_OK`, on which the *listening* thread orders the next line.
When a GET is refused, the planner moves the ESI from `running_queue` to
`blocked_queue` and adds a `WAITING` node to `taken_keys`; a `STORE` removes the
holder's node and moves every waiter to `ready_queue`, with
`redo_last_operation` set so that the line is read again.

**What is hard.** There is no mutex in the repository. Three planner threads
share lists; an ESI's lifecycle and its lock requests live in different lists
that no single call updates; locks are checked in one message and taken in
another, two processes later; several coordinator threads read one socket; and
messages about "the ESI that is running" do not name it. `PROJECT.json` lists
each hazard at its line, with the properties that would catch it.

**What correctness means, part by part.**

* Planner queues: an ESI is in one queue, once (`QueuePartition`); the processor
  has at most one (`SingleRunning`); every move is one of the life of an ESI
  (`ImplementsLifecycle`, the abstract specification `Lifecycle`).
* Locks: one holder for a key (`KeyExclusive`); who waits is parked and who is
  parked waits (`WaitersParked`); nobody waits for a key that nobody holds or
  releases (`NoLostWakeup`), so that a free key wakes them (`FreeKeyWakes`). The
  lists together are a lock service (`ImplementsLockService`, the abstract
  specification `LockService`): a release, which the code does one list call at a
  time, dismisses all who wait, at once.
* Permissions: what the planner allowed still is allowed when it takes effect two
  processes later (`PermissionStillHolds`); what it is told has happened
  (`ToldWhatHappened`); no two coordinator threads write to one socket at once
  (`SocketsUnshared`).
* Retries: a refused line is run again, not skipped (`RetryPending`), and the
  planner's lock list agrees with the lines run (`HoldsWhatItGot`).
* Instances: each key has a value of its own (`ImplementsKeyStore`, the abstract
  specification `KeyStore`), and the file of a key begins with what the script set
  last (`FileBeginsWithValue`).
* The whole: of the NULL pointers that may be followed and the broken connections
  that may be written to, only some are, each for a reason outside the process
  (`CrashesExplained`); every ESI comes to rest (`EveryoneSettles`) and, once the operator
  frees the configured keys, finishes (`AllFinish`).

## 2. Modules and code

| Module | Models | Uses |
| --- | --- | --- |
| `Libgrupo` | shared structures, names, frames, the eight families of channels, how a connection ends | |
| `TakenKeys` | the list `taken_keys` and its searches, as operators | |
| `Planner` | the three threads of the planner; its invariants and refinement mappings | `Libgrupo`, `TakenKeys`, `Lifecycle`, `LockService` |
| `Esi` | the ESI processes and their scripts | `Libgrupo` |
| `Coordinator` | the accepting thread and the thread of each ESI | `Libgrupo` |
| `InstanceStore` | the Instances | `Libgrupo`, `KeyStore` |
| `Lifecycle` | abstract: the states of an ESI and the moves between them | |
| `LockService` | abstract: keys that are held, and who waits for them | |
| `KeyStore` | abstract: what an Instance promises | |
| `System` | the composition, its fairness, and the properties across processes | `Planner`, `Esi`, `Coordinator`, `InstanceStore` |
| `Inductive` | the invariants, across processes, that make the properties of `System` true, and what the theorems ask of the scripts | `System` |
| `Claims` | what texts of the repository say and the code does not do | `System` |
| `MCSystem` | small instances for TLC | `Inductive`, `Claims` |
| `PlannerProofs`, `LockProofs` | theorems about the planner | each other |
| `SystemProofs`, `OneLineProofs`, `StoreProofs`, `PermissionProofs`, `HoldingProofs`, `OutcomeProofs` | theorems about the system | those, `Inductive` |

**Grain.** A step of a planner thread is one call on a shared list, with the
thread-local work around it; a thread's position and locals are records:
`listen` for the listening thread, `run` for the running thread, and
`release[t]` for the loop of `check_whos_waiting`, which both the listening
thread (on `STORE`) and the console (`desbloquear`) may be in. For example the
refusal of a GET is `GetDenied` (check and answer), `block_esi` (leave
`running_queue`), `WaitForKey` (add the node); and a dispatch is `RunPoll`,
`RunTake`, `RunPut`, `RunStart`, `ClearRedo`. Four list calls that happen
back-to-back on thread-owned data are merged into the step of the first:
registration of an ESI (`register_esi`, its socket, `ready_queue`), the
move between queues in `block_esi` and in `ESI_EXECUTION_FINISHED`, and
`list_remove` with `list_add` in `MoveToReady`. The coordinator, ESI and
Instance are modelled message by message. Every NULL pointer that the code
follows is a step that ends the process: `Segfault` and `EndOfInput` (planner; the
latter is what `readline` answers at the end of the input, `plan_console.c:23-25`),
`FollowNullInstance` (coordinator), `FollowNullTable` (Instance).

`PROJECT.json` maps each definition to its lines.

**Death of a process.** The processes in `Mortal` may be killed from outside.

* An ESI (`Die`) ends at any moment after it knows its name. Its peer finds the end
  of the connection behind whatever was still under way: `"closed"`, or `"reset"`
  if the ESI left something unread (`EndOf`).
  On `"closed"` the planner forgets the socket and nothing else (`LostSocket`,
  `launcher.c:281-286`): the ESI stays in its queue, its keys stay taken. If it
  was running, or is dispatched later, it keeps the processor for ever:
  `Orphaned`, which the liveness properties name as the way the system stops.
  On `"reset"` `recv` answers -1, which the planner takes for data
  (`launcher.c:137`): it acts on a header nobody filled. What `malloc` returned is
  zero or part of a heap pointer; zero is `ESI_PLANNER_HANDSHAKE` and the rest is
  `default`, and both answer on the socket that was reset: SIGPIPE, the sixth
  disjunct of `Segfault`. (A header that happens to hold a type whose handler does
  not answer would need a heap address that ends in that very number; it is left
  out.) The coordinator's thread for that ESI loops on a `recv` of 0, which
  changes nothing.
* An Instance (`DieInstance`) ends at any moment after it is configured. Its memory
  is gone, its files stay. A thread of the coordinator that waits for its report
  gets an empty header and tells the ESI `OPERATION_ERROR` (`InstanceGone`), whether
  the operation had happened or not; the Instance stays AVAILABLE, and the next
  operation sent to it ends the coordinator (`BrokenPipe`: a header and its
  content are two sends, the first provokes the reset and the second SIGPIPE).

## 3. What is abstracted

* A TCP connection is a FIFO channel for each direction, without loss. A frame
  (header and content) is one message, except in the answer to an ESI's
  handshake, where the running thread may really write between the two: there
  the header and the name are separate frames and the ESI reads them as the
  code does, into whatever it takes for its name.
* Names are a prefix and a number (`<<"ESI", 3>>`); what the code does to them
  is kept: four bytes on the wire (`NameOnWire`), lower case at the console
  (`ConsoleName`; `ConsoleKey` for the key in the same line), a terminator written
  at `ESIName[value_size]` (`NameKept`). The eight-byte buffers behind a name are
  taken as zeroed stack.
* Values are model values; `ShortValue` are those shorter than a name. The terminator
  that goes into the name is missing behind the value (`coordinator/src/launcher.c:149-151`),
  and what `strlen` then measures (`:192`) is the value or more: `Forwarded` sends a SET
  with stray bytes behind its value or without, whichever the heap holds. So what an
  Instance keeps and writes is a `Text`, a value and what follows it; how long the
  stray bytes are, and which, is left out.
* A script is a sequence of records; a line that parsi rejects is `"invalid"`.
* `last_estimate` is kept in sixteenths, rounded down. No step of the code as it
  is compares estimates (the algorithm is always FIFO), so rounding cannot
  change a behaviour.
* An ESI in the planner is its socket: `search_esi_socket` cannot fail for a
  registered one.
* The planner closes the descriptor of an ESI that finished. A later send to that
  ESI (parked by a line it had sent before) fails unnoticed: in the modules the
  frame stays in the channel and nobody reads it. A new connection that reuses
  the descriptor number is not modelled.
* Memory that is leaked or freed, logging and what the console prints are left
  out.

## 4. Timing windows

Many overlaps are possible in the code and rare in practice. The constant
`Windows` names the ones left open; with a window closed, one step waits for the
overlap to pass, which removes behaviours and adds none. `Windows = AllWindows`
is the code as it is. So every property is checked with the widest set of
windows it survives, and this table says what breaks it beyond.

| Window | The overlap | What it breaks when open |
| --- | --- | --- |
| `startup` | an ESI connects before every Instance is ready | no property: that there is no Instance (`coordinator/src/launcher.c:188`), or one without its configuration (`instance/src/launcher.c:169`), ends a process, which `CrashesExplained` names among the reasons |
| `handshake` | an ESI is dispatched before its handshake is answered | `HoldsWhatItGot`, `CrashesExplained`; the order can be lost in the name, and the ESI waits for ever on the processor |
| `console` | `desbloquear` releases a key while the listening thread handles a message or releases one itself | `NoLostWakeup`, `ImplementsLockService` (the release falls between refusal and `WAITING` node: run `wakeup`); `QueuePartition`, `ImplementsLifecycle`, `RetryPending`, `CrashesExplained` (both threads release a key and move its waiters) |
| `redo` | the running thread is delayed between sending an order and clearing `redo_last_operation`, until that ESI has been refused and `desbloquear` wakes it | `RetryPending`, `HoldsWhatItGot`, `CrashesExplained` (the refused line is skipped: run `redo`) |
| `answers` | two coordinator threads have a question to the planner outstanding | `KeyExclusive`, `PermissionStillHolds`, `HoldsWhatItGot`, `CrashesExplained` (they may swap answers: run `answers`) |

With `console` closed a `desbloquear` and a message that the listening thread handles
wait for each other; with `redo` closed only the `list_add` of a `desbloquear` waits, for
the running thread. The other commands, and
everything the listening thread does while the running thread is between its order
and its clearing, overlap in every run: an ESI may run its line, be refused, be
parked or finish before its flag is cleared.

`SingleRunning` survives all of them and is proved without any assumption on
`Windows`. `QueuePartition`, `WaitersParked`, `NoLostWakeup` and the refinements of
`Lifecycle` and `LockService` need only `console` closed, and are proved so. `TypeOK`,
`BlocksApart` and `ImplementsKeyStore` are proved with every window open. What is proved with
`answers` closed, alone or with others, is in section 7.

The statements on what a window breaks are counterexamples of TLC, found by
opening that window alone in `MCorderly.cfg`. The windows `console`, `redo` and `answers`
each have a violation run, against what a text of the repository says; no text speaks
of the other two. `SocketsUnshared` survives each window there, and fails for
another reason: after a script without a final newline (the scripts of `faults`) an
ESI is off the processor while its last operation is under way, and two coordinator
threads write at once.

## 5. Runs

All use `MCSystem` with two ESIs (one in `startup`). Two is where the interesting
cases start: one ESI to hold and one to wait, one key that is contended and one
that the configuration blocks, and with it two waiters of one key, which the
operator frees (`orderly`, `liveness`, `console`, `races`). The lists hold one node for
each ESI and key, and the steps of three threads and four processes interleave
freely, so a third ESI would mostly repeat what two do; that the loop of a release
finds any number of waiters is proved (section 7). There is no symmetry: the ESIs
run different scripts or one of them may be killed, and the key `p` is preloaded.

| Run | States | What it adds | Properties |
| --- | --- | --- | --- |
| `orderly` | 473 thousand | `e1`: GET a, SET a, GET p, STORE a, STORE p; `e2`: GET a, SET a, STORE a, GET p and a line that does not parse; `p` preloaded as blocked; the operator may type `desbloquear p`; either ESI may be killed. All windows closed; deadlock is checked | all safety properties of planner and system, `OneLine`, `PermissionInv`, `RetryInv`, `HoldingInv` and `FiledInv` (inductive invariants of the proofs), `ImplementsLifecycle`, `ImplementsLockService` |
| `liveness` | 78 thousand | `FairSpec`; both ESIs GET and STORE `p` alone, so both wait for it, and who is woken first makes the other wait again; `e1` may be killed | `EveryoneSettles`, `FreeKeyWakes`, `AllFinish` |
| `console` | 569 thousand | any two commands, `desbloquear` between handlers; they include freeing a key that an ESI holds and, typed in capitals, adding a second holder | `QueueInv`, `WakeupInv`, `ParkedInv` (the inductive invariants of the proofs), `ImplementsLockService` |
| `races` | 1.09 million | any two commands, or the end of the input, at any time (window `console`) | `PlannerInv` |
| `faults` | 775 thousand | a script without last newline that is gone before its last line is allowed or refused, a value that cuts a name, a STORE that reaches an Instance without the key, freed keys that ESIs hold; two Instances; windows `handshake`, `redo`, `answers` | `SingleRunning`, `QueuePartition`, `WaitersParked`, `NoLostWakeup`, `ImplementsLifecycle` |
| `startup` | 53 thousand | one ESI, two Instances, any order of start; two keys for the two blocks of each; a last line that changes a key the script has given back; the ESI and one Instance may be killed at any moment | `ToldWhatHappened`, `TypeOK`, `ToldInv` and `BlocksApart` (inductive invariants of the proofs), `CrashesExplained`, `ImplementsKeyStore` |

The six violation runs are in section 8, on the same scripts and with nobody
killed. `CHECK_DEADLOCK FALSE` stands where a process may be gone or an ESI may keep
the processor for ever (`console`, `races`, `faults`, `startup`, `error`); elsewhere the
only states without a next step but `Terminated` are those where everybody settled,
a process is gone, a dead ESI has the processor, or the planner is paused.

Bounds: `MaxCommands` bounds the operator; scripts are finite and a process dies
once, so everything else is finite. `INIT_ID = 0` as in the shipped configuration (10
in the run `name`). `EST_ZERO = 3`, `ALPHA = 50` are the shipped values. `Q_ENTRIES = 2` is
as many blocks as keys: with fewer, blocks are shared, which the code does
nothing about (see hazards). The liveness run has one key and one value to leave
room for the death of an ESI in the tableau.

Between them the passing runs take every action and every disjunct, the six ways
of `Segfault` included (the first, second and fourth only in `faults`, the fifth
only in `races`, the sixth in `orderly` and `startup`).

Each property has a mutant of a mapped definition that makes it fail (beside the
definition, under a comment "Mutant").

## 6. Fairness

`FairSpec` asks weak fairness of each thread: the listening thread (a `select`
that serves every ready socket, and whose NULL pointers are followed as surely as
its other steps are taken), the running thread (a busy loop that never sleeps), the
release the console is in (a typed command is carried out), the two threads of each
ESI, each thread of the coordinator, and each Instance (they block only in `recv`). A
thread blocked in `recv` or `accept` is not enabled, and no other thread can disable
it once its message is there, so an operating system that does not starve threads
gives no less. Nothing makes an ESI or an Instance connect or die, or the operator
type: `AllFinish` is conditional on the ESI having connected and on the command
having been typed, and excepts the case that an ESI is killed.

## 7. Proofs

About 14200 obligations, none of them left. All theorems are about every set of ESIs,
Instances, keys and values, every script, configuration and command, within the
assumptions of the table. The planner is proved against *any* environment:
`PlannerSpec` lets the channels change arbitrarily between its steps, and the
handlers rely only on the frames having the structure of their C struct
(`CoordinatorFrame`). `SystemRunsPlanner` then carries every result to the whole
system, killed processes included: the other processes leave the planner's
variables alone. The other theorems about `Spec` are about the four processes and
their channels together.

| Module | Theorem | Assumes | Says |
| --- | --- | --- | --- |
| `PlannerProofs` | `PlannerInvHolds` (`PlannerTypes`, `ProcessorIsSingle`) | – | `PlannerInv`: types, `LocalsSound`, `ProcessorFree`, `SingleRunning` |
| | `QueueInvHolds`, `EveryEsiInOnePlace` | `console` closed | `QueueInv`, `QueuePartition` |
| | `QueuesImplementLifecycle` | the same | `PlannerSpec => Life!Spec` |
| `LockProofs` | `WakeupsAreNotLost` | the same | `NoLostWakeup` |
| | `TakenKeysImplementLocks` | the same | `PlannerSpec => Locks!Spec` |
| | `ParkedInvHolds`, `WaitersAreParked` | the same | `ParkedInv`, `WaitersParked` |
| | `WokenIsFound` | the same | `check_whos_waiting` finds in `blocked_queue` whom it looks for: the NULL of `launcher.c:599` is never followed |
| `SystemProofs` | `SystemRunsPlanner` | – | `Spec => PlannerSpec` |
| | `SystemTypes`, `SystemSingleRunning`, `SystemQueuePartition`, `SystemNoLostWakeup`, `SystemWaitersParked`, `SystemLifecycle`, `SystemLockService` | as above | the same of `System` |
| | `SystemTypeOK` | – | `TypeOK`: every frame that a process reads is one it decodes, every thread has what its step needs |
| `OneLineProofs` | `OneLineHolds` | `answers` closed; every script ends in a newline | `OneLine`: the processor is in one place of the system |
| | `SocketsAreUnshared` | the same | `SocketsUnshared` |
| `StoreProofs` | `BlocksAreApart` | no more keys than blocks | `BlocksApart` |
| | `InstancesImplementKeyStore` | the same | `Spec => KS!Spec` |
| | `ToldInvHolds`, `WhatIsToldHappened` | `answers` closed; every script ends in a newline | `ToldInv`, `ToldWhatHappened` |
| `PermissionProofs` | `KeysAreExclusive` | the same; the configuration blocks no key twice; nobody types `bloquear` | `KeyExclusive` |
| | `PermissionInvHolds`, `PermissionsHold` | and nobody types `desbloquear` | `PermissionInv`, `PermissionStillHolds` |
| | `RetryInvHolds`, `RetriesArePending` | `answers` and `console` closed; every script ends in a newline; nobody types `desbloquear`, or `redo` is closed | `RetryInv`, `RetryPending` |
| `HoldingProofs` | `HoldingInvHolds`, `ScriptsHoldWhatTheyGot` | those of `PermissionInvHolds`; `handshake` and `console` closed too; no SET of a value that is cut short; `INIT_ID` plus the number of ESIs is at most 10 | `HoldingInv`, `HoldsWhatItGot` |
| `OutcomeProofs` | `CrashesAreExplained` | those of `HoldingProofs` | `CrashesExplained` |
| | `FiledInvHolds`, `FilesBeginWithValues` | those of `HoldingProofs`; one Instance with as many blocks as keys; a script sets a key again before it stores it again (`StoredOnce`) | `FiledInv`, `FileBeginsWithValue` |

Closing a window is the assumption that section 4 explains. A script without a final
newline takes its ESI off the processor with an operation under way; `bloquear` and
`desbloquear` change the holder of a key behind the back of an ESI. Section 4 says for
which of these TLC has found a counterexample without the assumption; the others are
what the argument needs (`SocketsUnshared` was found to survive `answers` in the one
instance that was tried). In `orderly` the operator may type `desbloquear` for a key that
no ESI can hold yet: `PermissionInv`, `HoldingInv` and `FiledInv` survive that,
which the theorems do not cover.

The last assumptions of `FiledInvHolds` are each about something the code leaves to
whoever runs it. One Instance: Equitative Load deals out operations, not keys,
so with two the GET, the SET and the STORE of one key may reach different dictionaries.
`StoredOnce`: a STORE gives the key back, another ESI may take and set it, and a second
STORE would write the value of that ESI. The scripts of `orderly` are of this kind:
`ContentionAssumption` in `MCSystem` says so, and TLC evaluates it. `CrashesAreExplained`
has none of them: its scripts may change keys they do not hold, ESIs and Instances may
come in any order and be killed, and any `DISTR_ALG` may be configured.
`ConfigAssumption`, `ScriptAssumption`, `WindowsAssumption` and the others that the modules
name are about the constants alone, and TLC evaluates them in the runs.

**Single running ESI.** `Len(running_queue) <= 1` is not inductive: from a state
in which the running thread is about to add (`run.pc = "put"`) and the queue has
one ESI, it grows to two. `ProcessorFree` excludes that state: from the look at
the queue to the add it stays empty, because no other thread adds. `LocalsSound`
supplies that what is added is an ESI, and that `RunTake` finds somebody.

**Queues.** `QueuePartition` needs, besides, that the position `LocateBlocked`
remembered still is that of the same ESI when `MoveToReady` removes by it
(`PositionHeld`), which holds because nobody else touches `blocked_queue`
meanwhile (`OneAtATime`). The second is where `"console" \notin Windows` enters:
with the window open TLC finds two releases of one key moving one ESI twice.

**Wakeups.** A waiter's node is added in `WaitForKey`, two steps after the check
that refused it. `DenierHolds` says the holder is still there when it is added.
For the release itself, `Unlink` may free the key while waiters remain, but then
the thread is `Releasing` it and leaves only when `Search` finds no waiter.

**Parked and waiting.** The queue holds ESIs, the nodes hold names, and the threads
carry one or the other between the two lists. `WaitersParked` is not inductive
because of what can happen to names: `ParkedInv` adds that no two registered ESIs
have one number and that all are below `esi_id_counter` (`IdsDiffer`), that no name
waits twice (`OnceWaiting`), that a WAITING node names somebody parked, and that
what a thread has in hand is parked still, and is the node it found (`HandParked`).
The proof restates it over five sets and the number in hand (`Consistent`), so that
each action is one lemma about adding to or taking from those sets. `WokenIsFound`
is its use: `locate` always finds.

**Refinements of the planner.** For `Lifecycle` the mapping says in which queue an
ESI is, and the one between two queues, in the hands of the running thread, is
ready; every action of the planner is then one move or none, which needs
`QueuePartition` (who leaves a queue is in no other) and `ProcessorFree` (nobody runs at
a dispatch). For `LockService` the waiters of a key are the names of its WAITING nodes,
except that there are none while a thread releases the key: the first step of a
release is the abstract one, and the rest of the loop, whatever the other threads do
meanwhile, is a stutter until the last waiter is gone.

**Types of the system.** `TypeOK` is inductive as it is: what one process sends
fits what the other decodes (`LineTypes`, `ParserTypes`, `ThreadAsks`), the index of
Equitative Load stays in its list (`IndexRange`) and an entry's block in its table
(`NextBlock`, `EntryFound`). What four bytes leave of a number is its first digit,
computed by a recursive function; that it is a digit is shown with a least
counterexample (`FirstDigitType`), since the induction theorems of the library are out
of the provers' reach.

**One line at a time.** That no two threads send at once (`SocketsUnshared`) says
nothing of how they got there. `OneLine` follows the line of an ESI through its seven
places: about to be ordered, ordered, sent, asked, executing, done, ended. It is in
one place, of one ESI (`InOnePlace`), who is the one in `running_queue` (`OwnProcessor`);
no frame of it is there twice (`SentOnce`); and the planner has one question, or one
answer, at a time (`OneQuestion`). An action either moves no line (`Quiet`) or takes it
from a place to the next (`LineMoves`), so each of the steps that do is a lemma on one
channel. The following parts are its uses.

**Retries.** `RetryPending` reads `redo_last_operation` when an ESI is dispatched. The
listening thread sets the flag when it wakes an ESI, and the running thread clears it
after it has sent an order, however late: meanwhile the ESI may have run its line, been
refused and been parked, and what must not happen is that it is woken as well.
`RetryInv` says why: until its flag is cleared nobody else is dispatched
(`LastDispatched`: whoever runs is the ESI of the running thread), and once it is parked
or finished nobody runs at all, so that by `OneLine` there is no line under way whose
STORE could release a key. Only the console needs no line to release one, which is the
run `redo`, and why the window that is closed makes only its release wait.

**Permissions.** `PermissionStillHolds` is about a key in `taken_keys` while the
operation is at an Instance; the permission was given by an earlier answer and the
list changes by a later message. `PermissionInv` follows both: the question that travels
is that of the thread that asks (`AskedAndTold`); the change is reported once and before
the end of its line (`ChangeFirst`); the key of a GET stays free until it is taken
(`FreeUntilTold`) and that of a SET or a STORE stays its ESI's (`HeldUntilUsed`), because
only the line under way changes the list. `KeyExclusive` is the invariant that a
BLOCKED node is added for a free key only, and needs only the first three parts.

**Held keys.** `HoldsWhatItGot` compares a script with a list that names its ESI, after
four processes have handled the line. `HoldingInv` is in four layers. The name:
an ESI hears its number before its first order (`NamingInv`), whole because it has one
digit, and no two ESIs have one (`Numbered`). The line: the position at which an ESI
resumes is that of the line read last (`LastLineRead`), and what travels, is asked or is
executed carries that line and that name (`LineCarried`); while the next order
travels nothing is asked (`NextUnasked`). The change: it is that of the line just
executed, and a release is of a key its ESI holds (`ChangeCarried`); with that, who
holds a key is a registered ESI or the configuration (`KnownHolders`). The account:
`taken_keys` accounts for the lines of every script up to the last that was executed,
the change received (`Accounts`): `Accounted(e)` moves on at the very step in which the
list does. A line that was refused is read again and accounts for nothing, which is
where `RetryInv` enters; `PermissionInv` says that the key of a GET was free and that of a
STORE its own. The proof has a lemma for each place at which a line may change hands.

**Crashes.** The ways of `Segfault`, but for the sixth, and both NULL pointers beyond the
planner are about looking for something that is not there. `CrashesExplained` says what
it takes: for the planner, that a line changes a key its script does not hold
(`launcher.c:532`; `ChangesUnheld` is about the line that is being asked for), an ESI
killed with something unread, or the end of the console's input; for the coordinator,
that no Instance has come, that one is gone, or another algorithm than Equitative Load;
for an Instance, an ESI that did not wait for it. So four of the five look-ups of the planner
never fail. Most of what makes them succeed is in the invariants above: who is running
when a line ends (`OneLine`), the holder of a key that is set by a script that holds
it (`Accounts` of `HoldingInv`), who waits (`ParkedInv`). `CrashInv` adds the rest. A
thread does not ask on behalf of an ESI that has gone by itself, whose account is
closed (`Attended`); from the refusal of a GET to the search for its name in
`running_queue` the ESI is still the one that runs (`RefusedRuns`); an Instance that is
ready is in the list (`InstancesUp`). It is inductive together with the other
invariants, and keeps the reason once a process is gone: whoever changes a key it does
not hold never gets an answer, and an Instance that is gone does not come back.

**What the files hold.** `FileBeginsWithValue` relates a file to a line that the script ran
long before. `FiledInv` says it in two steps. From the report of a SET to the STORE
(`Kept`), the key stays its ESI's and its block begins with the value, but while the next SET
of the same ESI has written and not yet reported (`Overwriting`): whoever else executes
at the Instance executes for a key that it holds itself (`PermissionInv`), into a block
that is that key's (`BlocksApart`). From the STORE to the next line (`Filed`), the file
stays because only the line under way writes. The account of `HoldingInv` tells the lines
that count from the line under way: it moves by one line or stays (`AccountStep`), and a
line that the account passes as a SET was executed by an Instance that still shows it
(`ToldWhatHappened` for a GET and a STORE, `SuccessHappened` for a SET, of which the
planner is told nothing).

**Instances.** An entry of a dictionary knows its block by a number, and two numbers
that nothing compares give it. `BlocksApart` relates them: an entry's block is how many
came before it, and the circle is at the number of entries. It is inductive while
there are no more keys than blocks (`Room`: the keys of a dictionary are an injection
into the others' keys). `InstancesImplementKeyStore` follows: an instruction changes
the content of its own key (`NewEntry`, `OwnBlock`), whatever the coordinator does.

**Reports.** `ToldWhatHappened` is about the tables of an Instance, three messages after
they were written. `ToldInv` says that an instruction that will be executed is that of the
one thread that waits, that a report is for the thread that waits and, if a success,
of its operation (`ReportedOnce`, `InstructedOnce`), and that nothing follows the end of a
connection (`EndsLast`), so that a thread that finds the Instance gone has no report
of it to come. `OneLine` gives the rest: while one thread waits no other operation comes
between.

All these invariants are also properties of runs: `PlannerInv` of `races`, `QueueInv`,
`WakeupInv` and `ParkedInv` of `console`, `OneLine`, `RetryInv`, `PermissionInv`,
`HoldingInv` and `FiledInv` of `orderly`, `ToldInv` and `BlocksApart` of `startup`; of `CrashInv`
the runs check `CrashesExplained` (`orderly`, `startup`).

`PlannerProofs` begins with the facts about sequences these rest on (removal by
position, concatenation, `IsInjective`, what the searches of `taken_keys` return), and
`OneLineProofs` with those about channels (`FrameReceived`, `FrameSent`), stated once and
cited by name.

Only model-checked: liveness (fairness and `ENABLED` are out of the prover's
reach), so `EveryoneSettles`, `FreeKeyWakes` and `AllFinish` stay with TLC. Every safety
property of the passing runs is the statement of a theorem. What the theorems leave to
TLC is part of their range: `CrashesExplained`, `HoldsWhatItGot` and `FileBeginsWithValue` while
the operator types `desbloquear` for a key that no ESI holds (`orderly`).

## 8. Disagreements with the texts

| Run | Text | What the code does |
| --- | --- | --- |
| `paused` | `commands.c:46`: a paused planner gives no new orders | `ESI_EXECUTION_LINE_OK` orders the next line without looking at the flag (`launcher.c:182`) |
| `wakeup` | `commands.c:50`: `desbloquear` unblocks an ESI blocked by the key | in the middle of a refusal it finds no waiter yet; the ESI then waits for a key that nobody holds (`launcher.c:227-233`, `502`) |
| `redo` | `launcher.c:305` logs the dispatch of a refused ESI: "REPEATING_LAST_OPERATION" | the flag is cleared late, after `desbloquear` has set it (`launcher.c:311`, `599`): the refused line is skipped |
| `error` | `esi/src/launcher.c:181`: "Terminar ejecución" | the ESI goes on and the planner is not told: it keeps the processor |
| `answers` | `coordinator/src/launcher.c:237`: not authorized | with two questions outstanding, the refused operation may be executed |
| `name` | `esi/src/launcher.c:222`: registered as | four bytes of the name are sent: `ESI10`, the eleventh with the shipped `INIT_ID` of 0, is told it is `ESI1` |

Also visible in the models, without a run of their own since one step shows them:

* `bloquear` adds a holder to `taken_keys` and parks nobody (the file says "Falta
  implementacion").
* `desbloquear` wakes every waiter of the key, and those the planner parked (`release_key`,
  `launcher.c:502`). `commands.c:50` says that it wakes the first, and only ESIs that were
  blocked from the console. `LockService` says what the code does: a release dismisses all.
* `PLAN_ALG` is read into a by-value parameter and lost (`launcher.c:22`, `401-416`): FIFO runs
  whatever is configured, while `launcher.c:415` logs the configured algorithm.
* The command `deadlock` is dispatched to `resume()` (`plan_console.c:83`), which restarts a
  paused planner.
* A file may hold more than the value that was set (`coordinator/src/launcher.c:149-151`, `192`).

## 9. Not modelled

* SJF and HRRN sorting and preemption, which the program cannot reach while its
  algorithm stays FIFO (`NoSorting` guards the dispatch with exactly that).
* `dump_all_entries` (never called); LRU and BSU replacement and reconnection (not
  implemented); the watch threads (not started, or empty).
* Death of an ESI or an Instance in the middle of its handshakes; what the planner
  and the ESIs do after the coordinator is gone (the system counts as stopped); the
  reuse of a descriptor number by a new connection.
* Races inside one so-commons list call; frames of two coordinator threads mixed on
  one socket (`SocketsUnshared` says when they are not); the bytes of values, the stray
  ones included.
* Start-up failures; the logs; the build.

## 10. Plan

1. Done: the core (planner, ESIs, coordinator, Instances, composition) and its runs;
   the abstract specifications `Lifecycle`, `LockService` and `KeyStore`; the death of ESIs
   and Instances; the proofs of section 7.
2. Done: `CrashesExplained` and `FileBeginsWithValue` proved (section 7). Next: the same theorems with `desbloquear` allowed for keys of the
   configuration that no ESI holds, as in the run `orderly`.
3. Header and content as separate frames between coordinator and planner, for
   scripts without a final newline.
4. A module of the scheduling algorithms as pure functions of the queue
   (`list_sort` by estimate, the preemption of `SJF_CD`), for the day the configured
   algorithm takes effect.
