------------------------------ MODULE Planner ------------------------------
(***************************************************************************)
(* The planner process (planner/src): three threads over lists that no     *)
(* mutex protects.                                                         *)
(*   listening_threads  one select loop that serves every socket,          *)
(*   running_thread     a busy loop that gives the processor to one ESI,   *)
(*   the console        one operator command after another.                *)
(* A step is one call on a shared list, with the thread-local work around  *)
(* it; steps of the three threads interleave freely.  A NULL pointer that  *)
(* the code follows ends the process (Segfault).                           *)
(*                                                                         *)
(* planner_algorithm keeps its initial value FIFO (see PlannerAlgorithm),  *)
(* so sorting_queues and the preemption of SJF_CD never do anything.       *)
(***************************************************************************)
EXTENDS Libgrupo, TakenKeys

CONSTANTS
  BLOCKED_KEYS, INIT_ID, EST_ZERO, ALPHA, PLAN_ALG,  \* the configuration file
  LowerCase,    \* [Key -> Key]: a key as string_tolower leaves it
  Commands,     \* the commands the operator may type
  MaxCommands   \* bound: how many of them

\* The commands that change something, as the operator types them, and the
\* end of what he types.
CommandName == {"pausar", "reanudar", "deadlock", "bloquear", "desbloquear", "salir",
                "end of input"}

ASSUME ConfigAssumption ==
  /\ BLOCKED_KEYS \in Seq(Key)
  /\ LowerCase \in [Key -> Key]
  /\ INIT_ID \in Nat /\ EST_ZERO \in Nat /\ ALPHA \in 0..100
  /\ MaxCommands \in Nat
  /\ \A c \in Commands : c.name \in CommandName
  /\ \A c \in Commands : c.name \in {"bloquear", "desbloquear"} => c.key \in Key
  /\ \A c \in Commands : c.name = "bloquear" => c.id \in Nat

VARIABLES
  FLAG_PLANIFICATION_RUNNING,
  ready_queue, running_queue, blocked_queue, finished_queue,
  esi_sockets_list,  \* the registered ESIs, in order; an ESI is its socket
  taken_keys,
  esi_id_counter,
  esi,       \* [ESI -> struct]
  listen,    \* locals of the listening thread
  run,       \* locals of the running thread
  release,   \* locals of release_key in the two threads that call it
  command_number, commands,  \* last console command; how many so far
  segfault   \* the process is gone

queues == <<ready_queue, running_queue, blocked_queue, finished_queue>>
sockets == <<esi_planner, planner_esi, planner_coord, coord_planner>>
console == <<command_number, commands>>
plannerVars == <<FLAG_PLANIFICATION_RUNNING, queues, esi_sockets_list, taken_keys,
                 esi_id_counter, esi, listen, run, release, console, segfault>>

-----------------------------------------------------------------------------
ESIStatus == {"NONE", "STATUS_BLOCKED", "STATUS_RUNNING", "STATUS_FINISHED",
              "STATUS_READY", "STATUS_NEW"}

\* last_estimate is a float; it is kept in units of 1/EstimateUnit.
EstimateUnit == 16
\* Mutant: the wrong sign.
estimationMinus(r_duration, r_estimation) ==
  (ALPHA * r_duration * EstimateUnit - (100 - ALPHA) * r_estimation) \div 100

estimation(r_duration, r_estimation) ==
  (ALPHA * r_duration * EstimateUnit + (100 - ALPHA) * r_estimation) \div 100

\* What an ESI keeps of its turn on the processor, when it starts and when
\* it leaves.
started(r)   == [r EXCEPT !.status = "STATUS_RUNNING", !.program_counter = r.program_counter + 1]
estimated(r) == [r EXCEPT !.last_estimate = estimation(r.program_counter, r.last_estimate),
                          !.program_counter = 0]

\* The argument is passed by value: what define_planner_algorithm reads from
\* the configuration is lost, and the zeroed global stays FIFO.
PlannerAlgorithm(configured, global) == global
planner_algorithm == PlannerAlgorithm(PLAN_ALG, "FIFO")

Unregistered == [id |-> INIT_ID, status |-> "NONE", program_counter |-> 0,
                 last_estimate |-> 0, redo_last_operation |-> FALSE]

register_esi(id) == [id |-> id, status |-> "STATUS_NEW", program_counter |-> 0,
                     last_estimate |-> EST_ZERO * EstimateUnit,
                     redo_last_operation |-> FALSE]

\* The first ESI of the queue with that name, 0 if there is none.
FindEsi(queue, name) == SelectInSeq(queue, LAMBDA e : EsiName(esi[e].id) = name)

Releaser == {"listen", "console"}
Listening == [pc |-> "select", esi |-> None, key |-> None, name |-> NoName]
NoRelease == [pc |-> "idle", key |-> None, name |-> NoName, esi |-> None, at |-> 0]

ListenerFree == listen.pc = "select" /\ release["listen"].pc = "idle"
ConsoleFree  == release["console"].pc = "idle"

\* The listening thread is in select.  While the window is closed it starts on
\* no message during a release from the console, and no such release starts
\* while it is at work.
Select == ListenerFree /\ ("console" \in Windows \/ ConsoleFree)
Undisturbed == "console" \in Windows \/ ListenerFree

FromCoordinator(type) ==
  /\ Arrives(coord_planner, type)
  /\ Head(coord_planner) \in CoordinatorFrame
FromEsi(e, type) == Arrives(esi_planner[e], type)

PlannerInit ==
  /\ FLAG_PLANIFICATION_RUNNING = 1
  /\ ready_queue = <<>> /\ running_queue = <<>>
  /\ blocked_queue = <<>> /\ finished_queue = <<>>
  /\ esi_sockets_list = <<>>
  /\ taken_keys = pload_Keys(BLOCKED_KEYS)
  /\ esi_id_counter = INIT_ID
  /\ esi = [e \in ESI |-> Unregistered]
  /\ listen = Listening
  /\ run = [pc |-> "poll", esi |-> None]
  /\ release = [t \in Releaser |-> NoRelease]
  /\ command_number = "none" /\ commands = 0
  /\ segfault = FALSE

-----------------------------------------------------------------------------
(***************************************************************************)
(* release_key and check_whos_waiting, run by thread t.  The loop looks    *)
(* for a WAITING node, unlinks the first one it meets, looks its ESI up in *)
(* blocked_queue, and moves that ESI by the position it remembers.         *)
(***************************************************************************)
\* Mutant: the key is released and nobody is told.
StartReleaseSilent(t, key) ==
  taken_keys' = Unlink(taken_keys, key, "BLOCKED") /\ UNCHANGED release

StartRelease(t, key) ==
  /\ taken_keys' = Unlink(taken_keys, key, "BLOCKED")
  /\ release' = [release EXCEPT ![t] = [@ EXCEPT !.pc = "find", !.key = key]]

FindWaiting(t) ==
  LET r == release[t]
      n == Search(taken_keys, r.key, "WAITING")
  IN /\ r.pc = "find"
     /\ release' = [release EXCEPT ![t] =
                      IF n = 0 THEN NoRelease
                      ELSE [r EXCEPT !.pc = "unlink", !.name = taken_keys[n].ESIName]]
     /\ UNCHANGED <<FLAG_PLANIFICATION_RUNNING, queues, esi_sockets_list, taken_keys,
                    esi_id_counter, esi, listen, run, console, segfault, sockets>>

UnlinkWaiting(t) ==
  /\ release[t].pc = "unlink"
  /\ taken_keys' = Unlink(taken_keys, release[t].key, "WAITING")
  /\ release' = [release EXCEPT ![t].pc = "locate"]
  /\ UNCHANGED <<FLAG_PLANIFICATION_RUNNING, queues, esi_sockets_list,
                 esi_id_counter, esi, listen, run, console, segfault, sockets>>

LocateBlocked(t) ==
  LET n == FindEsi(blocked_queue, release[t].name)
  IN /\ release[t].pc = "locate" /\ n # 0
     /\ release' = [release EXCEPT ![t] =
                      [@ EXCEPT !.pc = "move", !.at = n, !.esi = blocked_queue[n]]]
     /\ UNCHANGED <<FLAG_PLANIFICATION_RUNNING, queues, esi_sockets_list, taken_keys,
                    esi_id_counter, esi, listen, run, console, segfault, sockets>>

\* Mutant: the ESI stays in the queue.
list_keep(queue, at) == queue
\* A position past the end removes nothing.
list_remove(queue, at) == IF at <= Len(queue) THEN RemoveAt(queue, at) ELSE queue

\* Mutant: the loop is left after the first ESI it wakes.
WakeOne(r)     == NoRelease
NextWaiting(r) == [NoRelease EXCEPT !.pc = "find", !.key = r.key]

\* Mutant: the flag is not set.
ToResume(e) == esi
ToRepeat(e) == [esi EXCEPT ![e].redo_last_operation = TRUE]

MoveToReady(t) ==
  LET r == release[t]
  IN /\ r.pc = "move"
     /\ t = "console" => "redo" \in Windows \/ run.pc # "redo"
     /\ blocked_queue' = list_remove(blocked_queue, r.at)
     /\ esi' = ToRepeat(r.esi)
     /\ ready_queue' = Append(ready_queue, r.esi)
     /\ release' = [release EXCEPT ![t] = NextWaiting(r)]
     /\ UNCHANGED <<FLAG_PLANIFICATION_RUNNING, running_queue, finished_queue,
                    esi_sockets_list, taken_keys, esi_id_counter, listen, run,
                    console, segfault, sockets>>

ReleaseNext(t) ==
  FindWaiting(t) \/ UnlinkWaiting(t) \/ LocateBlocked(t) \/ MoveToReady(t)

-----------------------------------------------------------------------------
(***************************************************************************)
(* The listening thread: ESI_PLANNER_HANDSHAKE.  The ESI is at the head of *)
(* ready_queue, and may be dispatched, before it has been answered; the    *)
(* header and the name of the answer are two sends.  An ESI process sends  *)
(* one handshake over its connection.                                      *)
(***************************************************************************)
RegisterEsi(e) ==
  /\ Select /\ FromEsi(e, "ESI_PLANNER_HANDSHAKE")
  /\ \A i \in 1..Len(esi_sockets_list) : esi_sockets_list[i] # e
  /\ Receive(esi_planner, e)
  /\ esi' = [esi EXCEPT ![e] = register_esi(esi_id_counter)]
  /\ esi_id_counter' = esi_id_counter + 1
  /\ esi_sockets_list' = Append(esi_sockets_list, e)
  /\ ready_queue' = <<e>> \o ready_queue
  /\ listen' = [listen EXCEPT !.pc = "hs_status", !.esi = e]
  /\ UNCHANGED <<FLAG_PLANIFICATION_RUNNING, running_queue, blocked_queue,
                 finished_queue, taken_keys, run, release, console, segfault,
                 planner_esi, planner_coord, coord_planner>>

HandshakeStatus ==
  /\ listen.pc = "hs_status"
  /\ esi' = [esi EXCEPT ![listen.esi].status = "STATUS_READY"]
  /\ listen' = [listen EXCEPT !.pc = "hs_header"]
  /\ UNCHANGED <<FLAG_PLANIFICATION_RUNNING, queues, esi_sockets_list, taken_keys,
                 esi_id_counter, run, release, console, segfault, sockets>>

HandshakeHeader ==
  /\ listen.pc = "hs_header"
  /\ SendTo(planner_esi, listen.esi, Header("ESI_PLANNER_HANDSHAKE_OK"))
  /\ listen' = [listen EXCEPT !.pc = "hs_name"]
  /\ UNCHANGED <<FLAG_PLANIFICATION_RUNNING, queues, esi_sockets_list, taken_keys,
                 esi_id_counter, esi, run, release, console, segfault,
                 esi_planner, planner_coord, coord_planner>>

HandshakeName ==
  /\ listen.pc = "hs_name"
  /\ SendTo(planner_esi, listen.esi,
            WithContent("name bytes", NameOnWire(esi[listen.esi].id)))
  /\ listen' = Listening
  /\ UNCHANGED <<FLAG_PLANIFICATION_RUNNING, queues, esi_sockets_list, taken_keys,
                 esi_id_counter, esi, run, release, console, segfault,
                 esi_planner, planner_coord, coord_planner>>

(***************************************************************************)
(* ESI_EXECUTION_LINE_OK, which the coordinator sends: whoever heads       *)
(* running_queue is told to run its next line.  The pause flag is not      *)
(* consulted.  ESI_EXECUTION_FINISHED, from any ESI: whoever heads         *)
(* running_queue is finished.                                              *)
(***************************************************************************)
\* Mutant: the next line is not ordered.
LeaveWaiting(e) == UNCHANGED planner_esi
OrderNextLine(e) == SendTo(planner_esi, e, Header("PLANNER_ESI_RUN"))

LineOk ==
  /\ Select /\ FromCoordinator("ESI_EXECUTION_LINE_OK") /\ running_queue # <<>>
  /\ planner_algorithm # "SJF_CD"
  /\ coord_planner' = Tail(coord_planner)
  /\ esi' = [esi EXCEPT ![Head(running_queue)].program_counter = @ + 1]
  /\ OrderNextLine(Head(running_queue))
  /\ UNCHANGED <<FLAG_PLANIFICATION_RUNNING, queues, esi_sockets_list, taken_keys,
                 esi_id_counter, listen, run, release, console, segfault,
                 esi_planner, planner_coord>>

EsiFinished(e) ==
  /\ Select /\ FromEsi(e, "ESI_EXECUTION_FINISHED") /\ running_queue # <<>>
  /\ Receive(esi_planner, e)
  /\ running_queue' = Tail(running_queue)
  /\ finished_queue' = Append(finished_queue, Head(running_queue))
  /\ esi' = [esi EXCEPT ![Head(running_queue)] =
               [estimated(esi[Head(running_queue)]) EXCEPT !.status = "STATUS_FINISHED"]]
  /\ UNCHANGED <<FLAG_PLANIFICATION_RUNNING, ready_queue, blocked_queue,
                 esi_sockets_list, taken_keys, esi_id_counter, listen, run,
                 release, console, segfault, planner_esi, planner_coord, coord_planner>>

\* RESOURCE_STATUS_CHANGE_TO_PLANNER: change_key_status.
StatusChanged ==
  LET c == Head(coord_planner).content
  IN /\ Select /\ FromCoordinator("RESOURCE_STATUS_CHANGE_TO_PLANNER")
     /\ coord_planner' = Tail(coord_planner)
     /\ \/ /\ c.status = "BLOCKED"
           /\ taken_keys' = load_key(taken_keys, c.key, c.ESIName)
           /\ UNCHANGED release
        \/ /\ c.status = "RELEASED"
           /\ StartRelease("listen", c.key)
     /\ UNCHANGED <<FLAG_PLANIFICATION_RUNNING, queues, esi_sockets_list,
                    esi_id_counter, esi, listen, run, console, segfault,
                    esi_planner, planner_esi, planner_coord>>

(***************************************************************************)
(* CAN_ESI_GET_KEY.  A refusal is sent first; then the ESI that asked is   *)
(* moved to blocked_queue (block_esi), and only then does its WAITING node *)
(* join the list.                                                          *)
(***************************************************************************)
GetAllowed ==
  /\ Select /\ FromCoordinator("CAN_ESI_GET_KEY")
  /\ ~check_Key_availability(taken_keys, Head(coord_planner).content.key)
  /\ coord_planner' = Tail(coord_planner)
  /\ planner_coord' = Append(planner_coord, Header("PLANNER_COORDINATOR_OP_OK"))
  /\ UNCHANGED <<plannerVars, esi_planner, planner_esi>>

GetDenied ==
  LET c == Head(coord_planner).content
  IN /\ Select /\ FromCoordinator("CAN_ESI_GET_KEY")
     /\ check_Key_availability(taken_keys, c.key)
     /\ coord_planner' = Tail(coord_planner)
     /\ planner_coord' = Append(planner_coord, Header("PLANNER_COORDINATOR_OP_FAILED"))
     /\ listen' = [listen EXCEPT !.pc = "block", !.key = c.key, !.name = c.ESIName]
     /\ UNCHANGED <<FLAG_PLANIFICATION_RUNNING, queues, esi_sockets_list, taken_keys,
                    esi_id_counter, esi, run, release, console, segfault,
                    esi_planner, planner_esi>>

block_esi ==
  LET n == FindEsi(running_queue, listen.name)
      e == running_queue[n]
  IN /\ listen.pc = "block" /\ n # 0
     /\ running_queue' = RemoveAt(running_queue, n)
     /\ blocked_queue' = Append(blocked_queue, e)
     /\ esi' = [esi EXCEPT ![e] = estimated(esi[e])]
     /\ listen' = [listen EXCEPT !.pc = "wait"]
     /\ UNCHANGED <<FLAG_PLANIFICATION_RUNNING, ready_queue, finished_queue,
                    esi_sockets_list, taken_keys, esi_id_counter, run, release,
                    console, segfault, sockets>>

WaitForKey ==
  /\ listen.pc = "wait"
  /\ taken_keys' = wait_for_key(taken_keys, listen.key, listen.name)
  /\ listen' = Listening
  /\ UNCHANGED <<FLAG_PLANIFICATION_RUNNING, queues, esi_sockets_list,
                 esi_id_counter, esi, run, release, console, segfault, sockets>>

\* CAN_ESI_SET_KEY and CAN_ESI_STORE_KEY: only the holder may.  A refusal
\* changes nothing else: the ESI stays at the head of running_queue.
CheckOwner ==
  LET c == Head(coord_planner).content
  IN /\ Select
     /\ FromCoordinator("CAN_ESI_SET_KEY") \/ FromCoordinator("CAN_ESI_STORE_KEY")
     /\ HasNode(taken_keys, c.key, "BLOCKED")
     /\ coord_planner' = Tail(coord_planner)
     /\ planner_coord' = Append(planner_coord,
          Header(IF check_Key_taken(taken_keys, c.key, c.ESIName)
                   THEN "PLANNER_COORDINATOR_OP_FAILED"
                   ELSE "PLANNER_COORDINATOR_OP_OK"))
     /\ UNCHANGED <<plannerVars, esi_planner, planner_esi>>

\* UNKNOWN_MSG_TYPE is only logged.
Undecoded(e) ==
  /\ Select /\ FromEsi(e, "UNKNOWN_MSG_TYPE")
  /\ Receive(esi_planner, e)
  /\ UNCHANGED <<plannerVars, planner_esi, planner_coord, coord_planner>>

\* recv answers 0: the socket is forgotten, and the ESI stays where it is.
LostSocket(e) ==
  /\ Select /\ FromEsi(e, "closed")
  /\ Receive(esi_planner, e)
  /\ UNCHANGED <<plannerVars, planner_esi, planner_coord, coord_planner>>

ListenNext ==
  \/ \E e \in ESI :
       RegisterEsi(e) \/ EsiFinished(e) \/ Undecoded(e) \/ LostSocket(e)
  \/ HandshakeStatus \/ HandshakeHeader \/ HandshakeName
  \/ LineOk \/ StatusChanged \/ GetAllowed \/ GetDenied
  \/ block_esi \/ WaitForKey \/ CheckOwner

-----------------------------------------------------------------------------
(***************************************************************************)
(* The running thread: one turn of its loop in five steps.                 *)
(***************************************************************************)
\* Mutant: the processor is given away without looking whether it is free.
SomebodyReady == ready_queue # <<>>
CanDispatch   == ready_queue # <<>> /\ running_queue = <<>>

\* sorting_queues leaves the queues alone.
NoSorting == planner_algorithm \in {"FIFO", "HRRN"}

RunPoll ==
  /\ NoSorting
  /\ run.pc = "poll" /\ FLAG_PLANIFICATION_RUNNING = 1 /\ CanDispatch
  /\ run' = [run EXCEPT !.pc = "take"]
  /\ UNCHANGED <<FLAG_PLANIFICATION_RUNNING, queues, esi_sockets_list, taken_keys,
                 esi_id_counter, esi, listen, release, console, segfault, sockets>>

Answering == {"hs_status", "hs_header", "hs_name"}

RunTake ==
  /\ run.pc = "take"
  /\ "handshake" \in Windows \/ listen.pc \notin Answering
  /\ run' = [pc |-> "put", esi |-> Head(ready_queue)]
  /\ ready_queue' = Tail(ready_queue)
  /\ UNCHANGED <<FLAG_PLANIFICATION_RUNNING, running_queue, blocked_queue,
                 finished_queue, esi_sockets_list, taken_keys, esi_id_counter,
                 esi, listen, release, console, segfault, sockets>>

RunPut ==
  /\ run.pc = "put"
  /\ running_queue' = <<run.esi>> \o running_queue
  /\ run' = [run EXCEPT !.pc = "start"]
  /\ UNCHANGED <<FLAG_PLANIFICATION_RUNNING, ready_queue, blocked_queue,
                 finished_queue, esi_sockets_list, taken_keys, esi_id_counter,
                 esi, listen, release, console, segfault, sockets>>

RunStart ==
  /\ run.pc = "start"
  /\ esi' = [esi EXCEPT ![run.esi] = started(esi[run.esi])]
  /\ SendTo(planner_esi, run.esi,
            Header(IF esi[run.esi].redo_last_operation
                     THEN "PLANNER_ESI_RUN_LAST_OPERATION" ELSE "PLANNER_ESI_RUN"))
  /\ run' = [run EXCEPT !.pc = "redo"]
  /\ UNCHANGED <<FLAG_PLANIFICATION_RUNNING, queues, esi_sockets_list, taken_keys,
                 esi_id_counter, listen, release, console, segfault,
                 esi_planner, planner_coord, coord_planner>>

ClearRedo ==
  /\ run.pc = "redo"
  /\ esi' = [esi EXCEPT ![run.esi].redo_last_operation = FALSE]
  /\ run' = [pc |-> "poll", esi |-> None]
  /\ UNCHANGED <<FLAG_PLANIFICATION_RUNNING, queues, esi_sockets_list, taken_keys,
                 esi_id_counter, listen, release, console, segfault, sockets>>

RunNext == RunPoll \/ RunTake \/ RunPut \/ RunStart \/ ClearRedo

-----------------------------------------------------------------------------
(***************************************************************************)
(* The console.  "deadlock" is dispatched to resume(); "kill", "status",   *)
(* "listar" and "info" change nothing; after "salir" nobody reads commands.*)
(***************************************************************************)
Command(c) ==
  /\ ConsoleFree /\ commands < MaxCommands
  /\ commands' = IF c.name = "salir" THEN MaxCommands ELSE commands + 1
  /\ command_number' = c.name
  /\ UNCHANGED <<queues, esi_sockets_list, esi_id_counter, esi, listen, run, sockets>>

\* The whole line is lower-cased: the key as well.
ConsoleKey(key) == LowerCase[key]

pause(c) ==
  /\ c.name = "pausar" /\ Command(c)
  /\ FLAG_PLANIFICATION_RUNNING' = 0
  /\ UNCHANGED <<taken_keys, release, segfault>>

resume(c) ==
  /\ c.name \in {"reanudar", "deadlock"} /\ Command(c)
  /\ FLAG_PLANIFICATION_RUNNING' = 1
  /\ UNCHANGED <<taken_keys, release, segfault>>

block(c) ==
  /\ c.name = "bloquear" /\ Command(c)
  /\ taken_keys' = load_key(taken_keys, ConsoleKey(c.key), ConsoleName(c.id))
  /\ UNCHANGED <<FLAG_PLANIFICATION_RUNNING, release, segfault>>

unblock(c) ==
  /\ c.name = "desbloquear" /\ Command(c) /\ Undisturbed
  /\ StartRelease("console", ConsoleKey(c.key))
  /\ UNCHANGED <<FLAG_PLANIFICATION_RUNNING, segfault>>

quit(c) ==
  /\ c.name = "salir" /\ Command(c)
  /\ UNCHANGED <<FLAG_PLANIFICATION_RUNNING, taken_keys, release, segfault>>

\* At the end of the input readline answers NULL, which is followed at once.
EndOfInput(c) ==
  /\ c.name = "end of input" /\ Command(c)
  /\ segfault' = TRUE
  /\ UNCHANGED <<FLAG_PLANIFICATION_RUNNING, taken_keys, release>>

ConsoleNext ==
  \E c \in Commands :
    pause(c) \/ resume(c) \/ block(c) \/ unblock(c) \/ quit(c) \/ EndOfInput(c)

-----------------------------------------------------------------------------
(***************************************************************************)
(* The NULL pointers the three threads may follow; and recv's -1 taken for *)
(* data: whatever the uninitialised header says, a handler answers on the  *)
(* socket that was reset, and SIGPIPE ends the process.                    *)
(***************************************************************************)
Segfault ==
  /\ \/ Select /\ FromCoordinator("ESI_EXECUTION_LINE_OK") /\ running_queue = <<>>
     \/ \E e \in ESI : Select /\ FromEsi(e, "ESI_EXECUTION_FINISHED") /\ running_queue = <<>>
     \/ /\ Select
        /\ FromCoordinator("CAN_ESI_SET_KEY") \/ FromCoordinator("CAN_ESI_STORE_KEY")
        /\ ~HasNode(taken_keys, Head(coord_planner).content.key, "BLOCKED")
     \/ listen.pc = "block" /\ FindEsi(running_queue, listen.name) = 0
     \/ \E t \in Releaser :
          release[t].pc = "locate" /\ FindEsi(blocked_queue, release[t].name) = 0
     \/ \E e \in ESI : Select /\ FromEsi(e, "reset")
  /\ segfault' = TRUE
  /\ UNCHANGED <<FLAG_PLANIFICATION_RUNNING, queues, esi_sockets_list, taken_keys,
                 esi_id_counter, esi, listen, run, release, console, sockets>>

PlannerNext ==
  /\ ~segfault
  /\ \/ ListenNext \/ RunNext \/ ConsoleNext \/ Segfault
     \/ \E t \in Releaser : ReleaseNext(t)

(***************************************************************************)
(* The planner alone, whatever arrives on its sockets.                     *)
(***************************************************************************)
PlannerSpec == PlannerInit /\ [][PlannerNext]_plannerVars

-----------------------------------------------------------------------------
KeyNode == [ESIName : Name, key : Key, status : {"BLOCKED", "WAITING"}]
ESIRecord == [id : Nat, status : ESIStatus, program_counter : Nat,
              last_estimate : Nat, redo_last_operation : BOOLEAN]

ReleaseStep == {"idle", "find", "unlink", "locate", "move"}
ReleaseRecord == [pc : ReleaseStep, key : Key \cup {None}, name : Name,
                  esi : ESI \cup {None}, at : Nat]

ListsTypeOK ==
  /\ ready_queue \in Seq(ESI) /\ running_queue \in Seq(ESI)
  /\ blocked_queue \in Seq(ESI) /\ finished_queue \in Seq(ESI)
  /\ esi_sockets_list \in Seq(ESI)
  /\ taken_keys \in Seq(KeyNode)
EsisTypeOK == esi_id_counter \in Nat /\ esi \in [ESI -> ESIRecord]
ThreadsTypeOK ==
  /\ listen \in [pc : {"select", "block", "wait"} \cup Answering,
                 esi : ESI \cup {None}, key : Key \cup {None}, name : Name]
  /\ run \in [pc : {"poll", "take", "put", "start", "redo"}, esi : ESI \cup {None}]
  /\ release \in [Releaser -> ReleaseRecord]
ConsoleTypeOK ==
  /\ FLAG_PLANIFICATION_RUNNING \in {0, 1}
  /\ command_number \in {"none"} \cup CommandName /\ commands \in 0..MaxCommands
  /\ segfault \in BOOLEAN

\* The types of the variables of the planner.
PlannerTypeOK == ListsTypeOK /\ EsisTypeOK /\ ThreadsTypeOK /\ ConsoleTypeOK

\* What a thread holds in its locals is what its next step relies on.
LocalsSound ==
  /\ listen.pc \in Answering => listen.esi \in ESI
  /\ listen.pc \in {"block", "wait"} => listen.key \in Key
  /\ run.pc = "take" => ready_queue # <<>>
  /\ run.pc \in {"put", "start", "redo"} => run.esi \in ESI
  /\ \A t \in Releaser :
       /\ release[t].pc # "idle" => release[t].key \in Key
       /\ release[t].pc = "move" => release[t].esi \in ESI /\ release[t].at # 0

\* The running thread looks at running_queue and later adds to it, while the
\* listening thread removes from it (launcher.c:297-299, 187, 546): the
\* processor never has two ESIs.
SingleRunning == Len(running_queue) <= 1

\* Why: between its look and its list_add_in_index nobody else adds to
\* running_queue.  With LocalsSound, an inductive invariant.
ProcessorFree == run.pc \in {"take", "put"} => running_queue = <<>>
PlannerInv == PlannerTypeOK /\ LocalsSound /\ ProcessorFree /\ SingleRunning

\* An ESI goes from queue to queue through three threads, by name and by
\* position (launcher.c:156, 298, 187, 546, 595): a registered ESI is in one
\* queue, or in the hands of the running thread, and once.
hand == IF run.pc = "put" THEN <<run.esi>> ELSE <<>>
OnceInEach ==
  /\ IsInjective(ready_queue) /\ IsInjective(running_queue)
  /\ IsInjective(blocked_queue) /\ IsInjective(finished_queue)
Apart(q, r) == ToSet(q) \cap ToSet(r) = {}
InOneOnly ==
  /\ Apart(ready_queue, running_queue) /\ Apart(ready_queue, blocked_queue)
  /\ Apart(ready_queue, finished_queue) /\ Apart(ready_queue, hand)
  /\ Apart(running_queue, blocked_queue) /\ Apart(running_queue, finished_queue)
  /\ Apart(running_queue, hand) /\ Apart(blocked_queue, finished_queue)
  /\ Apart(blocked_queue, hand) /\ Apart(finished_queue, hand)
NoneMissing ==
  ToSet(esi_sockets_list) = ToSet(ready_queue) \cup ToSet(running_queue)
    \cup ToSet(blocked_queue) \cup ToSet(finished_queue) \cup ToSet(hand)
QueuePartition == OnceInEach /\ InOneOnly /\ NoneMissing

\* Why, while no release from the console overlaps a handler: one thread at a
\* time releases or handles a message, so the position that LocateBlocked
\* remembered still is that ESI's when MoveToReady uses it.
OneAtATime ==
  /\ release["listen"].pc # "idle" => listen.pc = "select"
  /\ release["console"].pc # "idle" => ListenerFree
PositionHeld ==
  \A t \in Releaser : release[t].pc = "move" =>
    /\ release[t].at \in 1..Len(blocked_queue)
    /\ blocked_queue[release[t].at] = release[t].esi
QueueInv == PlannerInv /\ OneAtATime /\ PositionHeld /\ QueuePartition

\* blocked_queue and the WAITING nodes are two lists that no single call
\* updates (launcher.c:227-233, 587-600): they name the same ESIs, except for
\* the one a thread has in hand.
InHand(e) ==
  \/ listen.pc = "wait" /\ listen.name = EsiName(esi[e].id)
  \/ \E t \in Releaser :
       \/ release[t].pc = "locate" /\ release[t].name = EsiName(esi[e].id)
       \/ release[t].pc = "move" /\ release[t].esi = e
WaitingNames(keys) ==
  {keys[n].ESIName : n \in {m \in 1..Len(keys) : keys[m].status = "WAITING"}}
Waiting(e) == EsiName(esi[e].id) \in WaitingNames(taken_keys)
WaitersParked ==
  /\ \A e \in ToSet(blocked_queue) : Waiting(e) <=> ~InHand(e)
  /\ \A e \in ToSet(esi_sockets_list) : Waiting(e) => e \in ToSet(blocked_queue)

\* Why, while no release from the console overlaps a handler: no two ESIs have one
\* number; a WAITING node names somebody parked, and is the only one that
\* does; and whoever a thread has in hand is parked still.
IdsDiffer ==
  /\ \A e \in ToSet(esi_sockets_list) : esi[e].id < esi_id_counter
  /\ \A e, f \in ToSet(esi_sockets_list) : esi[e].id = esi[f].id => e = f
ParkedAs(name) == \E e \in ToSet(blocked_queue) : EsiName(esi[e].id) = name
OnceWaiting(keys) ==
  \A m, n \in 1..Len(keys) :
    /\ keys[m].status = "WAITING" /\ keys[n].status = "WAITING"
    /\ keys[m].ESIName = keys[n].ESIName
    => m = n
HandParked ==
  /\ listen.pc = "wait" => ParkedAs(listen.name)
  /\ \A t \in Releaser :
       LET r == release[t]
           n == Search(taken_keys, r.key, "WAITING")
       IN /\ r.pc = "unlink" => HasNode(taken_keys, r.key, "WAITING")
                                   /\ taken_keys[n].ESIName = r.name
          /\ r.pc = "locate" => ParkedAs(r.name)
ParkedInv ==
  /\ QueueInv /\ IdsDiffer /\ HandParked /\ WaitersParked
  /\ OnceWaiting(taken_keys) /\ \A name \in WaitingNames(taken_keys) : ParkedAs(name)

\* The planner refuses a GET, parks the ESI and only then records what it
\* waits for (launcher.c:225-233): a key somebody waits for has a holder, or
\* a thread is releasing it.
Releasing(k) == \E t \in Releaser : release[t].pc # "idle" /\ release[t].key = k
NoLostWakeup ==
  \A k \in Key :
    HasNode(taken_keys, k, "WAITING") => HasNode(taken_keys, k, "BLOCKED") \/ Releasing(k)

\* Why, while no release from the console overlaps a handler: the holder that made the
\* planner refuse the GET is still there when the WAITING node joins it.
DenierHolds ==
  listen.pc \in {"block", "wait"} => HasNode(taken_keys, listen.key, "BLOCKED")
WakeupInv == PlannerInv /\ OneAtATime /\ DenierHolds /\ NoLostWakeup

\* The key is found free when its GET is allowed and becomes taken two
\* processes later (launcher.c:220, 211): no key has two holders.
KeyExclusive ==
  \A m, n \in 1..Len(taken_keys) :
    /\ taken_keys[m].status = "BLOCKED" /\ taken_keys[n].status = "BLOCKED"
    /\ taken_keys[m].key = taken_keys[n].key
    => m = n

-----------------------------------------------------------------------------
(***************************************************************************)
(* The queues as the states of the ESIs: one that the running thread has   *)
(* in hand still is ready.                                                 *)
(***************************************************************************)
StateOf(e) ==
  CASE e \in ToSet(running_queue) -> "running"
    [] e \in ToSet(blocked_queue) -> "blocked"
    [] e \in ToSet(finished_queue) -> "finished"
    [] e \in ToSet(ready_queue) \cup ToSet(hand) -> "ready"
    [] OTHER -> "new"
Life == INSTANCE Lifecycle WITH state <- [e \in ESI |-> StateOf(e)]

\* Three threads move ESIs between five lists (launcher.c:156, 298, 187, 546,
\* 595), each with its own idea of who heads a queue: every move they make is
\* one of the life of an ESI, and nobody is dispatched while another runs.
ImplementsLifecycle == Life!Spec

(***************************************************************************)
(* taken_keys as locks: while a thread is releasing a key, those that wait *)
(* for it already count as dismissed.                                      *)
(***************************************************************************)
NamesWaiting(keys, k) ==
  {keys[n].ESIName : n \in {m \in 1..Len(keys) : keys[m].key = k /\ keys[m].status = "WAITING"}}
WaitersOf(k) == IF Releasing(k) THEN {} ELSE NamesWaiting(taken_keys, k)
Locks == INSTANCE LockService WITH
  held    <- {k \in Key : HasNode(taken_keys, k, "BLOCKED")},
  waiters <- [k \in Key |-> WaitersOf(k)]

\* A release is a loop of four list calls for each ESI it wakes, and a refusal
\* is three steps (launcher.c:492-503, 575-605, 225-233): together with all
\* else that happens meanwhile they amount to one step of a lock service.
ImplementsLockService == Locks!Spec
=============================================================================
