----------------------------- MODULE Inductive -----------------------------
(***************************************************************************)
(* What makes the safety properties of the whole system true: invariants   *)
(* that each step keeps, in the terms of its processes and channels.  The  *)
(* runs check them, and the proofs rest on them.                           *)
(***************************************************************************)
EXTENDS System

\* Why, while no thread asks the planner with an answer of it unread and every
\* script ends in a newline: the processor goes from line to line through
\* four processes, and is in one place at a time.  An ESI starts with an
\* order; its line is sent, asked for, executed and reported as done, or is
\* the last and is reported as the end.
Carries(q, types) == \E n \in 1..Len(q) : q[n].type \in types
Once(q, types) ==
  \A m, n \in 1..Len(q) : q[m].type \in types /\ q[n].type \in types => m = n

Orders       == {"PLANNER_ESI_RUN", "PLANNER_ESI_RUN_LAST_OPERATION"}
Checks      == {"CAN_ESI_GET_KEY", "CAN_ESI_SET_KEY", "CAN_ESI_STORE_KEY"}
Instruct    == {"INSTRUCTION_DETAIL_TO_COODRINATOR"}
Allowed     == {"PLANNER_COORDINATOR_OP_OK"}
DoneLine    == {"ESI_EXECUTION_LINE_OK"}
EndOfScript == {"ESI_EXECUTION_FINISHED"}

Asking(e)    == thread[e].pc = "permission"
Executing(e) == thread[e].pc \in {"instance", "change", "line_ok"}

Place == {"start", "order", "sent", "asked", "executing", "done", "ended"}
LineAt(e, place) ==
  \/ place = "start" /\ run.pc = "start" /\ run.esi = e
  \/ place = "order" /\ Carries(planner_esi[e], Orders)
  \/ place = "sent" /\ Carries(esi_coord[e], Instruct)
  \/ place = "asked" /\ Asking(e)
       /\ (Carries(coord_planner, Checks) \/ Carries(planner_coord, Allowed))
  \/ place = "executing" /\ Executing(e)
  \/ place = "done" /\ Carries(coord_planner, DoneLine) /\ running_queue = <<e>>
  \/ place = "ended" /\ Carries(esi_planner[e], EndOfScript)

InOnePlace ==
  \A e \in ESI, here \in Place : LineAt(e, here) =>
    \A f \in ESI, there \in Place : LineAt(f, there) => e = f /\ here = there
OwnProcessor ==
  /\ \A e \in ESI, place \in Place : LineAt(e, place) => running_queue = <<e>>
  /\ Carries(coord_planner, DoneLine) => running_queue # <<>>
  /\ listen.pc = "block" =>
       running_queue # <<>> /\ \A e \in ESI, place \in Place : ~LineAt(e, place)
SentOnce ==
  /\ \A e \in ESI : /\ Once(planner_esi[e], Orders) /\ Once(esi_coord[e], Instruct)
                    /\ Once(esi_planner[e], EndOfScript)
  /\ Once(coord_planner, DoneLine) /\ Once(coord_planner, Checks)
OneQuestion ==
  /\ \A e, f \in ESI : Asking(e) /\ Asking(f) => e = f
  /\ Carries(coord_planner, Checks) \/ planner_coord # <<>> => \E e \in ESI : Asking(e)
  /\ Carries(coord_planner, Checks) => planner_coord = <<>>
  /\ Len(planner_coord) <= 1
OneLine == InOnePlace /\ OwnProcessor /\ SentOnce /\ OneQuestion

(***************************************************************************)
(* The lock list lags behind: a permission is given for the key as it is,  *)
(* and the list changes when the coordinator reports it.                   *)
(***************************************************************************)
StatusChanges == {"RESOURCE_STATUS_CHANGE_TO_PLANNER"}
Before(q, first, then) ==
  \A m, n \in 1..Len(q) : q[m].type \in first /\ q[n].type \in then => m < n

\* The change of the lock list that a line causes is reported once, and
\* before the end of that line.
ChangeFirst ==
  /\ Once(coord_planner, StatusChanges) /\ Before(coord_planner, StatusChanges, DoneLine)
  /\ Carries(coord_planner, StatusChanges) =>
       (Carries(coord_planner, DoneLine) \/ \E e \in ESI : thread[e].pc = "line_ok")

\* The planner is asked for what the thread that asks will execute, and told
\* of a GET or a STORE only.
CheckOf(id) == WithContent(CheckFor(id.operation), [ESIName |-> id.ESIName, key |-> id.key])
AsksFor(q, id) == \A n \in 1..Len(q) : q[n].type \in Checks => q[n] = CheckOf(id)
AskedAndTold ==
  \A e \in ESI :
    /\ Asking(e) => AsksFor(coord_planner, thread[e].id)
    /\ thread[e].pc = "change" => ToldOf(thread[e].id.operation)

\* The key of a GET stays free until the list is changed for it.
Granted(e) ==
  \/ thread[e].pc \in {"instance", "change"}
  \/ Asking(e) /\ Carries(planner_coord, Allowed)
Takes(frame) == frame.type \in StatusChanges /\ frame.content.status = "BLOCKED"
TakesFree(q, keys) ==
  \A n \in 1..Len(q) : Takes(q[n]) => ~HasNode(keys, q[n].content.key, "BLOCKED")
FreeUntilTold ==
  /\ \A e \in ESI : Granted(e) /\ thread[e].id.operation = "GET_OP" =>
       ~HasNode(taken_keys, thread[e].id.key, "BLOCKED")
  /\ TakesFree(coord_planner, taken_keys)
ReportInv == ChangeFirst /\ AskedAndTold /\ FreeUntilTold

\* Why a permission holds until it is used, while no line is doubled
\* (OneLine) and no command touches a key: the key of a GET stays free, and
\* that of a SET or a STORE stays its ESI's.
HeldBy(keys, key, name) ==
  /\ HasNode(keys, key, "BLOCKED")
  /\ \A n \in 1..Len(keys) : keys[n].key = key /\ keys[n].status = "BLOCKED" =>
       keys[n].ESIName = name
HeldUntilUsed ==
  \A e \in ESI : Granted(e) /\ thread[e].id.operation # "GET_OP" =>
    HeldBy(taken_keys, thread[e].id.key, thread[e].id.ESIName)
PermissionInv == ReportInv /\ KeyExclusive /\ HeldUntilUsed

(***************************************************************************)
(* The line that a refused ESI has to repeat.                              *)
(***************************************************************************)
\* Why the flag is set whenever it is looked at, although an ESI may run, be
\* refused and be parked before the running thread clears its flag: until then
\* nobody else is dispatched, so that no line is under way whose STORE could
\* wake it.  Who has read a line is registered.
LastDispatched ==
  run.pc = "redo" =>
    /\ run.esi \in ToSet(running_queue) \cup ToSet(blocked_queue) \cup ToSet(finished_queue)
    /\ \A e \in ToSet(running_queue) : e = run.esi
    /\ release["listen"].pc # "idle" => running_queue # <<>>
RetryInv ==
  /\ RetryPending /\ LastDispatched
  /\ \A e \in ESI : fp[e] > 0 => e \in ToSet(esi_sockets_list)

(***************************************************************************)
(* The lock list and the scripts: each message about a line carries the    *)
(* name its ESI was given, and the list accounts for the lines of an ESI   *)
(* up to the last that was reported.                                       *)
(***************************************************************************)
Registered == ToSet(esi_sockets_list)
NameOf(e)  == EsiName(esi[e].id)

\* An ESI hears its name before it is told to run, while nobody is dispatched
\* before its handshake is answered and numbers have one digit.
Numbered ==
  /\ esi_id_counter = INIT_ID + Len(esi_sockets_list)
  /\ IsInjective(esi_sockets_list)
Answers(e)          == listen.pc \in Answering /\ listen.esi = e
Unanswered(pc)      == IF pc = "hs_name" THEN <<Header("ESI_PLANNER_HANDSHAKE_OK")>> ELSE <<>>
OnlyOrders(q, from) == \A n \in from..Len(q) : q[n].type \in Orders
Greeted(q, name) ==
  /\ Len(q) > 1 /\ q[1] = Header("ESI_PLANNER_HANDSHAKE_OK")
  /\ q[2] = WithContent("name bytes", name)
  /\ OnlyOrders(q, 3)
NamedFirst(e) ==
  /\ e \notin Registered => planner_esi[e] = <<>>
  /\ Answers(e) =>
       /\ e \in Registered /\ ~(run.pc \in {"put", "start"} /\ run.esi = e)
       /\ planner_esi[e] = Unanswered(listen.pc)
  /\ e \in Registered /\ ~Answers(e) =>
       \/ esi_name[e] = NameOf(e) /\ OnlyOrders(planner_esi[e], 1)
       \/ Greeted(planner_esi[e], NameOf(e))
NamingInv == Numbered /\ \A e \in ESI : NamedFirst(e)

\* The line that an ESI read last is the one it sent, and the one that its
\* thread asks for, executes and reports.
LineOf(e) ==
  LET line == Script[e][fp[e]]
  IN [ESIName |-> NameOf(e), key |-> line.key,
      operation |-> line.operation, value |-> line.value]
LastLineRead(e) ==
  process[e] # "exited" => fp_beginning_li[e] = IF fp[e] = 0 THEN 0 ELSE fp[e] - 1
LineCarried(e) ==
  /\ \A n \in 1..Len(esi_coord[e]) : esi_coord[e][n].type \in Instruct =>
       fp[e] > 0 /\ esi_coord[e][n].content = LineOf(e)
  /\ Asking(e) \/ Executing(e) => fp[e] > 0 /\ thread[e].id = LineOf(e)
NextUnasked(e) ==
  Carries(planner_esi[e], {"PLANNER_ESI_RUN"}) \/ LineAt(e, "done") => ~Asking(e)

\* The change that travels is that of the line that was executed, and a
\* release is of a key that its ESI holds.
Executed(e) == thread[e].pc = "line_ok" \/ LineAt(e, "done")
ChangeOf(id) ==
  [ESIName |-> id.ESIName, key |-> id.key,
   status |-> IF id.operation = "STORE_OP" THEN "RELEASED" ELSE "BLOCKED"]
ChangeCarried ==
  \A n \in 1..Len(coord_planner) : coord_planner[n].type \in StatusChanges =>
    LET c == coord_planner[n].content
    IN /\ \E e \in ESI : /\ Executed(e) /\ fp[e] > 0 /\ c = ChangeOf(LineOf(e))
                         /\ LineOf(e).operation \in {"GET_OP", "STORE_OP"}
       /\ c.status = "RELEASED" => HeldBy(taken_keys, c.key, c.ESIName)

\* Who holds a key is registered, or is nobody: the configuration.
KnownHolders ==
  \A n \in 1..Len(taken_keys) : taken_keys[n].status = "BLOCKED" =>
    \/ taken_keys[n].ESIName = NoName
    \/ \E e \in Registered : taken_keys[n].ESIName = NameOf(e)

\* The list accounts for the line that an ESI read last once it is reported.
Accounted(e) ==
  IF \/ Carries(planner_esi[e], {"PLANNER_ESI_RUN"})
     \/ Executed(e) /\ ~Carries(coord_planner, StatusChanges)
    THEN fp[e] ELSE fp[e] - 1
Accounts ==
  \A e \in Registered, k \in Key : process[e] # "exited" =>
    (HeldAfter(e, k, Accounted(e)) <=> HeldBy(taken_keys, k, NameOf(e)))
HoldingInv ==
  /\ NamingInv /\ \A e \in ESI : LastLineRead(e) /\ LineCarried(e) /\ NextUnasked(e)
  /\ ChangeCarried /\ KnownHolders /\ Accounts

(***************************************************************************)
(* What the Instances report.  An Instance that is killed, or crashes,     *)
(* leaves its instruction unread; one that answers answers who waits.      *)
(***************************************************************************)
Instructions == {"INSTRUCTION_DETAIL_TO_INSTANCE"}
Successes    == {"INSTANCE_REPORTS_SUCCESSFUL_OP"}
Reports      == {"INSTANCE_REPORTS_SUCCESSFUL_OP", "INSTANCE_REPORTS_FAILED_OP"}
Ends         == {"closed"}

Alive(i)       == instance_state[i] \notin {"crashed", "dead"}
WaitsFor(e, i) == thread[e].pc = "instance" /\ thread[e].inst = i
Brings(q, id)  ==
  \A n \in 1..Len(q) : q[n].type \in Instructions => q[n].content \in Forwarded(id)

\* A report is for the thread that waits, and a success is of its operation.
ReportedOnce(i) ==
  /\ Once(instance_coord[i], Reports)
  /\ Carries(instance_coord[i], Reports) => \E e \in ESI : WaitsFor(e, i)
  /\ Carries(instance_coord[i], Successes) =>
       \E e \in ESI : WaitsFor(e, i) /\ Happened(thread[e].id, i)
\* An instruction that will be executed is that of the thread that waits, and
\* is not reported yet.
InstructedOnce(i) ==
  Alive(i) =>
    /\ Once(coord_instance[i], Instructions)
    /\ Carries(coord_instance[i], Instructions) =>
         /\ ~Carries(instance_coord[i], Reports)
         /\ \E e \in ESI : WaitsFor(e, i) /\ Brings(coord_instance[i], thread[e].id)
\* Nothing follows the end of a connection.
EndsLast(i) ==
  /\ Carries(instance_coord[i], Ends) => ~Alive(i)
  /\ \A n \in 1..Len(instance_coord[i]) :
       instance_coord[i][n].type \in Ends => n = Len(instance_coord[i])
ToldInv ==
  /\ ToldWhatHappened
  /\ \A i \in Inst : ReportedOnce(i) /\ InstructedOnce(i) /\ EndsLast(i)

(***************************************************************************)
(* What the files hold.  A value that a line set stays in its block until  *)
(* its ESI sets another or gives the key back, and a STORE writes it.      *)
(***************************************************************************)
SetsKey(line, k)   == line.operation = "SET_OP" /\ line.key = k
StoresKey(line, k) == line.operation = "STORE_OP" /\ line.key = k
LastSet(e, k, lines, n) ==
  /\ n \in 1..lines /\ SetsKey(Script[e][n], k)
  /\ \A m \in (n + 1)..lines : ~SetsKey(Script[e][m], k)
NoStore(e, k, from, to) == \A m \in from..to : ~StoresKey(Script[e][m], k)

\* The Instance has written the value of the next SET, and reports it.
Overwriting(e, k) ==
  /\ thread[e].pc = "instance" /\ SetsKey(thread[e].id, k)
  /\ Carries(instance_coord[thread[e].inst], Successes)
Kept ==
  \A e \in ESI, k \in Key : \A n \in 1..Len(Script[e]) :
    process[e] # "exited" /\ LastSet(e, k, Accounted(e), n) /\ NoStore(e, k, n, Accounted(e)) =>
      /\ HeldAfter(e, k, Accounted(e))
      /\ \A i \in Inst : Overwriting(e, k) \/ BeginsWith(ValueOf(i, k), Script[e][n].value)

\* What a STORE wrote is there until its ESI reads another line.
Filed ==
  \A e \in ESI, k \in Key : \A n \in 1..Len(Script[e]) :
    /\ thread[e].pc = "change" \/ Executed(e) \/ Carries(planner_esi[e], {"PLANNER_ESI_RUN"})
    /\ process[e] # "exited"
    /\ fp[e] > 0 /\ StoresKey(Script[e][fp[e]], k) /\ LastSet(e, k, fp[e], n)
    => \E i \in Inst : BeginsWith(mounting_point[i][k], Script[e][n].value)
FiledInv == Kept /\ Filed

(***************************************************************************)
(* Why the lookups of the planner find what they look for.                 *)
(***************************************************************************)
\* A thread of the coordinator asks only for an ESI that has connected, and
\* not for one that is gone by itself.
Attended(e) ==
  /\ process[e] = "off" => thread[e].pc = "off" /\ esi_coord[e] = <<>>
  /\ Carries(coord_esi[e], Ends) => thread[e].pc = "done"
  /\ process[e] = "exited" =>
       ~Asking(e) /\ (thread[e].pc = "done" \/ ~Carries(esi_coord[e], Instruct))

\* An Instance that is ready, or is being answered, is one to choose from; and
\* it is ready before the first ESI connects, if the ESIs wait for it.
InstancesUp ==
  \A i \in Inst :
    /\ \/ instance_state[i] = "ready" \/ registering = i
       \/ Carries(coord_instance[i], {"INSTANCE_COORD_HANDSHAKE_OK"})
       => instances # <<>>
    /\ "startup" \notin Windows =>
         /\ instance_state[i] # "crashed"
         /\ (\E e \in ESI : process[e] # "off") => instance_state[i] \in {"ready", "dead"}

\* Who was refused is still running when block_esi looks for its name.
RefusedRuns ==
  listen.pc = "block" =>
    \E e \in ESI : running_queue = <<e>> /\ listen.name = NameOf(e)
CrashInv == CrashesExplained /\ InstancesUp /\ RefusedRuns /\ \A e \in ESI : Attended(e)

(***************************************************************************)
(* What the theorems ask of the scripts.                                   *)
(***************************************************************************)
\* No SET of a script is shorter than a name: the coordinator leaves the name whole.
NoShortSet ==
  \A e \in ESI : \A n \in 1..Len(Script[e]) :
    Script[e][n].operation = "SET_OP" => Script[e][n].value \notin ShortValue

\* A script that sets a key again before it stores it again.
StoredOnce ==
  \A e \in ESI, k \in Key : \A m, n \in 1..Len(Script[e]) :
    StoresKey(Script[e][n], k) /\ LastSet(e, k, n, m) => NoStore(e, k, m, n - 1)
=============================================================================
