------------------------------- MODULE System -------------------------------
(***************************************************************************)
(* The whole system: one planner, one coordinator, the Instances and the   *)
(* ESIs, over the channels of Libgrupo.  Processes interleave; a step of   *)
(* one leaves the others, and the channels it has no end of, alone.        *)
(***************************************************************************)
EXTENDS Planner, Esi, Coordinator, InstanceStore

vars == <<channels, plannerVars, esiVars, coordinatorVars, instanceVars>>

Init == /\ ChannelsInit /\ PlannerInit /\ EsiInit
        /\ CoordinatorInit /\ InstanceInit

-----------------------------------------------------------------------------
OthersThanPlanner ==
  UNCHANGED <<esiVars, coordinatorVars, instanceVars,
              esi_coord, coord_esi, coord_instance, instance_coord>>
OthersThanEsi ==
  UNCHANGED <<plannerVars, coordinatorVars, instanceVars,
              planner_coord, coord_planner, coord_instance, instance_coord>>
OthersThanCoordinator ==
  UNCHANGED <<plannerVars, esiVars, instanceVars, esi_planner, planner_esi>>
OthersThanInstance ==
  UNCHANGED <<plannerVars, esiVars, coordinatorVars, esi_planner, planner_esi,
              esi_coord, coord_esi, planner_coord, coord_planner>>

\* An operator who starts the ESIs last closes the window "startup".
StartInOrder ==
  "startup" \in Windows \/ \A i \in Inst : instance_state[i] = "ready"

Step ==
  \/ PlannerNext /\ OthersThanPlanner
  \/ \E e \in ESI : Connect(e) /\ StartInOrder /\ OthersThanEsi
  \/ EsiNext /\ OthersThanEsi
  \/ CoordinatorNext /\ OthersThanCoordinator
  \/ InstanceNext /\ OthersThanInstance

(***************************************************************************)
(* The system waits for nothing more when a planner, a coordinator or an   *)
(* Instance is gone by its own fault; when every ESI that connected has    *)
(* finished or waits for a key in blocked_queue; or when an ESI that is    *)
(* gone has the processor, and the planner has read all that it sent.      *)
(***************************************************************************)
Settled(e) ==
  \E queue \in {blocked_queue, finished_queue} : \E n \in 1..Len(queue) : queue[n] = e
Crashed ==
  segfault \/ coordinator_segfault \/ \E i \in Inst : instance_state[i] = "crashed"
AtRest == \A e \in ESI : process[e] # "off" => Settled(e)
Orphaned == \E e \in ToSet(running_queue) : process[e] # "on" /\ esi_planner[e] = <<>>
Paused == FLAG_PLANIFICATION_RUNNING = 0

Stop == Crashed \/ AtRest \/ Orphaned \/ Paused
Terminated == Stop /\ UNCHANGED vars

Next == Step \/ Terminated

(***************************************************************************)
(* Each thread runs whenever it can: select serves every ready socket, the *)
(* busy loop of the running thread never sleeps, the other threads block   *)
(* only in recv.  Nobody has to connect, and nobody types at the console;  *)
(* but a command once typed is carried out.                                *)
(***************************************************************************)
Fairness ==
  /\ WF_vars(~segfault /\ (ListenNext \/ ReleaseNext("listen") \/ Segfault) /\ OthersThanPlanner)
  /\ WF_vars(~segfault /\ RunNext /\ OthersThanPlanner)
  /\ WF_vars(~segfault /\ ReleaseNext("console") /\ OthersThanPlanner)
  /\ \A e \in ESI :
       /\ WF_vars(FromPlannerNext(e) /\ OthersThanEsi)
       /\ WF_vars(FromCoordinatorNext(e) /\ OthersThanEsi)
       /\ WF_vars(thread_listen_esi(e) /\ OthersThanCoordinator)
  /\ WF_vars(listening_thread /\ OthersThanCoordinator)
  /\ \A i \in Inst : WF_vars(InstanceStep(i) /\ OthersThanInstance)

Spec == Init /\ [][Next]_vars
FairSpec == Spec /\ Fairness

-----------------------------------------------------------------------------
\* Whatever the order of their steps, what a process reads from a channel is
\* a frame it decodes, and no position it keeps leaves its table.
TypeOK ==
  /\ ChannelsTypeOK /\ PlannerTypeOK
  /\ EsiTypeOK /\ CoordinatorTypeOK /\ InstanceTypeOK

\* The keys that the first lines of a script have taken, and not given back.
HeldAfter(e, k, lines) ==
  \E n \in 1..lines :
    /\ Script[e][n].operation = "GET_OP" /\ Script[e][n].key = k
    /\ \A m \in n..lines : ~(Script[e][m].operation = "STORE_OP" /\ Script[e][m].key = k)

\* A process that follows a NULL pointer or writes to a broken connection is
\* gone.  Of the found-nothing lookups of the planner (launcher.c:165, 187,
\* 532, 547, 599) only that of a holder fails, and only for a line that
\* changes a key its script does not hold: who heads running_queue, who was
\* refused and who is woken are always found.  Otherwise the planner goes with
\* an ESI killed before it had read its orders, or with the console's input;
\* the coordinator (launcher.c:188-195) because no Instance has come, or
\* one is gone; an Instance (launcher.c:169) when the ESIs did not wait for it.
ChangesUnheld(e) ==
  LET id == thread[e].id
  IN /\ thread[e].pc = "permission" /\ id.operation # "GET_OP"
     /\ Arrives(coord_planner, CheckFor(id.operation))
     /\ ~HeldAfter(e, id.key, fp[e] - 1)
CrashesExplained ==
  /\ segfault =>
       \/ \E e \in ESI : Arrives(esi_planner[e], "reset") \/ ChangesUnheld(e)
       \/ command_number = "end of input"
  /\ coordinator_segfault =>
       \/ DISTR_ALG # "EL" \/ instances = <<>>
       \/ \E i \in Inst : instance_state[i] \in {"crashed", "dead"}
  /\ \A i \in Inst : instance_state[i] = "crashed" => "startup" \in Windows

\* An ESI that the planner parked has read the line it was refused: when it
\* is ready again it must be told to run that line again, and the flag that
\* says so is written by two threads (launcher.c:304-311, 599).
RetryPending ==
  \A e \in ESI :
    /\ e \in ToSet(ready_queue) \/ (run.pc \in {"put", "start"} /\ run.esi = e)
    /\ fp[e] > 0
    => esi[e].redo_last_operation

\* The planner orders the next line on ESI_EXECUTION_LINE_OK, from another
\* message than the one that updates taken_keys (coordinator launcher.c:224,
\* 226): an ESI about to run its next line holds in taken_keys the keys its
\* lines so far have taken, and no other.
HoldsWhatItGot ==
  \A e \in ESI, k \in Key :
    process[e] = "on" /\ Arrives(planner_esi[e], "PLANNER_ESI_RUN") =>
      (HeldAfter(e, k, fp[e]) <=>
         /\ HasNode(taken_keys, k, "BLOCKED")
         /\ ~check_Key_taken(taken_keys, k, EsiName(esi[e].id)))

\* A STORE writes whatever its block holds, blocks are handed out in a circle
\* (instance launcher.c:178, 298), and a value may reach the block with stray
\* bytes behind it (coordinator launcher.c:149-151, 192): the file of a key
\* stored by the line just run begins with what the script set last.
FileBeginsWithValue ==
  \A e \in ESI :
    process[e] = "on" /\ Arrives(planner_esi[e], "PLANNER_ESI_RUN") /\ fp[e] > 0
      /\ Script[e][fp[e]].operation = "STORE_OP" =>
        \A n \in 1..fp[e] :
          /\ Script[e][n].operation = "SET_OP" /\ Script[e][n].key = Script[e][fp[e]].key
          /\ \A m \in n+1..fp[e] : ~(Script[e][m].operation = "SET_OP"
                                      /\ Script[e][m].key = Script[e][fp[e]].key)
          => \E i \in Inst :
               BeginsWith(mounting_point[i][Script[e][n].key], Script[e][n].value)

\* The end of a line reaches the planner in up to five messages, and an
\* Instance may be gone before it answers (coordinator launcher.c:200-234):
\* when the planner is about to be told of an operation, it has happened.
Happened(id, i) ==
  /\ EntryOf(i, id.key) # 0
  /\ id.operation = "SET_OP" => BeginsWith(ValueOf(i, id.key), id.value)
  /\ id.operation = "STORE_OP" => mounting_point[i][id.key] = ValueOf(i, id.key)
ToldWhatHappened ==
  \A e \in ESI : thread[e].pc \in {"change", "line_ok"} => Happened(thread[e].id, thread[e].inst)

\* The planner's permission is used two processes later (coordinator
\* launcher.c:180, 190, 211): until the lock list changes for it, the key of
\* an operation under way is still free, or still its ESI's.
PermissionStillHolds ==
  \A e \in ESI : thread[e].pc \in {"instance", "change"} =>
    LET id == thread[e].id
    IN IF id.operation = "GET_OP"
         THEN ~HasNode(taken_keys, id.key, "BLOCKED")
         ELSE /\ HasNode(taken_keys, id.key, "BLOCKED")
              /\ ~check_Key_taken(taken_keys, id.key, id.ESIName)

\* A frame is two sends, and the threads of the coordinator share the socket
\* of the planner and those of the Instances (sockets.c:48): no two of them
\* have something to send at once.
Sends(e) ==
  \/ thread[e].pc \in {"instance", "change", "line_ok"}
  \/ thread[e].pc = "recv" /\ Arrives(esi_coord[e], "INSTRUCTION_DETAIL_TO_COODRINATOR")
SocketsUnshared == \A e, other \in ESI : Sends(e) /\ Sends(other) => e = other

\* Every ESI that connects ends up finished, or parked for a key that is
\* held, and stays so, unless a dead one keeps the processor.
EveryoneSettles == <>[](Crashed \/ AtRest \/ Orphaned)

\* check_whos_waiting runs once for each release (launcher.c:502): an ESI
\* parked for a key that is free does not stay parked.
FreeKeyWakes ==
  \A e \in ESI, k \in Key :
    (/\ e \in ToSet(blocked_queue) /\ ~HasNode(taken_keys, k, "BLOCKED")
     /\ \E n \in 1..Len(taken_keys) :
          taken_keys[n] = Node(EsiName(esi[e].id), k, "WAITING"))
    ~> e \notin ToSet(blocked_queue)

\* When the last command of the operator frees the key the configuration
\* blocks, every script runs to its end, whoever waits for whom, unless an
\* ESI is killed.
AllFinish ==
  \A e \in ESI : (commands = MaxCommands /\ process[e] = "on")
    ~> e \in ToSet(finished_queue) \/ \E d \in ESI : process[d] = "killed"
=============================================================================
