---------------------------- MODULE Coordinator ----------------------------
(***************************************************************************)
(* The coordinator (coordinator/src/launcher.c): a thread that accepts     *)
(* connections, and one thread for each ESI that takes an instruction to   *)
(* the planner for permission and then to an Instance.  All of them read   *)
(* the planner's answers from one socket.                                  *)
(***************************************************************************)
EXTENDS Libgrupo

CONSTANT DISTR_ALG  \* "EL", "LSU" or "KE"

ASSUME DistributionAssumption == DISTR_ALG \in {"EL", "LSU", "KE"}

VARIABLES
  instances,                   \* Seq([inst, status]): the registered Instances
  eq_load_alg_last_used_inst,  \* a 0-based position in instances
  registering,                 \* the Instance the accepting thread answers
  thread,                      \* [ESI -> [pc, id, inst]]: thread_listen_esi
  coordinator_segfault         \* the process is gone

coordinatorVars == <<instances, eq_load_alg_last_used_inst, registering, thread,
                     coordinator_segfault>>

NoThread == [pc |-> "off", id |-> None, inst |-> None]

CoordinatorInit ==
  /\ instances = <<>>
  /\ eq_load_alg_last_used_inst = -1
  /\ registering = None
  /\ thread = [e \in ESI |-> NoThread]
  /\ coordinator_segfault = FALSE

-----------------------------------------------------------------------------
AcceptEsi(e) ==
  /\ registering = None /\ thread[e].pc = "off"
  /\ Arrives(esi_coord[e], "ESI_COORD_HANDSHAKE")
  /\ Receive(esi_coord, e)
  /\ SendTo(coord_esi, e, Header("ESI_COORD_HANDSHAKE_OK"))
  /\ thread' = [thread EXCEPT ![e].pc = "recv"]
  /\ UNCHANGED <<instances, eq_load_alg_last_used_inst, registering, coordinator_segfault,
                 planner_coord, coord_planner, coord_instance, instance_coord>>

\* The Instance is in the list, and may be chosen, before it is answered.
AcceptInstance(i) ==
  /\ registering = None
  /\ Arrives(instance_coord[i], "INSTANCE_COORD_HANDSHAKE")
  /\ Receive(instance_coord, i)
  /\ instances' = Append(instances, [inst |-> i, status |-> "AVAILABLE"])
  /\ registering' = i
  /\ UNCHANGED <<eq_load_alg_last_used_inst, thread, coordinator_segfault, esi_coord,
                 coord_esi, planner_coord, coord_planner, coord_instance>>

SendInitConfig ==
  /\ registering # None
  /\ SendTo(coord_instance, registering, Header("INSTANCE_COORD_HANDSHAKE_OK"))
  /\ registering' = None
  /\ UNCHANGED <<instances, eq_load_alg_last_used_inst, thread, coordinator_segfault,
                 esi_coord, coord_esi, planner_coord, coord_planner, instance_coord>>

-----------------------------------------------------------------------------
(***************************************************************************)
(* thread_listen_esi.  A SET writes its terminator at ESIName[value_size]: *)
(* a short value cuts the name of the ESI, if it has that many bytes.      *)
(***************************************************************************)
NameKept(id) == IF id.operation = "SET_OP" /\ id.value \in ShortValue
                     /\ id.ESIName \notin {NoName, TornName}
                  THEN CutName ELSE id.ESIName

(***************************************************************************)
(* That terminator is missing behind the value.  Of opt_value the thread   *)
(* keeps the bytes it received, and it forwards strlen of them: with the   *)
(* value may go what follows it in the heap at that moment.                *)
(***************************************************************************)
Forwarded(id) ==
  {[id EXCEPT !.value = <<@, tail>>] :
     tail \in IF id.operation = "SET_OP" THEN {"", "stray bytes"} ELSE {""}}

CheckFor(operation) == CASE operation = "GET_OP"   -> "CAN_ESI_GET_KEY"
                         [] operation = "SET_OP"   -> "CAN_ESI_SET_KEY"
                         [] operation = "STORE_OP" -> "CAN_ESI_STORE_KEY"

ReceiveInstruction(e) ==
  /\ thread[e].pc = "recv"
  /\ Arrives(esi_coord[e], "INSTRUCTION_DETAIL_TO_COODRINATOR")
  /\ "answers" \in Windows \/ \A other \in ESI : thread[other].pc # "permission"
  /\ LET received == Head(esi_coord[e]).content
         id == [received EXCEPT !.ESIName = NameKept(received)]
     IN /\ thread' = [thread EXCEPT ![e] = [@ EXCEPT !.pc = "permission", !.id = id]]
        /\ coord_planner' = Append(coord_planner,
             WithContent(CheckFor(id.operation), [ESIName |-> id.ESIName, key |-> id.key]))
  /\ Receive(esi_coord, e)
  /\ UNCHANGED <<instances, eq_load_alg_last_used_inst, registering, coordinator_segfault,
                 coord_esi, planner_coord, coord_instance, instance_coord>>

ReceiveFinished(e) ==
  /\ thread[e].pc = "recv" /\ Arrives(esi_coord[e], "ESI_EXECUTION_FINISHED")
  /\ Receive(esi_coord, e)
  /\ SendTo(coord_esi, e, Header("closed"))
  /\ thread' = [thread EXCEPT ![e].pc = "done"]
  /\ UNCHANGED <<instances, eq_load_alg_last_used_inst, registering, coordinator_segfault,
                 planner_coord, coord_planner, coord_instance, instance_coord>>

\* Nothing goes back to the ESI or the planner.
OpFailed(e) ==
  /\ thread[e].pc = "permission"
  /\ Arrives(planner_coord, "PLANNER_COORDINATOR_OP_FAILED")
  /\ planner_coord' = Tail(planner_coord)
  /\ thread' = [thread EXCEPT ![e] = [NoThread EXCEPT !.pc = "recv"]]
  /\ UNCHANGED <<instances, eq_load_alg_last_used_inst, registering, coordinator_segfault,
                 esi_coord, coord_esi, coord_planner, coord_instance, instance_coord>>

(***************************************************************************)
(* get_instance_index_to_use: from the position after the last one used,   *)
(* around the list, the first AVAILABLE Instance; -1 if there is none or   *)
(* the algorithm is not EL.  Positions are 0-based.                        *)
(***************************************************************************)
get_instance_index_to_use ==
  LET n == Len(instances)
      start == IF eq_load_alg_last_used_inst + 1 = n
                 THEN 0 ELSE eq_load_alg_last_used_inst + 1
      At(turn) == (start + turn) % n
      Free == {turn \in 0..(n - 1) : instances[At(turn) + 1].status = "AVAILABLE"}
  IN IF n = 0 \/ DISTR_ALG # "EL" \/ Free = {} THEN -1
     ELSE At(CHOOSE turn \in Free : \A other \in Free : turn <= other)

OpOk(e) ==
  LET index == get_instance_index_to_use
      target == instances[index + 1].inst
  IN /\ thread[e].pc = "permission"
     /\ Arrives(planner_coord, "PLANNER_COORDINATOR_OP_OK")
     /\ index # -1
     /\ planner_coord' = Tail(planner_coord)
     /\ \E sent \in Forwarded(thread[e].id) :
          SendTo(coord_instance, target, WithContent("INSTRUCTION_DETAIL_TO_INSTANCE", sent))
     /\ eq_load_alg_last_used_inst' = index
     /\ thread' = [thread EXCEPT ![e] = [@ EXCEPT !.pc = "instance", !.inst = target]]
     /\ UNCHANGED <<instances, registering, coordinator_segfault, esi_coord, coord_esi,
                    coord_planner, instance_coord>>

\* The index -1 gives a NULL Instance, and its name is logged.
FollowNullInstance ==
  /\ \E e \in ESI : thread[e].pc = "permission"
  /\ Arrives(planner_coord, "PLANNER_COORDINATOR_OP_OK")
  /\ get_instance_index_to_use = -1
  /\ coordinator_segfault' = TRUE
  /\ UNCHANGED <<instances, eq_load_alg_last_used_inst, registering, thread,
                 esi_coord, coord_esi, planner_coord, coord_planner, coord_instance,
                 instance_coord>>

\* A send to an Instance that is gone raises SIGPIPE, except the first: the
\* header and its content are two.
BrokenPipe ==
  LET index == get_instance_index_to_use
  IN /\ \E e \in ESI : thread[e].pc = "permission"
     /\ Arrives(planner_coord, "PLANNER_COORDINATOR_OP_OK")
     /\ index # -1
     /\ Header("closed") \in ToSet(instance_coord[instances[index + 1].inst])
     /\ coordinator_segfault' = TRUE
     /\ UNCHANGED <<instances, eq_load_alg_last_used_inst, registering, thread,
                    esi_coord, coord_esi, planner_coord, coord_planner, coord_instance,
                    instance_coord>>

\* Mutant: the planner is told of a STORE only.
ToldOfStore(operation) == operation = "STORE_OP"
ToldOf(operation)      == operation # "SET_OP"

InstanceSucceeded(e) ==
  LET t == thread[e]
  IN /\ t.pc = "instance"
     /\ Arrives(instance_coord[t.inst], "INSTANCE_REPORTS_SUCCESSFUL_OP")
     /\ Receive(instance_coord, t.inst)
     /\ thread' = [thread EXCEPT ![e].pc =
                     IF ToldOf(t.id.operation) THEN "change" ELSE "line_ok"]
     /\ UNCHANGED <<instances, eq_load_alg_last_used_inst, registering,
                    coordinator_segfault, esi_coord, coord_esi, planner_coord,
                    coord_planner, coord_instance>>

OperationFailed(e) ==
  /\ SendTo(coord_esi, e, Header("OPERATION_ERROR"))
  /\ thread' = [thread EXCEPT ![e] = [NoThread EXCEPT !.pc = "recv"]]

InstanceFailed(e) ==
  LET t == thread[e]
  IN /\ t.pc = "instance"
     /\ Arrives(instance_coord[t.inst], "INSTANCE_REPORTS_FAILED_OP")
     /\ Receive(instance_coord, t.inst)
     /\ OperationFailed(e)
     /\ UNCHANGED <<instances, eq_load_alg_last_used_inst, registering,
                    coordinator_segfault, esi_coord, planner_coord, coord_planner,
                    coord_instance>>

\* Mutant: no report of failure is a success.
InstanceSilent(e) ==
  /\ thread[e].pc = "instance" /\ Arrives(instance_coord[thread[e].inst], "closed")
  /\ thread' = [thread EXCEPT ![e].pc = "line_ok"]
  /\ UNCHANGED <<instances, eq_load_alg_last_used_inst, registering,
                 coordinator_segfault, esi_coord, coord_esi, planner_coord,
                 coord_planner, coord_instance, instance_coord>>

\* recv fills no header, and what malloc returned is no success: the default
\* of the switch.  The Instance stays AVAILABLE.
InstanceGone(e) ==
  LET t == thread[e]
  IN /\ t.pc = "instance" /\ Arrives(instance_coord[t.inst], "closed")
     /\ OperationFailed(e)
     /\ UNCHANGED <<instances, eq_load_alg_last_used_inst, registering,
                    coordinator_segfault, esi_coord, planner_coord, coord_planner,
                    coord_instance, instance_coord>>

NotifyChange(e) ==
  LET id == thread[e].id
  IN /\ thread[e].pc = "change"
     /\ coord_planner' = Append(coord_planner,
          WithContent("RESOURCE_STATUS_CHANGE_TO_PLANNER",
                      [ESIName |-> id.ESIName, key |-> id.key,
                       status |-> IF id.operation = "STORE_OP" THEN "RELEASED" ELSE "BLOCKED"]))
     /\ thread' = [thread EXCEPT ![e].pc = "line_ok"]
     /\ UNCHANGED <<instances, eq_load_alg_last_used_inst, registering,
                    coordinator_segfault, esi_coord, coord_esi, planner_coord,
                    coord_instance, instance_coord>>

NotifyLineOk(e) ==
  /\ thread[e].pc = "line_ok"
  /\ coord_planner' = Append(coord_planner, Header("ESI_EXECUTION_LINE_OK"))
  /\ thread' = [thread EXCEPT ![e] = [NoThread EXCEPT !.pc = "recv"]]
  /\ UNCHANGED <<instances, eq_load_alg_last_used_inst, registering, coordinator_segfault,
                 esi_coord, coord_esi, planner_coord, coord_instance, instance_coord>>

thread_listen_esi(e) ==
  /\ ~coordinator_segfault
  /\ \/ ReceiveInstruction(e) \/ ReceiveFinished(e) \/ OpFailed(e) \/ OpOk(e)
     \/ InstanceSucceeded(e) \/ InstanceFailed(e) \/ InstanceGone(e)
     \/ NotifyChange(e) \/ NotifyLineOk(e)

listening_thread ==
  /\ ~coordinator_segfault
  /\ \/ \E e \in ESI : AcceptEsi(e)
     \/ \E i \in Inst : AcceptInstance(i)
     \/ SendInitConfig

CoordinatorNext ==
  \/ listening_thread
  \/ \E e \in ESI : thread_listen_esi(e)
  \/ ~coordinator_segfault /\ (FollowNullInstance \/ BrokenPipe)

-----------------------------------------------------------------------------
ThreadRecord ==
  [pc : {"off", "recv", "permission", "instance", "change", "line_ok", "done"},
   id : InstructionDetail \cup {None}, inst : Inst \cup {None}]

\* The variables of the coordinator: the last position used is one of the
\* list, and a thread past a step holds what that step gave it.
CoordinatorTypeOK ==
  /\ instances \in Seq([inst : Inst, status : {"AVAILABLE"}])
  /\ eq_load_alg_last_used_inst \in -1..(Len(instances) - 1)
  /\ registering \in Inst \cup {None}
  /\ thread \in [ESI -> ThreadRecord]
  /\ \A e \in ESI :
       /\ thread[e].pc \in {"permission", "instance", "change", "line_ok"} =>
            thread[e].id \in InstructionDetail
       /\ thread[e].pc \in {"instance", "change", "line_ok"} => thread[e].inst \in Inst
  /\ coordinator_segfault \in BOOLEAN
=============================================================================
