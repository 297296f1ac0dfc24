---------------------------- MODULE OutcomeProofs ----------------------------
(***************************************************************************)
(* Proofs of what the lines of a script come to: the only lookups that     *)
(* find nothing are those of a line that changes a key its script does not *)
(* hold, or that no Instance can execute (CrashesExplained), and a STORE   *)
(* files the value that the script set last (FileBeginsWithValue).  The    *)
(* threads of the coordinator come first, then the Instances that they     *)
(* need, then what the planner looks up; the second part follows a value   *)
(* from its SET to its file.                                               *)
(***************************************************************************)
EXTENDS HoldingProofs, StoreProofs
-----------------------------------------------------------------------------
(***************************************************************************)
(* Who has a thread of the coordinator has connected, and a thread does    *)
(* not ask for an ESI that is gone by itself.                              *)
(***************************************************************************)
ThreadStep(f) ==
  /\ NoMore(esi_coord[f], esi_coord'[f], Instruct)
  /\ NoMore(coord_esi[f], coord_esi'[f], Ends) \/ thread'[f].pc = "done"
  /\ thread[f].pc = "done" => thread'[f].pc = "done"
  /\ Asking(f)' => Asking(f) \/ (Carries(esi_coord[f], Instruct) /\ thread[f].pc = "recv")
  /\ \/ thread[f].pc # "off" \/ esi_coord[f] # <<>>
     \/ thread'[f].pc = thread[f].pc /\ esi_coord'[f] = esi_coord[f]

LEMMA ThreadStill ==
  ASSUME NEW f \in ESI, UNCHANGED <<thread[f], esi_coord[f], coord_esi[f]>>
  PROVE  ThreadStep(f)
BY FrameKept DEF ThreadStep, Asking

\* A thread that asks, or has asked, changes no other.
LEMMA OtherThreads ==
  ASSUME TypeOK, NEW e \in ESI, NEW f \in ESI, e # f,
         ReceiveInstruction(e) \/ ReceiveFinished(e) \/ OpFailed(e) \/ OpOk(e)
  PROVE  thread'[f] = thread[f]
<1>0. CoordinatorTypeOK
  BY DEF TypeOK
<1>1. CASE ReceiveInstruction(e)
  BY <1>1, QuestionSent
<1>2. CASE ReceiveFinished(e)
  <2>1. thread' = [thread EXCEPT ![e].pc = "done"]
    BY <1>2 DEF ReceiveFinished
  <2> QED BY <1>0, <2>1, ThreadPc
<1>3. CASE OpFailed(e)
  <2>1. thread' = [thread EXCEPT ![e] = [NoThread EXCEPT !.pc = "recv"]]
    BY <1>3 DEF OpFailed
  <2> QED BY <1>0, <2>1, ThreadFree
<1>4. CASE OpOk(e)
  <2>1. PICK target \in Inst :
          thread' = [thread EXCEPT ![e] = [@ EXCEPT !.pc = "instance", !.inst = target]]
    BY <1>4, OpOkTarget
  <2> QED BY <1>0, <2>1, ThreadSent
<1> QED BY <1>1, <1>2, <1>3, <1>4

\* The accepting thread.
LEMMA AcceptingStep ==
  ASSUME TypeOK, listening_thread
  PROVE  \A f \in ESI : ThreadStep(f)
<1>0. /\ esi_coord \in [ESI -> Seq(EsiToCoordinator)] /\ coord_esi \in [ESI -> Seq(CoordinatorToEsi)]
      /\ Header("ESI_COORD_HANDSHAKE_OK").type \notin Ends /\ CoordinatorTypeOK
  BY DEF TypeOK, ChannelsTypeOK, Header, Ends
<1>1. CASE \E i \in Inst : AcceptInstance(i)
  BY <1>1, ThreadStill DEF AcceptInstance
<1>2. CASE SendInitConfig
  BY <1>2, ThreadStill DEF SendInitConfig
<1>3. ASSUME NEW e \in ESI, AcceptEsi(e), NEW f \in ESI
      PROVE  ThreadStep(f)
  <2>1. PICK frame : frame.type \notin Ends /\ coord_esi' = [coord_esi EXCEPT ![e] = Append(@, frame)]
    BY <1>0, <1>3 DEF AcceptEsi, SendTo
  <2>2. /\ esi_coord' = [esi_coord EXCEPT ![e] = Tail(@)] /\ esi_coord[e] # <<>>
        /\ thread[e].pc = "off" /\ thread' = [thread EXCEPT ![e].pc = "recv"]
    BY <1>3 DEF AcceptEsi, Receive, Arrives
  <2>3. thread'[e].pc = "recv" /\ \A other \in ESI : other # e => thread'[other] = thread[other]
    BY <1>0, <2>2, ThreadPc
  <2>4. NoMore(esi_coord[f], esi_coord'[f], Instruct)
    BY <1>0, <2>2, FamilyFrames
  <2>5. NoMore(coord_esi[f], coord_esi'[f], Ends)
    BY <1>0, <2>1, FamilyFrames
  <2>6. f # e => esi_coord'[f] = esi_coord[f]
    BY <1>0, <2>2
  <2> QED BY <2>2, <2>3, <2>4, <2>5, <2>6 DEF ThreadStep, Asking
<1> QED BY <1>1, <1>2, <1>3 DEF listening_thread

\* The thread of an ESI.
LEMMA ListeningStep ==
  ASSUME TypeOK, NEW e \in ESI, thread_listen_esi(e)
  PROVE  \A f \in ESI : ThreadStep(f)
<1>0. /\ esi_coord \in [ESI -> Seq(EsiToCoordinator)] /\ coord_esi \in [ESI -> Seq(CoordinatorToEsi)]
      /\ Header("OPERATION_ERROR").type \notin Ends /\ CoordinatorTypeOK
      /\ esi_coord[e] \in Seq(EsiToCoordinator)
  BY DEF TypeOK, ChannelsTypeOK, Header, Ends
<1>1. CASE ReceiveInstruction(e)
  <2>1. /\ esi_coord' = [esi_coord EXCEPT ![e] = Tail(@)] /\ esi_coord[e] # <<>>
        /\ Head(esi_coord[e]).type \in Instruct /\ coord_esi' = coord_esi
    BY <1>1 DEF ReceiveInstruction, Receive, Arrives, Instruct
  <2>2. /\ thread[e].pc = "recv" /\ thread'[e].pc = "permission"
        /\ \A f \in ESI : f # e => thread'[f] = thread[f]
    BY <1>1, QuestionSent
  <2>3. Carries(esi_coord[e], Instruct)
    BY <1>0, <2>1, FrameReceived
  <2>4. \A f \in ESI : NoMore(esi_coord[f], esi_coord'[f], Instruct)
    BY <1>0, <2>1, FamilyFrames
  <2>5. \A f \in ESI : f # e => esi_coord'[f] = esi_coord[f]
    BY <1>0, <2>1
  <2> QED BY <2>1, <2>2, <2>3, <2>4, <2>5, FrameKept DEF ThreadStep, Asking
<1>2. CASE ReceiveFinished(e)
  <2>1. /\ esi_coord' = [esi_coord EXCEPT ![e] = Tail(@)] /\ esi_coord[e] # <<>>
        /\ thread[e].pc = "recv" /\ thread' = [thread EXCEPT ![e].pc = "done"]
    BY <1>2 DEF ReceiveFinished, Receive, Arrives
  <2>2. PICK frame : coord_esi' = [coord_esi EXCEPT ![e] = Append(@, frame)]
    BY <1>2 DEF ReceiveFinished, SendTo
  <2>3. thread'[e].pc = "done" /\ \A f \in ESI : f # e => thread'[f] = thread[f]
    BY <1>0, <2>1, ThreadPc
  <2>4. \A f \in ESI : NoMore(esi_coord[f], esi_coord'[f], Instruct)
    BY <1>0, <2>1, FamilyFrames
  <2>5. \A f \in ESI : f # e => esi_coord'[f] = esi_coord[f] /\ coord_esi'[f] = coord_esi[f]
    BY <1>0, <2>1, <2>2
  <2> QED BY <2>1, <2>3, <2>4, <2>5, FrameKept DEF ThreadStep, Asking
<1>3. CASE InstanceFailed(e) \/ InstanceGone(e)
  <2>1. PICK frame : frame.type \notin Ends /\ coord_esi' = [coord_esi EXCEPT ![e] = Append(@, frame)]
    BY <1>0, <1>3 DEF InstanceFailed, InstanceGone, OperationFailed, SendTo
  <2>2. /\ thread' = [thread EXCEPT ![e] = [NoThread EXCEPT !.pc = "recv"]]
        /\ esi_coord' = esi_coord /\ thread[e].pc = "instance"
    BY <1>3 DEF InstanceFailed, InstanceGone, OperationFailed
  <2>3. thread'[e].pc = "recv" /\ \A f \in ESI : f # e => thread'[f] = thread[f]
    BY <1>0, <2>2, ThreadFree
  <2>4. \A f \in ESI : NoMore(coord_esi[f], coord_esi'[f], Ends)
    BY <1>0, <2>1, FamilyFrames
  <2> QED BY <2>2, <2>3, <2>4, FrameKept DEF ThreadStep, Asking
<1>4. CASE OpFailed(e) \/ NotifyLineOk(e)
  <2>1. /\ thread' = [thread EXCEPT ![e] = [NoThread EXCEPT !.pc = "recv"]]
        /\ esi_coord' = esi_coord /\ coord_esi' = coord_esi
        /\ thread[e].pc \in {"permission", "line_ok"}
    BY <1>4 DEF OpFailed, NotifyLineOk
  <2>2. thread'[e].pc = "recv" /\ \A f \in ESI : f # e => thread'[f] = thread[f]
    BY <1>0, <2>1, ThreadFree
  <2> QED BY <2>1, <2>2, FrameKept DEF ThreadStep, Asking
<1>5. CASE InstanceSucceeded(e) \/ NotifyChange(e)
  <2>1. PICK pc : /\ pc \in {"change", "line_ok"} /\ thread' = [thread EXCEPT ![e].pc = pc]
                  /\ esi_coord' = esi_coord /\ coord_esi' = coord_esi
                  /\ thread[e].pc \in {"instance", "change"}
    BY <1>5 DEF InstanceSucceeded, NotifyChange
  <2>2. thread'[e].pc = pc /\ \A f \in ESI : f # e => thread'[f] = thread[f]
    BY <1>0, <2>1, ThreadPc
  <2> QED BY <2>1, <2>2, FrameKept DEF ThreadStep, Asking
<1>6. CASE OpOk(e)
  <2>1. PICK target \in Inst :
          thread' = [thread EXCEPT ![e] = [@ EXCEPT !.pc = "instance", !.inst = target]]
    BY <1>6, OpOkTarget
  <2>2. esi_coord' = esi_coord /\ coord_esi' = coord_esi /\ thread[e].pc = "permission"
    BY <1>6 DEF OpOk
  <2>3. thread'[e].pc = "instance" /\ \A f \in ESI : f # e => thread'[f] = thread[f]
    BY <1>0, <2>1, ThreadSent
  <2> QED BY <2>2, <2>3, FrameKept DEF ThreadStep, Asking
<1> QED BY <1>1, <1>2, <1>3, <1>4, <1>5, <1>6 DEF thread_listen_esi

LEMMA CoordinatorStep ==
  ASSUME TypeOK, CoordinatorNext
  PROVE  \A f \in ESI : ThreadStep(f)
<1>1. CASE FollowNullInstance \/ BrokenPipe
  BY <1>1, ThreadStill DEF FollowNullInstance, BrokenPipe
<1> QED BY <1>1, AcceptingStep, ListeningStep DEF CoordinatorNext

LEMMA CoordinatorAttended ==
  ASSUME TypeOK, OthersThanCoordinator, CoordinatorNext, NEW f \in ESI, Attended(f)
  PROVE  Attended(f)'
<1>1. process' = process
  BY DEF OthersThanCoordinator, esiVars
<1>2. ThreadStep(f)
  BY CoordinatorStep
<1> QED BY <1>1, <1>2 DEF ThreadStep, Attended, NoMore, Asking
\* Nobody exits on an order while the last line is being asked for: a new line
\* is not asked, and the last one was read before.
LEMMA EndUnasked ==
  ASSUME TypeOK, NEW e \in ESI, AbortOnLine(e) \/ Eof(e),
         LastLineRead(e), LineCarried(e), NextUnasked(e)
  PROVE  ~Asking(e)
<1>0. /\ planner_esi[e] \in Seq(PlannerToEsi) /\ fp[e] \in Nat /\ fp[e] <= Len(Script[e])
      /\ Asking(e) => thread[e].id \in InstructionDetail
  BY DEF TypeOK, ChannelsTypeOK, EsiTypeOK, CoordinatorTypeOK, Asking
<1>1. /\ process[e] = "on" /\ planner_esi[e] # <<>>
      /\ Head(planner_esi[e]).type \in {"PLANNER_ESI_RUN", "PLANNER_ESI_RUN_LAST_OPERATION"}
  BY DEF AbortOnLine, Eof, Ordered, Arrives
<1>2. CASE Head(planner_esi[e]).type = "PLANNER_ESI_RUN"
  <2>1. Carries(planner_esi[e], {"PLANNER_ESI_RUN"})
    BY <1>0, <1>1, <1>2, FrameReceived
  <2> QED BY <2>1 DEF NextUnasked
<1>3. CASE Head(planner_esi[e]).type = "PLANNER_ESI_RUN_LAST_OPERATION"
  <2> SUFFICES ASSUME Asking(e) PROVE FALSE
    OBVIOUS
  <2>1. fp[e] > 0 /\ LineOf(e).operation \in Operation
    BY <1>0 DEF LineCarried, InstructionDetail
  <2>2. LineToRun(e) = fp[e] - 1
    BY <1>1, <1>3, <2>1 DEF LastLineRead, LineToRun
  <2>3. ~AtEnd(e)
    BY <1>0, <2>2 DEF AtEnd
  <2>4. LineRead(e) = Script[e][fp[e]]
    BY <1>0, <2>2 DEF LineRead
  <2> QED BY <2>1, <2>3, <2>4 DEF AbortOnLine, Eof, LineOf
<1> QED BY <1>1, <1>2, <1>3

LEMMA EsiAttended ==
  ASSUME NoNewline = {}, TypeOK, OneLine, OthersThanEsi, EsiNext \/ \E e \in ESI : Connect(e),
         \A e \in ESI : LastLineRead(e) /\ LineCarried(e) /\ NextUnasked(e) /\ Attended(e)
  PROVE  \A e \in ESI : Attended(e)'
<1>0. /\ process \in [ESI -> {"off", "on", "exited", "killed"}]
      /\ esi_coord \in [ESI -> Seq(EsiToCoordinator)] /\ coord_esi \in [ESI -> Seq(CoordinatorToEsi)]
      /\ thread' = thread
  BY DEF TypeOK, EsiTypeOK, ChannelsTypeOK, OthersThanEsi, coordinatorVars
<1>1. PICK e \in ESI : \/ Connect(e) \/ FromPlannerNext(e) \/ FromCoordinatorNext(e)
                       \/ CoordinatorHungUp(e) \/ Die(e)
  BY DEF EsiNext
<1>2. /\ coord_esi' = coord_esi \/ (coord_esi' = [coord_esi EXCEPT ![e] = Tail(@)] /\ coord_esi[e] # <<>>)
  BY <1>1 DEF Connect, FromPlannerNext, HandshakeOk, UnknownFromPlanner, parser, SendLine,
     SendLastLineAndExit, AbortOnLine, Eof, Ordered, FromCoordinatorNext, CoordHandshakeOk,
     OperationError, CoordinatorHungUp, Die, Receive, Arrives
<1>3. \A f \in ESI : NoMore(coord_esi[f], coord_esi'[f], Ends)
  BY <1>0, <1>2, FrameKept, FamilyFrames
<1>4. ASSUME NEW f \in ESI, f # e PROVE Attended(f)'
  <2>1. UNCHANGED <<process[f], esi_coord[f]>>
    BY <1>1, <1>4, OtherEsis
  <2> QED BY <1>0, <1>3, <2>1 DEF Attended, NoMore, Asking
<1>5. ASSUME process'[e] \notin {"off", "exited"} PROVE Attended(e)'
  <2>1. Carries(coord_esi'[e], Ends) => thread'[e].pc = "done"
    BY <1>0, <1>3 DEF Attended, NoMore
  <2> QED BY <1>5, <2>1 DEF Attended
<1>6. process'[e] # "off"
  BY <1>0, <1>1 DEF Connect, FromPlannerNext, HandshakeOk, UnknownFromPlanner, parser, SendLine,
     SendLastLineAndExit, AbortOnLine, Eof, Ordered, FromCoordinatorNext, CoordHandshakeOk,
     OperationError, CoordinatorHungUp, Die, esiVars
<1>7. ASSUME process'[e] = "exited" PROVE Attended(e)'
  <2>1. AbortOnLine(e) \/ Eof(e) \/ CoordinatorHungUp(e)
    BY <1>0, <1>1, <1>7 DEF Connect, FromPlannerNext, HandshakeOk, UnknownFromPlanner, parser, SendLine,
       SendLastLineAndExit, FeofAfter, FromCoordinatorNext, CoordHandshakeOk, OperationError, Die,
       esiVars, Ordered
  <2>2. CASE CoordinatorHungUp(e)
    <3>1. coord_esi[e] # <<>> /\ Head(coord_esi[e]).type \in Ends
      BY <2>2 DEF CoordinatorHungUp, Arrives, Ends
    <3>2. coord_esi[e] \in Seq(CoordinatorToEsi)
      BY <1>0
    <3>3. Carries(coord_esi[e], Ends)
      BY <3>1, <3>2, FrameReceived
    <3>4. thread'[e].pc = "done"
      BY <1>0, <3>3 DEF Attended
    <3> QED BY <1>7, <3>4 DEF Attended, Asking
  <2>3. CASE AbortOnLine(e) \/ Eof(e)
    <3>1. ~Asking(e)
      BY <2>3, EndUnasked
    <3>2. LineAt(e, "order")
      BY <2>3, OrderTaken DEF AbortOnLine, Eof
    <3>3. ~Carries(esi_coord[e], Instruct)
      BY <3>2 DEF LineAt, OneLine, InOnePlace, Place
    <3>4. \/ esi_coord' = esi_coord
          \/ esi_coord' = [esi_coord EXCEPT ![e] = Append(@, Finished)]
      BY <2>3 DEF AbortOnLine, Eof, SendTo
    <3>5. Finished.type \notin Instruct
      BY DEF Finished, Header, Instruct
    <3>6. NoMore(esi_coord[e], esi_coord'[e], Instruct)
      BY <1>0, <3>4, <3>5, FrameKept, FamilyFrames
    <3>7. Carries(coord_esi'[e], Ends) => thread'[e].pc = "done"
      BY <1>0, <1>3 DEF Attended, NoMore
    <3>8. ~Carries(esi_coord'[e], Instruct) /\ ~Asking(e)'
      BY <1>0, <3>1, <3>3, <3>6 DEF NoMore, Asking
    <3> QED BY <1>7, <3>7, <3>8 DEF Attended
  <2> QED BY <2>1, <2>2, <2>3
<1> QED BY <1>4, <1>5, <1>6, <1>7

LEMMA AttendedStep ==
  ASSUME NoNewline = {}, TypeOK, OneLine, [Next]_vars,
         \A e \in ESI : LastLineRead(e) /\ LineCarried(e) /\ NextUnasked(e) /\ Attended(e)
  PROVE  \A e \in ESI : Attended(e)'
<1>1. CASE CoordinatorNext /\ OthersThanCoordinator
  BY <1>1, CoordinatorAttended
<1>2. CASE (EsiNext \/ \E e \in ESI : Connect(e)) /\ OthersThanEsi
  BY <1>2, EsiAttended
<1>3. CASE \/ PlannerNext /\ OthersThanPlanner
           \/ InstanceNext /\ OthersThanInstance
           \/ UNCHANGED vars
  <2>1. UNCHANGED <<process, thread, esi_coord, coord_esi>>
    BY <1>3 DEF OthersThanPlanner, OthersThanInstance, vars, channels, esiVars, coordinatorVars
  <2> QED BY <2>1 DEF Attended, Asking
<1> QED BY <1>1, <1>2, <1>3 DEF Next, Step, Terminated
-----------------------------------------------------------------------------
(***************************************************************************)
(* The Instances: one that can be asked is registered, and is configured   *)
(* before the first ESI if the ESIs wait for it.                           *)
(***************************************************************************)
Configured == {"INSTANCE_COORD_HANDSHAKE_OK"}

\* If the ESIs wait for it, an Instance is configured before it is asked.
LEMMA NotTooEarly ==
  ASSUME "startup" \notin Windows, TypeOK, ToldInv, InstancesUp, \A e \in ESI : Attended(e), NEW i \in Inst
  PROVE  ~FollowNullTable(i)
<1> SUFFICES ASSUME FollowNullTable(i) PROVE FALSE
  OBVIOUS
<1>1. /\ instance_state[i] = "connected" /\ coord_instance[i] # <<>>
      /\ Head(coord_instance[i]).type \in Instructions
      /\ coord_instance[i] \in Seq(CoordinatorToInstance)
  BY DEF FollowNullTable, Arrives, Instructions, TypeOK, ChannelsTypeOK
<1>2. Carries(coord_instance[i], Instructions)
  BY <1>1, FrameReceived
<1>3. PICK e \in ESI : WaitsFor(e, i)
  BY <1>1, <1>2 DEF ToldInv, InstructedOnce, Alive
<1>4. process[e] # "off"
  BY <1>3 DEF Attended, WaitsFor
<1> QED BY <1>1, <1>4 DEF InstancesUp

LEMMA InstanceUp ==
  ASSUME TypeOK, ToldInv, InstancesUp, \A e \in ESI : Attended(e),
         InstanceNext, OthersThanInstance
  PROVE  InstancesUp'
<1>0. /\ coord_instance \in [Inst -> Seq(CoordinatorToInstance)]
      /\ instance_state \in [Inst -> {"off", "connected", "ready", "crashed", "dead"}]
  BY DEF TypeOK, ChannelsTypeOK, InstanceTypeOK
<1>1. UNCHANGED <<process, registering, instances>>
  BY DEF OthersThanInstance, esiVars, coordinatorVars
<1>2. PICK i \in Inst : ConnectInstance(i) \/ InstanceStep(i) \/ DieInstance(i)
  BY DEF InstanceNext
<1>3. ASSUME UNCHANGED instance_state, NEW j \in Inst,
             NoMore(coord_instance[j], coord_instance'[j], Configured)
      PROVE  InstancesUp!(j)'
  BY <1>1, <1>3 DEF InstancesUp, NoMore, Configured
<1>4. CASE ConnectInstance(i)
  <2>1. /\ instance_state[i] = "off" /\ coord_instance' = coord_instance
        /\ instance_state' = [instance_state EXCEPT ![i] = "connected"]
    BY <1>4 DEF ConnectInstance
  <2> QED BY <1>0, <1>1, <2>1 DEF InstancesUp
<1>5. CASE initialize_entry_table(i)
  <2>1. /\ coord_instance' = [coord_instance EXCEPT ![i] = Tail(@)] /\ coord_instance[i] # <<>>
        /\ Head(coord_instance[i]).type \in Configured
        /\ instance_state' = [instance_state EXCEPT ![i] = "ready"]
    BY <1>5 DEF initialize_entry_table, Receive, Arrives, Configured
  <2>2. coord_instance[i] \in Seq(CoordinatorToInstance)
    BY <1>0
  <2>3. Carries(coord_instance[i], Configured)
    BY <2>1, <2>2, FrameReceived
  <2>4. instances # <<>>
    BY <2>3 DEF InstancesUp, Configured
  <2>5. \A j \in Inst : instance_state'[j] = IF j = i THEN "ready" ELSE instance_state[j]
    BY <1>0, <2>1
  <2>6. \A j \in Inst : NoMore(coord_instance[j], coord_instance'[j], Configured)
    BY <1>0, <2>1, FamilyFrames
  <2> QED BY <1>1, <2>4, <2>5, <2>6 DEF InstancesUp, NoMore, Configured
<1>6. CASE GetNew(i) \/ GetKnown(i) \/ Set(i) \/ Store(i) \/ Refuse(i)
  <2>1. /\ coord_instance' = [coord_instance EXCEPT ![i] = Tail(@)] /\ coord_instance[i] # <<>>
        /\ instance_state' = instance_state
    BY <1>6 DEF GetNew, GetKnown, Set, Store, Refuse, Process, Receive, Arrives
  <2>2. \A j \in Inst : NoMore(coord_instance[j], coord_instance'[j], Configured)
    BY <1>0, <2>1, FamilyFrames
  <2> QED BY <1>3, <2>1, <2>2 DEF InstancesUp
<1>7. CASE DieInstance(i)
  <2>1. /\ instance_state[i] = "ready" /\ coord_instance' = coord_instance
        /\ instance_state' = [instance_state EXCEPT ![i] = "dead"]
    BY <1>7 DEF DieInstance
  <2> QED BY <1>0, <1>1, <2>1 DEF InstancesUp
<1>8. CASE FollowNullTable(i)
  <2>1. /\ coord_instance' = coord_instance
        /\ instance_state' = [instance_state EXCEPT ![i] = "crashed"]
    BY <1>8 DEF FollowNullTable
  <2>2. "startup" \in Windows
    BY <1>8, NotTooEarly
  <2> QED BY <1>0, <1>1, <2>1, <2>2 DEF InstancesUp
<1> QED BY <1>2, <1>4, <1>5, <1>6, <1>7, <1>8 DEF InstanceStep

LEMMA EsiUp ==
  ASSUME TypeOK, InstancesUp, OthersThanEsi,
         EsiNext \/ \E e \in ESI : (Connect(e) /\ StartInOrder)
  PROVE  InstancesUp'
<1>0. process \in [ESI -> {"off", "on", "exited", "killed"}]
  BY DEF TypeOK, EsiTypeOK
<1>1. UNCHANGED <<instance_state, registering, instances, coord_instance>>
  BY DEF OthersThanEsi, instanceVars, coordinatorVars
<1>2. CASE \E e \in ESI : (Connect(e) /\ StartInOrder)
  BY <1>1, <1>2 DEF StartInOrder, InstancesUp
<1>3. CASE EsiNext
  <2>1. \A e \in ESI : process[e] = "off" => process'[e] = "off"
    BY <1>0, <1>3 DEF EsiNext, FromPlannerNext, HandshakeOk, UnknownFromPlanner, parser, SendLine,
       SendLastLineAndExit, AbortOnLine, Eof, Ordered, FromCoordinatorNext, CoordHandshakeOk,
       OperationError, CoordinatorHungUp, Die, esiVars
  <2> QED BY <1>1, <2>1 DEF InstancesUp
<1> QED BY <1>2, <1>3

LEMMA CoordinatorUp ==
  ASSUME TypeOK, InstancesUp, OthersThanCoordinator, CoordinatorNext
  PROVE  InstancesUp'
<1>0. /\ coord_instance \in [Inst -> Seq(CoordinatorToInstance)]
      /\ registering \in Inst \cup {None} /\ instances \in Seq([inst : Inst, status : {"AVAILABLE"}])
  BY DEF TypeOK, ChannelsTypeOK, CoordinatorTypeOK
<1>1. UNCHANGED <<process, instance_state>>
  BY DEF OthersThanCoordinator, esiVars, instanceVars
<1>2. ASSUME registering' = registering, instances' = instances,
             \A j \in Inst : NoMore(coord_instance[j], coord_instance'[j], Configured)
      PROVE  InstancesUp'
  BY <1>1, <1>2 DEF InstancesUp, NoMore, Configured
<1>3. ASSUME NEW i \in Inst, AcceptInstance(i) PROVE InstancesUp'
  <2>1. /\ instances' = Append(instances, [inst |-> i, status |-> "AVAILABLE"])
        /\ coord_instance' = coord_instance
    BY <1>3 DEF AcceptInstance
  <2>2. [inst |-> i, status |-> "AVAILABLE"] \in [inst : Inst, status : {"AVAILABLE"}]
    OBVIOUS
  <2>3. instances' # <<>>
    BY <1>0, <2>1, <2>2, AppendProperties
  <2> QED BY <1>1, <2>1, <2>3 DEF InstancesUp
<1>4. CASE SendInitConfig
  <2>1. registering \in Inst /\ instances' = instances
    BY <1>0, <1>4 DEF SendInitConfig
  <2>2. instances' # <<>>
    BY <2>1 DEF InstancesUp
  <2> QED BY <1>1, <2>2 DEF InstancesUp
<1>5. ASSUME NEW e \in ESI, OpOk(e) PROVE InstancesUp'
  <2>1. PICK target \in Inst, sent \in Forwarded(thread[e].id) :
          coord_instance' = [coord_instance EXCEPT ![target] =
            Append(@, WithContent("INSTRUCTION_DETAIL_TO_INSTANCE", sent))]
    BY <1>5, OpOkTarget DEF SendTo
  <2>2. PICK frame : /\ frame.type \notin Configured
                     /\ coord_instance' = [coord_instance EXCEPT ![target] = Append(@, frame)]
    BY <2>1 DEF WithContent, Configured
  <2>3. \A j \in Inst : NoMore(coord_instance[j], coord_instance'[j], Configured)
    BY <1>0, <2>2, FamilyFrames
  <2> QED BY <1>2, <1>5, <2>3 DEF OpOk
<1>6. CASE \/ FollowNullInstance \/ BrokenPipe
           \/ \E e \in ESI : \/ AcceptEsi(e) \/ ReceiveInstruction(e) \/ ReceiveFinished(e)
                             \/ OpFailed(e) \/ InstanceSucceeded(e) \/ InstanceFailed(e)
                             \/ InstanceGone(e) \/ NotifyChange(e) \/ NotifyLineOk(e)
  <2>1. UNCHANGED <<registering, instances, coord_instance>>
    BY <1>6 DEF FollowNullInstance, BrokenPipe, AcceptEsi, ReceiveInstruction, ReceiveFinished,
       OpFailed, InstanceSucceeded, InstanceFailed, InstanceGone, NotifyChange, NotifyLineOk
  <2> QED BY <1>2, <2>1, FrameKept
<1> QED BY <1>3, <1>4, <1>5, <1>6 DEF CoordinatorNext, listening_thread, thread_listen_esi

LEMMA UpStep ==
  ASSUME TypeOK, ToldInv, InstancesUp, \A e \in ESI : Attended(e), [Next]_vars
  PROVE  InstancesUp'
<1>1. CASE (EsiNext \/ \E e \in ESI : (Connect(e) /\ StartInOrder)) /\ OthersThanEsi
  BY <1>1, EsiUp
<1>2. CASE CoordinatorNext /\ OthersThanCoordinator
  BY <1>2, CoordinatorUp
<1>3. CASE InstanceNext /\ OthersThanInstance
  BY <1>3, InstanceUp
<1>4. CASE \/ PlannerNext /\ OthersThanPlanner
           \/ UNCHANGED vars
  <2>1. UNCHANGED <<process, instance_state, registering, instances, coord_instance>>
    BY <1>4 DEF OthersThanPlanner, vars, channels, esiVars, coordinatorVars, instanceVars
  <2> QED BY <2>1 DEF InstancesUp
<1> QED BY <1>1, <1>2, <1>3, <1>4 DEF Next, Step, Terminated

\* Why the coordinator is gone, and stays so: the algorithm chooses nothing,
\* nobody is there to choose from, or the Instance chosen is gone.
NoneToAsk ==
  \/ DISTR_ALG # "EL" \/ instances = <<>>
  \/ \E i \in Inst : instance_state[i] \in {"crashed", "dead"}

LEMMA CoordinatorGoes ==
  ASSUME TypeOK, ToldInv, FollowNullInstance \/ BrokenPipe
  PROVE  NoneToAsk
<1>1. CASE FollowNullInstance
  BY <1>1, IndexRange DEF FollowNullInstance, NoneToAsk, TypeOK
<1>2. CASE BrokenPipe
  <2>1. PICK at : at = get_instance_index_to_use + 1
    OBVIOUS
  <2>2. /\ at \in 1..Len(instances)
        /\ Header("closed") \in ToSet(instance_coord[instances[at].inst])
    BY <1>2, <2>1, IndexRange DEF BrokenPipe, TypeOK, CoordinatorTypeOK
  <2>3. instances[at] \in [inst : Inst, status : {"AVAILABLE"}]
    BY <2>2, ElementOfSeq DEF TypeOK, CoordinatorTypeOK
  <2>4. PICK i \in Inst : i = instances[at].inst
    BY <2>3
  <2>5. instance_coord[i] \in Seq(InstanceToCoordinator)
    BY DEF TypeOK, ChannelsTypeOK
  <2>6. PICK n \in 1..Len(instance_coord[i]) : instance_coord[i][n] = Header("closed")
    BY <2>2, <2>4, <2>5, ElementsOfSeq
  <2>7. Carries(instance_coord[i], Ends)
    BY <2>6 DEF Carries, Ends, Header
  <2> QED BY <2>7 DEF ToldInv, EndsLast, Alive, NoneToAsk
<1> QED BY <1>1, <1>2

LEMMA CoordinatorExplained ==
  ASSUME TypeOK, ToldInv, coordinator_segfault => NoneToAsk, [Next]_vars
  PROVE  coordinator_segfault' => NoneToAsk'
<1>1. CASE CoordinatorNext /\ OthersThanCoordinator
  <2>1. ~coordinator_segfault
    BY <1>1 DEF CoordinatorNext, listening_thread, thread_listen_esi
  <2>2. CASE FollowNullInstance \/ BrokenPipe
    <3>1. UNCHANGED <<instances, instance_state>>
      BY <1>1, <2>2 DEF FollowNullInstance, BrokenPipe, OthersThanCoordinator, instanceVars
    <3> QED BY <2>2, <3>1, CoordinatorGoes DEF NoneToAsk
  <2>3. CASE ~(FollowNullInstance \/ BrokenPipe)
    <3>1. coordinator_segfault' = coordinator_segfault
      BY <1>1, <2>3 DEF CoordinatorNext, listening_thread, thread_listen_esi, AcceptEsi, AcceptInstance,
         SendInitConfig, ReceiveInstruction, ReceiveFinished, OpFailed, OpOk, InstanceSucceeded,
         InstanceFailed, InstanceGone, NotifyChange, NotifyLineOk
    <3> QED BY <2>1, <3>1
  <2> QED BY <2>2, <2>3
<1>2. CASE InstanceNext /\ OthersThanInstance
  <2>0. instance_state \in [Inst -> {"off", "connected", "ready", "crashed", "dead"}]
    BY DEF TypeOK, InstanceTypeOK
  <2>1. UNCHANGED <<instances, coordinator_segfault>>
    BY <1>2 DEF OthersThanInstance, coordinatorVars
  <2>2. \A i \in Inst : instance_state[i] \in {"crashed", "dead"} => instance_state'[i] = instance_state[i]
    BY <1>2, <2>0 DEF InstanceNext, InstanceStep, ConnectInstance, DieInstance, initialize_entry_table,
       FollowNullTable, GetNew, GetKnown, Set, Store, Refuse, Process
  <2> QED BY <2>1, <2>2 DEF NoneToAsk
<1>3. CASE \/ PlannerNext /\ OthersThanPlanner
           \/ (EsiNext \/ \E e \in ESI : Connect(e)) /\ OthersThanEsi
           \/ UNCHANGED vars
  <2>1. UNCHANGED <<instances, coordinator_segfault, instance_state>>
    BY <1>3 DEF OthersThanPlanner, OthersThanEsi, vars, coordinatorVars, instanceVars
  <2> QED BY <2>1 DEF NoneToAsk
<1> QED BY <1>1, <1>2, <1>3 DEF Next, Step, Terminated
-----------------------------------------------------------------------------
(***************************************************************************)
(* The planner: who was refused is running until it is parked, and nobody  *)
(* follows a NULL pointer.                                                 *)
(***************************************************************************)
\* The question that arrives is that of the thread that asks.
LEMMA QuestionArrives ==
  ASSUME TypeOK, OneLine, ReportInv, \A e \in ESI : LineCarried(e),
         coord_planner # <<>>, Head(coord_planner).type \in Checks
  PROVE  \E e \in ESI : /\ Asking(e) /\ running_queue = <<e>>
                        /\ fp[e] > 0 /\ thread[e].id = LineOf(e)
                        /\ Head(coord_planner) = CheckOf(LineOf(e))
<1>1. coord_planner \in Seq(CoordinatorFrame)
  BY DEF TypeOK, ChannelsTypeOK
<1>2. Carries(coord_planner, Checks)
  BY <1>1, FrameReceived
<1>3. PICK e \in ESI : Asking(e)
  BY <1>2 DEF OneLine, OneQuestion
<1>4. running_queue = <<e>>
  BY <1>2, <1>3 DEF OneLine, OwnProcessor, LineAt, Place
<1>5. fp[e] > 0 /\ thread[e].id = LineOf(e)
  BY <1>3 DEF LineCarried
<1>6. 1 \in 1..Len(coord_planner) /\ Head(coord_planner) = coord_planner[1]
  BY <1>1
<1>7. Head(coord_planner) = CheckOf(thread[e].id)
  BY <1>3, <1>6 DEF ReportInv, AskedAndTold, AsksFor
<1> QED BY <1>3, <1>4, <1>5, <1>7

LEMMA PlannerRefused ==
  ASSUME TypeOK, PlannerInv, QueuePartition, OneLine, ReportInv, RefusedRuns,
         \A e \in ESI : LineCarried(e), OthersThanPlanner, PlannerNext
  PROVE  RefusedRuns'
<1>1. SUFFICES ASSUME listen'.pc = "block"
               PROVE  \E e \in ESI : running_queue' = <<e>> /\ listen'.name = NameOf(e)'
  BY DEF RefusedRuns
<1>0. /\ listen \in [pc : {"select", "block", "wait"} \cup Answering,
                     esi : ESI \cup {None}, key : Key \cup {None}, name : Name]
      /\ "block" \notin Answering
  BY DEF PlannerInv, PlannerTypeOK, ThreadsTypeOK, Answering
<1>2. CASE GetDenied
  <2>1. /\ coord_planner # <<>> /\ Head(coord_planner).type \in Checks
        /\ UNCHANGED <<running_queue, esi>>
        /\ listen' = [listen EXCEPT !.pc = "block", !.key = Head(coord_planner).content.key,
                                    !.name = Head(coord_planner).content.ESIName]
    BY <1>2 DEF GetDenied, FromCoordinator, Arrives, Checks, queues
  <2>2. PICK e \in ESI : running_queue = <<e>> /\ Head(coord_planner) = CheckOf(LineOf(e))
    BY <2>1, QuestionArrives
  <2>3. Head(coord_planner).content.ESIName = NameOf(e)
    BY <2>2 DEF CheckOf, WithContent, LineOf
  <2>4. listen'.name = NameOf(e)
    BY <1>0, <2>1, <2>3
  <2> QED BY <2>1, <2>2, <2>4 DEF NameOf
<1>3. CASE ~GetDenied
  <2>1. listen'.pc = "block" /\ listen' = listen /\ (running_queue' = running_queue \/ RunPut)
    <3>1. ASSUME NEW e \in ESI, RegisterEsi(e) \/ EsiFinished(e) \/ Undecoded(e) \/ LostSocket(e)
          PROVE  listen' = listen /\ running_queue' = running_queue
      <4>1. listen.pc = "select"
        BY <3>1 DEF RegisterEsi, EsiFinished, Undecoded, LostSocket, Select, ListenerFree
      <4>2. listen' = listen \/ listen' = [listen EXCEPT !.pc = "hs_status", !.esi = e]
        BY <3>1 DEF RegisterEsi, EsiFinished, Undecoded, LostSocket, plannerVars
      <4>3. [listen EXCEPT !.pc = "hs_status", !.esi = e].pc = "hs_status"
        BY <1>0
      <4> QED BY <1>1, <4>1, <4>2, <4>3
    <3>2. CASE HandshakeStatus \/ HandshakeHeader \/ HandshakeName \/ block_esi \/ WaitForKey
      <4>1. \/ listen' = [listen EXCEPT !.pc = "hs_header"]
            \/ listen' = [listen EXCEPT !.pc = "hs_name"]
            \/ listen' = [listen EXCEPT !.pc = "wait"]
            \/ listen' = Listening
        BY <3>2 DEF HandshakeStatus, HandshakeHeader, HandshakeName, block_esi, WaitForKey
      <4> QED BY <1>0, <1>1, <4>1 DEF Listening
    <3>3. CASE LineOk \/ StatusChanged \/ GetAllowed \/ CheckOwner \/ ConsoleNext \/ Segfault
      <4>1. UNCHANGED <<listen, running_queue>>
        BY <3>3 DEF LineOk, StatusChanged, GetAllowed, CheckOwner, ConsoleNext, pause, resume, block,
           unblock, quit, EndOfInput, Command, Segfault, queues, plannerVars
      <4> QED BY <1>1, <4>1
    <3>4. CASE RunNext \/ \E t \in Releaser : ReleaseNext(t)
      <4>1. listen' = listen
        BY <3>4 DEF RunNext, RunPoll, RunTake, RunStart, ClearRedo, RunPut, ReleaseNext, FindWaiting,
           UnlinkWaiting, LocateBlocked, MoveToReady
      <4>2. running_queue' = running_queue \/ RunPut
        BY <3>4 DEF RunNext, RunPoll, RunTake, RunStart, ClearRedo, ReleaseNext, FindWaiting,
           UnlinkWaiting, LocateBlocked, MoveToReady, queues
      <4> QED BY <1>1, <4>1, <4>2
    <3> QED BY <1>1, <1>3, <3>1, <3>2, <3>3, <3>4 DEF PlannerNext, ListenNext
  <2>2. PICK e \in ESI : running_queue = <<e>> /\ listen.name = NameOf(e)
    BY <2>1 DEF RefusedRuns
  <2>3. e \in Registered
    <3>1. e \in ToSet(<<e>>)
      BY DEF ToSet
    <3> QED BY <2>2, <3>1 DEF QueuePartition, NoneMissing, Registered
  <2>4. NameOf(e)' = NameOf(e)
    BY <2>3, NamesStay
  <2>5. ~RunPut
    BY <2>2 DEF RunPut, PlannerInv, ProcessorFree
  <2> QED BY <2>1, <2>2, <2>4, <2>5
<1> QED BY <1>2, <1>3

LEMMA RefusedStep ==
  ASSUME TypeOK, PlannerInv, QueuePartition, OneLine, ReportInv, RefusedRuns,
         \A e \in ESI : LineCarried(e), [Next]_vars
  PROVE  RefusedRuns'
<1>1. CASE PlannerNext /\ OthersThanPlanner
  BY <1>1, PlannerRefused
<1>2. CASE \/ (EsiNext \/ \E e \in ESI : Connect(e)) /\ OthersThanEsi
           \/ CoordinatorNext /\ OthersThanCoordinator
           \/ InstanceNext /\ OthersThanInstance
           \/ UNCHANGED vars
  <2>1. UNCHANGED <<listen, running_queue, esi>>
    BY <1>2 DEF OthersThanEsi, OthersThanCoordinator, OthersThanInstance, vars, plannerVars, queues
  <2> QED BY <2>1 DEF RefusedRuns, NameOf
<1> QED BY <1>1, <1>2 DEF Next, Step, Terminated

\* A key of a SET or a STORE that has no holder when the planner is asked is
\* one that the script does not hold.
LEMMA OwnerFound ==
  ASSUME TypeOK, OneLine, RetryInv, ReportInv, HoldingInv, \A e \in ESI : Attended(e),
         NEW check \in {"CAN_ESI_SET_KEY", "CAN_ESI_STORE_KEY"}, Arrives(coord_planner, check),
         ~HasNode(taken_keys, Head(coord_planner).content.key, "BLOCKED")
  PROVE  \E e \in ESI : ChangesUnheld(e)
<1>0. coord_planner # <<>> /\ Head(coord_planner).type = check
  BY DEF Arrives
<1>1. PICK e \in ESI : /\ Asking(e) /\ fp[e] > 0 /\ thread[e].id = LineOf(e)
                       /\ Head(coord_planner) = CheckOf(LineOf(e))
  BY <1>0, QuestionArrives DEF HoldingInv, Checks
<1>2. /\ Head(coord_planner).content.key = LineOf(e).key
      /\ Head(coord_planner).type = CheckFor(LineOf(e).operation)
  BY <1>1 DEF CheckOf, WithContent
<1>3. LineOf(e).operation \in Operation /\ LineOf(e).key \in Key
  BY <1>1 DEF TypeOK, CoordinatorTypeOK, Asking, InstructionDetail
<1>4. LineOf(e).operation \in {"SET_OP", "STORE_OP"}
  BY <1>0, <1>2, <1>3 DEF CheckFor, Operation
<1>5. process[e] # "exited"
  BY <1>1 DEF Attended
<1>6. Accounted(e) = fp[e] - 1
  BY <1>1 DEF HoldingInv, NextUnasked, Accounted, Executed, Asking
<1>7. e \in Registered
  BY <1>1 DEF RetryInv, Registered
<1>8. HeldAfter(e, LineOf(e).key, fp[e] - 1) <=> HeldBy(taken_keys, LineOf(e).key, NameOf(e))
  BY <1>3, <1>5, <1>6, <1>7 DEF HoldingInv, Accounts
<1>9. ~HeldAfter(e, thread[e].id.key, fp[e] - 1)
  BY <1>1, <1>2, <1>8 DEF HeldBy
<1> QED BY <1>0, <1>1, <1>2, <1>4, <1>9 DEF ChangesUnheld, Asking, Arrives

\* The planner goes only with an ESI that was killed, or one that changes a key
\* it does not hold: nothing else that it looks up is missing.
LEMMA PlannerGoes ==
  ASSUME TypeOK, ParkedInv, OneLine, RetryInv, ReportInv, HoldingInv,
         RefusedRuns, \A e \in ESI : Attended(e), Segfault
  PROVE  \E e \in ESI : Arrives(esi_planner[e], "reset") \/ ChangesUnheld(e)
<1>0. /\ coord_planner \in Seq(CoordinatorFrame) /\ ListsTypeOK
      /\ esi_planner \in [ESI -> Seq(EsiToPlanner)]
  BY DEF TypeOK, ChannelsTypeOK, PlannerTypeOK
<1>1. ~(FromCoordinator("ESI_EXECUTION_LINE_OK") /\ running_queue = <<>>)
  <2> SUFFICES ASSUME FromCoordinator("ESI_EXECUTION_LINE_OK") PROVE running_queue # <<>>
    OBVIOUS
  <2>1. coord_planner # <<>> /\ Head(coord_planner).type \in DoneLine
    BY DEF FromCoordinator, Arrives, DoneLine
  <2>2. Carries(coord_planner, DoneLine)
    BY <1>0, <2>1, FrameReceived
  <2> QED BY <2>2 DEF OneLine, OwnProcessor
<1>2. ASSUME NEW e \in ESI, FromEsi(e, "ESI_EXECUTION_FINISHED") PROVE running_queue # <<>>
  <2>1. /\ esi_planner[e] # <<>> /\ Head(esi_planner[e]).type \in EndOfScript
        /\ esi_planner[e] \in Seq(EsiToPlanner)
    BY <1>0, <1>2 DEF FromEsi, Arrives, EndOfScript
  <2>2. LineAt(e, "ended")
    BY <2>1, FrameReceived DEF LineAt
  <2>3. running_queue = <<e>>
    BY <2>2 DEF OneLine, OwnProcessor, Place
  <2> QED BY <2>3
<1>3. ASSUME FromCoordinator("CAN_ESI_SET_KEY") \/ FromCoordinator("CAN_ESI_STORE_KEY"),
             ~HasNode(taken_keys, Head(coord_planner).content.key, "BLOCKED")
      PROVE  \E e \in ESI : ChangesUnheld(e)
  BY <1>3, OwnerFound DEF FromCoordinator
<1>4. ASSUME listen.pc = "block" PROVE FindEsi(running_queue, listen.name) # 0
  <2>1. PICK e \in ESI : running_queue = <<e>> /\ listen.name = NameOf(e)
    BY <1>4 DEF RefusedRuns
  <2>2. e \in ToSet(running_queue) /\ EsiName(esi[e].id) = listen.name
    BY <2>1 DEF ToSet, NameOf
  <2> QED BY <1>0, <2>2, FindEsiFound DEF ListsTypeOK
<1>5. ASSUME NEW t \in Releaser, release[t].pc = "locate"
      PROVE  FindEsi(blocked_queue, release[t].name) # 0
  BY <1>0, <1>5, FindEsiFound DEF ParkedInv, HandParked, ParkedAs, ListsTypeOK
<1>6. (\E e \in ESI : FromEsi(e, "reset")) \/ \E e \in ESI : ChangesUnheld(e)
  BY <1>1, <1>2, <1>3, <1>4, <1>5 DEF Segfault
<1> QED BY <1>6 DEF FromEsi

\* What is sent does not change what arrives next.
LEMMA HeadStays ==
  ASSUME NEW S, NEW q \in Seq(S), q # <<>>
  PROVE  \A frame : Append(q, frame) # <<>> /\ Head(Append(q, frame)) = Head(q)
<1> TAKE frame
<1>1. q \in Seq(S \cup {frame}) /\ frame \in S \cup {frame}
  OBVIOUS
<1>2. PICK T : T = S \cup {frame}
  OBVIOUS
<1>3. /\ Append(q, frame) \in Seq(T) /\ Len(Append(q, frame)) = Len(q) + 1
      /\ Append(q, frame)[1] = q[1]
  BY <1>1, <1>2, AppendProperties
<1> QED BY <1>3

\* The question about a line stays what it is while nobody reads it.
LEMMA UnheldStays ==
  ASSUME TypeOK, OneLine, NEW e \in ESI, ChangesUnheld(e),
         \/ (EsiNext \/ \E f \in ESI : Connect(f)) /\ OthersThanEsi
         \/ CoordinatorNext /\ OthersThanCoordinator
         \/ InstanceNext /\ OthersThanInstance
         \/ UNCHANGED vars
  PROVE  ChangesUnheld(e)'
<1>0. /\ coord_planner \in Seq(CoordinatorFrame) /\ coord_planner # <<>>
      /\ thread[e].pc = "permission" /\ thread[e].id \in InstructionDetail
      /\ Head(coord_planner).type = CheckFor(thread[e].id.operation)
      /\ CoordinatorTypeOK
  BY DEF ChangesUnheld, Arrives, TypeOK, ChannelsTypeOK, CoordinatorTypeOK
<1>1. CheckFor(thread[e].id.operation) \in Checks
  BY <1>0 DEF InstructionDetail, Operation, CheckFor, Checks
<1>2. Carries(coord_planner, Checks)
  BY <1>0, <1>1, FrameReceived
<1>3. planner_coord = <<>> /\ LineAt(e, "asked")
  BY <1>0, <1>2 DEF OneLine, OneQuestion, LineAt, Asking
<1>4. ASSUME thread'[e] = thread[e], fp'[e] = fp[e],
             \/ coord_planner' = coord_planner
             \/ \E frame : coord_planner' = Append(coord_planner, frame)
      PROVE  ChangesUnheld(e)'
  <2>1. coord_planner' # <<>> /\ Head(coord_planner') = Head(coord_planner)
    BY <1>0, <1>4, HeadStays
  <2>2. HeldAfter(e, thread[e].id.key, fp[e] - 1)' <=> HeldAfter(e, thread[e].id.key, fp[e] - 1)
    BY <1>4 DEF HeldAfter
  <2> QED BY <1>4, <2>1, <2>2 DEF ChangesUnheld, Arrives
<1>5. CASE (EsiNext \/ \E f \in ESI : Connect(f)) /\ OthersThanEsi
  <2>1. UNCHANGED <<thread, coord_planner>>
    BY <1>5 DEF OthersThanEsi, coordinatorVars
  <2>2. PICK f \in ESI : \/ Connect(f) \/ FromPlannerNext(f) \/ FromCoordinatorNext(f)
                         \/ CoordinatorHungUp(f) \/ Die(f)
    BY <1>5 DEF EsiNext
  <2>3. CASE f # e
    BY <1>4, <1>5, <2>1, <2>2, <2>3, OtherEsis
  <2>4. CASE f = e
    <3>1. ~parser(e)
      <4>1. ~LineAt(e, "order")
        BY <1>3 DEF OneLine, InOnePlace, Place
      <4> QED BY <4>1, OrderTaken DEF parser, SendLine, SendLastLineAndExit, AbortOnLine, Eof
    <3>2. fp' = fp
      BY <2>2, <2>4, <3>1 DEF Connect, FromPlannerNext, HandshakeOk, UnknownFromPlanner,
         FromCoordinatorNext, CoordHandshakeOk, OperationError, CoordinatorHungUp, Die, esiVars
    <3> QED BY <1>4, <2>1, <3>2
  <2> QED BY <2>3, <2>4
<1>6. CASE CoordinatorNext /\ OthersThanCoordinator
  <2>1. fp' = fp
    BY <1>6 DEF OthersThanCoordinator, esiVars
  <2>2. \/ coord_planner' = coord_planner
        \/ \E frame : coord_planner' = Append(coord_planner, frame)
    BY <1>6 DEF CoordinatorNext, listening_thread, thread_listen_esi, AcceptEsi, AcceptInstance,
       SendInitConfig, ReceiveInstruction, ReceiveFinished, OpFailed, OpOk, InstanceSucceeded,
       InstanceFailed, InstanceGone, NotifyChange, NotifyLineOk, FollowNullInstance, BrokenPipe
  <2>3. thread'[e] = thread[e]
    <3>1. ASSUME NEW f \in ESI, AcceptEsi(f) PROVE thread'[e] = thread[e]
      BY <1>0, <3>1 DEF AcceptEsi, CoordinatorTypeOK
    <3>2. CASE FollowNullInstance \/ BrokenPipe \/ SendInitConfig \/ \E i \in Inst : AcceptInstance(i)
      BY <3>2 DEF FollowNullInstance, BrokenPipe, SendInitConfig, AcceptInstance
    <3>3. ASSUME NEW f \in ESI, thread_listen_esi(f) PROVE f # e
      BY <1>0, <1>3, <3>3 DEF thread_listen_esi, ReceiveInstruction, ReceiveFinished, OpFailed, OpOk,
         InstanceSucceeded, InstanceFailed, InstanceGone, NotifyChange, NotifyLineOk, Arrives
    <3>4. ASSUME NEW f \in ESI, thread_listen_esi(f) PROVE thread'[e] = thread[e]
      <4>1. f # e
        BY <3>3, <3>4
      <4>2. CASE ReceiveInstruction(f) \/ ReceiveFinished(f) \/ OpFailed(f) \/ OpOk(f)
        BY <4>1, <4>2, OtherThreads
      <4>3. CASE InstanceFailed(f) \/ InstanceGone(f) \/ NotifyLineOk(f)
        <5>1. thread' = [thread EXCEPT ![f] = [NoThread EXCEPT !.pc = "recv"]]
          BY <4>3 DEF InstanceFailed, InstanceGone, OperationFailed, NotifyLineOk
        <5> QED BY <1>0, <4>1, <5>1, ThreadFree
      <4>4. CASE InstanceSucceeded(f) \/ NotifyChange(f)
        <5>1. PICK pc : thread' = [thread EXCEPT ![f].pc = pc]
          BY <4>4 DEF InstanceSucceeded, NotifyChange
        <5> QED BY <1>0, <4>1, <5>1, ThreadPc
      <4> QED BY <3>4, <4>2, <4>3, <4>4 DEF thread_listen_esi
    <3> QED BY <1>6, <3>1, <3>2, <3>4 DEF CoordinatorNext, listening_thread
  <2> QED BY <1>4, <2>1, <2>2, <2>3
<1>7. CASE (InstanceNext /\ OthersThanInstance) \/ UNCHANGED vars
  BY <1>4, <1>7 DEF OthersThanInstance, vars, channels, coordinatorVars, esiVars
<1> QED BY <1>5, <1>6, <1>7

\* A reset stays, too.
LEMMA ResetStays ==
  ASSUME TypeOK, NEW f \in ESI, Arrives(esi_planner[f], "reset"),
         \/ (EsiNext \/ \E e \in ESI : Connect(e)) /\ OthersThanEsi
         \/ CoordinatorNext /\ OthersThanCoordinator
         \/ InstanceNext /\ OthersThanInstance
         \/ UNCHANGED vars
  PROVE  Arrives(esi_planner'[f], "reset")
<1>0. /\ esi_planner \in [ESI -> Seq(EsiToPlanner)] /\ esi_planner[f] \in Seq(EsiToPlanner)
      /\ esi_planner[f] # <<>>
  BY DEF TypeOK, ChannelsTypeOK, Arrives
<1>1. CASE (EsiNext \/ \E e \in ESI : Connect(e)) /\ OthersThanEsi
  <2>1. PICK e \in ESI : \/ Connect(e) \/ FromPlannerNext(e) \/ FromCoordinatorNext(e)
                         \/ CoordinatorHungUp(e) \/ Die(e)
    BY <1>1 DEF EsiNext
  <2>2. \/ esi_planner' = esi_planner
        \/ \E frame : esi_planner' = [esi_planner EXCEPT ![e] = Append(@, frame)]
    BY <2>1 DEF Connect, FromPlannerNext, HandshakeOk, UnknownFromPlanner, parser, SendLine,
       SendLastLineAndExit, AbortOnLine, Eof, FromCoordinatorNext, CoordHandshakeOk,
       OperationError, CoordinatorHungUp, Die, SendTo
  <2>3. \A frame : /\ Append(esi_planner[f], frame) # <<>>
                   /\ Head(Append(esi_planner[f], frame)) = Head(esi_planner[f])
    BY <1>0, HeadStays
  <2>4. \/ esi_planner'[f] = esi_planner[f]
        \/ \E frame : esi_planner'[f] = Append(esi_planner[f], frame)
    BY <1>0, <2>2
  <2> QED BY <2>3, <2>4 DEF Arrives
<1>2. CASE \/ CoordinatorNext /\ OthersThanCoordinator
           \/ InstanceNext /\ OthersThanInstance
           \/ UNCHANGED vars
  BY <1>2 DEF OthersThanCoordinator, OthersThanInstance, vars, channels
<1> QED BY <1>1, <1>2

\* Once gone, the planner leaves what has arrived where it is.
PlannerExplained ==
  \/ \E e \in ESI : Arrives(esi_planner[e], "reset") \/ ChangesUnheld(e)
  \/ command_number = "end of input"

LEMMA SegfaultStep ==
  ASSUME TypeOK, ParkedInv, OneLine, RetryInv, ReportInv, HoldingInv, RefusedRuns,
         \A e \in ESI : Attended(e), segfault => PlannerExplained, [Next]_vars
  PROVE  segfault' => PlannerExplained'
<1>1. CASE PlannerNext /\ OthersThanPlanner
  <2>1. ~segfault
    BY <1>1 DEF PlannerNext
  <2>2. CASE Segfault
    <3>1. UNCHANGED <<esi_planner, coord_planner, thread, fp>>
      BY <1>1, <2>2 DEF Segfault, sockets, OthersThanPlanner, coordinatorVars, esiVars
    <3>2. ASSUME NEW e \in ESI, ChangesUnheld(e) PROVE ChangesUnheld(e)'
      <4>1. HeldAfter(e, thread[e].id.key, fp[e] - 1)' <=> HeldAfter(e, thread[e].id.key, fp[e] - 1)
        BY <3>1 DEF HeldAfter
      <4> QED BY <3>1, <3>2, <4>1 DEF ChangesUnheld
    <3> QED BY <2>2, <3>1, <3>2, PlannerGoes DEF PlannerExplained
  <2>3. CASE \E c \in Commands : EndOfInput(c)
    <3>1. command_number' = "end of input"
      BY <2>3 DEF EndOfInput, Command
    <3> QED BY <3>1 DEF PlannerExplained
  <2>4. CASE ~Segfault /\ ~\E c \in Commands : EndOfInput(c)
    <3>1. segfault' = segfault
      BY <1>1, <2>4 DEF PlannerNext, ListenNext, RunNext, ReleaseNext, ConsoleNext, RegisterEsi,
         EsiFinished, Undecoded, LostSocket, HandshakeStatus, HandshakeHeader, HandshakeName, LineOk,
         StatusChanged, GetAllowed, GetDenied, block_esi, WaitForKey, CheckOwner, FindWaiting,
         UnlinkWaiting, LocateBlocked, MoveToReady, RunPoll, RunTake, RunPut, RunStart, ClearRedo,
         pause, resume, block, unblock, quit, Command, plannerVars
    <3> QED BY <2>1, <3>1
  <2> QED BY <2>2, <2>3, <2>4
<1>2. CASE \/ (EsiNext \/ \E e \in ESI : Connect(e)) /\ OthersThanEsi
           \/ CoordinatorNext /\ OthersThanCoordinator
           \/ InstanceNext /\ OthersThanInstance
           \/ UNCHANGED vars
  <2>1. UNCHANGED <<segfault, command_number>>
    BY <1>2 DEF OthersThanEsi, OthersThanCoordinator, OthersThanInstance, vars, plannerVars, console
  <2> QED BY <1>2, <2>1, UnheldStays, ResetStays DEF PlannerExplained
<1> QED BY <1>1, <1>2 DEF Next, Step, Terminated
-----------------------------------------------------------------------------
LEMMA CrashParts ==
  /\ CrashInv <=> /\ segfault => PlannerExplained
                  /\ coordinator_segfault => NoneToAsk
                  /\ \A i \in Inst : instance_state[i] = "crashed" => "startup" \in Windows
                  /\ InstancesUp /\ RefusedRuns /\ \A e \in ESI : Attended(e)
BY DEF CrashInv, CrashesExplained, PlannerExplained, NoneToAsk

LEMMA InitCrash == Init => CrashInv
<1> SUFFICES ASSUME Init PROVE CrashInv
  OBVIOUS
<1>1. /\ ~segfault /\ ~coordinator_segfault /\ listen.pc = "select" /\ registering = None
      /\ \A e \in ESI : process[e] = "off" /\ thread[e].pc = "off" /\ esi_coord[e] = <<>> /\ coord_esi[e] = <<>>
      /\ \A i \in Inst : instance_state[i] = "off" /\ coord_instance[i] = <<>>
  BY DEF Init, PlannerInit, CoordinatorInit, ChannelsInit, EsiInit, InstanceInit, Listening, NoThread
<1>2. \A types : /\ \A e \in ESI : ~Carries(coord_esi[e], types)
                 /\ \A i \in Inst : ~Carries(coord_instance[i], types)
  BY <1>1 DEF Carries
<1>3. InstancesUp
  BY <1>1, <1>2, NoneAssumption DEF InstancesUp
<1>4. \A e \in ESI : Attended(e)
  BY <1>1, <1>2 DEF Attended
<1> QED BY <1>1, <1>3, <1>4, CrashParts DEF RefusedRuns

\* Each part of CrashInv, at each step.
LEMMA CrashStep ==
  ASSUME NoNewline = {}, TypeOK, PlannerInv, QueuePartition, ParkedInv, OneLine, RetryInv,
         PermissionInv, HoldingInv, ToldInv, CrashInv, [Next]_vars
  PROVE  CrashInv'
<1>0. /\ ReportInv /\ InstancesUp /\ RefusedRuns
      /\ \A e \in ESI : Attended(e) /\ LastLineRead(e) /\ LineCarried(e) /\ NextUnasked(e)
      /\ segfault => PlannerExplained
      /\ coordinator_segfault => NoneToAsk
  BY CrashParts DEF PermissionInv, HoldingInv
<1>1. segfault' => PlannerExplained'
  BY <1>0, SegfaultStep
<1>2. coordinator_segfault' => NoneToAsk'
  BY <1>0, CoordinatorExplained
<1>3. InstancesUp'
  BY <1>0, UpStep
<1>4. \A i \in Inst : instance_state'[i] = "crashed" => "startup" \in Windows
  BY <1>3 DEF InstancesUp
<1>5. RefusedRuns'
  BY <1>0, RefusedStep
<1>6. \A e \in ESI : Attended(e)'
  BY <1>0, AttendedStep
<1>7. CrashesExplained'
  BY <1>1, <1>2, <1>4 DEF CrashesExplained, PlannerExplained, NoneToAsk
<1> QED BY <1>3, <1>5, <1>6, <1>7 DEF CrashInv

\* No thread of the coordinator asks for an ESI that has finished, who is to be
\* parked is running, and every Instance that can be asked is registered: so a
\* process goes only for the reasons named.
LEMMA CrashInvHolds ==
  ASSUME "handshake" \notin Windows, "answers" \notin Windows, "console" \notin Windows,
         NoNewline = {}, NoShortSet, IsFiniteSet(ESI), INIT_ID + Cardinality(ESI) <= 10,
         IsInjective(BLOCKED_KEYS), \A c \in Commands : c.name \notin {"bloquear", "desbloquear"}
  PROVE  Spec => []CrashInv
<1>1. Init => CrashInv
  BY InitCrash
<1>2. TypeOK /\ PlannerInv /\ QueuePartition /\ ParkedInv /\ OneLine /\ RetryInv /\ PermissionInv
        /\ HoldingInv /\ ToldInv /\ CrashInv /\ [Next]_vars => CrashInv'
  BY CrashStep
<1>3. Spec => []PlannerInv
  BY SystemRunsPlanner, PlannerInvHolds, PTL
<1>4. Spec => []ParkedInv
  BY SystemRunsPlanner, ParkedInvHolds, PTL
<1>5. \A c \in Commands : c.name # "desbloquear"
  OBVIOUS
<1>6. Spec => []RetryInv
  BY <1>5, RetryInvHolds
<1> QED
  BY <1>1, <1>2, <1>3, <1>4, <1>6, SystemQueuePartition, OneLineHolds, PermissionInvHolds,
     HoldingInvHolds, ToldInvHolds, SystemTypeOK, PTL DEF Spec

\* Whatever the scripts do, and whichever process is killed: of the lookups of
\* the planner only that of a holder fails, for a line that changes a key its
\* script does not hold; the planner goes otherwise with an ESI killed before
\* it had read its orders, or with the console's input; the coordinator
\* because no Instance has come, or one is gone; an Instance when the ESIs did
\* not wait for it (planner launcher.c:165, 187, 532, 547, 599; coordinator
\* launcher.c:188-195; instance launcher.c:169).
THEOREM CrashesAreExplained ==
  ASSUME "handshake" \notin Windows, "answers" \notin Windows, "console" \notin Windows,
         NoNewline = {}, NoShortSet, IsFiniteSet(ESI), INIT_ID + Cardinality(ESI) <= 10,
         IsInjective(BLOCKED_KEYS), \A c \in Commands : c.name \notin {"bloquear", "desbloquear"}
  PROVE  Spec => []CrashesExplained
<1>1. CrashInv => CrashesExplained
  BY DEF CrashInv
<1> QED
  BY <1>1, CrashInvHolds, PTL
-----------------------------------------------------------------------------
(***************************************************************************)
(* What the files hold.  The account of an ESI moves one line at a time:   *)
(* over a GET or a STORE when the planner reads its change, over a SET     *)
(* when its success is read.                                               *)
(***************************************************************************)
Still(f)    == Accounted(f)' = Accounted(f) \/ Accounted(f)' <= 0
Advances(f) == /\ fp[f] > 0 /\ fp'[f] = fp[f]
               /\ Accounted(f) = fp[f] - 1 /\ Accounted(f)' = fp[f]

LEMMA SameAccount ==
  ASSUME NEW f \in ESI, fp'[f] = fp[f],
         Carries(planner_esi'[f], Runs) <=> Carries(planner_esi[f], Runs), Reported(f)' <=> Reported(f)
  PROVE  Still(f)
<1>1. Accounted(f)' = Accounted(f)
  BY AccountOf
<1> QED BY <1>1 DEF Still

LEMMA LineOkMoves ==
  ASSUME TypeOK, PlannerInv, OneLine, ReportInv, OthersThanPlanner, PlannerNext, LineOk, NEW e \in ESI
  PROVE  Still(e)
<1>0. /\ UNCHANGED <<fp, thread, running_queue>> /\ coord_planner \in Seq(CoordinatorFrame)
  BY DEF LineOk, OthersThanPlanner, esiVars, coordinatorVars, queues, TypeOK, ChannelsTypeOK
<1>1. PICK h \in ESI : /\ LineAt(h, "done") /\ Carries(planner_esi'[h], Runs)
                       /\ \A f \in ESI : f # h => planner_esi'[f] = planner_esi[f]
  BY NextOrdered
<1>2. ~Carries(coord_planner, StatusChanges)
  <2>1. coord_planner # <<>> /\ Head(coord_planner).type \in DoneLine
    BY DEF LineOk, FromCoordinator, Arrives, DoneLine
  <2> QED BY <1>0, <2>1, BeforeTail DEF ReportInv, ChangeFirst
<1>3. Executed(h) /\ running_queue = <<h>> /\ \A f \in ESI : Executed(f) => f = h
  BY <1>1, ExecutedAlone DEF Executed
<1>4. CASE e = h
  <2>1. Reported(e)
    BY <1>2, <1>3, <1>4 DEF Reported
  <2>2. Accounted(e)' = Accounted(e)
    BY <1>0, <1>1, <1>4, <2>1, AccountOf
  <2> QED BY <2>2 DEF Still
<1>5. CASE e # h
  <2>1. ~Executed(e) /\ ~Executed(e)'
    <3>1. running_queue' = <<e>> => e = h
      BY <1>0, <1>3
    <3>2. thread'[e].pc = "line_ok" => Executed(e)
      BY <1>0 DEF Executed
    <3> QED BY <1>3, <1>5, <3>1, <3>2 DEF Executed, LineAt
  <2> QED BY <1>0, <1>1, <1>5, <2>1, SameAccount DEF Reported
<1> QED BY <1>4, <1>5

LEMMA ChangeMoves ==
  ASSUME TypeOK, PlannerInv, OneLine, ReportInv, KeyExclusive, ChangeCarried,
         OthersThanPlanner, PlannerNext, StatusChanged, NEW f \in ESI
  PROVE  Still(f) \/ (Advances(f) /\ Script[f][fp[f]].operation \in {"GET_OP", "STORE_OP"})
<1>0. /\ UNCHANGED <<fp, thread, planner_esi, running_queue>>
      /\ coord_planner \in Seq(CoordinatorFrame)
  BY DEF StatusChanged, OthersThanPlanner, esiVars, coordinatorVars, queues, TypeOK, ChannelsTypeOK
<1>1. Carries(coord_planner, StatusChanges) /\ ~Carries(coord_planner', StatusChanges)
  <2>1. /\ coord_planner # <<>> /\ coord_planner' = Tail(coord_planner)
        /\ Head(coord_planner).type \in StatusChanges
    BY DEF StatusChanged, FromCoordinator, Arrives, StatusChanges
  <2> QED BY <1>0, <2>1, FrameReceived DEF ReportInv, ChangeFirst
<1>2. \A h \in ESI : Executed(h)' <=> Executed(h)
  <2>1. ~LineOk
    BY DEF LineOk, StatusChanged, FromCoordinator, Arrives
  <2> QED BY <1>0, <2>1, DoneStays DEF Executed
<1>3. PICK e \in ESI : /\ Executed(e) /\ fp[e] > 0
                       /\ Script[e][fp[e]].operation \in {"GET_OP", "STORE_OP"}
  BY StatusHeld
<1>4. /\ \A h \in ESI : Executed(h) => h = e
      /\ ~Carries(planner_esi[e], Runs)
  <2>1. /\ \A h \in ESI : Executed(h) => h = e
        /\ ~LineAt(e, "order")
    BY <1>3, ExecutedAlone DEF Place
  <2> QED BY <2>1 DEF LineAt, Carries, Orders, Runs
<1>5. CASE f # e
  BY <1>0, <1>2, <1>4, <1>5, SameAccount DEF Reported
<1>6. CASE f = e
  <2>1. ~Reported(e) /\ Reported(e)'
    BY <1>1, <1>2, <1>3 DEF Reported
  <2>2. Accounted(e) = fp[e] - 1 /\ Accounted(e)' = fp[e]
    BY <1>0, <1>4, <2>1, AccountOf
  <2> QED BY <1>0, <1>3, <1>6, <2>2 DEF Advances
<1> QED BY <1>5, <1>6

LEMMA PlannerMoves ==
  ASSUME TypeOK, PlannerInv, RetryInv, OneLine, ReportInv, KeyExclusive, ChangeCarried,
         OthersThanPlanner, PlannerNext, NEW f \in ESI,
         \A c \in Commands : c.name \notin {"bloquear", "desbloquear"}
  PROVE  Still(f) \/ (Advances(f) /\ Script[f][fp[f]].operation \in {"GET_OP", "STORE_OP"})
<1>1. CASE LineOk
  BY <1>1, LineOkMoves
<1>2. CASE StatusChanged
  BY <1>2, ChangeMoves
<1>3. ASSUME ~LineOk, ~StatusChanged
      PROVE  fp' = fp /\ (Reported(f)' <=> Reported(f))
  BY <1>3, PlannerOther DEF Reported
<1>4. CASE ~LineOk /\ ~StatusChanged /\ RunStart
  <2>1. PICK e \in ESI :
          /\ \A g \in ESI : g # e => planner_esi'[g] = planner_esi[g]
          /\ \/ Carries(planner_esi'[e], Runs) <=> Carries(planner_esi[e], Runs)
             \/ Carries(planner_esi'[e], Runs) /\ fp[e] = 0
    BY <1>4, StartOrdered
  <2>2. CASE Carries(planner_esi'[f], Runs) <=> Carries(planner_esi[f], Runs)
    BY <1>3, <1>4, <2>2, SameAccount
  <2>3. CASE fp[f] = 0
    BY <1>3, <1>4, <2>3, AccountOf DEF Still
  <2> QED BY <2>1, <2>2, <2>3
<1>5. CASE ~LineOk /\ ~StatusChanged /\ ~RunStart
  <2>1. Carries(planner_esi'[f], Runs) <=> Carries(planner_esi[f], Runs)
    BY <1>5, SameRuns
  <2> QED BY <1>3, <1>5, <2>1, SameAccount
<1> QED BY <1>1, <1>2, <1>4, <1>5

LEMMA SentMoves ==
  ASSUME TypeOK, OneLine, OthersThanEsi, NEW e \in ESI, SendLine(e), LastLineRead(e)
  PROVE  Still(e)
<1>0. /\ UNCHANGED <<coord_planner, running_queue, thread>>
      /\ fp \in [ESI -> Nat] /\ fp[e] \in Nat /\ process[e] = "on"
      /\ planner_esi[e] # <<>> /\ Head(planner_esi[e]).type \in Orders
      /\ planner_esi[e] \in Seq(PlannerToEsi)
  BY DEF OthersThanEsi, plannerVars, queues, coordinatorVars, TypeOK, EsiTypeOK, ChannelsTypeOK,
     SendLine, Ordered, Arrives, Orders
<1>1. LineAt(e, "order") /\ ~Carries(planner_esi'[e], Orders)
  BY OrderTaken DEF SendLine
<1>2. ~Reported(e) /\ ~Reported(e)'
  <2>1. ~Executed(e)
    BY <1>1, ExecutedAlone DEF Place
  <2> QED BY <1>0, <2>1 DEF Reported, Executed, LineAt
<1>3. ~Carries(planner_esi'[e], Runs)
  BY <1>1 DEF Carries, Orders, Runs
<1>4. PICK line : line = LineToRun(e)
  OBVIOUS
<1>5. fp'[e] = line + 1
  BY <1>0, <1>4 DEF SendLine
<1>6. CASE Head(planner_esi[e]).type = "PLANNER_ESI_RUN"
  <2>1. line = fp[e]
    BY <1>4, <1>6 DEF LineToRun
  <2>2. Carries(planner_esi[e], Runs)
    BY <1>0, <1>6, FrameReceived DEF Runs
  <2>3. Accounted(e)' = Accounted(e)
    BY <1>0, <1>2, <1>3, <1>5, <2>1, <2>2, AccountOf
  <2> QED BY <2>3 DEF Still
<1>7. CASE Head(planner_esi[e]).type # "PLANNER_ESI_RUN"
  <2>1. line = IF fp[e] = 0 THEN 0 ELSE fp[e] - 1
    BY <1>0, <1>4, <1>7 DEF LineToRun, LastLineRead
  <2>2. ~Carries(planner_esi[e], Runs)
    <3>1. Once(planner_esi[e], Orders)
      BY DEF OneLine, SentOnce
    <3>2. Len(planner_esi[e]) > 0 /\ planner_esi[e][1] = Head(planner_esi[e])
      BY <1>0
    <3>3. \A n \in 1..Len(planner_esi[e]) : planner_esi[e][n].type \in Orders => n = 1
      BY <1>0, <3>1, <3>2 DEF Once
    <3> QED BY <1>7, <3>2, <3>3 DEF Carries, Runs, Orders
  <2>3. CASE fp[e] > 0
    <3>1. Accounted(e)' = Accounted(e)
      BY <1>0, <1>2, <1>3, <1>5, <2>1, <2>2, <2>3, AccountOf
    <3> QED BY <3>1 DEF Still
  <2>4. CASE fp[e] = 0
    <3>1. Accounted(e)' = 0
      BY <1>2, <1>3, <1>5, <2>1, <2>4, AccountOf
    <3> QED BY <3>1 DEF Still
  <2> QED BY <1>0, <2>3, <2>4
<1> QED BY <1>6, <1>7

LEMMA EsiMoves ==
  ASSUME TypeOK, OneLine, NamingInv, OthersThanEsi, EsiNext \/ \E e \in ESI : Connect(e),
         \A e \in ESI : LastLineRead(e), NEW f \in ESI, process'[f] # "exited"
  PROVE  process[f] # "exited" /\ Still(f)
<1>0. /\ UNCHANGED <<coord_planner, running_queue, thread>>
      /\ process \in [ESI -> {"off", "on", "exited", "killed"}]
  BY DEF OthersThanEsi, plannerVars, queues, coordinatorVars, TypeOK, EsiTypeOK
<1>1. Reported(f)' <=> Reported(f)
  BY <1>0 DEF Reported, Executed, LineAt
<1>2. PICK e \in ESI : \/ Connect(e) \/ FromPlannerNext(e) \/ FromCoordinatorNext(e)
                       \/ CoordinatorHungUp(e) \/ Die(e)
  BY DEF EsiNext
<1>3. CASE f # e
  <2>1. UNCHANGED <<fp[f], process[f], planner_esi[f]>>
    BY <1>2, <1>3, OtherEsis
  <2> QED BY <1>1, <2>1, SameAccount
<1>4. CASE f = e /\ \/ Connect(e) \/ HandshakeOk(e) \/ UnknownFromPlanner(e)
                    \/ FromCoordinatorNext(e) \/ Die(e)
  <2>1. fp'[f] = fp[f] /\ process[f] # "exited"
    BY <1>4, NoLineRead
  <2>2. Carries(planner_esi'[f], Runs) <=> Carries(planner_esi[f], Runs)
    BY <1>4, RunsStay
  <2> QED BY <1>1, <2>1, <2>2, SameAccount
<1>5. CASE f = e /\ SendLine(e)
  <2>1. process[f] # "exited"
    BY <1>5 DEF SendLine, Ordered
  <2> QED BY <1>5, <2>1, SentMoves
<1>6. ~(SendLastLineAndExit(e) \/ AbortOnLine(e) \/ Eof(e) \/ CoordinatorHungUp(e)) \/ f # e
  BY <1>0 DEF SendLastLineAndExit, AbortOnLine, Eof, CoordinatorHungUp
<1> QED BY <1>2, <1>3, <1>4, <1>5, <1>6 DEF FromPlannerNext, parser

\* The coordinator: a SET is accounted for when its success is read.
LEMMA SuccessMoves ==
  ASSUME TypeOK, PlannerInv, OneLine, ReportInv, OthersThanCoordinator, NEW e \in ESI,
         InstanceSucceeded(e), LineCarried(e)
  PROVE  /\ fp[e] > 0 /\ thread[e].id = LineOf(e) /\ Accounted(e) = fp[e] - 1
         /\ IF LineOf(e).operation = "SET_OP" THEN Advances(e) ELSE Accounted(e)' = Accounted(e)
<1>0. /\ UNCHANGED <<fp, planner_esi, running_queue, coord_planner>>
      /\ fp[e] \in Nat /\ thread[e].pc = "instance"
  BY DEF OthersThanCoordinator, esiVars, plannerVars, queues, InstanceSucceeded, TypeOK, EsiTypeOK
<1>1. fp[e] > 0 /\ thread[e].id = LineOf(e)
  BY <1>0 DEF LineCarried, Executing
<1>2. /\ ~Carries(planner_esi[e], Runs) /\ ~LineAt(e, "done") /\ ~Executed(e)
      /\ ~Carries(coord_planner, StatusChanges)
  <2>1. LineAt(e, "executing") /\ Granted(e)
    BY <1>0 DEF LineAt, Executing, Granted
  <2>2. ~LineAt(e, "order") /\ ~LineAt(e, "done")
    BY <2>1 DEF OneLine, InOnePlace, Place
  <2>3. ~Carries(planner_esi[e], Runs)
    BY <2>2 DEF LineAt, Carries, Orders, Runs
  <2> QED BY <1>0, <2>1, <2>2, <2>3, NothingTold DEF Executed, ReportInv
<1>3. PICK pc : pc = IF ToldOf(thread[e].id.operation) THEN "change" ELSE "line_ok"
  OBVIOUS
<1>4. thread'[e].pc = pc
  BY <1>3, ThreadPc DEF InstanceSucceeded, TypeOK
<1>5. Executed(e)' <=> LineOf(e).operation = "SET_OP"
  BY <1>0, <1>1, <1>2, <1>3, <1>4 DEF Executed, LineAt, ToldOf
<1>6. Accounted(e) = fp[e] - 1
  BY <1>2, AccountOf DEF Reported
<1>7. CASE LineOf(e).operation = "SET_OP"
  <2>1. Reported(e)'
    BY <1>0, <1>2, <1>5, <1>7 DEF Reported
  <2>2. Accounted(e)' = fp[e]
    BY <1>0, <2>1, AccountOf
  <2> QED BY <1>0, <1>1, <1>6, <1>7, <2>2 DEF Advances
<1>8. CASE LineOf(e).operation # "SET_OP"
  <2>1. ~Reported(e)'
    BY <1>5, <1>8 DEF Reported
  <2>2. Accounted(e)' = fp[e] - 1
    BY <1>0, <1>2, <2>1, AccountOf
  <2> QED BY <1>1, <1>6, <1>8, <2>2
<1> QED BY <1>7, <1>8

LEMMA CoordinatorMoves ==
  ASSUME TypeOK, OneLine, ReportInv, OthersThanCoordinator, CoordinatorNext,
         \A e \in ESI : LineCarried(e), NEW f \in ESI, ~InstanceSucceeded(f)
  PROVE  Still(f)
<1>0. UNCHANGED <<fp, planner_esi>>
  BY DEF OthersThanCoordinator, esiVars
<1>1. ASSUME NEW e \in ESI, NotifyChange(e) PROVE ~Reported(f) /\ ~Reported(f)'
  <2>1. ~Executed(f)
    <3>1. thread[e].pc = "change" /\ LineAt(e, "executing")
      BY <1>1 DEF NotifyChange, LineAt, Executing
    <3>2. ~LineAt(f, "done") /\ (LineAt(f, "executing") => f = e)
      BY <3>1 DEF OneLine, InOnePlace, Place
    <3> QED BY <3>1, <3>2 DEF Executed, LineAt, Executing
  <2>2. PICK c : c = [ESIName |-> thread[e].id.ESIName, key |-> thread[e].id.key,
                      status |-> IF thread[e].id.operation = "STORE_OP" THEN "RELEASED" ELSE "BLOCKED"]
    OBVIOUS
  <2>3. PICK frame : frame = WithContent("RESOURCE_STATUS_CHANGE_TO_PLANNER", c)
    OBVIOUS
  <2>4. frame.type \in StatusChanges
    BY <2>3 DEF WithContent, StatusChanges
  <2>5. coord_planner' = Append(coord_planner, frame) /\ coord_planner \in Seq(CoordinatorFrame)
    BY <1>1, <2>2, <2>3 DEF NotifyChange, TypeOK, ChannelsTypeOK
  <2>6. Carries(coord_planner', StatusChanges)
    BY <2>4, <2>5, FrameSent
  <2> QED BY <2>1, <2>6 DEF Reported
<1>2. CASE \A e \in ESI : ~NotifyChange(e)
  <2>1. Reported(f)' <=> Reported(f)
    BY <1>2, CoordinatorOther DEF Reported
  <2> QED BY <1>0, <2>1, SameAccount
<1> QED BY <1>0, <1>1, <1>2, SameAccount

\* The same over every step.
LEMMA AccountStep ==
  ASSUME TypeOK, PlannerInv, OneLine, RetryInv, ReportInv, KeyExclusive, HoldingInv, [Next]_vars,
         \A c \in Commands : c.name \notin {"bloquear", "desbloquear"},
         NEW f \in ESI, process'[f] # "exited",
         ~(InstanceSucceeded(f) /\ OthersThanCoordinator)
  PROVE  /\ process[f] # "exited"
         /\ \/ Still(f)
            \/ /\ Advances(f) /\ thread' = thread
               /\ Script[f][fp[f]].operation \in {"GET_OP", "STORE_OP"}
<1>1. CASE PlannerNext /\ OthersThanPlanner
  BY <1>1, PlannerMoves DEF HoldingInv, OthersThanPlanner, esiVars, coordinatorVars
<1>2. CASE (EsiNext \/ \E e \in ESI : Connect(e)) /\ OthersThanEsi
  BY <1>2, EsiMoves DEF HoldingInv
<1>3. CASE CoordinatorNext /\ OthersThanCoordinator
  BY <1>3, CoordinatorMoves DEF HoldingInv, OthersThanCoordinator, esiVars
<1>4. CASE (InstanceNext /\ OthersThanInstance) \/ UNCHANGED vars
  <2>1. UNCHANGED <<fp, process, planner_esi, running_queue, thread, coord_planner>>
    BY <1>4 DEF OthersThanInstance, vars, channels, plannerVars, queues, coordinatorVars, esiVars
  <2>2. Reported(f)' <=> Reported(f)
    BY <2>1 DEF Reported, Executed, LineAt
  <2> QED BY <2>1, <2>2, SameAccount
<1> QED BY <1>1, <1>2, <1>3, <1>4 DEF Next, Step, Terminated
-----------------------------------------------------------------------------
(***************************************************************************)
(* The value that is being replaced: between the write of the Instance and *)
(* the moment the thread reads its report.                                 *)
(***************************************************************************)
LEMMA NoSuccess ==
  ASSUME TypeOK, ToldInv, NEW e \in ESI, InstanceFailed(e) \/ InstanceGone(e), NEW k
  PROVE  ~Overwriting(e, k)
<1>1. /\ thread[e].pc = "instance" /\ thread[e].inst \in Inst
  BY DEF InstanceFailed, InstanceGone, TypeOK, CoordinatorTypeOK
<1>2. PICK i \in Inst : i = thread[e].inst
  BY <1>1
<1>3. PICK q \in Seq(InstanceToCoordinator) : q = instance_coord[i]
  BY DEF TypeOK, ChannelsTypeOK
<1>4. q # <<>> /\ Head(q).type \in {"INSTANCE_REPORTS_FAILED_OP", "closed"}
  BY <1>2, <1>3 DEF InstanceFailed, InstanceGone, Arrives
<1>5. Len(q) > 0 /\ 1 \in 1..Len(q) /\ Head(q) = q[1]
  BY <1>4
<1>6. ~Carries(q, Successes)
  <2> SUFFICES ASSUME NEW n \in 1..Len(q), q[n].type \in Successes PROVE FALSE
    BY DEF Carries
  <2>1. CASE Head(q).type = "closed"
    <3>1. Len(q) = 1
      BY <1>3, <1>5, <2>1 DEF ToldInv, EndsLast, Ends
    <3> QED BY <1>5, <2>1, <3>1 DEF Successes
  <2>2. CASE Head(q).type = "INSTANCE_REPORTS_FAILED_OP"
    <3>1. n = 1
      BY <1>3, <1>5, <2>2 DEF ToldInv, ReportedOnce, Once, Reports, Successes
    <3> QED BY <1>5, <2>2, <3>1 DEF Successes
  <2> QED BY <1>4, <2>1, <2>2
<1> QED BY <1>2, <1>3, <1>6 DEF Overwriting

\* What is sent leaves what travels in its place.
LEMMA CarriedOn ==
  ASSUME NEW S, NEW q \in Seq(S), NEW types, Carries(q, types)
  PROVE  \A frame : Carries(Append(q, frame), types)
<1> TAKE frame
<1>1. PICK n \in 1..Len(q) : q[n].type \in types
  BY DEF Carries
<1>2. PICK T : T = S \cup {frame}
  OBVIOUS
<1>3. q \in Seq(T) /\ frame \in T
  BY <1>2
<1>4. /\ Len(Append(q, frame)) = Len(q) + 1
      /\ \A m \in 1..Len(q) : Append(q, frame)[m] = q[m]
  BY <1>3, AppendProperties
<1>5. n \in 1..Len(Append(q, frame)) /\ Append(q, frame)[n].type \in types
  BY <1>1, <1>4
<1> QED BY <1>5 DEF Carries

\* A report is neither doubled nor lost before its thread reads it.
LEMMA ReportWaits ==
  ASSUME TypeOK, OneLine, ToldInv, [Next]_vars, NEW f \in ESI, NEW k, Overwriting(f, k)
  PROVE  Overwriting(f, k)' \/ (InstanceSucceeded(f) /\ OthersThanCoordinator)
<1>0. /\ thread[f].pc = "instance" /\ thread[f].inst \in Inst
      /\ instance_coord \in [Inst -> Seq(InstanceToCoordinator)]
  BY DEF Overwriting, TypeOK, CoordinatorTypeOK, ChannelsTypeOK
<1>1. PICK i \in Inst : i = thread[f].inst
  BY <1>0
<1>2. Carries(instance_coord[i], Successes)
  BY <1>1 DEF Overwriting
<1>3. ASSUME thread'[f] = thread[f], Carries(instance_coord'[i], Successes)
      PROVE  Overwriting(f, k)'
  BY <1>1, <1>3 DEF Overwriting
<1>4. CASE InstanceNext /\ OthersThanInstance
  <2>1. thread' = thread
    BY <1>4 DEF OthersThanInstance, coordinatorVars
  <2>2. \/ instance_coord' = instance_coord
        \/ \E j \in Inst : \E frame : instance_coord' = [instance_coord EXCEPT ![j] = Append(@, frame)]
    BY <1>4 DEF InstanceNext, InstanceStep, ConnectInstance, DieInstance, initialize_entry_table,
       FollowNullTable, GetNew, GetKnown, Set, Store, Refuse, Report, SendTo
  <2>3. \/ instance_coord'[i] = instance_coord[i]
        \/ \E frame : instance_coord'[i] = Append(instance_coord[i], frame)
    BY <1>0, <2>2
  <2>4. instance_coord[i] \in Seq(InstanceToCoordinator)
    BY <1>0
  <2>5. Carries(instance_coord'[i], Successes)
    BY <1>2, <2>3, <2>4, CarriedOn
  <2> QED BY <1>3, <2>1, <2>5
<1>5. CASE \/ PlannerNext /\ OthersThanPlanner
           \/ (EsiNext \/ \E e \in ESI : Connect(e)) /\ OthersThanEsi
           \/ UNCHANGED vars
  <2>1. UNCHANGED <<thread, instance_coord>>
    BY <1>5 DEF OthersThanPlanner, OthersThanEsi, vars, channels, coordinatorVars
  <2> QED BY <1>2, <1>3, <2>1
<1>6. CASE CoordinatorNext /\ OthersThanCoordinator
  <2>1. ASSUME NEW e \in ESI, thread_listen_esi(e), e # f
        PROVE  UNCHANGED <<thread[f], instance_coord>>
    <3>1. ~Executing(e)
      BY <1>0, <2>1, OneExecutes DEF Executing
    <3>2. \/ ReceiveInstruction(e) \/ ReceiveFinished(e) \/ OpFailed(e) \/ OpOk(e)
      BY <2>1, <3>1 DEF thread_listen_esi, Executing, InstanceSucceeded, InstanceFailed, InstanceGone,
         NotifyChange, NotifyLineOk
    <3>3. thread'[f] = thread[f]
      BY <2>1, <3>2, OtherThreads
    <3>4. instance_coord' = instance_coord
      BY <3>2 DEF ReceiveInstruction, ReceiveFinished, OpFailed, OpOk
    <3> QED BY <3>3, <3>4
  <2>2. CASE thread_listen_esi(f)
    <3>1. ~InstanceFailed(f) /\ ~InstanceGone(f)
      BY NoSuccess
    <3> QED BY <1>0, <1>6, <2>2, <3>1 DEF thread_listen_esi, ReceiveInstruction, ReceiveFinished, OpFailed,
            OpOk, NotifyChange, NotifyLineOk
  <2>3. CASE listening_thread
    <3>1. CASE \E e \in ESI : AcceptEsi(e)
      <4>1. PICK e \in ESI : AcceptEsi(e)
        BY <3>1
      <4>2. thread' = [thread EXCEPT ![e].pc = "recv"] /\ e # f /\ instance_coord' = instance_coord
        BY <1>0, <4>1 DEF AcceptEsi
      <4>3. thread'[f] = thread[f]
        BY <4>2, ThreadPc DEF TypeOK
      <4> QED BY <1>2, <1>3, <4>2, <4>3
    <3>2. CASE SendInitConfig
      BY <1>2, <1>3, <3>2 DEF SendInitConfig
    <3>3. CASE \E j \in Inst : AcceptInstance(j)
      <4>1. PICK j \in Inst : AcceptInstance(j)
        BY <3>3
      <4>2. /\ thread' = thread /\ instance_coord[j] # <<>> /\ Head(instance_coord[j]).type \notin Successes
            /\ instance_coord' = [instance_coord EXCEPT ![j] = Tail(@)]
        BY <4>1 DEF AcceptInstance, Arrives, Receive, Successes
      <4>3. Carries(instance_coord'[i], Successes)
        BY <1>0, <1>2, <4>2, OtherFramesFamily
      <4> QED BY <1>3, <4>2, <4>3
    <3> QED BY <2>3, <3>1, <3>2, <3>3 DEF listening_thread
  <2>4. CASE FollowNullInstance \/ BrokenPipe
    BY <1>2, <1>3, <2>4 DEF FollowNullInstance, BrokenPipe
  <2> QED BY <1>2, <1>3, <1>6, <2>1, <2>2, <2>3, <2>4 DEF CoordinatorNext
<1> QED BY <1>4, <1>5, <1>6 DEF Next, Step, Terminated
\* What an Instance executes is what the thread that waits for it asked.
LEMMA InstructionOf ==
  ASSUME TypeOK, ToldInv, NEW i \in Inst, NEW operation, Process(i, operation)
  PROVE  \E e \in ESI : /\ WaitsFor(e, i) /\ thread[e].id \in InstructionDetail
                        /\ Received(i) \in Forwarded(thread[e].id)
<1>1. PICK q \in Seq(CoordinatorToInstance) : q = coord_instance[i]
  BY DEF TypeOK, ChannelsTypeOK
<1>2. Alive(i) /\ q # <<>> /\ Head(q).type \in Instructions
  BY <1>1 DEF Process, Alive, Arrives, Instructions
<1>3. 1 \in 1..Len(q) /\ q[1] = Head(q)
  BY <1>2
<1>4. Carries(q, Instructions)
  BY <1>2, <1>3 DEF Carries
<1>5. PICK e \in ESI : WaitsFor(e, i) /\ Brings(q, thread[e].id)
  BY <1>1, <1>2, <1>4 DEF ToldInv, InstructedOnce
<1>6. Received(i) \in Forwarded(thread[e].id)
  BY <1>1, <1>2, <1>3, <1>5 DEF Brings, Received
<1>7. thread[e].id \in InstructionDetail
  BY <1>5 DEF WaitsFor, TypeOK, CoordinatorTypeOK
<1> QED BY <1>5, <1>6, <1>7

\* The value of a key that has one changes only by a SET of that key.
LEMMA ValueMoves ==
  ASSUME IsFiniteSet(Key), Cardinality(Key) <= Q_ENTRIES, TypeOK, TypeOK', BlocksApart,
         InstanceNext, NEW i \in Inst, NEW k \in Key, ValueOf(i, k) # NoData
  PROVE  ValueOf(i, k)' = ValueOf(i, k) \/ \E j \in Inst : Set(j) /\ Received(j).key = k
<1>0. ChannelsTypeOK /\ InstanceTypeOK /\ InstanceTypeOK'
  BY DEF TypeOK
<1>1. PICK j \in Inst : ConnectInstance(j) \/ InstanceStep(j) \/ DieInstance(j)
  BY DEF InstanceNext
<1>2. ASSUME Content' = Content PROVE ValueOf(i, k)' = ValueOf(i, k)
  <2>1. Content'[i][k] = ValueOf(i, k)' /\ Content[i][k] = ValueOf(i, k)
    BY DEF Content
  <2> QED BY <1>2, <2>1
<1>3. ASSUME NEW key \in Key, NEW v, Content' = [Content EXCEPT ![j][key] = v], j # i \/ key # k
      PROVE  ValueOf(i, k)' = ValueOf(i, k)
  <2>1. /\ Content'[i][k] = ValueOf(i, k)' /\ Content[i][k] = ValueOf(i, k)
        /\ \A l \in Inst : DOMAIN Content[l] = Key
        /\ DOMAIN Content = Inst
    BY DEF Content
  <2>2. Content'[i][k] = Content[i][k]
    BY <1>3, <2>1
  <2> QED BY <2>1, <2>2
<1>4. CASE \/ ConnectInstance(j) \/ DieInstance(j) \/ initialize_entry_table(j) \/ FollowNullTable(j) \/ Refuse(j)
  <2>1. UNCHANGED tables
    BY <1>4 DEF ConnectInstance, DieInstance, initialize_entry_table, FollowNullTable, Refuse
  <2> QED BY <1>2, <2>1, TablesSame
<1>5. CASE GetKnown(j)
  BY <1>0, <1>2, <1>5, GetKnownStep
<1>6. PICK id : id = Received(j)
  OBVIOUS
<1>7. ASSUME NEW operation, Process(j, operation)
      PROVE  id \in ForwardedDetail /\ id.key \in Key
  BY <1>0, <1>6, <1>7, ReceivedType DEF Process, ForwardedDetail
<1>8. CASE GetNew(j)
  <2>1. id \in ForwardedDetail /\ id.key \in Key
    BY <1>7, <1>8 DEF GetNew
  <2>2. KS!Get(j, id.key)
    BY <1>0, <1>6, <1>8, <2>1, GetNewStep
  <2>3. Content' = [Content EXCEPT ![j][id.key] = Default] /\ Content[j][id.key] = NoData
    BY <2>2 DEF KS!Get, KS!Known, Content
  <2>4. Content[i][k] = ValueOf(i, k)
    BY DEF Content
  <2> QED BY <1>3, <2>1, <2>3, <2>4
<1>9. CASE Set(j) /\ id.key # k
  <2>1. id \in ForwardedDetail /\ id.key \in Key
    BY <1>7, <1>9 DEF Set
  <2>2. KS!Set(j, id.key, id.value)
    BY <1>0, <1>6, <1>9, <2>1, SetStep
  <2>3. Content' = [Content EXCEPT ![j][id.key] = id.value]
    BY <2>2 DEF KS!Set, Content
  <2> QED BY <1>3, <1>9, <2>1, <2>3
<1>10. CASE Store(j)
  <2>1. id \in ForwardedDetail /\ id.key \in Key
    BY <1>7, <1>10 DEF Store
  <2>2. KS!Store(j, id.key)
    BY <1>0, <1>6, <1>10, <2>1, StoreStep
  <2> QED BY <1>2, <2>2 DEF KS!Store, Content
<1> QED BY <1>1, <1>4, <1>5, <1>6, <1>8, <1>9, <1>10 DEF InstanceStep

\* Who sets a key is its holder: an ESI that has taken it, by its account.
LEMMA OwnerSets ==
  ASSUME TypeOK, IdsDiffer, RetryInv, PermissionInv, HoldingInv, ToldInv, OthersThanInstance,
         NEW i \in Inst, Set(i), NEW k \in Key, Received(i).key = k,
         NEW f \in ESI, process[f] # "exited", fp[f] > 0, HeldAfter(f, k, Accounted(f))
  PROVE  Overwriting(f, k)'
<1>1. Process(i, "SET_OP") /\ Received(i).operation = "SET_OP" /\ Report(i, TRUE)
  BY DEF Set, Process
<1>2. PICK e \in ESI : /\ WaitsFor(e, i) /\ thread[e].id \in InstructionDetail
                       /\ Received(i) \in Forwarded(thread[e].id)
  BY <1>1, InstructionOf
<1>3. thread[e].pc = "instance" /\ thread[e].inst = i /\ SetsKey(thread[e].id, k)
  BY <1>1, <1>2, ForwardedForm DEF WaitsFor, SetsKey
<1>4. fp[e] > 0 /\ thread[e].id = LineOf(e)
  BY <1>3 DEF HoldingInv, LineCarried, Executing
<1>5. thread[e].id.ESIName = NameOf(e)
  BY <1>4 DEF LineOf
<1>6. HeldBy(taken_keys, k, NameOf(e))
  BY <1>3, <1>5 DEF PermissionInv, HeldUntilUsed, Granted, SetsKey
<1>7. e \in Registered /\ f \in Registered
  BY <1>4 DEF RetryInv, Registered
<1>8. HeldBy(taken_keys, k, NameOf(f))
  BY <1>7 DEF HoldingInv, Accounts
<1>9. NameOf(e) = NameOf(f)
  <2>1. PICK n : n = Search(taken_keys, k, "BLOCKED")
    OBVIOUS
  <2>2. taken_keys \in Seq(KeyNode)
    BY DEF TypeOK, PlannerTypeOK, ListsTypeOK
  <2>3. n \in 1..Len(taken_keys) /\ taken_keys[n].key = k /\ taken_keys[n].status = "BLOCKED"
    BY <1>6, <2>1, <2>2, SearchProperties DEF HeldBy
  <2> QED BY <1>6, <1>8, <2>3 DEF HeldBy
<1>10. e = f
  BY <1>7, <1>9, EsiNameInjective DEF NameOf, IdsDiffer, Registered
<1>11. thread' = thread /\ instance_coord \in [Inst -> Seq(InstanceToCoordinator)]
  BY DEF OthersThanInstance, coordinatorVars, TypeOK, ChannelsTypeOK
<1>12. PICK frame : frame = Header("INSTANCE_REPORTS_SUCCESSFUL_OP")
  OBVIOUS
<1>13. instance_coord' = [instance_coord EXCEPT ![i] = Append(@, frame)] /\ frame.type \in Successes
  BY <1>1, <1>12 DEF Report, SendTo, Header, Successes
<1>14. instance_coord'[i] = Append(instance_coord[i], frame) /\ instance_coord[i] \in Seq(InstanceToCoordinator)
  BY <1>11, <1>13
<1>15. Carries(instance_coord'[i], Successes)
  BY <1>13, <1>14, FrameSent
<1> QED BY <1>3, <1>10, <1>11, <1>15 DEF Overwriting

\* What a line set stays, or is being replaced by the next line of its ESI.
LEMMA ValueStep ==
  ASSUME IsFiniteSet(Key), Cardinality(Key) <= Q_ENTRIES, TypeOK, TypeOK', OneLine, IdsDiffer, RetryInv,
         PermissionInv, HoldingInv, ToldInv, BlocksApart, [Next]_vars,
         NEW f \in ESI, process[f] # "exited", fp[f] > 0,
         NEW k \in Key, HeldAfter(f, k, Accounted(f)),
         NEW i \in Inst, NEW v \in Value, Overwriting(f, k) \/ BeginsWith(ValueOf(i, k), v)
  PROVE  \/ Overwriting(f, k)' \/ BeginsWith(ValueOf(i, k)', v)
         \/ Overwriting(f, k) /\ InstanceSucceeded(f) /\ OthersThanCoordinator
<1>1. CASE Overwriting(f, k)
  BY <1>1, ReportWaits
<1>2. CASE BeginsWith(ValueOf(i, k), v) /\ InstanceNext /\ OthersThanInstance
  <2>1. ValueOf(i, k) # NoData
    BY <1>2, DataAssumption DEF BeginsWith, NoData, Text
  <2>2. ValueOf(i, k)' = ValueOf(i, k) \/ \E j \in Inst : Set(j) /\ Received(j).key = k
    BY <1>2, <2>1, ValueMoves
  <2> QED BY <1>2, <2>2, OwnerSets
<1>3. CASE /\ BeginsWith(ValueOf(i, k), v)
           /\ \/ PlannerNext /\ OthersThanPlanner
              \/ (EsiNext \/ \E e \in ESI : Connect(e)) /\ OthersThanEsi
              \/ CoordinatorNext /\ OthersThanCoordinator
              \/ UNCHANGED vars
  <2>1. UNCHANGED tables
    BY <1>3 DEF OthersThanPlanner, OthersThanEsi, OthersThanCoordinator, vars, instanceVars
  <2>2. diccio_table'[i] = diccio_table[i] /\ blocks_table'[i] = blocks_table[i]
    BY <2>1 DEF tables
  <2> QED BY <1>3, <2>2, ValueSame
<1> QED BY <1>1, <1>2, <1>3 DEF Next, Step, Terminated
\* One line more, that is not a SET of the key.
LEMMA LineAdvances ==
  ASSUME NEW f \in ESI, NEW k, NEW n, NEW p \in Nat, p > 0, LastSet(f, k, p, n), NoStore(f, k, n, p),
         ~SetsKey(Script[f][p], k)
  PROVE  /\ LastSet(f, k, p - 1, n) /\ NoStore(f, k, n, p - 1)
         /\ HeldAfter(f, k, p - 1) => HeldAfter(f, k, p)
<1>1. n \in 1..p /\ n # p
  BY DEF LastSet
<1>2. n \in 1..(p - 1) /\ p \in n..p /\ \A m \in n..(p - 1) : m \in n..p
  BY <1>1
<1>3. LastSet(f, k, p - 1, n)
  BY <1>2 DEF LastSet
<1>4. NoStore(f, k, n, p - 1) /\ ~StoresKey(Script[f][p], k)
  BY <1>2 DEF NoStore
<1>5. HeldAfter(f, k, p - 1) => HeldAfter(f, k, p)
  BY <1>4, OneLineMore DEF StoresKey
<1> QED BY <1>3, <1>4, <1>5

\* When the thread of an ESI reads a success, its operation has happened.
LEMMA SuccessHappened ==
  ASSUME TypeOK, OneLine, ToldInv, NEW f \in ESI, InstanceSucceeded(f)
  PROVE  /\ thread[f].pc = "instance" /\ thread[f].inst \in Inst
         /\ Happened(thread[f].id, thread[f].inst)
<1>1. thread[f].pc = "instance" /\ thread[f].inst \in Inst
  BY DEF InstanceSucceeded, TypeOK, CoordinatorTypeOK
<1>2. PICK i \in Inst : i = thread[f].inst
  BY <1>1
<1>3. PICK q \in Seq(InstanceToCoordinator) : q = instance_coord[i]
  BY DEF TypeOK, ChannelsTypeOK
<1>4. q # <<>> /\ Head(q).type \in Successes
  BY <1>2, <1>3 DEF InstanceSucceeded, Arrives, Successes
<1>5. Carries(q, Successes)
  BY <1>4, FrameReceived
<1>6. PICK e \in ESI : WaitsFor(e, i) /\ Happened(thread[e].id, i)
  BY <1>3, <1>5 DEF ToldInv, ReportedOnce
<1>7. e = f
  BY <1>1, <1>6, OneExecutes DEF WaitsFor, Executing
<1> QED BY <1>1, <1>2, <1>6, <1>7

\* The block of the key that an ESI reads a success for.
LEMMA KeptRead ==
  ASSUME \A i, j \in Inst : i = j, TypeOK, PlannerInv, OneLine, RetryInv, PermissionInv, HoldingInv,
         ToldInv, Kept, OthersThanCoordinator, NEW f \in ESI, InstanceSucceeded(f), process[f] # "exited",
         NEW k \in Key, NEW n \in 1..Len(Script[f]),
         LastSet(f, k, Accounted(f)', n), NoStore(f, k, n, Accounted(f)')
  PROVE  HeldAfter(f, k, Accounted(f)') /\ \A i \in Inst : BeginsWith(ValueOf(i, k)', Script[f][n].value)
<1>1. fp[f] \in Nat /\ fp[f] > 0 /\ thread[f].id = LineOf(f)
  BY SuccessMoves DEF TypeOK, EsiTypeOK, HoldingInv, PermissionInv
<1>2. PICK line : line = Script[f][fp[f]]
  OBVIOUS
<1>3. thread[f].id.operation = line.operation /\ thread[f].id.key = line.key /\ thread[f].id.value = line.value
      /\ thread[f].id.ESIName = NameOf(f)
  BY <1>1, <1>2 DEF LineOf
<1>4. LineOf(f).operation = line.operation
  BY <1>2 DEF LineOf
<1>5. IF line.operation = "SET_OP" THEN Advances(f) ELSE Accounted(f)' = Accounted(f)
  BY <1>4, SuccessMoves DEF HoldingInv, PermissionInv
<1>6. \A i \in Inst : ValueOf(i, k)' = ValueOf(i, k)
  BY InstanceSideKept, ValueSame
<1>7. CASE ~SetsKey(line, k)
  <2>1. ~Overwriting(f, k)
    BY <1>3, <1>7 DEF Overwriting, SetsKey
  <2>2. /\ LastSet(f, k, Accounted(f), n) /\ NoStore(f, k, n, Accounted(f))
        /\ HeldAfter(f, k, Accounted(f)) => HeldAfter(f, k, Accounted(f)')
    <3>1. CASE line.operation # "SET_OP"
      BY <1>5, <3>1
    <3>2. CASE line.operation = "SET_OP"
      <4>1. Accounted(f) = fp[f] - 1 /\ Accounted(f)' = fp[f]
        BY <1>5, <3>2 DEF Advances
      <4>2. LastSet(f, k, fp[f], n) /\ NoStore(f, k, n, fp[f])
        BY <4>1
      <4>3. /\ LastSet(f, k, fp[f] - 1, n) /\ NoStore(f, k, n, fp[f] - 1)
            /\ HeldAfter(f, k, fp[f] - 1) => HeldAfter(f, k, fp[f])
        BY <1>1, <1>2, <1>7, <4>2, LineAdvances
      <4> QED BY <4>1, <4>3
    <3> QED BY <3>1, <3>2
  <2>3. HeldAfter(f, k, Accounted(f)) /\ \A i \in Inst : BeginsWith(ValueOf(i, k), Script[f][n].value)
    BY <2>1, <2>2 DEF Kept
  <2> QED BY <1>6, <2>2, <2>3
<1>8. CASE SetsKey(line, k)
  <2>1. Accounted(f) = fp[f] - 1 /\ Accounted(f)' = fp[f] /\ line.operation = "SET_OP" /\ line.key = k
    BY <1>5, <1>8 DEF Advances, SetsKey
  <2>2. n = fp[f]
    <3>1. LastSet(f, k, fp[f], n)
      BY <2>1
    <3>2. n \in 1..fp[f] /\ \A m \in (n + 1)..fp[f] : ~SetsKey(Script[f][m], k)
      BY <3>1 DEF LastSet
    <3>3. fp[f] \notin (n + 1)..fp[f]
      BY <1>2, <1>8, <3>2
    <3> QED BY <1>1, <3>2, <3>3
  <2>3. thread[f].pc = "instance" /\ thread[f].inst \in Inst /\ Happened(thread[f].id, thread[f].inst)
    BY SuccessHappened
  <2>4. BeginsWith(ValueOf(thread[f].inst, k), line.value)
    BY <1>3, <2>1, <2>3 DEF Happened
  <2>5. \A i \in Inst : BeginsWith(ValueOf(i, k), Script[f][n].value)
    BY <1>2, <2>2, <2>3, <2>4
  <2>6. HeldBy(taken_keys, k, NameOf(f))
    BY <1>3, <2>1, <2>3 DEF PermissionInv, HeldUntilUsed, Granted
  <2>7. f \in Registered
    BY <1>1 DEF RetryInv, Registered
  <2>8. HeldAfter(f, k, fp[f] - 1)
    BY <2>1, <2>6, <2>7 DEF HoldingInv, Accounts
  <2>9. HeldAfter(f, k, fp[f])
    BY <1>1, <1>2, <2>1, <2>8, OneLineMore
  <2> QED BY <1>6, <2>1, <2>5, <2>9
<1> QED BY <1>7, <1>8

\* A value that a line set is kept until the next line that sets the key or
\* gives it back.
LEMMA KeptStep ==
  ASSUME IsFiniteSet(Key), Cardinality(Key) <= Q_ENTRIES, \A i, j \in Inst : i = j,
         \A c \in Commands : c.name \notin {"bloquear", "desbloquear"},
         TypeOK, TypeOK', PlannerInv, OneLine, IdsDiffer, RetryInv, PermissionInv, HoldingInv, ToldInv,
         BlocksApart, Kept, [Next]_vars
  PROVE  Kept'
<1> SUFFICES ASSUME NEW f \in ESI, NEW k \in Key, NEW n \in 1..Len(Script[f]), process'[f] # "exited",
                    LastSet(f, k, Accounted(f)', n), NoStore(f, k, n, Accounted(f)')
             PROVE  /\ HeldAfter(f, k, Accounted(f)')
                    /\ \A i \in Inst : Overwriting(f, k)' \/ BeginsWith(ValueOf(i, k)', Script[f][n].value)
  BY DEF Kept
<1>1. CASE InstanceSucceeded(f) /\ OthersThanCoordinator
  <2>1. process[f] # "exited"
    BY <1>1 DEF OthersThanCoordinator, esiVars
  <2> QED BY <1>1, <2>1, KeptRead
<1>2. CASE ~(InstanceSucceeded(f) /\ OthersThanCoordinator)
  <2>1. /\ process[f] # "exited"
        /\ \/ Still(f)
           \/ Advances(f) /\ Script[f][fp[f]].operation \in {"GET_OP", "STORE_OP"}
    BY <1>2, AccountStep DEF PermissionInv
  <2>2. fp[f] \in Nat /\ Script[f][n].value \in Value
    <3>1. Script[f][n] \in Line
      BY ScriptAssumption
    <3> QED BY <3>1 DEF TypeOK, EsiTypeOK, Line
  <2>3. Accounted(f)' \in Int /\ Accounted(f)' > 0
    <3>1. fp'[f] \in Nat
      BY DEF TypeOK, EsiTypeOK
    <3>2. Accounted(f)' \in Int
      BY <3>1, AccountOf
    <3>3. n \in 1..Accounted(f)'
      BY DEF LastSet
    <3> QED BY <3>2, <3>3
  <2>4. /\ LastSet(f, k, Accounted(f), n) /\ NoStore(f, k, n, Accounted(f)) /\ fp[f] > 0
        /\ HeldAfter(f, k, Accounted(f)) => HeldAfter(f, k, Accounted(f)')
    <3>1. CASE Still(f)
      <4>1. Accounted(f)' = Accounted(f)
        BY <2>3, <3>1 DEF Still
      <4>2. fp[f] > 0
        BY <2>2, <2>3, <4>1, AccountOf
      <4> QED BY <4>1, <4>2
    <3>2. CASE Advances(f) /\ Script[f][fp[f]].operation \in {"GET_OP", "STORE_OP"}
      <4>1. Accounted(f) = fp[f] - 1 /\ Accounted(f)' = fp[f] /\ fp[f] > 0
        BY <3>2 DEF Advances
      <4>2. LastSet(f, k, fp[f], n) /\ NoStore(f, k, n, fp[f])
        BY <4>1
      <4>3. ~SetsKey(Script[f][fp[f]], k)
        BY <3>2 DEF SetsKey
      <4>4. /\ LastSet(f, k, fp[f] - 1, n) /\ NoStore(f, k, n, fp[f] - 1)
            /\ HeldAfter(f, k, fp[f] - 1) => HeldAfter(f, k, fp[f])
        BY <2>2, <4>1, <4>2, <4>3, LineAdvances
      <4> QED BY <4>1, <4>4
    <3> QED BY <2>1, <3>1, <3>2
  <2>5. /\ HeldAfter(f, k, Accounted(f))
        /\ \A i \in Inst : Overwriting(f, k) \/ BeginsWith(ValueOf(i, k), Script[f][n].value)
    BY <2>1, <2>4 DEF Kept
  <2>6. \A i \in Inst : Overwriting(f, k)' \/ BeginsWith(ValueOf(i, k)', Script[f][n].value)
    BY <1>2, <2>1, <2>2, <2>4, <2>5, ValueStep
  <2> QED BY <2>4, <2>5, <2>6
<1> QED BY <1>1, <1>2
-----------------------------------------------------------------------------
(***************************************************************************)
(* An ESI is through with a line from the success of the Instance until it *)
(* reads the order of the next line.                                       *)
(***************************************************************************)
Through(f) == thread[f].pc = "change" \/ Executed(f) \/ Carries(planner_esi[f], Runs)

LEMMA ThroughPlanner ==
  ASSUME TypeOK, PlannerInv, RetryInv, OneLine, OthersThanPlanner, PlannerNext,
         NEW f \in ESI, fp'[f] > 0, Through(f)'
  PROVE  Through(f)
<1>0. /\ UNCHANGED <<fp, thread>> /\ coord_planner \in Seq(CoordinatorFrame)
  BY DEF OthersThanPlanner, esiVars, coordinatorVars, TypeOK, ChannelsTypeOK
<1>1. CASE LineOk
  <2>1. PICK h \in ESI : /\ LineAt(h, "done") /\ Carries(planner_esi'[h], Runs)
                         /\ \A g \in ESI : g # h => planner_esi'[g] = planner_esi[g]
    BY <1>1, NextOrdered
  <2>2. LineAt(f, "done")' => LineAt(f, "done")
    <3>1. running_queue' = running_queue /\ coord_planner # <<>> /\ coord_planner' = Tail(coord_planner)
      BY <1>1 DEF LineOk, FromCoordinator, Arrives, queues
    <3>2. NoMore(coord_planner, coord_planner', DoneLine)
      BY <1>0, <3>1, FrameReceived
    <3> QED BY <3>1, <3>2 DEF NoMore, LineAt
  <2>3. CASE f = h
    BY <2>1, <2>3 DEF Through, Executed
  <2>4. CASE f # h
    <3>1. planner_esi'[f] = planner_esi[f]
      BY <2>1, <2>4
    <3> QED BY <1>0, <2>2, <3>1 DEF Through, Executed
  <2> QED BY <2>3, <2>4
<1>2. CASE ~LineOk
  <2>1. LineAt(f, "done")' <=> LineAt(f, "done")
    BY <1>2, DoneStays
  <2>2. Carries(planner_esi'[f], Runs) => Carries(planner_esi[f], Runs)
    <3>1. CASE RunStart
      <4>1. PICK e \in ESI :
              /\ \A g \in ESI : g # e => planner_esi'[g] = planner_esi[g]
              /\ \/ Carries(planner_esi'[e], Runs) <=> Carries(planner_esi[e], Runs)
                 \/ Carries(planner_esi'[e], Runs) /\ fp[e] = 0
        BY <3>1, StartOrdered
      <4>2. fp[f] # 0
        BY <1>0
      <4> QED BY <4>1, <4>2
    <3>2. CASE ~RunStart
      BY <1>2, <3>2, SameRuns
    <3> QED BY <3>1, <3>2
  <2> QED BY <1>0, <2>1, <2>2 DEF Through, Executed
<1> QED BY <1>1, <1>2

LEMMA ThroughEsi ==
  ASSUME TypeOK, OneLine, NamingInv, OthersThanEsi, EsiNext \/ \E e \in ESI : Connect(e),
         NEW f \in ESI, process'[f] # "exited", Through(f)'
  PROVE  process[f] # "exited" /\ fp'[f] = fp[f] /\ Through(f)
<1>0. /\ UNCHANGED <<coord_planner, running_queue, thread>>
      /\ process \in [ESI -> {"off", "on", "exited", "killed"}]
  BY DEF OthersThanEsi, plannerVars, queues, coordinatorVars, TypeOK, EsiTypeOK
<1>1. ASSUME Carries(planner_esi'[f], Runs) => Carries(planner_esi[f], Runs)
      PROVE  Through(f)
  BY <1>0, <1>1 DEF Through, Executed, LineAt
<1>2. PICK e \in ESI : \/ Connect(e) \/ FromPlannerNext(e) \/ FromCoordinatorNext(e)
                       \/ CoordinatorHungUp(e) \/ Die(e)
  BY DEF EsiNext
<1>3. CASE f # e
  <2>1. UNCHANGED <<fp[f], process[f], planner_esi[f]>>
    BY <1>2, <1>3, OtherEsis
  <2> QED BY <1>1, <2>1
<1>4. CASE f = e /\ \/ Connect(e) \/ HandshakeOk(e) \/ UnknownFromPlanner(e)
                    \/ FromCoordinatorNext(e) \/ Die(e)
  <2>1. fp'[f] = fp[f] /\ process[f] # "exited"
    BY <1>4, NoLineRead
  <2>2. Carries(planner_esi'[f], Runs) <=> Carries(planner_esi[f], Runs)
    BY <1>4, RunsStay
  <2> QED BY <1>1, <2>1, <2>2
<1>5. ~(f = e /\ SendLine(e))
  <2> SUFFICES ASSUME SendLine(f) PROVE FALSE
    OBVIOUS
  <2>1. LineAt(f, "order") /\ ~Carries(planner_esi'[f], Orders)
    BY OrderTaken DEF SendLine
  <2>2. ~Carries(planner_esi'[f], Runs)
    BY <2>1 DEF Carries, Orders, Runs
  <2>3. LineAt(f, "executing") \/ LineAt(f, "done")
    BY <1>0, <2>2 DEF Through, Executed, LineAt, Executing
  <2> QED BY <2>1, <2>3 DEF OneLine, InOnePlace, Place
<1>6. ~(SendLastLineAndExit(e) \/ AbortOnLine(e) \/ Eof(e) \/ CoordinatorHungUp(e)) \/ f # e
  BY <1>0 DEF SendLastLineAndExit, AbortOnLine, Eof, CoordinatorHungUp
<1> QED BY <1>2, <1>3, <1>4, <1>5, <1>6 DEF FromPlannerNext, parser

\* Only a success sends a thread to report a change.
LEMMA ChangeStarts ==
  ASSUME TypeOK, "answers" \notin Windows, OthersThanCoordinator, CoordinatorNext,
         NEW f \in ESI, thread'[f].pc = "change"
  PROVE  thread[f].pc \in {"change", "line_ok"} \/ InstanceSucceeded(f)
<1>0. CoordinatorTypeOK
  BY DEF TypeOK
<1>1. CASE \E e \in ESI : \/ AcceptEsi(e) \/ ReceiveInstruction(e) \/ ReceiveFinished(e)
                          \/ OpFailed(e) \/ NotifyChange(e) \/ NotifyLineOk(e)
  BY <1>1, ElsewhereTold DEF Elsewhere
<1>2. CASE (\E i \in Inst : AcceptInstance(i)) \/ SendInitConfig \/ FollowNullInstance \/ BrokenPipe
  BY <1>2 DEF AcceptInstance, SendInitConfig, FollowNullInstance, BrokenPipe
<1>3. ASSUME NEW e \in ESI, OpOk(e) PROVE thread[f].pc = "change"
  <2>1. PICK target \in Inst :
          thread' = [thread EXCEPT ![e] = [@ EXCEPT !.pc = "instance", !.inst = target]]
    BY <1>3, OpOkTarget
  <2>2. thread'[e].pc = "instance" /\ \A g \in ESI : g # e => thread'[g] = thread[g]
    BY <1>0, <2>1, ThreadSent
  <2> QED BY <2>2
<1>4. ASSUME NEW e \in ESI, InstanceFailed(e) \/ InstanceGone(e) PROVE thread[f].pc = "change"
  <2>1. thread' = [thread EXCEPT ![e] = [NoThread EXCEPT !.pc = "recv"]]
    BY <1>4 DEF InstanceFailed, InstanceGone, OperationFailed
  <2>2. thread'[e].pc = "recv" /\ \A g \in ESI : g # e => thread'[g] = thread[g]
    BY <1>0, <2>1, ThreadFree
  <2> QED BY <2>2
<1>5. ASSUME NEW e \in ESI, InstanceSucceeded(e), e # f PROVE thread[f].pc = "change"
  <2>1. PICK pc : pc = IF ToldOf(thread[e].id.operation) THEN "change" ELSE "line_ok"
    OBVIOUS
  <2>2. thread' = [thread EXCEPT ![e].pc = pc]
    BY <1>5, <2>1 DEF InstanceSucceeded
  <2>3. \A g \in ESI : g # e => thread'[g] = thread[g]
    BY <1>0, <2>2, ThreadPc
  <2> QED BY <1>5, <2>3
<1> QED BY <1>1, <1>2, <1>3, <1>4, <1>5 DEF CoordinatorNext, listening_thread, thread_listen_esi

LEMMA ThroughCoordinator ==
  ASSUME TypeOK, OneLine, "answers" \notin Windows, OthersThanCoordinator, CoordinatorNext,
         NEW f \in ESI, Through(f)'
  PROVE  Through(f) \/ InstanceSucceeded(f)
<1>0. UNCHANGED <<planner_esi, running_queue>> /\ coord_planner \in Seq(CoordinatorFrame)
  BY DEF OthersThanCoordinator, plannerVars, queues, TypeOK, ChannelsTypeOK
<1>1. CASE thread'[f].pc = "change"
  BY <1>1, ChangeStarts DEF Through, Executed
<1>2. CASE Carries(planner_esi'[f], Runs)
  BY <1>0, <1>2 DEF Through
<1>3. CASE Executed(f)' /\ \A e \in ESI : ~NotifyChange(e)
  BY <1>3, CoordinatorOther DEF Through
<1>4. ASSUME NEW e \in ESI, NotifyChange(e), Executed(f)' PROVE Through(f)
  <2>1. thread' = [thread EXCEPT ![e].pc = "line_ok"] /\ thread[e].pc = "change"
    BY <1>4 DEF NotifyChange
  <2>2. \A g \in ESI : g # e => thread'[g] = thread[g]
    BY <2>1, ThreadPc DEF TypeOK
  <2>3. PICK frame : /\ coord_planner' = Append(coord_planner, frame)
                     /\ frame.type = "RESOURCE_STATUS_CHANGE_TO_PLANNER"
    BY <1>4 DEF NotifyChange, WithContent
  <2>4. NoMore(coord_planner, coord_planner', DoneLine)
    BY <1>0, <2>3, FrameSent DEF DoneLine
  <2>5. LineAt(f, "done")' => LineAt(f, "done")
    BY <1>0, <2>4 DEF LineAt, NoMore
  <2> QED BY <1>4, <2>1, <2>2, <2>5 DEF Through, Executed
<1> QED BY <1>1, <1>2, <1>3, <1>4 DEF Through
LEMMA ThroughStep ==
  ASSUME "answers" \notin Windows, TypeOK, PlannerInv, RetryInv, OneLine, HoldingInv, [Next]_vars,
         NEW f \in ESI, process'[f] # "exited", fp'[f] > 0, Through(f)'
  PROVE  /\ process[f] # "exited" /\ fp'[f] = fp[f]
         /\ Through(f) \/ (InstanceSucceeded(f) /\ OthersThanCoordinator)
<1>1. CASE PlannerNext /\ OthersThanPlanner
  BY <1>1, ThroughPlanner DEF OthersThanPlanner, esiVars
<1>2. CASE (EsiNext \/ \E e \in ESI : Connect(e)) /\ OthersThanEsi
  BY <1>2, ThroughEsi DEF HoldingInv
<1>3. CASE CoordinatorNext /\ OthersThanCoordinator
  BY <1>3, ThroughCoordinator DEF OthersThanCoordinator, esiVars
<1>4. CASE (InstanceNext /\ OthersThanInstance) \/ UNCHANGED vars
  <2>1. UNCHANGED <<fp, process, planner_esi, running_queue, thread, coord_planner>>
    BY <1>4 DEF OthersThanInstance, vars, channels, plannerVars, queues, coordinatorVars, esiVars
  <2> QED BY <2>1 DEF Through, Executed, LineAt
<1> QED BY <1>1, <1>2, <1>3, <1>4 DEF Next, Step, Terminated

\* No Instance stores while an ESI is through with its line.
LEMMA StoreWaits ==
  ASSUME TypeOK, OneLine, ToldInv, NEW f \in ESI, Through(f), NEW i \in Inst
  PROVE  ~Store(i)
<1> SUFFICES ASSUME Store(i) PROVE FALSE
  OBVIOUS
<1>1. PICK e \in ESI : WaitsFor(e, i)
  BY InstructionOf DEF Store
<1>2. thread[e].pc = "instance" /\ LineAt(e, "executing")
  BY <1>1 DEF WaitsFor, LineAt, Executing
<1>3. LineAt(f, "executing") \/ LineAt(f, "done") \/ LineAt(f, "order")
  BY DEF Through, Executed, LineAt, Executing, Carries, Runs, Orders
<1>4. e = f /\ ~LineAt(f, "done") /\ ~LineAt(f, "order")
  BY <1>2, <1>3 DEF OneLine, InOnePlace, Place
<1>5. ~Carries(planner_esi[f], Runs)
  BY <1>4 DEF LineAt, Carries, Runs, Orders
<1> QED BY <1>2, <1>4, <1>5 DEF Through, Executed

LEMMA FilesStay ==
  ASSUME TypeOK, OneLine, ToldInv, [Next]_vars, NEW f \in ESI,
         Through(f) \/ (InstanceSucceeded(f) /\ OthersThanCoordinator)
  PROVE  mounting_point' = mounting_point
<1>1. CASE InstanceNext /\ OthersThanInstance /\ Through(f)
  <2>1. \A i \in Inst : ~Store(i)
    BY <1>1, StoreWaits
  <2> QED BY <1>1, <2>1 DEF InstanceNext, InstanceStep, ConnectInstance, DieInstance,
          initialize_entry_table, FollowNullTable, GetNew, GetKnown, Set, Refuse
<1>2. CASE \/ PlannerNext /\ OthersThanPlanner
           \/ (EsiNext \/ \E e \in ESI : Connect(e)) /\ OthersThanEsi
           \/ OthersThanCoordinator
           \/ UNCHANGED vars
  BY <1>2 DEF OthersThanPlanner, OthersThanEsi, OthersThanCoordinator, vars, instanceVars
<1> QED BY <1>1, <1>2 DEF Next, Step, Terminated

\* When the success of a STORE is read, the file holds the value that is kept.
LEMMA FiledRead ==
  ASSUME StoredOnce, TypeOK, PlannerInv, OneLine, PermissionInv, HoldingInv, ToldInv, Kept,
         OthersThanCoordinator, NEW f \in ESI, InstanceSucceeded(f), process[f] # "exited",
         NEW k \in Key, NEW n \in 1..Len(Script[f]),
         StoresKey(Script[f][fp[f]], k), LastSet(f, k, fp[f], n)
  PROVE  \E i \in Inst : BeginsWith(mounting_point[i][k], Script[f][n].value)
<1>1. fp[f] > 0 /\ thread[f].id = LineOf(f) /\ Accounted(f) = fp[f] - 1
  BY SuccessMoves DEF HoldingInv, PermissionInv
<1>2. thread[f].inst \in Inst /\ Happened(thread[f].id, thread[f].inst)
  BY SuccessHappened
<1>3. thread[f].id.operation = "STORE_OP" /\ thread[f].id.key = k
  BY <1>1 DEF LineOf, StoresKey
<1>4. mounting_point[thread[f].inst][k] = ValueOf(thread[f].inst, k)
  BY <1>2, <1>3 DEF Happened
<1>5. fp[f] \in Nat /\ fp[f] \in 1..Len(Script[f])
  BY <1>1 DEF TypeOK, EsiTypeOK
<1>6. NoStore(f, k, n, fp[f] - 1)
  BY <1>5 DEF StoredOnce
<1>7. LastSet(f, k, fp[f] - 1, n)
  <2>1. n \in 1..fp[f] /\ SetsKey(Script[f][n], k) /\ \A m \in (n + 1)..fp[f] : ~SetsKey(Script[f][m], k)
    BY DEF LastSet
  <2>2. n # fp[f]
    BY <2>1 DEF SetsKey, StoresKey
  <2>3. n \in 1..(fp[f] - 1) /\ \A m \in (n + 1)..(fp[f] - 1) : m \in (n + 1)..fp[f]
    BY <1>5, <2>1, <2>2
  <2> QED BY <2>1, <2>3 DEF LastSet
<1>8. ~Overwriting(f, k)
  BY <1>3 DEF Overwriting, SetsKey
<1>9. BeginsWith(ValueOf(thread[f].inst, k), Script[f][n].value)
  BY <1>1, <1>2, <1>6, <1>7, <1>8 DEF Kept
<1> QED BY <1>2, <1>4, <1>9

\* What a STORE wrote is there until its ESI reads another line.
LEMMA FiledStep ==
  ASSUME "answers" \notin Windows, StoredOnce, TypeOK, PlannerInv, OneLine, RetryInv, PermissionInv,
         HoldingInv, ToldInv, Kept, Filed, [Next]_vars
  PROVE  Filed'
<1> SUFFICES ASSUME NEW f \in ESI, NEW k \in Key, NEW n \in 1..Len(Script[f]), Through(f)',
                    process'[f] # "exited", fp'[f] > 0,
                    StoresKey(Script[f][fp'[f]], k), LastSet(f, k, fp'[f], n)
             PROVE  \E i \in Inst : BeginsWith(mounting_point'[i][k], Script[f][n].value)
  BY DEF Filed, Through, Runs
<1>1. /\ process[f] # "exited" /\ fp'[f] = fp[f]
      /\ Through(f) \/ (InstanceSucceeded(f) /\ OthersThanCoordinator)
  BY ThroughStep
<1>2. mounting_point' = mounting_point
  BY <1>1, FilesStay
<1>3. fp[f] > 0 /\ StoresKey(Script[f][fp[f]], k) /\ LastSet(f, k, fp[f], n)
  BY <1>1
<1>4. CASE Through(f)
  <2>1. \E i \in Inst : BeginsWith(mounting_point[i][k], Script[f][n].value)
    BY <1>1, <1>3, <1>4 DEF Filed, Through, Runs
  <2> QED BY <1>2, <2>1
<1>5. CASE InstanceSucceeded(f) /\ OthersThanCoordinator
  <2>1. \E i \in Inst : BeginsWith(mounting_point[i][k], Script[f][n].value)
    BY <1>1, <1>3, <1>5, FiledRead
  <2> QED BY <1>2, <2>1
<1> QED BY <1>1, <1>4, <1>5
-----------------------------------------------------------------------------
LEMMA InitFiled == Init => FiledInv
<1> SUFFICES ASSUME Init PROVE Kept /\ Filed
  BY DEF FiledInv
<1>1. \A e \in ESI : fp[e] = 0 /\ planner_esi[e] = <<>>
  BY DEF Init, EsiInit, ChannelsInit
<1>2. \A e \in ESI : Accounted(e) \in {0, -1}
  BY <1>1, AccountOf
<1>3. Kept
  <2>1. \A e \in ESI : 1..Accounted(e) = {}
    BY <1>2
  <2> QED BY <2>1 DEF Kept, LastSet
<1>4. Filed
  BY <1>1 DEF Filed
<1> QED BY <1>3, <1>4

\* What a line has set is kept until the key is set again or given back, and
\* what it stored is in the file (instance launcher.c:178, 187, 268, 298).
THEOREM FiledInvHolds ==
  ASSUME "handshake" \notin Windows, "answers" \notin Windows, "console" \notin Windows,
         NoNewline = {}, NoShortSet, StoredOnce, IsFiniteSet(ESI),
         IsFiniteSet(Key), Cardinality(Key) <= Q_ENTRIES, \A i, j \in Inst : i = j,
         INIT_ID + Cardinality(ESI) <= 10, IsInjective(BLOCKED_KEYS),
         \A c \in Commands : c.name \notin {"bloquear", "desbloquear"}
  PROVE  Spec => []FiledInv
<1>1. Init => FiledInv
  BY InitFiled
<1>2. TypeOK /\ TypeOK' /\ PlannerInv /\ IdsDiffer /\ OneLine /\ RetryInv /\ PermissionInv
        /\ HoldingInv /\ ToldInv /\ BlocksApart /\ FiledInv /\ [Next]_vars => FiledInv'
  BY KeptStep, FiledStep DEF FiledInv
<1>3. Spec => []PlannerInv
  BY SystemRunsPlanner, PlannerInvHolds, PTL
<1>4. ParkedInv => IdsDiffer
  BY DEF ParkedInv
<1>5. Spec => []IdsDiffer
  BY <1>4, SystemRunsPlanner, ParkedInvHolds, PTL
<1>6. \A c \in Commands : c.name # "desbloquear"
  OBVIOUS
<1>7. Spec => []RetryInv
  BY <1>6, RetryInvHolds
<1> QED
  BY <1>1, <1>2, <1>3, <1>5, <1>7, OneLineHolds, PermissionInvHolds, HoldingInvHolds, ToldInvHolds,
     BlocksAreApart, SystemTypeOK, PTL DEF Spec

\* The file of a key that the line just run has stored begins with what the
\* script set last, although an Instance hands out its blocks in a circle, a
\* STORE writes whatever its block holds (instance launcher.c:178, 298) and a
\* value may come with stray bytes (coordinator launcher.c:149-151, 192).
THEOREM FilesBeginWithValues ==
  ASSUME "handshake" \notin Windows, "answers" \notin Windows, "console" \notin Windows,
         NoNewline = {}, NoShortSet, StoredOnce, IsFiniteSet(ESI),
         IsFiniteSet(Key), Cardinality(Key) <= Q_ENTRIES, \A i, j \in Inst : i = j,
         INIT_ID + Cardinality(ESI) <= 10, IsInjective(BLOCKED_KEYS),
         \A c \in Commands : c.name \notin {"bloquear", "desbloquear"}
  PROVE  Spec => []FileBeginsWithValue
<1>1. ASSUME TypeOK, FiledInv PROVE FileBeginsWithValue
  <2> SUFFICES ASSUME NEW e \in ESI, process[e] = "on", Arrives(planner_esi[e], "PLANNER_ESI_RUN"),
                      fp[e] > 0, Script[e][fp[e]].operation = "STORE_OP", NEW n \in 1..fp[e],
                      Script[e][n].operation = "SET_OP", Script[e][n].key = Script[e][fp[e]].key,
                      \A m \in (n + 1)..fp[e] : ~(Script[e][m].operation = "SET_OP"
                                                   /\ Script[e][m].key = Script[e][fp[e]].key)
               PROVE  \E i \in Inst : BeginsWith(mounting_point[i][Script[e][n].key], Script[e][n].value)
    BY DEF FileBeginsWithValue
  <2>1. planner_esi[e] \in Seq(PlannerToEsi) /\ planner_esi[e] # <<>>
        /\ Head(planner_esi[e]).type \in Runs /\ fp[e] \in 1..Len(Script[e])
    BY <1>1 DEF TypeOK, ChannelsTypeOK, EsiTypeOK, Arrives, Runs
  <2>2. Carries(planner_esi[e], Runs)
    BY <2>1, FrameReceived
  <2>3. n \in 1..Len(Script[e]) /\ Script[e][n] \in Line
    BY <2>1, ScriptAssumption
  <2>4. PICK k \in Key : k = Script[e][n].key
    BY <2>3 DEF Line
  <2>5. StoresKey(Script[e][fp[e]], k) /\ LastSet(e, k, fp[e], n)
    BY <2>4 DEF StoresKey, LastSet, SetsKey
  <2> QED BY <1>1, <2>2, <2>3, <2>4, <2>5 DEF FiledInv, Filed, Runs
<1> QED
  BY <1>1, FiledInvHolds, SystemTypeOK, PTL
=============================================================================
