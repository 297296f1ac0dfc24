---------------------------- MODULE SystemProofs ----------------------------
(***************************************************************************)
(* The system: every behaviour of it is one of the planner, so what is     *)
(* proved of the planner alone holds in it; and what its processes send    *)
(* and keep has the types the receivers rely on.  Nothing is assumed of    *)
(* Windows except where a theorem says so.                                 *)
(***************************************************************************)
EXTENDS System, LockProofs

\* Every behaviour of the system is one of the planner with whatever arrives
\* on its sockets.
THEOREM SystemRunsPlanner == Spec => PlannerSpec
<1>1. Init => PlannerInit
  BY DEF Init
<1>2. [Next]_vars => [PlannerNext]_plannerVars
  <2> SUFFICES ASSUME [Next]_vars PROVE [PlannerNext]_plannerVars
    OBVIOUS
  <2>1. CASE PlannerNext /\ OthersThanPlanner
    BY <2>1
  <2>2. ASSUME \/ \E e \in ESI : Connect(e) /\ StartInOrder /\ OthersThanEsi
               \/ EsiNext /\ OthersThanEsi
               \/ CoordinatorNext /\ OthersThanCoordinator
               \/ InstanceNext /\ OthersThanInstance
        PROVE  UNCHANGED plannerVars
    BY <2>2 DEF OthersThanEsi, OthersThanCoordinator, OthersThanInstance
  <2>3. CASE Terminated \/ UNCHANGED vars
    BY <2>3 DEF Terminated, vars
  <2> QED
    BY <2>1, <2>2, <2>3 DEF Next, Step
<1> QED
  BY <1>1, <1>2, PTL DEF Spec, PlannerSpec

\* In the whole system the variables of the planner keep their types.
THEOREM SystemTypes == Spec => []PlannerTypeOK
  BY SystemRunsPlanner, PlannerTypes, PTL

\* In the whole system the processor never has two ESIs, whatever the timing
\* and whatever the operator types.
THEOREM SystemSingleRunning == Spec => []SingleRunning
  BY SystemRunsPlanner, ProcessorIsSingle, PTL

\* In the whole system no ESI is lost or duplicated in the queues, when no
\* release from the console overlaps a handler.
THEOREM SystemQueuePartition ==
  ASSUME "console" \notin Windows
  PROVE  Spec => []QueuePartition
  BY SystemRunsPlanner, EveryEsiInOnePlace, PTL

\* In the whole system no wakeup is lost, when no release from the console overlaps a
\* handler.
THEOREM SystemNoLostWakeup ==
  ASSUME "console" \notin Windows
  PROVE  Spec => []NoLostWakeup
  BY SystemRunsPlanner, WakeupsAreNotLost, PTL

\* In the whole system blocked_queue and the WAITING nodes name the same ESIs
\* except the one in hand, when no release from the console overlaps a handler.
THEOREM SystemWaitersParked ==
  ASSUME "console" \notin Windows
  PROVE  Spec => []WaitersParked
  BY SystemRunsPlanner, WaitersAreParked, PTL

\* In the whole system the queues of the planner move every ESI along its
\* life, when no release from the console overlaps a handler.
THEOREM SystemLifecycle ==
  ASSUME "console" \notin Windows
  PROVE  Spec => ImplementsLifecycle
  BY SystemRunsPlanner, QueuesImplementLifecycle, PTL

\* In the whole system taken_keys and its release loops are a lock service,
\* when no release from the console overlaps a handler.
THEOREM SystemLockService ==
  ASSUME "console" \notin Windows
  PROVE  Spec => ImplementsLockService
  BY SystemRunsPlanner, TakenKeysImplementLocks, PTL

-----------------------------------------------------------------------------
(***************************************************************************)
(* FirstDigit is recursive.  That a function with its equation exists is   *)
(* shown from functions on the numbers up to m, that agree where both are  *)
(* defined: by least counterexample, since < is well founded.              *)
(***************************************************************************)
DigitOf(n, d) == IF n < 10 THEN n ELSE d[n \div 10]
UpTo(m) == {d \in [0..m -> 0..9] : \A n \in 0..m : d[n] = DigitOf(n, d)}

\* A set of numbers that is not empty has a least element.
LEMMA LeastCounterexample ==
  ASSUME NEW S \in SUBSET Nat, S # {}
  PROVE  \E n \in S : \A m \in Nat : m < n => m \notin S
<1>1. PICK n \in S : \A y \in S : n =< y
  BY MinOfNats
<1>2. ASSUME NEW m \in Nat, m < n PROVE m \notin S
  BY <1>1, <1>2
<1> QED
  BY <1>2

\* Up to each number there is a function with the equation of FirstDigit.
LEMMA UpToExists == \A m \in Nat : UpTo(m) # {}
<1> DEFINE Bad == {m \in Nat : UpTo(m) = {}}
<1> SUFFICES ASSUME Bad # {} PROVE FALSE
  OBVIOUS
<1>1. PICK m \in Bad : \A k \in Nat : k < m => k \notin Bad
  BY LeastCounterexample
<1>2. ASSUME m = 0 PROVE FALSE
  <2>1. [n \in 0..m |-> 0] \in UpTo(m)
    BY <1>2 DEF UpTo, DigitOf
  <2> QED BY <2>1
<1>3. ASSUME m # 0 PROVE FALSE
  <2>1. m - 1 \in Nat /\ m - 1 < m
    BY <1>3
  <2>2. PICK d : d \in UpTo(m - 1)
    BY <2>1, <1>1
  <2> DEFINE g == [n \in 0..m |-> IF n < m THEN d[n] ELSE DigitOf(m, d)]
  <2>3. d \in [0..(m - 1) -> 0..9] /\ \A n \in 0..(m - 1) : d[n] = DigitOf(n, d)
    BY <2>2 DEF UpTo
  <2>4. m >= 10 => m \div 10 \in 0..(m - 1)
    OBVIOUS
  <2>5. DigitOf(m, d) \in 0..9
    BY <2>3, <2>4 DEF DigitOf
  <2>6. g \in [0..m -> 0..9]
    BY <2>3, <2>5
  <2>7. ASSUME NEW n \in 0..m PROVE g[n] = DigitOf(n, g)
    <3>1. n >= 10 => n \div 10 \in 0..(m - 1) /\ n \div 10 < m /\ n \div 10 \in 0..m
      OBVIOUS
    <3>2. CASE n < 10
      BY <3>2, <2>3 DEF DigitOf
    <3>3. CASE n >= 10
      <4>1. g[n] = d[n \div 10]
        BY <3>1, <3>3, <2>3 DEF DigitOf
      <4>2. DigitOf(n, g) = g[n \div 10] /\ g[n \div 10] = d[n \div 10]
        BY <3>1, <3>3 DEF DigitOf
      <4> QED BY <4>1, <4>2
    <3> QED BY <3>2, <3>3
  <2> HIDE DEF g
  <2>8. g \in UpTo(m)
    BY <2>6, <2>7 DEF UpTo
  <2> QED BY <2>8
<1> QED BY <1>2, <1>3

\* Two of them agree.
LEMMA UpToUnique ==
  ASSUME NEW m \in Nat, NEW k \in Nat, NEW d \in UpTo(m), NEW f \in UpTo(k),
         NEW n \in 0..m, n \in 0..k
  PROVE  d[n] = f[n]
<1> DEFINE Bad == {i \in Nat : i \in 0..m /\ i \in 0..k /\ d[i] # f[i]}
<1> SUFFICES ASSUME Bad # {} PROVE FALSE
  OBVIOUS
<1>1. PICK i \in Bad : \A j \in Nat : j < i => j \notin Bad
  BY LeastCounterexample
<1>2. d[i] = DigitOf(i, d) /\ f[i] = DigitOf(i, f)
  BY DEF UpTo
<1>3. CASE i < 10
  BY <1>2, <1>3 DEF DigitOf
<1>4. CASE i >= 10
  <2>1. i \div 10 \in Nat /\ i \div 10 < i /\ i \div 10 \in 0..m /\ i \div 10 \in 0..k
    BY <1>4
  <2>2. d[i \div 10] = f[i \div 10]
    BY <2>1, <1>1
  <2> QED BY <1>2, <1>4, <2>2 DEF DigitOf
<1> QED BY <1>3, <1>4

\* So FirstDigit is what its definition says.
LEMMA FirstDigitEquation ==
  FirstDigit = [n \in Nat |-> IF n < 10 THEN n ELSE FirstDigit[n \div 10]]
<1> DEFINE upto[m \in Nat] == CHOOSE d : d \in UpTo(m)
           F == [n \in Nat |-> upto[n][n]]
<1>1. \A m \in Nat : upto[m] \in UpTo(m)
  BY UpToExists
<1>2. ASSUME NEW n \in Nat
      PROVE  F[n] = IF n < 10 THEN n ELSE F[n \div 10]
  <2>1. upto[n][n] = DigitOf(n, upto[n])
    BY <1>1 DEF UpTo
  <2>2. CASE n < 10
    BY <2>1, <2>2 DEF DigitOf
  <2>3. CASE n >= 10
    <3>1. n \div 10 \in Nat /\ n \div 10 \in 0..n /\ n \div 10 \in 0..(n \div 10)
      BY <2>3
    <3> HIDE DEF upto
    <3>2. upto[n][n \div 10] = upto[n \div 10][n \div 10]
      BY <3>1, <1>1, UpToUnique
    <3> QED BY <2>1, <2>3, <3>1, <3>2 DEF DigitOf
  <2> QED BY <2>2, <2>3
<1> HIDE DEF upto
<1>3. F = [n \in Nat |-> IF n < 10 THEN n ELSE F[n \div 10]]
  BY <1>2
<1> HIDE DEF F
<1>4. \E G : G = [n \in Nat |-> IF n < 10 THEN n ELSE G[n \div 10]]
  BY <1>3
<1> QED
  BY <1>4, Zenon DEF FirstDigit

\* The four bytes of a name on the wire hold one digit, and the whole number
\* when it has one.
LEMMA FirstDigitType == \A n \in Nat : FirstDigit[n] \in 0..9 /\ (n < 10 => FirstDigit[n] = n)
<1>1. \A n \in Nat : FirstDigit[n] = IF n < 10 THEN n ELSE FirstDigit[n \div 10]
  BY FirstDigitEquation, Zenon
<1> DEFINE Bad == {n \in Nat : FirstDigit[n] \notin 0..9}
<1>2. ASSUME Bad # {} PROVE FALSE
  <2>1. PICK n \in Bad : \A j \in Nat : j < n => j \notin Bad
    BY <1>2, LeastCounterexample
  <2>2. n < 10 => FALSE
    BY <1>1
  <2>3. n >= 10 => n \div 10 \in Nat /\ n \div 10 < n
    OBVIOUS
  <2> QED BY <1>1, <2>1, <2>2, <2>3
<1> QED BY <1>1, <1>2

\* What the planner answers to a handshake is a name.
LEMMA NameOnWireType == ASSUME NEW n \in Nat PROVE NameOnWire(n) \in Name
<1>1. FirstDigit[n] \in Int
  BY FirstDigitType
<1>2. "ESI" \in {"ESI", "esi", "", "header bytes", "cut"}
  BY Zenon
<1> QED
  BY <1>1, <1>2 DEF NameOnWire, EsiName, Name

\* A frame that joins a family of channels, or leaves it.
LEMMA FamilyTypes ==
  ASSUME NEW P, NEW S, NEW channel \in [P -> Seq(S)], NEW p \in P
  PROVE  /\ \A frame \in S : [channel EXCEPT ![p] = Append(@, frame)] \in [P -> Seq(S)]
         /\ channel[p] # <<>> => [channel EXCEPT ![p] = Tail(@)] \in [P -> Seq(S)]
<1>1. channel[p] \in Seq(S)
  OBVIOUS
<1>2. ASSUME NEW frame \in S
      PROVE  [channel EXCEPT ![p] = Append(@, frame)] \in [P -> Seq(S)]
  <2>1. Append(channel[p], frame) \in Seq(S)
    BY <1>1
  <2> QED BY <2>1
<1>3. ASSUME channel[p] # <<>>
      PROVE  [channel EXCEPT ![p] = Tail(@)] \in [P -> Seq(S)]
  <2>1. Tail(channel[p]) \in Seq(S)
    BY <1>1, <1>3
  <2> QED BY <2>1
<1> QED BY <1>2, <1>3

\* The headers that are sent alone.
LEMMA HeaderTypes ==
  /\ \A type \in {"ESI_PLANNER_HANDSHAKE_OK", "PLANNER_ESI_RUN",
                  "PLANNER_ESI_RUN_LAST_OPERATION"} : Header(type) \in PlannerToEsi
  /\ \A type \in {"PLANNER_COORDINATOR_OP_OK", "PLANNER_COORDINATOR_OP_FAILED"} :
       Header(type) \in PlannerAnswer
  /\ \A type \in {"ESI_PLANNER_HANDSHAKE", "ESI_EXECUTION_FINISHED", "UNKNOWN_MSG_TYPE",
                  "closed", "reset"} : Header(type) \in EsiToPlanner
  /\ \A type \in {"ESI_COORD_HANDSHAKE", "ESI_EXECUTION_FINISHED"} :
       Header(type) \in EsiToCoordinator
  /\ \A type \in {"ESI_COORD_HANDSHAKE_OK", "OPERATION_ERROR", "closed"} :
       Header(type) \in CoordinatorToEsi
  /\ Header("ESI_EXECUTION_LINE_OK") \in CoordinatorFrame
  /\ Header("INSTANCE_COORD_HANDSHAKE_OK") \in CoordinatorToInstance
  /\ \A type \in {"INSTANCE_COORD_HANDSHAKE", "INSTANCE_REPORTS_SUCCESSFUL_OP",
                  "INSTANCE_REPORTS_FAILED_OP", "closed"} :
       Header(type) \in InstanceToCoordinator
<1> USE DEF Header
<1> QED
  BY DEF PlannerToEsi, PlannerAnswer, EsiToPlanner, EsiToCoordinator, CoordinatorToEsi,
         CoordinatorFrame, CoordinatorToInstance, InstanceToCoordinator

\* What the listening thread sends and reads.
LEMMA PlannerSockets ==
  ASSUME ChannelsTypeOK, PlannerInv, PlannerNext, OthersThanPlanner
  PROVE  ChannelsTypeOK'
<1> USE DEF ChannelsTypeOK
<1>0. /\ UNCHANGED <<esi_coord, coord_esi, coord_instance, instance_coord>>
      /\ ESI = ESI /\ esi \in [ESI -> ESIRecord] /\ running_queue \in Seq(ESI)
  BY DEF OthersThanPlanner, PlannerInv, PlannerTypeOK, ListsTypeOK, EsisTypeOK
<1> DEFINE EP == esi_planner' \in [ESI -> Seq(EsiToPlanner)]
           PE == planner_esi' \in [ESI -> Seq(PlannerToEsi)]
           PC == planner_coord' \in Seq(PlannerAnswer)
           CP == coord_planner' \in Seq(CoordinatorFrame)
<1> SUFFICES EP /\ PE /\ PC /\ CP
  BY <1>0
<1>1. ASSUME NEW e \in ESI, RegisterEsi(e) \/ EsiFinished(e) \/ Undecoded(e) \/ LostSocket(e)
      PROVE  EP /\ PE /\ PC /\ CP
  <2>1. /\ Receive(esi_planner, e) /\ esi_planner[e] # <<>>
        /\ UNCHANGED <<planner_esi, planner_coord, coord_planner>>
    BY <1>1 DEF RegisterEsi, EsiFinished, Undecoded, LostSocket, FromEsi, Arrives
  <2> QED BY <2>1, FamilyTypes DEF Receive
<1>2. CASE HandshakeHeader
  <2>1. listen.esi \in ESI
    BY <1>2 DEF PlannerInv, LocalsSound, HandshakeHeader, Answering
  <2> QED BY <2>1, <1>2, FamilyTypes, HeaderTypes DEF HandshakeHeader, SendTo
<1>3. CASE HandshakeName
  <2>1. listen.esi \in ESI
    BY <1>3 DEF PlannerInv, LocalsSound, HandshakeName, Answering
  <2>2. esi[listen.esi].id \in Nat
    BY <2>1, <1>0 DEF ESIRecord
  <2> DEFINE frame == WithContent("name bytes", NameOnWire(esi[listen.esi].id))
  <2>3. frame \in PlannerToEsi
    BY <2>2, NameOnWireType DEF WithContent, PlannerToEsi
  <2>4. /\ SendTo(planner_esi, listen.esi, frame)
        /\ UNCHANGED <<esi_planner, planner_coord, coord_planner>>
    BY <1>3 DEF HandshakeName
  <2> HIDE DEF frame
  <2> QED BY <2>1, <2>3, <2>4, FamilyTypes DEF SendTo
<1>4. CASE LineOk
  <2>1. Head(running_queue) \in ESI /\ coord_planner # <<>>
    BY <1>0, <1>4 DEF LineOk, FromCoordinator, Arrives
  <2>2. planner_esi' = [planner_esi EXCEPT ![Head(running_queue)] =
                           Append(@, Header("PLANNER_ESI_RUN"))]
    BY <1>4 DEF LineOk, OrderNextLine, SendTo
  <2>4. PE
    BY <2>1, <2>2, FamilyTypes, HeaderTypes
  <2>3. EP /\ PC /\ CP
    BY <2>1, <1>4 DEF LineOk
  <2> QED BY <2>3, <2>4
<1>5. CASE StatusChanged \/ GetAllowed \/ GetDenied \/ CheckOwner
  <2>1. coord_planner # <<>> /\ coord_planner' = Tail(coord_planner)
    BY <1>5 DEF StatusChanged, GetAllowed, GetDenied, CheckOwner, FromCoordinator, Arrives
  <2>2. UNCHANGED <<esi_planner, planner_esi>>
    BY <1>5 DEF StatusChanged, GetAllowed, GetDenied, CheckOwner
  <2>3. \/ planner_coord' = planner_coord
        \/ planner_coord' = Append(planner_coord, Header("PLANNER_COORDINATOR_OP_OK"))
        \/ planner_coord' = Append(planner_coord, Header("PLANNER_COORDINATOR_OP_FAILED"))
    BY <1>5 DEF StatusChanged, GetAllowed, GetDenied, CheckOwner
  <2>4. CP
    BY <2>1
  <2>5. ASSUME NEW frame \in PlannerAnswer, planner_coord' = Append(planner_coord, frame)
        PROVE  PC
    BY <2>5, AppendProperties
  <2>6. PC
    BY <2>3, <2>5, HeaderTypes
  <2> QED BY <2>2, <2>4, <2>6
<1>6. CASE RunStart
  <2>1. run.esi \in ESI
    BY <1>6 DEF PlannerInv, LocalsSound, RunStart
  <2> DEFINE type == IF esi[run.esi].redo_last_operation
                       THEN "PLANNER_ESI_RUN_LAST_OPERATION" ELSE "PLANNER_ESI_RUN"
  <2>2. Header(type) \in PlannerToEsi
    BY HeaderTypes
  <2>3. SendTo(planner_esi, run.esi, Header(type)) /\ UNCHANGED <<esi_planner, planner_coord, coord_planner>>
    BY <1>6 DEF RunStart
  <2> HIDE DEF type
  <2>4. PE
    BY <2>1, <2>2, <2>3, FamilyTypes DEF SendTo
  <2> QED BY <2>3, <2>4
<1>7. ASSUME UNCHANGED sockets PROVE EP /\ PE /\ PC /\ CP
  BY <1>7 DEF sockets
<1>8. CASE HandshakeStatus \/ block_esi \/ WaitForKey
  BY <1>8, <1>7 DEF HandshakeStatus, block_esi, WaitForKey
<1>9. CASE RunPoll \/ RunTake \/ RunPut \/ ClearRedo
  BY <1>9, <1>7 DEF RunPoll, RunTake, RunPut, ClearRedo
<1>10. CASE ConsoleNext
  BY <1>10, <1>7 DEF ConsoleNext, pause, resume, block, unblock, quit, EndOfInput, Command
<1>11. CASE Segfault
  BY <1>11, <1>7 DEF Segfault
<1>12. ASSUME NEW t \in Releaser, ReleaseNext(t) PROVE EP /\ PE /\ PC /\ CP
  BY <1>12, <1>7 DEF ReleaseNext, FindWaiting, UnlinkWaiting, LocateBlocked, MoveToReady
<1> HIDE DEF EP, PE, PC, CP
<1> QED
  BY <1>1, <1>2, <1>3, <1>4, <1>5, <1>6, <1>8, <1>9, <1>10, <1>11, <1>12
     DEF PlannerNext, ListenNext, RunNext

\* The position an order makes an ESI read at is one of its script.
LEMMA LineTypes ==
  ASSUME EsiTypeOK, ChannelsTypeOK, NEW e \in ESI, Ordered(e)
  PROVE  /\ LineToRun(e) \in Nat /\ LineToRun(e) <= Len(Script[e])
         /\ ~AtEnd(e) => /\ LineToRun(e) + 1 \in Nat /\ LineToRun(e) + 1 <= Len(Script[e])
                         /\ LineRead(e) \in Line
         /\ ~AtEnd(e) /\ LineRead(e).operation \in Operation => Instruction(e) \in EsiToCoordinator
         /\ planner_esi[e] # <<>>
         /\ planner_esi' = [planner_esi EXCEPT ![e] = Tail(@)]
         /\ fp_beginning_li' = [fp_beginning_li EXCEPT ![e] = LineToRun(e)]
         /\ UNCHANGED <<esi_name, coord_esi>>
<1>1. /\ fp[e] \in Nat /\ fp_beginning_li[e] \in Nat /\ esi_name[e] \in Name
      /\ fp[e] <= Len(Script[e]) /\ fp_beginning_li[e] <= Len(Script[e])
      /\ Script[e] \in Seq(Line)
  BY ScriptAssumption DEF EsiTypeOK
<1>2. LineToRun(e) \in Nat /\ LineToRun(e) <= Len(Script[e])
  BY <1>1 DEF LineToRun
<1>3. ASSUME ~AtEnd(e)
      PROVE  LineToRun(e) + 1 \in 1..Len(Script[e]) /\ LineRead(e) \in Line
  <2>1. LineToRun(e) # Len(Script[e]) /\ Len(Script[e]) \in Nat
    BY <1>1, <1>3 DEF AtEnd
  <2>2. LineToRun(e) + 1 \in 1..Len(Script[e])
    BY <2>1, <1>2
  <2> QED BY <2>2, <1>1 DEF LineRead
<1>4. ASSUME ~AtEnd(e), LineRead(e).operation \in Operation
      PROVE  Instruction(e) \in EsiToCoordinator
  <2>1. LineRead(e).key \in Key /\ LineRead(e).value \in Value
    BY <1>3, <1>4 DEF Line
  <2>2. [ESIName |-> esi_name[e], key |-> LineRead(e).key, operation |-> LineRead(e).operation,
         value |-> LineRead(e).value] \in InstructionDetail
    BY <1>1, <1>4, <2>1 DEF InstructionDetail
  <2> QED BY <2>2 DEF Instruction, WithContent, EsiToCoordinator
<1>5. /\ planner_esi[e] # <<>>
      /\ planner_esi' = [planner_esi EXCEPT ![e] = Tail(@)]
      /\ fp_beginning_li' = [fp_beginning_li EXCEPT ![e] = LineToRun(e)]
      /\ UNCHANGED <<esi_name, coord_esi>>
  BY DEF Ordered, Arrives, Receive
<1> QED
  BY <1>2, <1>3, <1>4, <1>5

\* A line that is read.
LEMMA ParserTypes ==
  ASSUME EsiTypeOK, ChannelsTypeOK, NEW e \in ESI, parser(e), OthersThanEsi
  PROVE  EsiTypeOK' /\ ChannelsTypeOK'
<1>1. Ordered(e)
  BY DEF parser, SendLine, SendLastLineAndExit, AbortOnLine, Eof
<1>2. /\ planner_esi' \in [ESI -> Seq(PlannerToEsi)]
      /\ fp_beginning_li' \in [ESI -> Nat]
      /\ \A f \in ESI : fp_beginning_li'[f] <= Len(Script[f])
      /\ UNCHANGED <<esi_name, coord_esi>>
  <2>1. /\ LineToRun(e) \in Nat /\ LineToRun(e) <= Len(Script[e])
        /\ planner_esi[e] # <<>> /\ planner_esi' = [planner_esi EXCEPT ![e] = Tail(@)]
        /\ fp_beginning_li' = [fp_beginning_li EXCEPT ![e] = LineToRun(e)]
        /\ UNCHANGED <<esi_name, coord_esi>>
    BY <1>1, LineTypes
  <2>2. planner_esi' \in [ESI -> Seq(PlannerToEsi)]
    BY <2>1, FamilyTypes DEF ChannelsTypeOK
  <2> QED BY <2>1, <2>2 DEF EsiTypeOK
<1>3. UNCHANGED <<planner_coord, coord_planner, coord_instance, instance_coord>>
  BY DEF OthersThanEsi
<1>4. Finished \in EsiToPlanner /\ Finished \in EsiToCoordinator
  BY HeaderTypes DEF Finished
<1> DEFINE FP == fp' \in [ESI -> Nat] /\ \A f \in ESI : fp'[f] <= Len(Script[f])
           PR == process' \in [ESI -> {"off", "on", "exited", "killed"}]
           EP == esi_planner' \in [ESI -> Seq(EsiToPlanner)]
           EC == esi_coord' \in [ESI -> Seq(EsiToCoordinator)]
<1>5. ASSUME ~AtEnd(e), fp' = [fp EXCEPT ![e] = LineToRun(e) + 1] PROVE FP
  BY <1>1, <1>5, LineTypes DEF EsiTypeOK
<1>6. ASSUME process' = process \/ process' = [process EXCEPT ![e] = "exited"] PROVE PR
  BY <1>6 DEF EsiTypeOK
<1>7. ASSUME esi_planner' = esi_planner \/ SendTo(esi_planner, e, Finished) PROVE EP
  <2>1. [esi_planner EXCEPT ![e] = Append(@, Finished)] \in [ESI -> Seq(EsiToPlanner)]
    BY <1>4, FamilyTypes DEF ChannelsTypeOK
  <2> QED BY <1>7, <2>1 DEF SendTo, ChannelsTypeOK
<1> HIDE DEF FP, PR, EP, EC
<1>15. fp' = fp => FP
  BY DEF FP, EsiTypeOK
<1>8. ASSUME SendLine(e) PROVE FP /\ PR /\ EP /\ EC
  <2>1. Instruction(e) \in EsiToCoordinator
    BY <1>1, <1>8, LineTypes DEF SendLine
  <2>2. EC
    BY <2>1, <1>8, FamilyTypes DEF SendLine, SendTo, ChannelsTypeOK, EC
  <2>3. /\ ~AtEnd(e) /\ fp' = [fp EXCEPT ![e] = LineToRun(e) + 1]
        /\ process' = process /\ esi_planner' = esi_planner
    BY <1>8 DEF SendLine
  <2> QED BY <2>2, <2>3, <1>5, <1>6, <1>7
<1>9. ASSUME SendLastLineAndExit(e) PROVE FP /\ PR /\ EP /\ EC
  <2>1. Instruction(e) \in EsiToCoordinator
    BY <1>1, <1>9, LineTypes DEF SendLastLineAndExit
  <2>2. esi_coord[e] \o <<Instruction(e), Finished>> \in Seq(EsiToCoordinator)
    BY <2>1, <1>4 DEF ChannelsTypeOK
  <2>3. EC
    BY <2>2, <1>9 DEF SendLastLineAndExit, ChannelsTypeOK, EC
  <2>4. /\ ~AtEnd(e) /\ fp' = [fp EXCEPT ![e] = LineToRun(e) + 1]
        /\ process' = [process EXCEPT ![e] = "exited"] /\ SendTo(esi_planner, e, Finished)
    BY <1>9 DEF SendLastLineAndExit
  <2> QED BY <2>3, <2>4, <1>5, <1>6, <1>7
<1>10. ASSUME AbortOnLine(e) PROVE FP /\ PR /\ EP /\ EC
  <2>1. EC
    BY <1>10 DEF AbortOnLine, ChannelsTypeOK, EC
  <2>2. /\ ~AtEnd(e) /\ fp' = [fp EXCEPT ![e] = LineToRun(e) + 1]
        /\ process' = [process EXCEPT ![e] = "exited"] /\ SendTo(esi_planner, e, Finished)
    BY <1>10 DEF AbortOnLine
  <2> QED BY <2>1, <2>2, <1>5, <1>6, <1>7
<1>11. ASSUME Eof(e) PROVE FP /\ PR /\ EP /\ EC
  <2>1. EC
    BY <1>4, <1>11, FamilyTypes DEF Eof, SendTo, ChannelsTypeOK, EC
  <2>2. FP
    BY <1>11, <1>15 DEF Eof
  <2>3. process' = [process EXCEPT ![e] = "exited"] /\ SendTo(esi_planner, e, Finished)
    BY <1>11 DEF Eof
  <2> QED BY <2>1, <2>2, <2>3, <1>6, <1>7
<1>12. FP /\ PR /\ EP /\ EC
  BY <1>8, <1>9, <1>10, <1>11 DEF parser
<1>13. EsiTypeOK'
  BY <1>2, <1>12 DEF EsiTypeOK, FP, PR
<1>14. ChannelsTypeOK'
  BY <1>2, <1>3, <1>12 DEF ChannelsTypeOK, EP, EC
<1> QED BY <1>13, <1>14

\* The other steps of an ESI.
LEMMA EsiTypes ==
  ASSUME EsiTypeOK, ChannelsTypeOK, EsiNext \/ (\E e \in ESI : Connect(e)), OthersThanEsi
  PROVE  EsiTypeOK' /\ ChannelsTypeOK'
<1>1. UNCHANGED <<planner_coord, coord_planner, coord_instance, instance_coord>>
  BY DEF OthersThanEsi
<1> DEFINE PR == process' \in [ESI -> {"off", "on", "exited", "killed"}]
           EN == esi_name' \in [ESI -> Name]
           EP == esi_planner' \in [ESI -> Seq(EsiToPlanner)]
           PE == planner_esi' \in [ESI -> Seq(PlannerToEsi)]
           EC == esi_coord' \in [ESI -> Seq(EsiToCoordinator)]
           CE == coord_esi' \in [ESI -> Seq(CoordinatorToEsi)]
           Typed == PR /\ EN /\ EP /\ PE /\ EC /\ CE
<1>2. ASSUME Typed, UNCHANGED <<fp, fp_beginning_li>>
      PROVE  EsiTypeOK' /\ ChannelsTypeOK'
  BY <1>1, <1>2 DEF EsiTypeOK, ChannelsTypeOK
<1>3. /\ process \in [ESI -> {"off", "on", "exited", "killed"}] /\ esi_name \in [ESI -> Name]
      /\ esi_planner \in [ESI -> Seq(EsiToPlanner)] /\ planner_esi \in [ESI -> Seq(PlannerToEsi)]
      /\ esi_coord \in [ESI -> Seq(EsiToCoordinator)]
      /\ coord_esi \in [ESI -> Seq(CoordinatorToEsi)]
  BY DEF EsiTypeOK, ChannelsTypeOK
<1>4. ASSUME NEW e \in ESI, Connect(e) PROVE EsiTypeOK' /\ ChannelsTypeOK'
  <2>1. PR /\ EN /\ PE /\ CE
    BY <1>3, <1>4 DEF Connect
  <2>2. EP /\ EC
    BY <1>3, <1>4, HeaderTypes, FamilyTypes DEF Connect, SendTo
  <2> QED BY <2>1, <2>2, <1>2, <1>4 DEF Connect
<1>5. ASSUME NEW e \in ESI, HandshakeOk(e) PROVE EsiTypeOK' /\ ChannelsTypeOK'
  <2>1. planner_esi[e] \in Seq(PlannerToEsi) /\ Len(planner_esi[e]) > 1
    BY <1>3, <1>5 DEF HandshakeOk
  <2>2. planner_esi[e][2] \in PlannerToEsi /\ Tail(Tail(planner_esi[e])) \in Seq(PlannerToEsi)
    <3>1. Len(planner_esi[e]) \in Nat /\ 2 \in 1..Len(planner_esi[e]) /\ planner_esi[e] # <<>>
      BY <2>1
    <3>2. /\ Tail(planner_esi[e]) \in Seq(PlannerToEsi)
          /\ Len(Tail(planner_esi[e])) = Len(planner_esi[e]) - 1
      BY <2>1, <3>1
    <3>3. Tail(planner_esi[e]) # <<>>
      <4>1. Len(Tail(planner_esi[e])) # 0
        BY <2>1, <3>1, <3>2
      <4> QED BY <4>1, <3>2, EmptySeq
    <3> QED BY <2>1, <3>1, <3>2, <3>3
  <2>3. PE
    BY <1>3, <1>5, <2>2 DEF HandshakeOk
  <2>4. planner_esi[e][2].type = "name bytes" => planner_esi[e][2].content \in Name
    BY <2>2 DEF PlannerToEsi
  <2>5. TornName \in Name
    <3>1. "header bytes" \in {"ESI", "esi", "", "header bytes", "cut"}
      BY Zenon
    <3>2. 0 \in Int
      OBVIOUS
    <3> QED BY <3>1, <3>2 DEF TornName, Name
  <2>6. EN
    BY <1>3, <1>5, <2>4, <2>5 DEF HandshakeOk
  <2>7. PR /\ EP /\ EC /\ CE
    BY <1>3, <1>5 DEF HandshakeOk
  <2> QED BY <2>3, <2>6, <2>7, <1>2, <1>5 DEF HandshakeOk
<1>6. ASSUME NEW e \in ESI, UnknownFromPlanner(e) PROVE EsiTypeOK' /\ ChannelsTypeOK'
  <2>1. PE /\ EP
    BY <1>3, <1>6, HeaderTypes, FamilyTypes DEF UnknownFromPlanner, SendTo, Receive, Arrives
  <2>2. PR /\ EN /\ EC /\ CE
    BY <1>3, <1>6 DEF UnknownFromPlanner, esiVars
  <2> QED BY <2>1, <2>2, <1>2, <1>6 DEF UnknownFromPlanner, esiVars
<1>7. ASSUME NEW e \in ESI, CoordHandshakeOk(e) \/ OperationError(e)
      PROVE  EsiTypeOK' /\ ChannelsTypeOK'
  <2>1. CE
    <3>1. coord_esi[e] # <<>> /\ coord_esi' = [coord_esi EXCEPT ![e] = Tail(@)]
      BY <1>7 DEF CoordHandshakeOk, OperationError, Receive, Arrives
    <3> QED BY <3>1, <1>3, FamilyTypes
  <2>3. EC
    <3>1. \/ esi_coord' = esi_coord
          \/ esi_coord' = [esi_coord EXCEPT ![e] = Append(@, Header("ESI_EXECUTION_FINISHED"))]
      BY <1>7 DEF CoordHandshakeOk, OperationError, SendTo, Finished
    <3>2. [esi_coord EXCEPT ![e] = Append(@, Header("ESI_EXECUTION_FINISHED"))] \in
            [ESI -> Seq(EsiToCoordinator)]
      BY <1>3, HeaderTypes, FamilyTypes
    <3> QED BY <3>1, <3>2, <1>3
  <2>2. PR /\ EN /\ EP /\ PE
    BY <1>3, <1>7 DEF CoordHandshakeOk, OperationError, esiVars
  <2> QED BY <2>1, <2>2, <2>3, <1>2, <1>7 DEF CoordHandshakeOk, OperationError, esiVars
<1>8. ASSUME NEW e \in ESI, CoordinatorHungUp(e) \/ Die(e)
      PROVE  EsiTypeOK' /\ ChannelsTypeOK'
  <2>1. EndOf(planner_esi[e]) \in EsiToPlanner
    BY HeaderTypes DEF EndOf
  <2>2. EP
    <3>1. esi_planner' = [esi_planner EXCEPT ![e] = Append(@, EndOf(planner_esi[e]))]
      BY <1>8 DEF CoordinatorHungUp, Die, SendTo
    <3> QED BY <3>1, <2>1, <1>3, FamilyTypes
  <2>3. CE
    <3>1. CASE Die(e)
      BY <3>1, <1>3 DEF Die
    <3>2. CASE CoordinatorHungUp(e)
      <4>1. coord_esi[e] # <<>> /\ coord_esi' = [coord_esi EXCEPT ![e] = Tail(@)]
        BY <3>2 DEF CoordinatorHungUp, Receive, Arrives
      <4> QED BY <4>1, <1>3, FamilyTypes
    <3> QED BY <1>8, <3>1, <3>2
  <2>4. PR /\ EN /\ PE /\ EC
    BY <1>3, <1>8 DEF CoordinatorHungUp, Die
  <2> QED BY <2>2, <2>3, <2>4, <1>2, <1>8 DEF CoordinatorHungUp, Die
<1>9. ASSUME NEW e \in ESI, parser(e) PROVE EsiTypeOK' /\ ChannelsTypeOK'
  BY <1>9, ParserTypes
<1> QED
  BY <1>4, <1>5, <1>6, <1>7, <1>8, <1>9 DEF EsiNext, FromPlannerNext, FromCoordinatorNext

\* get_instance_index_to_use answers a position of the list, or -1; not -1 if
\* there is an Instance and the algorithm is EL.
LEMMA IndexRange ==
  ASSUME CoordinatorTypeOK
  PROVE  /\ get_instance_index_to_use \in -1..(Len(instances) - 1)
         /\ DISTR_ALG = "EL" /\ instances # <<>> => get_instance_index_to_use # -1
<1> DEFINE n == Len(instances)
           start == IF eq_load_alg_last_used_inst + 1 = n
                      THEN 0 ELSE eq_load_alg_last_used_inst + 1
           At(turn) == (start + turn) % n
           Free == {turn \in 0..(n - 1) : instances[At(turn) + 1].status = "AVAILABLE"}
           first == CHOOSE turn \in Free : \A other \in Free : turn <= other
<1>1. n \in Nat /\ eq_load_alg_last_used_inst \in -1..(n - 1)
  BY DEF CoordinatorTypeOK
<1>2. start \in Nat
  BY <1>1
<1>3. get_instance_index_to_use =
        IF n = 0 \/ DISTR_ALG # "EL" \/ Free = {} THEN -1 ELSE At(first)
  BY DEF get_instance_index_to_use
<1>4. Free \in SUBSET Nat
  OBVIOUS
<1>6. ASSUME n # 0 PROVE Free # {}
  <2>1. At(0) \in 0..(n - 1)
    BY <1>1, <1>6
  <2> HIDE DEF start
  <2>2. instances[At(0) + 1].status = "AVAILABLE"
    <3>1. instances \in Seq([inst : Inst, status : {"AVAILABLE"}])
      BY DEF CoordinatorTypeOK
    <3>2. PICK at \in 1..n : at = At(0) + 1
      BY <1>1, <2>1
    <3>3. instances[at] \in [inst : Inst, status : {"AVAILABLE"}]
      BY <3>1, ElementOfSeq
    <3> QED BY <3>2, <3>3
  <2>3. 0 \in 0..(n - 1)
    BY <1>1, <1>6
  <2> HIDE DEF At, n
  <2> QED BY <2>2, <2>3
<1>7. instances # <<>> => n # 0
  BY DEF CoordinatorTypeOK
<1> HIDE DEF start, Free
<1>5. ASSUME n # 0, Free # {} PROVE At(first) \in 0..(n - 1)
  <2>1. Min(Free) \in Free /\ \A y \in Free : Min(Free) <= y
    BY <1>4, <1>5, MinOfNats
  <2>2. first \in Free
    BY <2>1
  <2>3. first \in Nat
    BY <2>2, <1>4
  <2> HIDE DEF first, n
  <2>4. (start + first) \in Nat /\ n \in Nat /\ n > 0
    BY <1>1, <1>2, <1>5, <2>3
  <2> QED BY <2>4
<1> HIDE DEF first
<1>8. get_instance_index_to_use \in -1..(n - 1)
  BY <1>1, <1>3, <1>5
<1>9. ASSUME DISTR_ALG = "EL", instances # <<>> PROVE get_instance_index_to_use # -1
  <2>1. get_instance_index_to_use = At(first)
    BY <1>3, <1>6, <1>7, <1>9
  <2> QED BY <1>1, <1>5, <1>6, <1>7, <1>9, <2>1
<1> QED BY <1>8, <1>9

\* A step of a thread that works for an ESI leaves it with what it needs.
LEMMA ThreadTypes ==
  ASSUME CoordinatorTypeOK, NEW e \in ESI, NEW r \in ThreadRecord,
         r.pc \in {"permission", "instance", "change", "line_ok"} => r.id \in InstructionDetail,
         r.pc \in {"instance", "change", "line_ok"} => r.inst \in Inst,
         thread' = [thread EXCEPT ![e] = r],
         UNCHANGED <<instances, registering>>,
         eq_load_alg_last_used_inst' \in -1..(Len(instances) - 1),
         coordinator_segfault' \in BOOLEAN
  PROVE  CoordinatorTypeOK'
BY DEF CoordinatorTypeOK

\* The record of a thread is made of its three parts.
LEMMA ThreadParts ==
  ASSUME CoordinatorTypeOK, NEW e \in ESI,
         NEW pc \in {"off", "recv", "permission", "instance", "change", "line_ok", "done"}
  PROVE  /\ [thread EXCEPT ![e].pc = pc] = [thread EXCEPT ![e] = [@ EXCEPT !.pc = pc]]
         /\ [thread[e] EXCEPT !.pc = pc] = [pc |-> pc, id |-> thread[e].id, inst |-> thread[e].inst]
         /\ [thread[e] EXCEPT !.pc = pc] \in ThreadRecord
         /\ thread[e].id \in InstructionDetail \cup {None} /\ thread[e].inst \in Inst \cup {None}
BY DEF CoordinatorTypeOK, ThreadRecord

\* What a thread that received an instruction keeps of it.
LEMMA KeptTypes ==
  ASSUME NEW received \in InstructionDetail
  PROVE  /\ [received EXCEPT !.ESIName = NameKept(received)] \in InstructionDetail
         /\ [received EXCEPT !.ESIName = NameKept(received)] =
              [ESIName |-> NameKept(received), key |-> received.key,
               operation |-> received.operation, value |-> received.value]
<1>1. CutName \in Name
  <2>1. "cut" \in {"ESI", "esi", "", "header bytes", "cut"}
    BY Zenon
  <2>2. 0 \in Int
    OBVIOUS
  <2> QED BY <2>1, <2>2 DEF CutName, Name
<1>2. NameKept(received) \in Name
  BY <1>1 DEF NameKept, InstructionDetail
<1> QED BY <1>2 DEF InstructionDetail

\* What a thread forwards: its instruction, with a value that begins as that does.
LEMMA ForwardedForm ==
  ASSUME NEW id \in InstructionDetail, NEW sent \in Forwarded(id)
  PROVE  /\ sent \in ForwardedDetail
         /\ sent.ESIName = id.ESIName /\ sent.key = id.key /\ sent.operation = id.operation
         /\ sent.value \in Text /\ BeginsWith(sent.value, id.value)
<1>1. PICK tail \in {"", "stray bytes"} : sent = [id EXCEPT !.value = <<id.value, tail>>]
  <2>1. PICK t \in IF id.operation = "SET_OP" THEN {"", "stray bytes"} ELSE {""} :
          sent = [id EXCEPT !.value = <<@, t>>]
    BY DEF Forwarded
  <2> QED
    BY <2>1
<1>2. /\ id.ESIName \in Name /\ id.key \in Key /\ id.operation \in Operation /\ id.value \in Value
      /\ id = [ESIName |-> id.ESIName, key |-> id.key, operation |-> id.operation, value |-> id.value]
  BY DEF InstructionDetail
<1>3. sent = [ESIName |-> id.ESIName, key |-> id.key, operation |-> id.operation,
              value |-> <<id.value, tail>>]
  BY <1>1, <1>2
<1>4. <<id.value, tail>> \in Text
  BY <1>2 DEF Text
<1> QED
  BY <1>2, <1>3, <1>4 DEF ForwardedDetail, BeginsWith

\* What a thread asks and reports.
LEMMA CoordinatorFrames ==
  ASSUME NEW id \in InstructionDetail
  PROVE  /\ CheckFor(id.operation) \in
              {"CAN_ESI_GET_KEY", "CAN_ESI_SET_KEY", "CAN_ESI_STORE_KEY"}
         /\ WithContent(CheckFor(id.operation), [ESIName |-> id.ESIName, key |-> id.key])
              \in CoordinatorFrame
         /\ \A sent \in Forwarded(id) :
              WithContent("INSTRUCTION_DETAIL_TO_INSTANCE", sent) \in CoordinatorToInstance
         /\ WithContent("RESOURCE_STATUS_CHANGE_TO_PLANNER",
              [ESIName |-> id.ESIName, key |-> id.key,
               status |-> IF id.operation = "STORE_OP" THEN "RELEASED" ELSE "BLOCKED"])
              \in CoordinatorFrame
<1>1. id.operation \in Operation /\ id.ESIName \in Name /\ id.key \in Key
  BY DEF InstructionDetail
<1>2. CheckFor(id.operation) \in {"CAN_ESI_GET_KEY", "CAN_ESI_SET_KEY", "CAN_ESI_STORE_KEY"}
  BY <1>1 DEF CheckFor, Operation
<1>3. WithContent(CheckFor(id.operation), [ESIName |-> id.ESIName, key |-> id.key]) \in Check
  BY <1>1, <1>2 DEF WithContent, Check
<1>4. ASSUME NEW sent \in Forwarded(id)
      PROVE  WithContent("INSTRUCTION_DETAIL_TO_INSTANCE", sent) \in CoordinatorToInstance
  <2>1. sent \in ForwardedDetail
    BY ForwardedForm
  <2> QED
    BY <2>1 DEF WithContent, CoordinatorToInstance
<1> DEFINE status == IF id.operation = "STORE_OP" THEN "RELEASED" ELSE "BLOCKED"
<1>5. status \in {"BLOCKED", "RELEASED"}
  OBVIOUS
<1>6. WithContent("RESOURCE_STATUS_CHANGE_TO_PLANNER",
        [ESIName |-> id.ESIName, key |-> id.key, status |-> status]) \in StatusChange
  BY <1>1, <1>5 DEF WithContent, StatusChange
<1> QED
  BY <1>2, <1>3, <1>4, <1>6 DEF CoordinatorFrame

\* A thread that takes an instruction.
LEMMA ThreadAsks ==
  ASSUME CoordinatorTypeOK, NEW e \in ESI, NEW id \in InstructionDetail
  PROVE  /\ [thread EXCEPT ![e] = [@ EXCEPT !.pc = "permission", !.id = id]] =
              [thread EXCEPT ![e] = [pc |-> "permission", id |-> id, inst |-> thread[e].inst]]
         /\ [pc |-> "permission", id |-> id, inst |-> thread[e].inst] \in ThreadRecord
<1>1. thread[e] \in ThreadRecord
  BY DEF CoordinatorTypeOK
<1> DEFINE t == thread[e]
<1>10. t = [x \in DOMAIN t |-> t[x]]
  BY <1>1 DEF ThreadRecord
<1>2. /\ thread[e] = [x \in {"pc", "id", "inst"} |-> thread[e][x]]
      /\ thread[e].id \in InstructionDetail \cup {None}
      /\ thread[e].inst \in Inst \cup {None}
  BY <1>1 DEF ThreadRecord
<1>3. [pc |-> "permission", id |-> id, inst |-> thread[e].inst] \in ThreadRecord
  BY <1>2 DEF ThreadRecord
<1> DEFINE moved == [thread[e] EXCEPT !.pc = "permission"]
           updated == [moved EXCEPT !.id = id]
           literal == [pc |-> "permission", id |-> id, inst |-> thread[e].inst]
<1>4. DOMAIN updated = {"pc", "id", "inst"} /\ DOMAIN literal = {"pc", "id", "inst"}
  <2>1. DOMAIN moved = {"pc", "id", "inst"}
    BY <1>2
  <2>2. DOMAIN updated = DOMAIN moved
    BY Zenon
  <2>3. DOMAIN literal = {"pc", "id", "inst"}
    OBVIOUS
  <2> QED BY <2>1, <2>2, <2>3
<1>5. \A x \in {"pc", "id", "inst"} : updated[x] = literal[x]
  <2>1. DOMAIN moved = {"pc", "id", "inst"}
    BY <1>2
  <2>2. \A x \in {"pc", "id", "inst"} : moved[x] = IF x = "pc" THEN literal.pc ELSE thread[e][x]
    BY <1>2
  <2> HIDE DEF moved
  <2> QED BY <2>1, <2>2
<1>6. updated = [x \in DOMAIN updated |-> updated[x]]
  BY Zenon
<1>7. literal = [x \in DOMAIN literal |-> literal[x]]
  BY Zenon
<1>8. [thread EXCEPT ![e] = [@ EXCEPT !.pc = "permission", !.id = id]] = [thread EXCEPT ![e] = updated]
  OBVIOUS
<1> HIDE DEF updated, literal
<1>9. updated = literal
  BY <1>4, <1>5, <1>6, <1>7
<1> QED BY <1>3, <1>8, <1>9 DEF literal

\* A thread that takes its instruction to an Instance.
LEMMA ThreadGoes ==
  ASSUME CoordinatorTypeOK, NEW e \in ESI, NEW target \in Inst
  PROVE  /\ [thread EXCEPT ![e] = [@ EXCEPT !.pc = "instance", !.inst = target]] =
              [thread EXCEPT ![e] = [pc |-> "instance", id |-> thread[e].id, inst |-> target]]
         /\ [pc |-> "instance", id |-> thread[e].id, inst |-> target] \in ThreadRecord
<1>1. thread[e] \in ThreadRecord
  BY DEF CoordinatorTypeOK
<1> DEFINE t == thread[e]
<1>10. t = [x \in DOMAIN t |-> t[x]]
  BY <1>1 DEF ThreadRecord
<1>2. /\ thread[e] = [x \in {"pc", "id", "inst"} |-> thread[e][x]]
      /\ thread[e].id \in InstructionDetail \cup {None}
      /\ thread[e].inst \in Inst \cup {None}
  BY <1>1 DEF ThreadRecord
<1>3. [pc |-> "instance", id |-> thread[e].id, inst |-> target] \in ThreadRecord
  BY <1>2 DEF ThreadRecord
<1> DEFINE moved == [thread[e] EXCEPT !.pc = "instance"]
           updated == [moved EXCEPT !.inst = target]
           literal == [pc |-> "instance", id |-> thread[e].id, inst |-> target]
<1>4. DOMAIN updated = {"pc", "id", "inst"} /\ DOMAIN literal = {"pc", "id", "inst"}
  <2>1. DOMAIN moved = {"pc", "id", "inst"}
    BY <1>2
  <2>2. DOMAIN updated = DOMAIN moved
    BY Zenon
  <2>3. DOMAIN literal = {"pc", "id", "inst"}
    OBVIOUS
  <2> QED BY <2>1, <2>2, <2>3
<1>5. \A x \in {"pc", "id", "inst"} : updated[x] = literal[x]
  <2>1. DOMAIN moved = {"pc", "id", "inst"}
    BY <1>2
  <2>2. \A x \in {"pc", "id", "inst"} : moved[x] = IF x = "pc" THEN literal.pc ELSE thread[e][x]
    BY <1>2
  <2> HIDE DEF moved
  <2> QED BY <2>1, <2>2
<1>6. updated = [x \in DOMAIN updated |-> updated[x]]
  BY Zenon
<1>7. literal = [x \in DOMAIN literal |-> literal[x]]
  BY Zenon
<1>8. [thread EXCEPT ![e] = [@ EXCEPT !.pc = "instance", !.inst = target]] = [thread EXCEPT ![e] = updated]
  OBVIOUS
<1> HIDE DEF updated, literal
<1>9. updated = literal
  BY <1>4, <1>5, <1>6, <1>7
<1> QED BY <1>3, <1>8, <1>9 DEF literal

\* A thread of the coordinator that only moves on.
LEMMA ThreadMoves ==
  ASSUME CoordinatorTypeOK, NEW e \in ESI,
         NEW pc \in {"off", "recv", "permission", "instance", "change", "line_ok", "done"},
         pc \in {"permission", "instance", "change", "line_ok"} => thread[e].id \in InstructionDetail,
         pc \in {"instance", "change", "line_ok"} => thread[e].inst \in Inst,
         thread' = [thread EXCEPT ![e].pc = pc],
         UNCHANGED <<instances, registering, eq_load_alg_last_used_inst, coordinator_segfault>>
  PROVE  CoordinatorTypeOK'
<1> DEFINE r == [pc |-> pc, id |-> thread[e].id, inst |-> thread[e].inst]
<1>0. /\ [thread EXCEPT ![e].pc = pc] = [thread EXCEPT ![e] = [@ EXCEPT !.pc = pc]]
      /\ [thread[e] EXCEPT !.pc = pc] = r
      /\ [thread[e] EXCEPT !.pc = pc] \in ThreadRecord
  BY ThreadParts
<1>1. r \in ThreadRecord /\ r.pc = pc /\ r.id = thread[e].id /\ r.inst = thread[e].inst
  BY <1>0
<1>2. thread' = [thread EXCEPT ![e] = r]
  BY <1>0
<1>3. /\ eq_load_alg_last_used_inst' \in -1..(Len(instances) - 1)
      /\ coordinator_segfault' \in BOOLEAN
  BY DEF CoordinatorTypeOK
<1> HIDE DEF r
<1> QED BY <1>1, <1>2, <1>3, ThreadTypes

\* A step of the coordinator leaves its variables and its sockets typed.
LEMMA CoordinatorTypes ==
  ASSUME CoordinatorTypeOK, ChannelsTypeOK, CoordinatorNext, OthersThanCoordinator
  PROVE  CoordinatorTypeOK' /\ ChannelsTypeOK'
<1> DEFINE EC == esi_coord' \in [ESI -> Seq(EsiToCoordinator)]
           CE == coord_esi' \in [ESI -> Seq(CoordinatorToEsi)]
           PC == planner_coord' \in Seq(PlannerAnswer)
           CP == coord_planner' \in Seq(CoordinatorFrame)
           CI == coord_instance' \in [Inst -> Seq(CoordinatorToInstance)]
           IC == instance_coord' \in [Inst -> Seq(InstanceToCoordinator)]
           Sent == EC /\ CE /\ PC /\ CP /\ CI /\ IC
<1>1. /\ esi_coord \in [ESI -> Seq(EsiToCoordinator)]
      /\ coord_esi \in [ESI -> Seq(CoordinatorToEsi)]
      /\ planner_coord \in Seq(PlannerAnswer) /\ coord_planner \in Seq(CoordinatorFrame)
      /\ coord_instance \in [Inst -> Seq(CoordinatorToInstance)]
      /\ instance_coord \in [Inst -> Seq(InstanceToCoordinator)]
  BY DEF ChannelsTypeOK
<1>2. Sent => ChannelsTypeOK'
  BY DEF ChannelsTypeOK, OthersThanCoordinator
<1>3. /\ thread \in [ESI -> ThreadRecord] /\ coordinator_segfault \in BOOLEAN
      /\ eq_load_alg_last_used_inst \in -1..(Len(instances) - 1)
      /\ instances \in Seq([inst : Inst, status : {"AVAILABLE"}])
      /\ registering \in Inst \cup {None}
  BY DEF CoordinatorTypeOK
<1>4. ASSUME NEW e \in ESI, Receive(esi_coord, e), esi_coord[e] # <<>> PROVE EC
  BY <1>1, <1>4, FamilyTypes DEF Receive
<1>5. ASSUME NEW e \in ESI,
             NEW type \in {"ESI_COORD_HANDSHAKE_OK", "OPERATION_ERROR", "closed"},
             SendTo(coord_esi, e, Header(type))
      PROVE  CE
  <2>1. Header(type) \in CoordinatorToEsi
    BY HeaderTypes
  <2> QED BY <1>1, <1>5, <2>1, FamilyTypes DEF SendTo
<1>6. ASSUME NEW i \in Inst, Receive(instance_coord, i), instance_coord[i] # <<>> PROVE IC
  BY <1>1, <1>6, FamilyTypes DEF Receive
<1>7. ASSUME planner_coord # <<>>, planner_coord' = Tail(planner_coord) PROVE PC
  BY <1>1, <1>7
<1>8. ASSUME NEW frame \in CoordinatorFrame, coord_planner' = Append(coord_planner, frame)
      PROVE  CP
  BY <1>1, <1>8, AppendProperties
<1>9. /\ esi_coord' = esi_coord => EC
      /\ coord_esi' = coord_esi => CE
      /\ planner_coord' = planner_coord => PC
      /\ coord_planner' = coord_planner => CP
      /\ coord_instance' = coord_instance => CI
      /\ instance_coord' = instance_coord => IC
  BY <1>1
<1> DEFINE Pcs == {"off", "recv", "permission", "instance", "change", "line_ok", "done"}
<1>10. ASSUME NEW e \in ESI, NEW r \in ThreadRecord,
         r.pc \in {"permission", "instance", "change", "line_ok"} => r.id \in InstructionDetail,
         r.pc \in {"instance", "change", "line_ok"} => r.inst \in Inst,
         thread' = [thread EXCEPT ![e] = r],
         UNCHANGED <<instances, registering, eq_load_alg_last_used_inst, coordinator_segfault>>
       PROVE CoordinatorTypeOK'
  BY <1>3, <1>10, ThreadTypes
<1> DEFINE idle == [NoThread EXCEPT !.pc = "recv"]
<1>11. idle \in ThreadRecord /\ idle.pc = "recv"
  BY DEF NoThread, ThreadRecord
<1> HIDE DEF EC, CE, PC, CP, CI, IC, idle
<1>12. ASSUME NEW e \in ESI, AcceptEsi(e) PROVE CoordinatorTypeOK' /\ Sent
  <2>1. EC /\ CE
    BY <1>12, <1>4, <1>5 DEF AcceptEsi, Arrives
  <2>2. /\ thread' = [thread EXCEPT ![e].pc = "recv"]
        /\ UNCHANGED <<instances, registering, eq_load_alg_last_used_inst, coordinator_segfault>>
    BY <1>12 DEF AcceptEsi
  <2>3. CoordinatorTypeOK'
    BY <2>2, ThreadMoves
  <2> QED BY <2>1, <2>3, <1>9, <1>12 DEF AcceptEsi
<1>13. ASSUME NEW i \in Inst, AcceptInstance(i) PROVE CoordinatorTypeOK' /\ Sent
  <2>1. IC
    BY <1>13, <1>6 DEF AcceptInstance, Arrives
  <2> DEFINE entry == [inst |-> i, status |-> "AVAILABLE"]
  <2>2. /\ Append(instances, entry) \in Seq([inst : Inst, status : {"AVAILABLE"}])
        /\ Len(Append(instances, entry)) = Len(instances) + 1
    BY <1>3
  <2>3. instances' = Append(instances, entry) /\ registering' = i
    BY <1>13 DEF AcceptInstance
  <2> HIDE DEF entry
  <2>4. eq_load_alg_last_used_inst' \in -1..(Len(instances') - 1)
    BY <2>2, <2>3, <1>3, <1>13 DEF AcceptInstance
  <2>5. CoordinatorTypeOK'
    BY <2>2, <2>3, <2>4, <1>13 DEF AcceptInstance, CoordinatorTypeOK
  <2> QED BY <2>1, <2>5, <1>9, <1>13 DEF AcceptInstance
<1>14. ASSUME SendInitConfig PROVE CoordinatorTypeOK' /\ Sent
  <2>1. registering \in Inst
    BY <1>3, <1>14 DEF SendInitConfig
  <2>2. CI
    BY <1>1, <1>14, <2>1, HeaderTypes, FamilyTypes DEF SendInitConfig, SendTo, CI
  <2>3. CoordinatorTypeOK'
    BY <1>14 DEF SendInitConfig, CoordinatorTypeOK
  <2> QED BY <2>2, <2>3, <1>9, <1>14 DEF SendInitConfig
<1>15. ASSUME NEW e \in ESI, ReceiveInstruction(e) PROVE CoordinatorTypeOK' /\ Sent
  <2> DEFINE received == Head(esi_coord[e]).content
             id == [received EXCEPT !.ESIName = NameKept(received)]
             frame == WithContent(CheckFor(id.operation),
                                  [ESIName |-> id.ESIName, key |-> id.key])
             r == [pc |-> "permission", id |-> id, inst |-> thread[e].inst]
  <2>1. Head(esi_coord[e]) \in EsiToCoordinator /\ esi_coord[e] # <<>>
    BY <1>1, <1>15 DEF ReceiveInstruction, Arrives
  <2>2. received \in InstructionDetail
    BY <2>1, <1>15 DEF ReceiveInstruction, Arrives, EsiToCoordinator
  <2>3. id \in InstructionDetail
    BY <2>2, KeptTypes
  <2>4. frame \in CoordinatorFrame
    BY <2>3, CoordinatorFrames
  <2>5. /\ thread' = [thread EXCEPT ![e] = [@ EXCEPT !.pc = "permission", !.id = id]]
        /\ UNCHANGED <<instances, registering, eq_load_alg_last_used_inst, coordinator_segfault>>
    BY <1>15, Zenon DEF ReceiveInstruction
  <2>6. coord_planner' = Append(coord_planner, frame) /\ Receive(esi_coord, e)
    BY <1>15 DEF ReceiveInstruction
  <2> HIDE DEF id, frame
  <2>7. thread' = [thread EXCEPT ![e] = r] /\ r \in ThreadRecord
    <3>1. /\ [thread EXCEPT ![e] = [@ EXCEPT !.pc = "permission", !.id = id]] =
              [thread EXCEPT ![e] = r]
          /\ r \in ThreadRecord
      BY <2>3, ThreadAsks
    <3> QED BY <3>1, <2>5
  <2>10. r.pc = "permission" /\ r.id = id /\ "permission" \notin {"instance", "change", "line_ok"}
    OBVIOUS
  <2> HIDE DEF r
  <2>8. CoordinatorTypeOK'
    BY <2>3, <2>5, <2>7, <2>10, <1>10
  <2>9. EC /\ CP
    BY <2>1, <2>4, <2>6, <1>4, <1>8
  <2> QED BY <2>8, <2>9, <1>9, <1>15 DEF ReceiveInstruction
<1>16. ASSUME NEW e \in ESI, ReceiveFinished(e) PROVE CoordinatorTypeOK' /\ Sent
  <2>1. EC /\ CE
    BY <1>16, <1>4, <1>5 DEF ReceiveFinished, Arrives
  <2>2. /\ thread' = [thread EXCEPT ![e].pc = "done"]
        /\ UNCHANGED <<instances, registering, eq_load_alg_last_used_inst, coordinator_segfault>>
    BY <1>16 DEF ReceiveFinished
  <2>3. CoordinatorTypeOK'
    BY <2>2, ThreadMoves
  <2> QED BY <2>1, <2>3, <1>9, <1>16 DEF ReceiveFinished
<1>17. ASSUME NEW e \in ESI, OpFailed(e) PROVE CoordinatorTypeOK' /\ Sent
  <2>1. PC
    BY <1>17, <1>7 DEF OpFailed, Arrives
  <2>2. CoordinatorTypeOK'
    BY <1>10, <1>11, <1>17 DEF OpFailed, idle
  <2> QED BY <2>1, <2>2, <1>9, <1>17 DEF OpFailed
<1>18. ASSUME NEW e \in ESI, OpOk(e) PROVE CoordinatorTypeOK' /\ Sent
  <2> DEFINE index == get_instance_index_to_use
             target == instances[index + 1].inst
             r == [pc |-> "instance", id |-> thread[e].id, inst |-> target]
  <2>1. index \in -1..(Len(instances) - 1) /\ index # -1
    BY <1>18, IndexRange DEF OpOk
  <2>2. index + 1 \in 1..Len(instances)
    BY <2>1, <1>3
  <2>3. target \in Inst
    <3> HIDE DEF index
    <3>1. instances[index + 1] \in [inst : Inst, status : {"AVAILABLE"}]
      BY <2>2, <1>3, ElementOfSeq
    <3> QED BY <3>1
  <2>4. thread[e].id \in InstructionDetail
    BY <1>18 DEF OpOk, CoordinatorTypeOK
  <2>5. PICK frame \in CoordinatorToInstance : SendTo(coord_instance, target, frame)
    BY <1>18, <2>4, CoordinatorFrames DEF OpOk
  <2>6. /\ eq_load_alg_last_used_inst' = index
        /\ thread' = [thread EXCEPT ![e] = [@ EXCEPT !.pc = "instance", !.inst = target]]
        /\ planner_coord # <<>> /\ planner_coord' = Tail(planner_coord)
        /\ UNCHANGED <<instances, registering, coordinator_segfault>>
    BY <1>18 DEF OpOk, Arrives
  <2> HIDE DEF index, target
  <2>7. thread' = [thread EXCEPT ![e] = r] /\ r \in ThreadRecord
    <3>1. /\ [thread EXCEPT ![e] = [@ EXCEPT !.pc = "instance", !.inst = target]] =
              [thread EXCEPT ![e] = r]
          /\ r \in ThreadRecord
      BY <2>3, ThreadGoes
    <3> QED BY <3>1, <2>6
  <2>10. r.pc = "instance" /\ r.id = thread[e].id /\ r.inst = target
    OBVIOUS
  <2> HIDE DEF r
  <2>8. CoordinatorTypeOK'
    BY <2>1, <2>3, <2>4, <2>6, <2>7, <2>10, <1>3, ThreadTypes
  <2>9. CI
    BY <2>3, <2>5, <1>1, FamilyTypes DEF SendTo, CI
  <2>11. PC
    BY <2>6, <1>7
  <2> QED BY <2>8, <2>9, <2>11, <1>9, <1>18 DEF OpOk
<1>19. ASSUME FollowNullInstance \/ BrokenPipe PROVE CoordinatorTypeOK' /\ Sent
  <2>1. CoordinatorTypeOK'
    BY <1>19 DEF FollowNullInstance, BrokenPipe, CoordinatorTypeOK
  <2> QED BY <2>1, <1>9, <1>19 DEF FollowNullInstance, BrokenPipe
<1>20. ASSUME NEW e \in ESI, thread[e].pc = "instance"
       PROVE  thread[e].id \in InstructionDetail /\ thread[e].inst \in Inst
  BY <1>20 DEF CoordinatorTypeOK
<1>21. ASSUME NEW e \in ESI, InstanceSucceeded(e) PROVE CoordinatorTypeOK' /\ Sent
  <2> DEFINE pc == IF ToldOf(thread[e].id.operation) THEN "change" ELSE "line_ok"
  <2>1. thread[e].id \in InstructionDetail /\ thread[e].inst \in Inst
    BY <1>20, <1>21 DEF InstanceSucceeded
  <2>2. IC
    BY <2>1, <1>6, <1>21 DEF InstanceSucceeded, Arrives
  <2>3. /\ thread' = [thread EXCEPT ![e].pc = pc]
        /\ UNCHANGED <<instances, registering, eq_load_alg_last_used_inst, coordinator_segfault>>
    BY <1>21 DEF InstanceSucceeded
  <2>4. pc \in {"change", "line_ok"}
    OBVIOUS
  <2> HIDE DEF pc
  <2>5. CoordinatorTypeOK'
    BY <2>1, <2>3, <2>4, ThreadMoves
  <2> QED BY <2>2, <2>5, <1>9, <1>21 DEF InstanceSucceeded
<1>22. ASSUME NEW e \in ESI, InstanceFailed(e) \/ InstanceGone(e)
       PROVE  CoordinatorTypeOK' /\ Sent
  <2>1. thread[e].inst \in Inst
    BY <1>20, <1>22 DEF InstanceFailed, InstanceGone
  <2>2. IC
    BY <2>1, <1>6, <1>9, <1>22 DEF InstanceFailed, InstanceGone, Arrives
  <2>3. CE
    BY <1>5, <1>22 DEF InstanceFailed, InstanceGone, OperationFailed
  <2>4. CoordinatorTypeOK'
    BY <1>10, <1>11, <1>22 DEF InstanceFailed, InstanceGone, OperationFailed, idle
  <2> QED BY <2>2, <2>3, <2>4, <1>9, <1>22 DEF InstanceFailed, InstanceGone
<1>23. ASSUME NEW e \in ESI, NotifyChange(e) PROVE CoordinatorTypeOK' /\ Sent
  <2> DEFINE id == thread[e].id
  <2>1. id \in InstructionDetail /\ thread[e].inst \in Inst
    BY <1>23 DEF NotifyChange, CoordinatorTypeOK
  <2>2. CP
    BY <2>1, <1>8, <1>23, CoordinatorFrames DEF NotifyChange
  <2>3. /\ thread' = [thread EXCEPT ![e].pc = "line_ok"]
        /\ UNCHANGED <<instances, registering, eq_load_alg_last_used_inst, coordinator_segfault>>
    BY <1>23 DEF NotifyChange
  <2>4. CoordinatorTypeOK'
    BY <2>1, <2>3, ThreadMoves
  <2> QED BY <2>2, <2>4, <1>9, <1>23 DEF NotifyChange
<1>24. ASSUME NEW e \in ESI, NotifyLineOk(e) PROVE CoordinatorTypeOK' /\ Sent
  <2>1. CP
    BY <1>8, <1>24, HeaderTypes DEF NotifyLineOk
  <2>2. CoordinatorTypeOK'
    BY <1>10, <1>11, <1>24 DEF NotifyLineOk, idle
  <2> QED BY <2>1, <2>2, <1>9, <1>24 DEF NotifyLineOk
<1> QED
  BY <1>2, <1>12, <1>13, <1>14, <1>15, <1>16, <1>17, <1>18, <1>19, <1>21, <1>22, <1>23, <1>24
     DEF CoordinatorNext, listening_thread, thread_listen_esi

\* EntryOf answers the first entry of the key, and 0 if there is none.
LEMMA EntryRange ==
  ASSUME NEW i, NEW S, diccio_table[i] \in Seq(S), NEW key
  PROVE  /\ EntryOf(i, key) \in 0..Len(diccio_table[i])
         /\ EntryOf(i, key) # 0 => diccio_table[i][EntryOf(i, key)].key = key
         /\ EntryOf(i, key) = 0 => \A n \in 1..Len(diccio_table[i]) : diccio_table[i][n].key # key
<1> DEFINE I == {n \in 1..Len(diccio_table[i]) : diccio_table[i][n].key = key}
<1>1. EntryOf(i, key) = IF I # {} THEN Min(I) ELSE 0
  BY DEF EntryOf, SelectInSeq
<1>2. I \in SUBSET Nat
  OBVIOUS
<1>3. I # {} => Min(I) \in I
  BY <1>2, MinOfNats
<1>4. \A n \in I : n \in 1..Len(diccio_table[i]) /\ diccio_table[i][n].key = key /\ n # 0
  OBVIOUS
<1>5. I = {} => \A n \in 1..Len(diccio_table[i]) : diccio_table[i][n].key # key
  OBVIOUS
<1>6. Len(diccio_table[i]) \in Nat
  OBVIOUS
<1> HIDE DEF I
<1> QED BY <1>1, <1>3, <1>4, <1>5, <1>6

\* What an Instance receives.
LEMMA ReceivedType ==
  ASSUME ChannelsTypeOK, NEW i \in Inst,
         Arrives(coord_instance[i], "INSTRUCTION_DETAIL_TO_INSTANCE")
  PROVE  Received(i) \in ForwardedDetail /\ coord_instance[i] # <<>>
<1>1. coord_instance[i] # <<>> /\ Head(coord_instance[i]).type = "INSTRUCTION_DETAIL_TO_INSTANCE"
  BY DEF Arrives
<1>2. Head(coord_instance[i]) \in CoordinatorToInstance
  BY <1>1 DEF ChannelsTypeOK
<1>3. ASSUME Head(coord_instance[i]) \in [type : {"INSTANCE_COORD_HANDSHAKE_OK"}] PROVE FALSE
  BY <1>1, <1>3
<1> QED BY <1>1, <1>2, <1>3 DEF CoordinatorToInstance, Received

\* The conversation of an Instance that carries out an instruction.
LEMMA InstanceFrames ==
  ASSUME ChannelsTypeOK, NEW i \in Inst,
         \/ ConnectInstance(i) \/ InstanceStep(i) \/ DieInstance(i)
  PROVE  /\ coord_instance' \in [Inst -> Seq(CoordinatorToInstance)]
         /\ instance_coord' \in [Inst -> Seq(InstanceToCoordinator)]
<1> DEFINE CI == coord_instance' \in [Inst -> Seq(CoordinatorToInstance)]
           IC == instance_coord' \in [Inst -> Seq(InstanceToCoordinator)]
<1>1. /\ coord_instance \in [Inst -> Seq(CoordinatorToInstance)]
      /\ instance_coord \in [Inst -> Seq(InstanceToCoordinator)]
  BY DEF ChannelsTypeOK
<1>2. ASSUME Receive(coord_instance, i), coord_instance[i] # <<>> PROVE CI
  BY <1>1, <1>2, FamilyTypes DEF Receive
<1>3. ASSUME NEW type \in {"INSTANCE_COORD_HANDSHAKE", "INSTANCE_REPORTS_SUCCESSFUL_OP",
                           "INSTANCE_REPORTS_FAILED_OP", "closed"},
             SendTo(instance_coord, i, Header(type))
      PROVE  IC
  <2>1. Header(type) \in InstanceToCoordinator
    BY HeaderTypes
  <2> QED BY <1>1, <1>3, <2>1, FamilyTypes DEF SendTo
<1>4. ASSUME NEW operation, Process(i, operation) PROVE CI
  BY <1>2, <1>4 DEF Process, Arrives
<1>5. ASSUME NEW success, Report(i, success) PROVE IC
  BY <1>3, <1>5, Zenon DEF Report
<1>6. (coord_instance' = coord_instance => CI) /\ (instance_coord' = instance_coord => IC)
  BY <1>1
<1> HIDE DEF CI, IC
<1>7. CASE ConnectInstance(i) \/ FollowNullTable(i) \/ DieInstance(i)
  BY <1>3, <1>6, <1>7 DEF ConnectInstance, FollowNullTable, DieInstance, CI, IC
<1>8. CASE initialize_entry_table(i)
  BY <1>2, <1>6, <1>8 DEF initialize_entry_table, Arrives, CI, IC
<1>9. CASE GetNew(i) \/ GetKnown(i) \/ Set(i) \/ Store(i) \/ Refuse(i)
  BY <1>4, <1>5, <1>9 DEF GetNew, GetKnown, Set, Store, Refuse, CI, IC
<1> QED BY <1>7, <1>8, <1>9 DEF InstanceStep

\* The block that follows another in the circle.
LEMMA NextBlock == ASSUME NEW n \in Block PROVE NextInCircle(n) \in Block
BY EntriesAssumption DEF Block, NextInCircle

\* The lists a dictionary becomes: with a new entry, with an entry changed.
LEMMA DiccionaryTypes ==
  ASSUME NEW d \in Seq(DiccionaryEntry)
  PROVE  /\ \A entry \in DiccionaryEntry : <<entry>> \o d \in Seq(DiccionaryEntry)
         /\ \A n \in 1..Len(d), name \in Name :
              /\ [d EXCEPT ![n].blocked = TRUE, ![n].blockedBy = name] \in Seq(DiccionaryEntry)
              /\ [d EXCEPT ![n].blocked = FALSE] \in Seq(DiccionaryEntry)
<1>1. ASSUME NEW entry \in DiccionaryEntry PROVE <<entry>> \o d \in Seq(DiccionaryEntry)
  BY ConsProperties, <1>1
<1>2. ASSUME NEW n \in 1..Len(d), NEW name \in Name
      PROVE  /\ [d EXCEPT ![n].blocked = TRUE, ![n].blockedBy = name] \in Seq(DiccionaryEntry)
             /\ [d EXCEPT ![n].blocked = FALSE] \in Seq(DiccionaryEntry)
  <2>1. d[n] \in DiccionaryEntry
    BY ElementOfSeq
  <2>2. /\ [d[n] EXCEPT !.blocked = TRUE, !.blockedBy = name] \in DiccionaryEntry
        /\ [d[n] EXCEPT !.blocked = FALSE] \in DiccionaryEntry
    BY <2>1 DEF DiccionaryEntry
  <2>3. /\ [d EXCEPT ![n].blocked = TRUE, ![n].blockedBy = name] =
             [d EXCEPT ![n] = [d[n] EXCEPT !.blocked = TRUE, !.blockedBy = name]]
        /\ [d EXCEPT ![n].blocked = FALSE] = [d EXCEPT ![n] = [d[n] EXCEPT !.blocked = FALSE]]
    OBVIOUS
  <2>4. \A entry \in DiccionaryEntry : [d EXCEPT ![n] = entry] \in Seq(DiccionaryEntry)
    BY ExceptSeq
  <2> QED BY <2>2, <2>3, <2>4
<1> QED BY <1>1, <1>2

\* What a SET or a STORE finds.
LEMMA EntryFound ==
  ASSUME InstanceTypeOK, NEW i \in Inst, CanChange(i)
  PROVE  LET n == EntryOf(i, Received(i).key)
         IN /\ n \in 1..Len(diccio_table[i])
            /\ diccio_table[i][n] \in DiccionaryEntry
            /\ diccio_table[i][n].entry_number \in Block
            /\ diccio_table[i][n].key = Received(i).key
<1> DEFINE n == EntryOf(i, Received(i).key)
<1>1. diccio_table[i] \in Seq(DiccionaryEntry)
  BY DEF InstanceTypeOK
<1>2. n # 0
  BY DEF CanChange
<1>3. n \in 1..Len(diccio_table[i]) /\ diccio_table[i][n].key = Received(i).key
  BY <1>1, <1>2, EntryRange
<1> HIDE DEF n
<1>4. diccio_table[i][n] \in DiccionaryEntry
  BY <1>1, <1>3, ElementOfSeq
<1>5. diccio_table[i][n].entry_number \in Block
  BY <1>4 DEF DiccionaryEntry
<1> QED BY <1>3, <1>4, <1>5 DEF n

\* The tables of an Instance after an instruction.
LEMMA InstanceTables ==
  ASSUME ChannelsTypeOK, InstanceTypeOK, NEW i \in Inst, InstanceStep(i)
  PROVE  InstanceTypeOK'
<1> USE DEF InstanceTypeOK
<1>1. CASE initialize_entry_table(i) \/ FollowNullTable(i)
  BY <1>1 DEF initialize_entry_table, FollowNullTable, tables
<1>2. CASE Refuse(i)
  BY <1>2 DEF Refuse, Process, tables
<1>3. ASSUME NEW operation, Process(i, operation)
      PROVE  /\ Received(i) \in ForwardedDetail /\ Received(i).ESIName \in Name
             /\ Received(i).key \in Key /\ Received(i).value \in Text
             /\ instance_state' = instance_state
  BY <1>3, ReceivedType DEF Process, ForwardedDetail
<1> DEFINE id == Received(i)
           n == EntryOf(i, id.key)
           d == diccio_table[i]
<1>4. d \in Seq(DiccionaryEntry) /\ diccio_table \in [Inst -> Seq(DiccionaryEntry)]
  OBVIOUS
<1>5. CASE GetNew(i)
  <2> DEFINE at == get_index_to_replace(i)
             entry == [key |-> id.key, entry_number |-> at, blocked |-> TRUE, blockedBy |-> id.ESIName]
  <2>1. at \in Block /\ NextInCircle(at) \in Block /\ Default \in Data
    BY NextBlock DEF get_index_to_replace, Data
  <2>2. id.ESIName \in Name /\ id.key \in Key /\ instance_state' = instance_state
    BY <1>3, <1>5 DEF GetNew
  <2>3. entry \in DiccionaryEntry
    BY <2>1, <2>2 DEF DiccionaryEntry
  <2>4. /\ diccio_table' = [diccio_table EXCEPT ![i] = <<entry>> \o @]
        /\ blocks_table' = [blocks_table EXCEPT ![i][at] = Default]
        /\ circular_alg_last_entry' = [circular_alg_last_entry EXCEPT ![i] = NextInCircle(@)]
        /\ mounting_point' = mounting_point
    BY <1>5 DEF GetNew
  <2> HIDE DEF entry, id
  <2>5. <<entry>> \o d \in Seq(DiccionaryEntry)
    BY <2>3, <1>4, DiccionaryTypes
  <2>6. diccio_table' \in [Inst -> Seq(DiccionaryEntry)]
    BY <2>4, <2>5, <1>4
  <2>7. blocks_table' \in [Inst -> [Block -> Data]]
    BY <2>1, <2>4
  <2>8. circular_alg_last_entry' \in [Inst -> Block]
    BY <2>1, <2>4 DEF get_index_to_replace
  <2> QED BY <2>2, <2>4, <2>6, <2>7, <2>8
<1>6. CASE GetKnown(i)
  <2>1. id.ESIName \in Name /\ instance_state' = instance_state
    BY <1>3, <1>6 DEF GetKnown
  <2>2. n \in 1..Len(d)
    BY <1>4, <1>6, EntryRange DEF GetKnown
  <2>3. /\ diccio_table' = [diccio_table EXCEPT ![i][n].blocked = TRUE, ![i][n].blockedBy = id.ESIName]
        /\ UNCHANGED <<blocks_table, circular_alg_last_entry, mounting_point>>
    BY <1>6 DEF GetKnown
  <2> DEFINE changed == [d EXCEPT ![n].blocked = TRUE, ![n].blockedBy = id.ESIName]
  <2> HIDE DEF id, n
  <2>4. changed \in Seq(DiccionaryEntry)
    BY <2>1, <2>2, <1>4, DiccionaryTypes
  <2>5. diccio_table' = [diccio_table EXCEPT ![i] = changed]
    BY <2>3
  <2> HIDE DEF changed
  <2>6. diccio_table' \in [Inst -> Seq(DiccionaryEntry)]
    BY <2>4, <2>5, <1>4
  <2> QED BY <2>1, <2>3, <2>6
<1>7. CASE Set(i)
  <2> DEFINE at == diccio_table[i][n].entry_number
  <2>1. id.value \in Data /\ instance_state' = instance_state
    BY <1>3, <1>7 DEF Set, Data
  <2>2. at \in Block
    BY <1>7, EntryFound DEF Set
  <2>3. /\ blocks_table' = [blocks_table EXCEPT ![i][at] = id.value]
        /\ UNCHANGED <<diccio_table, circular_alg_last_entry, mounting_point>>
    BY <1>7 DEF Set
  <2> HIDE DEF at, id
  <2> QED BY <2>1, <2>2, <2>3
<1>8. CASE Store(i)
  <2> DEFINE at == diccio_table[i][n].entry_number
             content == blocks_table[i][at]
  <2>1. /\ id.key \in Key /\ id.ESIName \in Name /\ instance_state' = instance_state
    BY <1>3, <1>8 DEF Store
  <2>2. n \in 1..Len(d) /\ at \in Block
    BY <1>8, EntryFound DEF Store
  <2>3. /\ diccio_table' = [diccio_table EXCEPT ![i][n].blocked = FALSE]
        /\ mounting_point' = [mounting_point EXCEPT ![i][id.key] = content]
        /\ UNCHANGED <<blocks_table, circular_alg_last_entry>>
    BY <1>8 DEF Store
  <2> DEFINE changed == [d EXCEPT ![n].blocked = FALSE]
  <2> HIDE DEF id, n, at
  <2>4. changed \in Seq(DiccionaryEntry)
    BY <2>1, <2>2, <1>4, DiccionaryTypes
  <2>5. diccio_table' = [diccio_table EXCEPT ![i] = changed]
    BY <2>3
  <2>6. content \in Data
    BY <2>2
  <2> HIDE DEF changed, content
  <2>7. diccio_table' \in [Inst -> Seq(DiccionaryEntry)]
    BY <2>4, <2>5, <1>4
  <2>8. mounting_point' \in [Inst -> [Key -> Data]]
    BY <2>1, <2>3, <2>6
  <2> QED BY <2>1, <2>3, <2>7, <2>8
<1> QED BY <1>1, <1>2, <1>5, <1>6, <1>7, <1>8 DEF InstanceStep

\* A step of an Instance leaves its tables and its socket typed.
LEMMA InstanceTypes ==
  ASSUME InstanceTypeOK, ChannelsTypeOK, InstanceNext, OthersThanInstance
  PROVE  InstanceTypeOK' /\ ChannelsTypeOK'
<1>1. PICK i \in Inst : ConnectInstance(i) \/ InstanceStep(i) \/ DieInstance(i)
  BY DEF InstanceNext
<1>2. ChannelsTypeOK'
  BY <1>1, InstanceFrames DEF ChannelsTypeOK, OthersThanInstance
<1>3. CASE ConnectInstance(i) \/ DieInstance(i)
  BY <1>2, <1>3 DEF ConnectInstance, DieInstance, InstanceTypeOK, tables
<1>4. CASE InstanceStep(i)
  BY <1>2, <1>4, InstanceTables
<1> QED BY <1>1, <1>3, <1>4

\* The system starts with every variable typed.
LEMMA InitTypes == Init => ChannelsTypeOK /\ EsiTypeOK /\ CoordinatorTypeOK /\ InstanceTypeOK
<1> SUFFICES ASSUME Init PROVE ChannelsTypeOK /\ EsiTypeOK /\ CoordinatorTypeOK /\ InstanceTypeOK
  OBVIOUS
<1>1. \A S : <<>> \in Seq(S)
  OBVIOUS
<1>2. ChannelsTypeOK
  BY <1>1, Zenon DEF Init, ChannelsInit, ChannelsTypeOK
<1>3. EsiTypeOK
  BY ScriptAssumption, NoNameIsName DEF Init, EsiInit, EsiTypeOK
<1>4. CoordinatorTypeOK
  <2>1. NoThread \in ThreadRecord /\ NoThread.pc = "off"
    BY DEF NoThread, ThreadRecord
  <2>2. /\ instances = <<>> /\ eq_load_alg_last_used_inst = -1 /\ registering = None
        /\ thread = [e \in ESI |-> NoThread] /\ coordinator_segfault = FALSE
    BY DEF Init, CoordinatorInit
  <2>3. /\ instances \in Seq([inst : Inst, status : {"AVAILABLE"}])
        /\ eq_load_alg_last_used_inst \in -1..(Len(instances) - 1)
    BY <2>2
  <2>4. thread \in [ESI -> ThreadRecord] /\ \A e \in ESI : thread[e].pc = "off"
    BY <2>1, <2>2
  <2> QED BY <2>2, <2>3, <2>4 DEF CoordinatorTypeOK
<1>5. InstanceTypeOK
  <2>1. 0 \in Block /\ NoData \in Data
    BY EntriesAssumption DEF Block, Data
  <2>2. /\ instance_state = [i \in Inst |-> "off"]
        /\ diccio_table = [i \in Inst |-> <<>>]
        /\ blocks_table = [i \in Inst |-> [b \in Block |-> NoData]]
        /\ circular_alg_last_entry = [i \in Inst |-> 0]
        /\ mounting_point = [i \in Inst |-> [k \in Key |-> NoData]]
    BY DEF Init, InstanceInit, Block
  <2> QED BY <1>1, <2>1, <2>2 DEF InstanceTypeOK
<1> QED BY <1>2, <1>3, <1>4, <1>5

\* A step of the system leaves every variable typed.
LEMMA StepTypes ==
  ASSUME TypeOK, PlannerInv, PlannerInv', [Next]_vars
  PROVE  TypeOK'
<1> USE DEF TypeOK
<1>0. PlannerTypeOK'
  BY DEF PlannerInv
<1>1. CASE PlannerNext /\ OthersThanPlanner
  <2>1. ChannelsTypeOK'
    BY <1>1, PlannerSockets
  <2>2. EsiTypeOK' /\ CoordinatorTypeOK' /\ InstanceTypeOK'
    BY <1>1 DEF OthersThanPlanner, esiVars, coordinatorVars, instanceVars, tables,
       EsiTypeOK, CoordinatorTypeOK, InstanceTypeOK
  <2> QED BY <2>1, <2>2, <1>0
<1>2. CASE (EsiNext \/ \E e \in ESI : Connect(e)) /\ OthersThanEsi
  <2>1. EsiTypeOK' /\ ChannelsTypeOK'
    BY <1>2, EsiTypes
  <2>2. CoordinatorTypeOK' /\ InstanceTypeOK'
    BY <1>2 DEF OthersThanEsi, coordinatorVars, instanceVars, tables,
       CoordinatorTypeOK, InstanceTypeOK
  <2> QED BY <2>1, <2>2, <1>0
<1>3. CASE CoordinatorNext /\ OthersThanCoordinator
  <2>1. CoordinatorTypeOK' /\ ChannelsTypeOK'
    BY <1>3, CoordinatorTypes
  <2>2. EsiTypeOK' /\ InstanceTypeOK'
    BY <1>3 DEF OthersThanCoordinator, esiVars, instanceVars, tables, EsiTypeOK, InstanceTypeOK
  <2> QED BY <2>1, <2>2, <1>0
<1>4. CASE InstanceNext /\ OthersThanInstance
  <2>1. InstanceTypeOK' /\ ChannelsTypeOK'
    BY <1>4, InstanceTypes
  <2>2. EsiTypeOK' /\ CoordinatorTypeOK'
    BY <1>4 DEF OthersThanInstance, esiVars, coordinatorVars, EsiTypeOK, CoordinatorTypeOK
  <2> QED BY <2>1, <2>2, <1>0
<1>5. CASE UNCHANGED vars
  <2>1. ChannelsTypeOK'
    BY <1>5 DEF vars, channels, ChannelsTypeOK
  <2>2. EsiTypeOK' /\ CoordinatorTypeOK' /\ InstanceTypeOK'
    BY <1>5 DEF vars, esiVars, coordinatorVars, instanceVars, tables,
       EsiTypeOK, CoordinatorTypeOK, InstanceTypeOK
  <2> QED BY <2>1, <2>2, <1>0
<1> QED
  BY <1>1, <1>2, <1>3, <1>4, <1>5 DEF Next, Step, Terminated

\* Every frame a process reads is one it decodes and every position it keeps
\* stays in its table, whatever the timing, the deaths and the operator.
THEOREM SystemTypeOK == Spec => []TypeOK
<1>1. Init => TypeOK \/ ~PlannerInv
  BY InitTypes DEF TypeOK, PlannerInv
<1>2. TypeOK /\ PlannerInv /\ PlannerInv' /\ [Next]_vars => TypeOK'
  BY StepTypes
<1>3. Spec => []PlannerInv
  BY SystemRunsPlanner, PlannerInvHolds, PTL
<1> QED
  BY <1>1, <1>2, <1>3, PTL DEF Spec
=============================================================================
