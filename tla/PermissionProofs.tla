-------------------------- MODULE PermissionProofs --------------------------
(***************************************************************************)
(* The lock list of the planner and the permissions it gives: the list     *)
(* changes only when the coordinator reports what an Instance has done,    *)
(* and what was permitted still is, because one line is under way at a     *)
(* time (OneLineProofs).                                                   *)
(***************************************************************************)
EXTENDS OneLineProofs

LEMMA FrameStays ==
  ASSUME NEW S, NEW q \in Seq(S), NEW frame, NEW types, Carries(q, types)
  PROVE  Carries(Append(q, frame), types)
<1> DEFINE r == Append(q, frame)
<1>1. /\ Len(q) \in Nat /\ Len(r) = Len(q) + 1
      /\ \A n \in 1..Len(q) : r[n] = q[n]
  OBVIOUS
<1> HIDE DEF r
<1>2. PICK n \in 1..Len(q) : q[n].type \in types
  BY DEF Carries
<1>3. n \in 1..Len(r) /\ r[n].type \in types
  BY <1>1, <1>2
<1> QED BY <1>3 DEF Carries, r

LEMMA BeforeTail ==
  ASSUME NEW S, NEW q \in Seq(S), q # <<>>, NEW first, NEW then, Before(q, first, then)
  PROVE  /\ Before(Tail(q), first, then)
         /\ Head(q).type \in then => ~Carries(q, first)
<1>1. Before(Tail(q), first, then)
  <2> SUFFICES ASSUME NEW m \in 1..Len(Tail(q)), NEW n \in 1..Len(Tail(q)),
                      Tail(q)[m].type \in first, Tail(q)[n].type \in then
               PROVE  m < n
    BY DEF Before
  <2>1. /\ m + 1 \in 1..Len(q) /\ n + 1 \in 1..Len(q)
        /\ q[m + 1].type \in first /\ q[n + 1].type \in then
    BY TailFrames
  <2>2. m + 1 < n + 1
    BY <2>1 DEF Before
  <2> QED BY <2>2
<1>2. ASSUME Head(q).type \in then, Carries(q, first) PROVE FALSE
  <2>1. PICK m \in 1..Len(q) : q[m].type \in first
    BY <1>2 DEF Carries
  <2>2. Len(q) \in Nat \ {0} /\ Head(q) = q[1]
    OBVIOUS
  <2>3. 1 \in 1..Len(q) /\ q[1].type \in then
    BY <2>2, <1>2
  <2>4. m < 1
    BY <2>1, <2>3 DEF Before
  <2> QED BY <2>4
<1> QED BY <1>1, <1>2

LEMMA BeforeAppend ==
  ASSUME NEW S, NEW q \in Seq(S), NEW frame, NEW first, NEW then, Before(q, first, then),
         frame.type \notin first \/ (frame.type \notin then /\ ~Carries(q, then))
  PROVE  Before(Append(q, frame), first, then)
<1> DEFINE r == Append(q, frame)
<1>1. \A n \in 1..Len(r) : \/ n \in 1..Len(q) /\ r[n] = q[n]
                           \/ n = Len(q) + 1 /\ r[n] = frame
  BY AppendFrames
<1> HIDE DEF r
<1>2. Len(q) \in Nat
  OBVIOUS
<1>3. Before(r, first, then)
  BY <1>1, <1>2 DEF Before, Carries
<1> QED BY <1>3 DEF r

\* The frames that ask and those that take, as frames leave and join.
LEMMA FramesLeave ==
  ASSUME NEW S, NEW q \in Seq(S), q # <<>>, NEW id, NEW keys
  PROVE  /\ AsksFor(q, id) => AsksFor(Tail(q), id)
         /\ TakesFree(q, keys) => TakesFree(Tail(q), keys)
         /\ AsksFor(q, id) /\ Head(q).type \in Checks => Head(q) = CheckOf(id)
         /\ TakesFree(q, keys) /\ Takes(Head(q)) => ~HasNode(keys, Head(q).content.key, "BLOCKED")
<1>1. Len(q) \in Nat \ {0} /\ Head(q) = q[1]
  OBVIOUS
<1>2. 1 \in 1..Len(q)
  BY <1>1
<1> QED BY <1>1, <1>2, TailFrames DEF AsksFor, TakesFree

LEMMA FramesJoin ==
  ASSUME NEW S, NEW q \in Seq(S), NEW frame, NEW id, NEW keys
  PROVE  /\ AsksFor(q, id) /\ (frame.type \in Checks => frame = CheckOf(id))
              => AsksFor(Append(q, frame), id)
         /\ TakesFree(q, keys) /\ (Takes(frame) => ~HasNode(keys, frame.content.key, "BLOCKED"))
              => TakesFree(Append(q, frame), keys)
<1> DEFINE r == Append(q, frame)
<1>1. \A n \in 1..Len(r) : \/ n \in 1..Len(q) /\ r[n] = q[n]
                           \/ n = Len(q) + 1 /\ r[n] = frame
  BY AppendFrames
<1> HIDE DEF r
<1>2. /\ AsksFor(q, id) /\ (frame.type \in Checks => frame = CheckOf(id)) => AsksFor(r, id)
      /\ TakesFree(q, keys) /\ (Takes(frame) => ~HasNode(keys, frame.content.key, "BLOCKED"))
              => TakesFree(r, keys)
  BY <1>1 DEF AsksFor, TakesFree
<1> QED BY <1>2 DEF r

\* No key of keys_ is held that is free in keys.
NoneTaken(keys, keys_) == \A k : HasNode(keys_, k, "BLOCKED") => HasNode(keys, k, "BLOCKED")

\* While a permission is out, no change of the list is on its way.
LEMMA NothingTold ==
  ASSUME PlannerInv, OneLine, ChangeFirst, NEW e \in ESI, Granted(e)
  PROVE  /\ ~Carries(coord_planner, StatusChanges) /\ ~Carries(coord_planner, DoneLine)
         /\ LineAt(e, "executing") \/ LineAt(e, "asked")
<1>1. LineAt(e, "executing") \/ LineAt(e, "asked")
  BY DEF Granted, LineAt, Executing
<1>2. ~Carries(coord_planner, DoneLine)
  <2> SUFFICES ASSUME Carries(coord_planner, DoneLine) PROVE FALSE
    OBVIOUS
  <2>1. running_queue = <<e>>
    BY <1>1 DEF OneLine, OwnProcessor, Place
  <2>2. LineAt(e, "done")
    BY <2>1 DEF LineAt
  <2> QED BY <1>1, <2>2 DEF OneLine, InOnePlace, Place
<1>3. ASSUME NEW f \in ESI, thread[f].pc = "line_ok" PROVE FALSE
  <2>1. LineAt(f, "executing")
    BY <1>3 DEF LineAt, Executing
  <2>2. f = e /\ LineAt(e, "executing")
    BY <1>1, <2>1 DEF OneLine, InOnePlace, Place
  <2>3. ~Asking(e) /\ thread[e].pc \notin {"instance", "change"}
    BY <2>2, <1>3 DEF Asking
  <2> QED BY <2>3 DEF Granted
<1> QED BY <1>1, <1>2, <1>3 DEF ChangeFirst

\* ChangeFirst as the frames of the coordinator leave and join.
LEMMA ChangeKept ==
  ASSUME ChangeFirst, coord_planner' = coord_planner,
         \A e \in ESI : thread[e].pc = "line_ok" => thread'[e].pc = "line_ok"
  PROVE  ChangeFirst'
BY DEF ChangeFirst

LEMMA ChangeRead ==
  ASSUME coord_planner \in Seq(CoordinatorFrame), coord_planner # <<>>,
         coord_planner' = Tail(coord_planner), thread' = thread, ChangeFirst
  PROVE  ChangeFirst'
<1>1. /\ Once(coord_planner', StatusChanges) /\ Before(coord_planner', StatusChanges, DoneLine)
      /\ NoMore(coord_planner, coord_planner', StatusChanges)
  BY FrameReceived, BeforeTail DEF ChangeFirst, NoMore
<1>2. CASE Head(coord_planner).type \in DoneLine
  <2>1. ~Carries(coord_planner, StatusChanges)
    BY <1>2, BeforeTail DEF ChangeFirst
  <2> QED BY <1>1, <2>1 DEF ChangeFirst, NoMore
<1>3. CASE Head(coord_planner).type \notin DoneLine
  <2>1. Carries(coord_planner, DoneLine) => Carries(coord_planner', DoneLine)
    <3> SUFFICES ASSUME NEW n \in 1..Len(coord_planner), coord_planner[n].type \in DoneLine
                 PROVE  Carries(Tail(coord_planner), DoneLine)
      BY DEF Carries
    <3>1. n # 1 /\ Len(coord_planner) \in Nat
      <4>1. Head(coord_planner) = coord_planner[1]
        OBVIOUS
      <4> QED BY <4>1, <1>3
    <3>2. n - 1 \in 1..Len(Tail(coord_planner)) /\ Tail(coord_planner)[n - 1] = coord_planner[n]
      BY <3>1
    <3> QED BY <3>2 DEF Carries
  <2> QED BY <1>1, <2>1 DEF ChangeFirst, NoMore
<1> QED BY <1>2, <1>3

LEMMA ChangeSent ==
  ASSUME ChangeFirst, coord_planner \in Seq(CoordinatorFrame), NEW frame,
         coord_planner' = Append(coord_planner, frame),
         \/ /\ frame.type \notin StatusChanges
            /\ frame.type \in DoneLine
                 \/ \A e \in ESI : thread[e].pc = "line_ok" => thread'[e].pc = "line_ok"
         \/ /\ frame.type \in StatusChanges /\ frame.type \notin DoneLine
            /\ ~Carries(coord_planner, StatusChanges) /\ ~Carries(coord_planner, DoneLine)
            /\ \E e \in ESI : thread'[e].pc = "line_ok"
  PROVE  ChangeFirst'
<1>1. /\ Once(coord_planner', StatusChanges) /\ Before(coord_planner', StatusChanges, DoneLine)
      /\ frame.type \notin StatusChanges => NoMore(coord_planner, coord_planner', StatusChanges)
      /\ frame.type \in DoneLine => Carries(coord_planner', DoneLine)
      /\ Carries(coord_planner, DoneLine) => Carries(coord_planner', DoneLine)
  BY FrameSent, BeforeAppend, FrameStays DEF ChangeFirst, NoMore
<1> QED BY <1>1 DEF ChangeFirst, NoMore

\* A step that neither asks nor tells nor grants anything.
LEMMA ReportKept ==
  ASSUME ReportInv, coord_planner' = coord_planner,
         \A e \in ESI : /\ Asking(e)' => Asking(e) /\ thread'[e].id = thread[e].id
                        /\ Granted(e)' => Granted(e) /\ thread'[e].id = thread[e].id
                        /\ thread'[e].pc = "change" =>
                             thread[e].pc = "change" \/ ToldOf(thread[e].id.operation)
                        /\ thread[e].pc = "line_ok" => thread'[e].pc = "line_ok",
         NoneTaken(taken_keys, taken_keys')
  PROVE  ReportInv'
<1>1. ChangeFirst'
  BY ChangeKept DEF ReportInv
<1>2. AskedAndTold'
  <2>1. \A e \in ESI : thread'[e].pc = "change" => Granted(e)'
    BY DEF Granted
  <2> QED BY <2>1 DEF ReportInv, AskedAndTold
<1>3. FreeUntilTold'
  BY DEF ReportInv, FreeUntilTold, NoneTaken, TakesFree
<1> QED BY <1>1, <1>2, <1>3 DEF ReportInv

\* A frame of the coordinator is received.
LEMMA ReportRead ==
  ASSUME coord_planner \in Seq(CoordinatorFrame), coord_planner # <<>>,
         coord_planner' = Tail(coord_planner), thread' = thread, ReportInv
  PROVE  /\ ChangeFirst' /\ AskedAndTold'
         /\ taken_keys' = taken_keys => TakesFree(coord_planner', taken_keys')
<1>1. AskedAndTold'
  BY FramesLeave DEF ReportInv, AskedAndTold, Asking
<1>2. taken_keys' = taken_keys => TakesFree(coord_planner', taken_keys')
  BY FramesLeave DEF ReportInv, FreeUntilTold
<1>3. ChangeFirst'
  BY ChangeRead DEF ReportInv
<1> QED BY <1>1, <1>2, <1>3

-----------------------------------------------------------------------------
\* The steps of the planner.
LEMMA GrantedKept ==
  ASSUME thread' = thread, NoMore(planner_coord, planner_coord', Allowed)
  PROVE  \A e \in ESI : (Asking(e)' <=> Asking(e)) /\ (Granted(e)' => Granted(e))
BY DEF Asking, Granted, NoMore

LEMMA ReportQuiet ==
  ASSUME ReportInv, UNCHANGED <<coord_planner, planner_coord, thread>>,
         NoneTaken(taken_keys, taken_keys')
  PROVE  ReportInv'
<1>1. NoMore(planner_coord, planner_coord', Allowed)
  BY FrameKept
<1> QED BY <1>1, GrantedKept, ReportKept

LEMMA LineOkReport ==
  ASSUME TypeOK, OthersThanPlanner, ReportInv, LineOk
  PROVE  ReportInv'
<1>1. /\ coord_planner \in Seq(CoordinatorFrame) /\ coord_planner # <<>>
      /\ coord_planner' = Tail(coord_planner) /\ thread' = thread
      /\ UNCHANGED <<taken_keys, planner_coord>>
  BY ThreadsKept DEF LineOk, FromCoordinator, Arrives, TypeOK, ChannelsTypeOK
<1>2. ChangeFirst' /\ AskedAndTold' /\ TakesFree(coord_planner', taken_keys')
  BY <1>1, ReportRead
<1>3. NoMore(planner_coord, planner_coord', Allowed)
  BY <1>1, FrameKept
<1>4. FreeUntilTold'
  BY <1>1, <1>2, <1>3, GrantedKept DEF ReportInv, FreeUntilTold
<1> QED BY <1>2, <1>4 DEF ReportInv

\* The list changes when nothing is granted.
LEMMA StatusChangedReport ==
  ASSUME TypeOK, PlannerInv, OneLine, OthersThanPlanner, ReportInv, StatusChanged
  PROVE  ReportInv' /\ \A e \in ESI : ~Granted(e)'
<1>1. /\ coord_planner \in Seq(CoordinatorFrame) /\ coord_planner # <<>>
      /\ coord_planner' = Tail(coord_planner) /\ thread' = thread
      /\ Head(coord_planner).type \in StatusChanges /\ planner_coord' = planner_coord
  BY ThreadsKept DEF StatusChanged, FromCoordinator, Arrives, TypeOK, ChannelsTypeOK, StatusChanges
<1>2. ChangeFirst' /\ AskedAndTold'
  BY <1>1, ReportRead
<1>3. Carries(coord_planner, StatusChanges) /\ ~Carries(coord_planner', StatusChanges)
  BY <1>1, FrameReceived DEF ReportInv, ChangeFirst
<1>4. \A e \in ESI : ~Granted(e)
  BY <1>3, NothingTold DEF ReportInv
<1>5. NoMore(planner_coord, planner_coord', Allowed)
  BY <1>1, FrameKept
<1>6. \A e \in ESI : ~Granted(e)'
  BY <1>1, <1>4, <1>5, GrantedKept
<1>7. TakesFree(coord_planner', taken_keys')
  BY <1>3 DEF TakesFree, Takes, Carries
<1>8. FreeUntilTold'
  BY <1>6, <1>7 DEF FreeUntilTold
<1> QED BY <1>2, <1>6, <1>8 DEF ReportInv

\* An answer grants what was asked for.
LEMMA AnswerGrants ==
  ASSUME TypeOK, OneLine, AskedAndTold, coord_planner # <<>>,
         Head(coord_planner).type \in Checks, thread' = thread, NEW e \in ESI, Granted(e)'
  PROVE  /\ Asking(e) /\ Head(coord_planner) = CheckOf(thread[e].id)
         /\ Carries(planner_coord', Allowed) /\ planner_coord = <<>>
<1>1. coord_planner \in Seq(CoordinatorFrame)
  BY DEF TypeOK, ChannelsTypeOK
<1>2. Carries(coord_planner, Checks)
  BY <1>1, FrameReceived
<1>3. PICK f \in ESI : Asking(f)
  BY <1>2 DEF OneLine, OneQuestion
<1>4. LineAt(f, "asked")
  BY <1>2, <1>3 DEF LineAt
<1>5. ~Executing(e)
  <2> SUFFICES ASSUME LineAt(e, "executing") PROVE FALSE
    BY DEF LineAt
  <2> QED BY <1>4 DEF OneLine, InOnePlace, Place
<1>6. Asking(e) /\ Carries(planner_coord', Allowed)
  BY <1>5 DEF Granted, Asking, Executing
<1>7. planner_coord = <<>>
  BY <1>2 DEF OneLine, OneQuestion
<1> QED BY <1>1, <1>6, <1>7, FramesLeave DEF AskedAndTold

LEMMA AnswerReport ==
  ASSUME TypeOK, OneLine, OthersThanPlanner, ReportInv, GetAllowed \/ GetDenied \/ CheckOwner
  PROVE  ReportInv'
<1>1. /\ coord_planner \in Seq(CoordinatorFrame) /\ coord_planner # <<>>
      /\ coord_planner' = Tail(coord_planner) /\ thread' = thread
      /\ Head(coord_planner).type \in Checks /\ taken_keys' = taken_keys
      /\ planner_coord \in Seq(PlannerAnswer) /\ thread \in [ESI -> ThreadRecord]
  BY ThreadsKept DEF GetAllowed, GetDenied, CheckOwner, FromCoordinator, Arrives, TypeOK,
     ChannelsTypeOK, CoordinatorTypeOK, Checks, plannerVars
<1>2. ChangeFirst' /\ AskedAndTold' /\ TakesFree(coord_planner', taken_keys')
  BY <1>1, ReportRead
<1>3. ASSUME NEW e \in ESI, Granted(e)', thread'[e].id.operation = "GET_OP"
      PROVE  ~HasNode(taken_keys', thread'[e].id.key, "BLOCKED")
  <2>1. /\ Asking(e) /\ Head(coord_planner) = CheckOf(thread[e].id)
        /\ Carries(planner_coord', Allowed) /\ planner_coord = <<>>
    BY <1>1, <1>3, AnswerGrants DEF ReportInv
  <2>2. /\ Head(coord_planner).type = "CAN_ESI_GET_KEY"
        /\ Head(coord_planner).content.key = thread[e].id.key
    BY <1>1, <1>3, <2>1 DEF CheckOf, WithContent, CheckFor
  <2>3. ~CheckOwner
    BY <2>2 DEF CheckOwner, FromCoordinator, Arrives
  <2>4. ~GetDenied
    <3> SUFFICES ASSUME GetDenied PROVE FALSE
      OBVIOUS
    <3> DEFINE frame == Header("PLANNER_COORDINATOR_OP_FAILED")
    <3>1. planner_coord' = Append(planner_coord, frame) /\ frame.type \notin Allowed
      BY DEF GetDenied, Header, Allowed
    <3> HIDE DEF frame
    <3>2. ~Carries(planner_coord, Allowed)
      BY <2>1 DEF Carries
    <3>3. ~Carries(planner_coord', Allowed)
      BY <1>1, <3>1, <3>2, FrameSent DEF NoMore
    <3> QED BY <3>3, <2>1
  <2>5. ~check_Key_availability(taken_keys, Head(coord_planner).content.key)
    BY <2>3, <2>4 DEF GetAllowed
  <2> QED BY <1>1, <2>2, <2>5 DEF check_Key_availability
<1>4. FreeUntilTold'
  BY <1>2, <1>3 DEF FreeUntilTold
<1> QED BY <1>2, <1>4 DEF ReportInv

-----------------------------------------------------------------------------
\* The steps of the coordinator.
LEMMA ThreadAskedFor ==
  ASSUME CoordinatorTypeOK, NEW e \in ESI, NEW id \in InstructionDetail,
         thread' = [thread EXCEPT ![e] = [@ EXCEPT !.pc = "permission", !.id = id]]
  PROVE  thread'[e].id = id
<1> DEFINE r == [pc |-> "permission", id |-> id, inst |-> thread[e].inst]
<1>1. thread' = [thread EXCEPT ![e] = r]
  BY ThreadAsks
<1>2. r.id = id
  OBVIOUS
<1> HIDE DEF r
<1> QED BY <1>1, <1>2 DEF CoordinatorTypeOK

\* A thread asks the planner.
LEMMA AskSent ==
  ASSUME TypeOK, NEW e \in ESI, ReceiveInstruction(e)
  PROVE  \E id \in InstructionDetail :
           /\ coord_planner' = Append(coord_planner, CheckOf(id))
           /\ CheckOf(id).type \in Checks /\ CheckOf(id).type \notin StatusChanges \cup DoneLine
           /\ thread[e].pc = "recv" /\ thread'[e].pc = "permission" /\ thread'[e].id = id
           /\ \A f \in ESI : f # e => thread'[f] = thread[f]
<1>1. /\ esi_coord \in [ESI -> Seq(EsiToCoordinator)] /\ esi_coord[e] # <<>>
      /\ Head(esi_coord[e]).type \in Instruct /\ thread[e].pc = "recv"
  BY DEF ReceiveInstruction, Arrives, TypeOK, ChannelsTypeOK, Instruct
<1> DEFINE received == Head(esi_coord[e]).content
<1>2. PICK id : id = [received EXCEPT !.ESIName = NameKept(received)]
  OBVIOUS
<1>3. /\ thread' = [thread EXCEPT ![e] = [@ EXCEPT !.pc = "permission", !.id = id]]
      /\ coord_planner' = Append(coord_planner, CheckOf(id))
  BY <1>2 DEF ReceiveInstruction, CheckOf
<1>4. id \in InstructionDetail
  <2>1. Head(esi_coord[e]) \in EsiToCoordinator
    BY <1>1
  <2>2. Head(esi_coord[e]).content \in InstructionDetail
    BY <2>1, <1>1 DEF EsiToCoordinator, Instruct
  <2> QED BY <2>2, <1>2, KeptTypes
<1>5. CheckOf(id).type \in Checks
  BY <1>4 DEF CheckOf, WithContent, CheckFor, Checks, InstructionDetail, Operation
<1>6. CheckOf(id).type \notin StatusChanges \cup DoneLine
  BY <1>5 DEF Checks, StatusChanges, DoneLine
<1>7. /\ thread'[e].pc = "permission" /\ thread'[e].id = id
      /\ \A f \in ESI : f # e => thread'[f] = thread[f]
  BY <1>3, <1>4, ThreadAsked, ThreadAskedFor DEF TypeOK
<1> QED BY <1>1, <1>3, <1>4, <1>5, <1>6, <1>7

LEMMA AskReport ==
  ASSUME TypeOK, OneLine, OthersThanCoordinator, "answers" \notin Windows, ReportInv,
         NEW e \in ESI, ReceiveInstruction(e)
  PROVE  ReportInv' /\ \A f \in ESI : Granted(f)' => Granted(f) /\ thread'[f] = thread[f]
<1>1. /\ coord_planner \in Seq(CoordinatorFrame) /\ planner_coord' = planner_coord
      /\ \A f \in ESI : ~Asking(f)
      /\ taken_keys' = taken_keys
  BY DEF ReceiveInstruction, TypeOK, ChannelsTypeOK, Asking, OthersThanCoordinator, plannerVars
<1>2. PICK id \in InstructionDetail :
        /\ coord_planner' = Append(coord_planner, CheckOf(id))
        /\ CheckOf(id).type \in Checks /\ CheckOf(id).type \notin StatusChanges \cup DoneLine
        /\ thread[e].pc = "recv" /\ thread'[e].pc = "permission" /\ thread'[e].id = id
        /\ \A f \in ESI : f # e => thread'[f] = thread[f]
  BY AskSent
<1>3. PICK frame : frame = CheckOf(id)
  OBVIOUS
<1>6. /\ frame.type \notin StatusChanges /\ frame.type \notin DoneLine
      /\ coord_planner' = Append(coord_planner, frame)
  BY <1>2, <1>3
<1>8. /\ thread[e].pc = "recv" /\ thread'[e].pc = "permission" /\ thread'[e].id = id
      /\ \A f \in ESI : f # e => thread'[f] = thread[f]
  BY <1>2
<1>9. planner_coord = <<>> /\ ~Carries(coord_planner, Checks)
  BY <1>1 DEF OneLine, OneQuestion
<1>10. ~Carries(planner_coord, Allowed)
  <2>1. Len(<<>>) = 0 /\ 1..0 = {}
    OBVIOUS
  <2> QED BY <2>1, <1>9 DEF Carries
<1>11. \A f \in ESI : Granted(f)' => Granted(f) /\ thread'[f] = thread[f]
  BY <1>1, <1>8, <1>10 DEF Granted, Asking
<1>12. ChangeFirst'
  <2>1. \A f \in ESI : thread[f].pc = "line_ok" => thread'[f].pc = "line_ok"
    BY <1>1, <1>8
  <2> QED BY <2>1, <1>1, <1>6, ChangeSent DEF ReportInv
<1>13. AskedAndTold'
  <2>1. AsksFor(coord_planner, id)
    BY <1>9 DEF AsksFor, Carries
  <2>2. AsksFor(coord_planner', id)
    BY <2>1, <1>1, <1>3, <1>6, FramesJoin
  <2>3. \A f \in ESI : Asking(f)' => f = e
    BY <1>1, <1>8 DEF Asking
  <2>4. \A f \in ESI : thread'[f].pc = "change" => thread[f].pc = "change" /\ thread'[f] = thread[f]
    BY <1>8
  <2> QED BY <2>2, <2>3, <2>4, <1>8 DEF ReportInv, AskedAndTold
<1>14. FreeUntilTold'
  <2>1. ~Takes(frame)
    BY <1>6 DEF Takes
  <2>2. TakesFree(coord_planner', taken_keys)
    BY <2>1, <1>1, <1>6, FramesJoin DEF ReportInv, FreeUntilTold
  <2> QED BY <2>2, <1>1, <1>11 DEF ReportInv, FreeUntilTold
<1> QED BY <1>11, <1>12, <1>13, <1>14 DEF ReportInv

\* The end of a line is reported: its change, if any, has been.
LEMMA DoneReport ==
  ASSUME TypeOK, OthersThanCoordinator, ReportInv, NEW e \in ESI, NotifyLineOk(e)
  PROVE  ReportInv' /\ \A f \in ESI : Granted(f)' => Granted(f) /\ thread'[f] = thread[f]
<1> DEFINE frame == Header("ESI_EXECUTION_LINE_OK")
<1>1. /\ coord_planner \in Seq(CoordinatorFrame) /\ coord_planner' = Append(coord_planner, frame)
      /\ UNCHANGED <<planner_coord, taken_keys>>
      /\ thread' = [thread EXCEPT ![e] = [NoThread EXCEPT !.pc = "recv"]]
      /\ frame.type \in DoneLine /\ frame.type \notin Checks /\ frame.type \notin StatusChanges
  BY DEF NotifyLineOk, Header, DoneLine, Checks, StatusChanges, TypeOK, ChannelsTypeOK,
     OthersThanCoordinator, plannerVars
<1> HIDE DEF frame
<1>2. thread'[e].pc = "recv" /\ \A f \in ESI : f # e => thread'[f] = thread[f]
  BY <1>1, ThreadFree DEF TypeOK
<1>4. ChangeFirst'
  BY <1>1, ChangeSent DEF ReportInv
<1>5. \A f \in ESI : /\ Granted(f)' => Granted(f) /\ thread'[f] = thread[f]
                     /\ Asking(f)' => Asking(f) /\ thread'[f] = thread[f]
                     /\ thread'[f].pc = "change" => thread'[f] = thread[f]
  BY <1>1, <1>2 DEF Granted, Asking
<1>6. AskedAndTold'
  <2>1. \A id : AsksFor(coord_planner, id) => AsksFor(coord_planner', id)
    BY <1>1, FramesJoin
  <2> QED BY <2>1, <1>5 DEF ReportInv, AskedAndTold
<1>7. FreeUntilTold'
  <2>1. ~Takes(frame)
    BY <1>1 DEF Takes
  <2>2. TakesFree(coord_planner', taken_keys)
    BY <2>1, <1>1, FramesJoin DEF ReportInv, FreeUntilTold
  <2> QED BY <2>2, <1>1, <1>5 DEF ReportInv, FreeUntilTold
<1> QED BY <1>4, <1>5, <1>6, <1>7 DEF ReportInv

\* The change of a key is reported, before the end of its line.
LEMMA ChangeNotified ==
  ASSUME TypeOK, PlannerInv, OneLine, ChangeFirst, NEW e \in ESI, NotifyChange(e)
  PROVE  ChangeFirst'
<1>1. PICK frame : frame = WithContent("RESOURCE_STATUS_CHANGE_TO_PLANNER",
                             [ESIName |-> thread[e].id.ESIName, key |-> thread[e].id.key,
                              status |-> IF thread[e].id.operation = "STORE_OP"
                                           THEN "RELEASED" ELSE "BLOCKED"])
  OBVIOUS
<1>2. /\ coord_planner \in Seq(CoordinatorFrame) /\ coord_planner' = Append(coord_planner, frame)
      /\ thread[e].pc = "change" /\ thread' = [thread EXCEPT ![e].pc = "line_ok"]
  BY <1>1 DEF NotifyChange, TypeOK, ChannelsTypeOK
<1>3. frame.type \in StatusChanges /\ frame.type \notin DoneLine
  BY <1>1 DEF WithContent, StatusChanges, DoneLine
<1>4. ~Carries(coord_planner, StatusChanges) /\ ~Carries(coord_planner, DoneLine)
  BY <1>2, NothingTold DEF Granted
<1>5. thread'[e].pc = "line_ok"
  BY <1>2, ThreadPc DEF TypeOK
<1> QED BY <1>2, <1>3, <1>4, <1>5, ChangeSent

\* The change of a key is reported: the key of a GET still is free.
LEMMA ChangeReport ==
  ASSUME TypeOK, PlannerInv, OneLine, OthersThanCoordinator, ReportInv,
         NEW e \in ESI, NotifyChange(e)
  PROVE  ReportInv' /\ \A f \in ESI : ~Granted(f)'
<1> DEFINE id == thread[e].id
           frame == WithContent("RESOURCE_STATUS_CHANGE_TO_PLANNER",
                      [ESIName |-> id.ESIName, key |-> id.key,
                       status |-> IF id.operation = "STORE_OP" THEN "RELEASED" ELSE "BLOCKED"])
<1>1. /\ coord_planner \in Seq(CoordinatorFrame) /\ coord_planner' = Append(coord_planner, frame)
      /\ UNCHANGED <<planner_coord, taken_keys>> /\ thread[e].pc = "change"
      /\ thread' = [thread EXCEPT ![e].pc = "line_ok"]
  BY DEF NotifyChange, TypeOK, ChannelsTypeOK, OthersThanCoordinator, plannerVars
<1>2. frame.type \in StatusChanges /\ frame.type \notin Checks /\ frame.type \notin DoneLine
  BY DEF WithContent, StatusChanges, Checks, DoneLine
<1>3. Takes(frame) => id.operation # "STORE_OP" /\ frame.content.key = id.key
  BY DEF Takes, WithContent
<1> HIDE DEF frame, id
<1>4. /\ thread'[e].pc = "line_ok" /\ thread[e].id = id
      /\ \A f \in ESI : f # e => thread'[f] = thread[f]
  <2>1. thread' = [thread EXCEPT ![e].pc = "line_ok"]
    BY <1>1
  <2>2. thread'[e].pc = "line_ok" /\ \A f \in ESI : f # e => thread'[f] = thread[f]
    BY <2>1, ThreadPc DEF TypeOK
  <2> QED BY <2>2 DEF id
<1>5. Granted(e)
  BY <1>1 DEF Granted
<1>6. /\ ~Carries(coord_planner, StatusChanges) /\ ~Carries(coord_planner, DoneLine)
      /\ LineAt(e, "executing") \/ LineAt(e, "asked")
  BY <1>5, NothingTold DEF ReportInv
<1>7. \A f \in ESI : ~Granted(f)' /\ (Asking(f)' => Asking(f) /\ thread'[f] = thread[f])
  <2>1. \A f \in ESI : Granted(f) => f = e
    BY <1>6, NothingTold DEF ReportInv, OneLine, InOnePlace, Place
  <2> QED BY <2>1, <1>1, <1>4 DEF Granted, Asking
<1>8. ChangeFirst'
  BY ChangeNotified DEF ReportInv
<1>9. AskedAndTold'
  <2>1. \A other : AsksFor(coord_planner, other) => AsksFor(coord_planner', other)
    BY <1>1, <1>2, FramesJoin
  <2>2. \A f \in ESI : thread'[f].pc # "change"
    BY <1>7 DEF Granted
  <2> QED BY <2>1, <2>2, <1>7 DEF ReportInv, AskedAndTold
<1>10. FreeUntilTold'
  <2>1. ASSUME Takes(frame) PROVE ~HasNode(taken_keys, frame.content.key, "BLOCKED")
    <3>1. ToldOf(id.operation) /\ id \in InstructionDetail
      BY <1>1, <1>4 DEF ReportInv, AskedAndTold, TypeOK, CoordinatorTypeOK
    <3>2. id.operation = "GET_OP"
      BY <2>1, <1>3, <3>1 DEF ToldOf, InstructionDetail, Operation
    <3> QED BY <2>1, <1>3, <1>4, <1>5, <3>2 DEF ReportInv, FreeUntilTold
  <2>2. TakesFree(coord_planner', taken_keys)
    BY <2>1, <1>1, FramesJoin DEF ReportInv, FreeUntilTold
  <2> QED BY <2>2, <1>1, <1>7 DEF FreeUntilTold
<1> QED BY <1>7, <1>8, <1>9, <1>10 DEF ReportInv

\* The other steps neither ask nor tell.
LEMMA ThreadReport ==
  ASSUME TypeOK, OneLine, ReportInv, OthersThanCoordinator,
         \/ listening_thread \/ FollowNullInstance \/ BrokenPipe
         \/ \E e \in ESI : \/ ReceiveFinished(e) \/ OpFailed(e) \/ OpOk(e) \/ InstanceSucceeded(e)
                           \/ InstanceFailed(e) \/ InstanceGone(e)
  PROVE  ReportInv' /\ \A f \in ESI : Granted(f)' => Granted(f) /\ thread'[f].id = thread[f].id
<1>1. CoordinatorTypeOK /\ taken_keys' = taken_keys /\ NoneTaken(taken_keys, taken_keys')
  BY DEF TypeOK, OthersThanCoordinator, plannerVars, NoneTaken
<1>2. ASSUME coord_planner' = coord_planner,
             \A f \in ESI : /\ Asking(f)' => Asking(f) /\ thread'[f].id = thread[f].id
                            /\ Granted(f)' => Granted(f) /\ thread'[f].id = thread[f].id
                            /\ thread'[f].pc = "change" =>
                                 thread[f].pc = "change" \/ ToldOf(thread[f].id.operation)
                            /\ thread[f].pc = "line_ok" => thread'[f].pc = "line_ok"
      PROVE  ReportInv' /\ \A f \in ESI : Granted(f)' => Granted(f) /\ thread'[f].id = thread[f].id
  BY <1>1, <1>2, ReportKept
<1>3. CASE \/ \E i \in Inst : AcceptInstance(i)
           \/ SendInitConfig \/ FollowNullInstance \/ BrokenPipe
  <2>1. UNCHANGED <<planner_coord, coord_planner, thread>>
    BY <1>3 DEF AcceptInstance, SendInitConfig, FollowNullInstance, BrokenPipe
  <2> QED BY <2>1, <1>2 DEF Granted, Asking
<1>4. ASSUME NEW e \in ESI, NEW pc, coord_planner' = coord_planner, planner_coord' = planner_coord,
             thread'[e].pc = pc, pc \notin {"permission", "instance"},
             pc = "change" => ToldOf(thread[e].id.operation) /\ thread[e].pc = "instance"
                                 /\ thread'[e].id = thread[e].id,
             thread[e].pc # "line_ok", \A f \in ESI : f # e => thread'[f] = thread[f]
      PROVE  ReportInv' /\ \A f \in ESI : Granted(f)' => Granted(f) /\ thread'[f].id = thread[f].id
  <2>1. /\ ~Asking(e)' /\ (Granted(e)' => Granted(e) /\ thread'[e].id = thread[e].id)
        /\ thread'[e].pc = "change" => ToldOf(thread[e].id.operation)
    BY <1>4 DEF Asking, Granted
  <2>2. \A f \in ESI : f # e => /\ Asking(f)' => Asking(f) /\ thread'[f].id = thread[f].id
                                /\ Granted(f)' => Granted(f) /\ thread'[f].id = thread[f].id
    BY <1>4 DEF Asking, Granted
  <2> QED BY <1>2, <1>4, <2>1, <2>2
<1>5. ASSUME NEW e \in ESI,
             AcceptEsi(e) \/ ReceiveFinished(e) \/ InstanceFailed(e) \/ InstanceGone(e)
      PROVE  ReportInv' /\ \A f \in ESI : Granted(f)' => Granted(f) /\ thread'[f].id = thread[f].id
  <2>1. coord_planner' = coord_planner /\ planner_coord' = planner_coord /\ thread[e].pc # "line_ok"
    BY <1>5 DEF AcceptEsi, ReceiveFinished, InstanceFailed, InstanceGone
  <2>2. \/ \E pc \in {"recv", "done"} : thread' = [thread EXCEPT ![e].pc = pc]
        \/ thread' = [thread EXCEPT ![e] = [NoThread EXCEPT !.pc = "recv"]]
    BY <1>5 DEF AcceptEsi, ReceiveFinished, InstanceFailed, InstanceGone, OperationFailed
  <2>3. thread'[e].pc \in {"recv", "done"} /\ \A f \in ESI : f # e => thread'[f] = thread[f]
    BY <1>1, <2>2, ThreadPc, ThreadFree
  <2> QED BY <2>1, <2>3, <1>4
<1>6. ASSUME NEW e \in ESI, InstanceSucceeded(e)
      PROVE  ReportInv' /\ \A f \in ESI : Granted(f)' => Granted(f) /\ thread'[f].id = thread[f].id
  <2>1. /\ coord_planner' = coord_planner /\ planner_coord' = planner_coord
        /\ thread[e].pc = "instance"
    BY <1>6 DEF InstanceSucceeded
  <2>2. PICK pc : /\ thread' = [thread EXCEPT ![e].pc = pc]
                  /\ pc = "line_ok" \/ (pc = "change" /\ ToldOf(thread[e].id.operation))
    BY <1>6, Zenon DEF InstanceSucceeded
  <2>3. /\ thread'[e].pc = pc /\ thread'[e].id = thread[e].id
        /\ \A f \in ESI : f # e => thread'[f] = thread[f]
    BY <1>1, <2>2, ThreadPc
  <2>4. pc \notin {"permission", "instance"} /\ (pc = "change" => ToldOf(thread[e].id.operation))
    BY <2>2
  <2> QED BY <2>1, <2>3, <2>4, <1>4
<1>7. ASSUME NEW e \in ESI, Asking(e), planner_coord # <<>>, planner_coord' = Tail(planner_coord),
             coord_planner' = coord_planner, ~Asking(e)', thread'[e].pc # "change",
             Granted(e)' => Granted(e) /\ thread'[e].id = thread[e].id,
             \A f \in ESI : f # e => thread'[f] = thread[f]
      PROVE  ReportInv' /\ \A f \in ESI : Granted(f)' => Granted(f) /\ thread'[f].id = thread[f].id
  <2>1. \A f \in ESI : ~Asking(f)'
    BY <1>7, AnswerRead
  <2>2. \A f \in ESI : f # e => (Granted(f)' => Granted(f) /\ thread'[f].id = thread[f].id)
    BY <1>7, <2>1 DEF Granted
  <2>3. thread[e].pc # "line_ok"
    BY <1>7 DEF Asking
  <2> QED BY <1>2, <1>7, <2>1, <2>2, <2>3
<1>8. ASSUME NEW e \in ESI, OpFailed(e)
      PROVE  ReportInv' /\ \A f \in ESI : Granted(f)' => Granted(f) /\ thread'[f].id = thread[f].id
  <2>1. /\ Asking(e) /\ planner_coord # <<>> /\ planner_coord' = Tail(planner_coord)
        /\ coord_planner' = coord_planner
        /\ thread' = [thread EXCEPT ![e] = [NoThread EXCEPT !.pc = "recv"]]
    BY <1>8 DEF OpFailed, Arrives, Asking
  <2>2. thread'[e].pc = "recv" /\ \A f \in ESI : f # e => thread'[f] = thread[f]
    BY <1>1, <2>1, ThreadFree
  <2>3. ~Asking(e)' /\ ~Granted(e)' /\ thread'[e].pc # "change"
    BY <2>2 DEF Asking, Granted
  <2> QED BY <2>1, <2>2, <2>3, <1>7
<1>9. ASSUME NEW e \in ESI, OpOk(e)
      PROVE  ReportInv' /\ \A f \in ESI : Granted(f)' => Granted(f) /\ thread'[f].id = thread[f].id
  <2>1. /\ Asking(e) /\ planner_coord # <<>> /\ planner_coord' = Tail(planner_coord)
        /\ Head(planner_coord).type \in Allowed /\ coord_planner' = coord_planner
    BY <1>9 DEF OpOk, Arrives, Asking, Allowed
  <2>2. PICK target : thread' = [thread EXCEPT ![e] = [@ EXCEPT !.pc = "instance", !.inst = target]]
                        /\ target \in Inst
    BY <1>9, OpOkTarget
  <2>3. /\ thread'[e].pc = "instance" /\ thread'[e].id = thread[e].id
        /\ \A f \in ESI : f # e => thread'[f] = thread[f]
    BY <1>1, <2>2, ThreadSent, ThreadSentTo
  <2>4. Carries(planner_coord, Allowed)
    BY <2>1, FrameReceived DEF TypeOK, ChannelsTypeOK
  <2>5. ~Asking(e)' /\ Granted(e) /\ thread'[e].pc # "change"
    BY <2>1, <2>3, <2>4 DEF Asking, Granted
  <2> QED BY <2>1, <2>3, <2>5, <1>7
<1> QED BY <1>3, <1>5, <1>6, <1>8, <1>9 DEF listening_thread

LEMMA CoordinatorReport ==
  ASSUME TypeOK, PlannerInv, OneLine, OthersThanCoordinator, "answers" \notin Windows, ReportInv,
         CoordinatorNext
  PROVE  ReportInv' /\ \A f \in ESI : Granted(f)' => Granted(f) /\ thread'[f].id = thread[f].id
<1>1. CASE \E e \in ESI : ReceiveInstruction(e)
  BY <1>1, AskReport
<1>2. CASE \E e \in ESI : NotifyChange(e)
  BY <1>2, ChangeReport
<1>3. CASE \E e \in ESI : NotifyLineOk(e)
  BY <1>3, DoneReport
<1>4. CASE \/ listening_thread \/ FollowNullInstance \/ BrokenPipe
           \/ \E e \in ESI : \/ ReceiveFinished(e) \/ OpFailed(e) \/ OpOk(e)
                             \/ InstanceSucceeded(e) \/ InstanceFailed(e) \/ InstanceGone(e)
  BY <1>4, ThreadReport
<1> QED BY <1>1, <1>2, <1>3, <1>4 DEF CoordinatorNext, thread_listen_esi

-----------------------------------------------------------------------------
(***************************************************************************)
(* The change of a line is reported before its end, whatever the operator  *)
(* blocks and frees.                                                       *)
(***************************************************************************)
LEMMA ChangeStep ==
  ASSUME "answers" \notin Windows, TypeOK, PlannerInv, OneLine, ChangeFirst, [Next]_vars
  PROVE  ChangeFirst'
<1>1. /\ coord_planner \in Seq(CoordinatorFrame) /\ thread \in [ESI -> ThreadRecord]
      /\ CoordinatorTypeOK
  BY DEF TypeOK, ChannelsTypeOK, CoordinatorTypeOK
<1>2. CASE PlannerNext /\ OthersThanPlanner
  <2>1. thread' = thread
    BY <1>2, ThreadsKept
  <2>2. CASE ListenNext
    <3>1. \/ coord_planner' = coord_planner
          \/ coord_planner # <<>> /\ coord_planner' = Tail(coord_planner)
      BY <2>2 DEF ListenNext, RegisterEsi, EsiFinished, Undecoded, LostSocket, HandshakeStatus,
         HandshakeHeader, HandshakeName, LineOk, StatusChanged, GetAllowed, GetDenied, block_esi,
         WaitForKey, CheckOwner, FromCoordinator, Arrives, sockets
    <3> QED BY <1>1, <2>1, <3>1, ChangeKept, ChangeRead
  <2>3. CASE RunNext \/ ConsoleNext \/ Segfault \/ \E t \in Releaser : ReleaseNext(t)
    <3>1. coord_planner' = coord_planner
      BY <2>3 DEF RunNext, RunPoll, RunTake, RunPut, RunStart, ClearRedo, ConsoleNext, pause, resume,
         block, unblock, quit, EndOfInput, Command, Segfault, ReleaseNext, FindWaiting,
         UnlinkWaiting, LocateBlocked, MoveToReady, sockets
    <3> QED BY <2>1, <3>1, ChangeKept
  <2> QED BY <1>2, <2>2, <2>3 DEF PlannerNext
<1>3. CASE CoordinatorNext /\ OthersThanCoordinator
  <2>1. ASSUME NEW e \in ESI, ReceiveInstruction(e) PROVE ChangeFirst'
    <3>1. PICK id \in InstructionDetail :
            /\ coord_planner' = Append(coord_planner, CheckOf(id))
            /\ CheckOf(id).type \notin StatusChanges \cup DoneLine /\ thread[e].pc = "recv"
            /\ \A f \in ESI : f # e => thread'[f] = thread[f]
      BY <2>1, AskSent
    <3>2. PICK frame : frame = CheckOf(id)
      OBVIOUS
    <3> QED BY <1>1, <3>1, <3>2, ChangeSent
  <2>2. ASSUME NEW e \in ESI, NotifyLineOk(e) PROVE ChangeFirst'
    <3>1. PICK frame : frame = Header("ESI_EXECUTION_LINE_OK")
      OBVIOUS
    <3>2. /\ coord_planner' = Append(coord_planner, frame)
          /\ frame.type \in DoneLine /\ frame.type \notin StatusChanges
      BY <2>2, <3>1 DEF NotifyLineOk, Header, DoneLine, StatusChanges
    <3> QED BY <1>1, <3>2, ChangeSent
  <2>3. CASE listening_thread \/ FollowNullInstance \/ BrokenPipe
    <3>1. /\ coord_planner' = coord_planner
          /\ thread' = thread \/ \E e \in ESI : thread[e].pc = "off"
                                 /\ \E r : thread' = [thread EXCEPT ![e] = r]
      BY <2>3 DEF listening_thread, AcceptEsi, AcceptInstance, SendInitConfig, FollowNullInstance,
         BrokenPipe
    <3>2. \A f \in ESI : thread[f].pc = "line_ok" => thread'[f].pc = "line_ok"
      BY <1>1, <3>1
    <3> QED BY <3>1, <3>2, ChangeKept
  <2>4. ASSUME NEW e \in ESI,
               \/ ReceiveFinished(e) \/ OpFailed(e) \/ OpOk(e) \/ InstanceSucceeded(e)
               \/ InstanceFailed(e) \/ InstanceGone(e)
        PROVE  ChangeFirst'
    <3>1. /\ coord_planner' = coord_planner /\ thread[e].pc # "line_ok"
          /\ \E r : thread' = [thread EXCEPT ![e] = r]
      BY <2>4, Zenon DEF ReceiveFinished, OpFailed, OpOk, InstanceSucceeded, InstanceFailed,
         InstanceGone, OperationFailed
    <3>2. \A f \in ESI : thread[f].pc = "line_ok" => thread'[f].pc = "line_ok"
      BY <1>1, <3>1
    <3> QED BY <3>1, <3>2, ChangeKept
  <2> QED
    BY <1>3, <2>1, <2>2, <2>3, <2>4, ChangeNotified DEF CoordinatorNext, thread_listen_esi
<1>4. CASE \/ (EsiNext \/ \E e \in ESI : Connect(e)) /\ OthersThanEsi
           \/ InstanceNext /\ OthersThanInstance
           \/ UNCHANGED vars
  <2>1. UNCHANGED <<coord_planner, thread>>
    BY <1>4 DEF OthersThanEsi, OthersThanInstance, vars, channels, coordinatorVars
  <2> QED BY <2>1, ChangeKept
<1> QED BY <1>2, <1>3, <1>4 DEF Next, Step, Terminated

-----------------------------------------------------------------------------
(***************************************************************************)
(* The holders of the keys, as nodes join the lock list and leave it.      *)
(***************************************************************************)
OneHolder(keys) ==
  \A m, n \in 1..Len(keys) :
    /\ keys[m].status = "BLOCKED" /\ keys[n].status = "BLOCKED"
    /\ keys[m].key = keys[n].key
    => m = n

LEMMA AppendHolders ==
  ASSUME NEW S, NEW keys \in Seq(S), NEW node \in S
  PROVE  LET r == Append(keys, node)
         IN /\ node.status # "BLOCKED" =>
                 \A key, name : HeldBy(keys, key, name) => HeldBy(r, key, name)
            /\ node.status # "BLOCKED" => NoneTaken(keys, r)
            /\ OneHolder(keys)
                 /\ (node.status = "BLOCKED" => ~HasNode(keys, node.key, "BLOCKED"))
               => OneHolder(r)
<1> DEFINE r == Append(keys, node)
<1>1. /\ Len(r) = Len(keys) + 1 /\ Len(keys) \in Nat
      /\ \A i \in 1..Len(keys) + 1 : r[i] = IF i = Len(keys) + 1 THEN node ELSE keys[i]
      /\ \A k : HasNode(r, k, "BLOCKED") <=>
                  HasNode(keys, k, "BLOCKED") \/ (node.key = k /\ node.status = "BLOCKED")
  BY AppendProperties, AppendNode
<1> HIDE DEF r
<1>2. ASSUME node.status # "BLOCKED", NEW key, NEW name, HeldBy(keys, key, name)
      PROVE  HeldBy(r, key, name)
  BY <1>1, <1>2 DEF HeldBy
<1>3. node.status # "BLOCKED" => NoneTaken(keys, r)
  BY <1>1 DEF NoneTaken
<1>4. ASSUME OneHolder(keys), node.status = "BLOCKED" => ~HasNode(keys, node.key, "BLOCKED")
      PROVE  OneHolder(r)
  <2> SUFFICES ASSUME NEW m \in 1..Len(r), NEW n \in 1..Len(r),
                      r[m].status = "BLOCKED", r[n].status = "BLOCKED", r[m].key = r[n].key
               PROVE  m = n
    BY DEF OneHolder
  <2>1. CASE m \in 1..Len(keys) /\ n \in 1..Len(keys)
    BY <1>1, <1>4, <2>1 DEF OneHolder
  <2>2. CASE m = Len(keys) + 1 /\ n \in 1..Len(keys)
    BY <1>1, <1>4, <2>2 DEF HasNode
  <2>3. CASE m \in 1..Len(keys) /\ n = Len(keys) + 1
    BY <1>1, <1>4, <2>3 DEF HasNode
  <2> QED BY <1>1, <2>1, <2>2, <2>3
<1> QED BY <1>2, <1>3, <1>4 DEF r

LEMMA UnlinkHolders ==
  ASSUME NEW S, NEW keys \in Seq(S), NEW k, NEW status
  PROVE  LET q == Unlink(keys, k, status)
         IN /\ status # "BLOCKED" =>
                 \A key, name : HeldBy(keys, key, name) => HeldBy(q, key, name)
            /\ NoneTaken(keys, q)
            /\ OneHolder(keys) => OneHolder(q)
<1> DEFINE n == Search(keys, k, status)
           q == Unlink(keys, k, status)
<1>1. \A key, st : /\ HasNode(q, key, st) => HasNode(keys, key, st)
                   /\ HasNode(keys, key, st) /\ (key # k \/ st # status) => HasNode(q, key, st)
  BY UnlinkNodes
<1>2. CASE ~HasNode(keys, k, status)
  BY <1>2 DEF Unlink, NoneTaken
<1>3. CASE HasNode(keys, k, status)
  <2>1. /\ n \in 1..Len(keys) /\ Len(q) = Len(keys) - 1
        /\ \A j \in 1..Len(q) : q[j] = keys[IF j < n THEN j ELSE j + 1]
    BY <1>3, UnlinkMembers
  <2> HIDE DEF n, q
  <2>2. \A j \in 1..Len(q) : (IF j < n THEN j ELSE j + 1) \in 1..Len(keys)
    BY <2>1
  <2>3. \A j, i \in 1..Len(q) :
          (IF j < n THEN j ELSE j + 1) = (IF i < n THEN i ELSE i + 1) => i = j
    BY <2>1
  <2>4. ASSUME OneHolder(keys) PROVE OneHolder(q)
    <3> SUFFICES ASSUME NEW i \in 1..Len(q), NEW j \in 1..Len(q),
                        q[i].status = "BLOCKED", q[j].status = "BLOCKED", q[i].key = q[j].key
                 PROVE  i = j
      BY DEF OneHolder
    <3> DEFINE x == IF i < n THEN i ELSE i + 1
               y == IF j < n THEN j ELSE j + 1
    <3>1. x \in 1..Len(keys) /\ y \in 1..Len(keys) /\ q[i] = keys[x] /\ q[j] = keys[y]
      BY <2>1, <2>2
    <3>2. x = y => i = j
      BY <2>3
    <3> HIDE DEF x, y
    <3> QED
      BY <2>4, <3>1, <3>2 DEF OneHolder
  <2>5. ASSUME status # "BLOCKED", NEW key, NEW name, HeldBy(keys, key, name)
        PROVE  HeldBy(q, key, name)
    BY <1>1, <2>1, <2>2, <2>5 DEF HeldBy
  <2>6. NoneTaken(keys, q)
    BY <1>1 DEF NoneTaken
  <2> QED BY <2>4, <2>5, <2>6 DEF q
<1> QED BY <1>2, <1>3

\* What happens to the lock list between the reports of the coordinator.
KeysMove ==
  \/ taken_keys' = taken_keys
  \/ \E k \in Key : taken_keys' = Unlink(taken_keys, k, "WAITING")
  \/ \E k \in Key, name \in Name : taken_keys' = Append(taken_keys, Node(name, k, "WAITING"))
Freed == \E k \in Key : taken_keys' = Unlink(taken_keys, k, "BLOCKED")

LEMMA HoldersKept ==
  ASSUME ListsTypeOK, KeysMove \/ Freed
  PROVE  /\ NoneTaken(taken_keys, taken_keys')
         /\ KeyExclusive => KeyExclusive'
         /\ KeysMove => \A key, name : HeldBy(taken_keys, key, name) => HeldBy(taken_keys', key, name)
<1>1. taken_keys \in Seq(KeyNode)
  BY DEF ListsTypeOK
<1>2. /\ KeyExclusive <=> OneHolder(taken_keys)
      /\ KeyExclusive' <=> OneHolder(taken_keys')
  BY DEF KeyExclusive, OneHolder
<1>3. CASE taken_keys' = taken_keys
  BY <1>2, <1>3 DEF NoneTaken
<1>4. CASE \E k \in Key : taken_keys' = Unlink(taken_keys, k, "WAITING")
  BY <1>1, <1>2, <1>4, UnlinkHolders
<1>5. CASE \E k \in Key, name \in Name : taken_keys' = Append(taken_keys, Node(name, k, "WAITING"))
  <2>1. PICK k \in Key, name \in Name : taken_keys' = Append(taken_keys, Node(name, k, "WAITING"))
    BY <1>5
  <2>2. PICK node : node = Node(name, k, "WAITING")
    OBVIOUS
  <2>3. node \in KeyNode /\ node.status # "BLOCKED"
    BY <2>2 DEF Node, KeyNode
  <2> QED BY <1>1, <1>2, <2>1, <2>2, <2>3, AppendHolders
<1>6. ASSUME ~KeysMove
      PROVE  NoneTaken(taken_keys, taken_keys') /\ (KeyExclusive => KeyExclusive')
  BY <1>1, <1>2, <1>6, UnlinkHolders DEF Freed
<1> QED BY <1>3, <1>4, <1>5, <1>6 DEF KeysMove

-----------------------------------------------------------------------------
\* The steps of the planner that are not about a line.
LEMMA QuietKeys ==
  ASSUME PlannerInv, OthersThanPlanner, \A c \in Commands : c.name # "bloquear",
         \/ \E t \in Releaser : ReleaseNext(t)
         \/ RunNext \/ ConsoleNext \/ Segfault
         \/ \E e \in ESI : RegisterEsi(e) \/ EsiFinished(e) \/ Undecoded(e) \/ LostSocket(e)
         \/ HandshakeStatus \/ HandshakeHeader \/ HandshakeName \/ block_esi \/ WaitForKey
  PROVE  /\ UNCHANGED <<coord_planner, planner_coord, thread>>
         /\ KeysMove \/ (Freed /\ \E c \in Commands : c.name = "desbloquear")
<1>0. thread' = thread
  BY ThreadsKept
<1>1. ASSUME NEW t \in Releaser, ReleaseNext(t)
      PROVE  UNCHANGED <<coord_planner, planner_coord>> /\ KeysMove
  <2>1. CASE UnlinkWaiting(t)
    <3>1. release[t].key \in Key
      BY <2>1 DEF UnlinkWaiting, PlannerInv, LocalsSound
    <3>2. /\ taken_keys' = Unlink(taken_keys, release[t].key, "WAITING")
          /\ UNCHANGED <<coord_planner, planner_coord>>
      BY <2>1 DEF UnlinkWaiting, sockets
    <3> QED BY <3>1, <3>2 DEF KeysMove
  <2>2. CASE FindWaiting(t) \/ LocateBlocked(t) \/ MoveToReady(t)
    BY <2>2 DEF FindWaiting, LocateBlocked, MoveToReady, sockets, KeysMove
  <2> QED BY <1>1, <2>1, <2>2 DEF ReleaseNext
<1>2. CASE RunNext
  BY <1>0, <1>2 DEF RunNext, RunPoll, RunTake, RunPut, RunStart, ClearRedo, sockets, KeysMove
<1>3. CASE Segfault
  BY <1>0, <1>3 DEF Segfault, sockets, KeysMove
<1>4. CASE ConsoleNext
  <2>1. PICK c \in Commands : pause(c) \/ resume(c) \/ block(c) \/ unblock(c) \/ quit(c) \/ EndOfInput(c)
    BY <1>4 DEF ConsoleNext
  <2>2. UNCHANGED <<coord_planner, planner_coord>>
    BY <2>1 DEF pause, resume, block, unblock, quit, EndOfInput, Command, sockets
  <2>3. ~block(c)
    BY DEF block
  <2>4. CASE pause(c) \/ resume(c) \/ quit(c) \/ EndOfInput(c)
    BY <1>0, <2>2, <2>4 DEF pause, resume, quit, EndOfInput, KeysMove
  <2>5. CASE unblock(c)
    <3>1. /\ c.name = "desbloquear"
          /\ taken_keys' = Unlink(taken_keys, ConsoleKey(c.key), "BLOCKED")
      BY <2>5 DEF unblock, StartRelease
    <3>2. ConsoleKey(c.key) \in Key
      BY <3>1, ConfigAssumption DEF ConsoleKey
    <3> QED BY <1>0, <2>2, <3>1, <3>2 DEF Freed
  <2> QED BY <2>1, <2>3, <2>4, <2>5
<1>5. CASE \/ \E e \in ESI : RegisterEsi(e) \/ EsiFinished(e) \/ Undecoded(e) \/ LostSocket(e)
           \/ HandshakeStatus \/ HandshakeHeader \/ HandshakeName \/ block_esi
  BY <1>0, <1>5 DEF RegisterEsi, EsiFinished, Undecoded, LostSocket, HandshakeStatus,
     HandshakeHeader, HandshakeName, block_esi, plannerVars, sockets, KeysMove
<1>6. CASE WaitForKey
  <2>1. listen.key \in Key /\ listen.name \in Name
    BY <1>6 DEF WaitForKey, PlannerInv, PlannerTypeOK, ThreadsTypeOK, LocalsSound
  <2>2. /\ taken_keys' = Append(taken_keys, Node(listen.name, listen.key, "WAITING"))
        /\ UNCHANGED <<coord_planner, planner_coord>>
    BY <1>6 DEF WaitForKey, wait_for_key, sockets
  <2> QED BY <1>0, <2>1, <2>2 DEF KeysMove
<1> QED BY <1>0, <1>1, <1>2, <1>3, <1>4, <1>5, <1>6

\* A key has one holder: it is free when a GET is reported.
LEMMA StatusExclusive ==
  ASSUME TypeOK, PlannerInv, ReportInv, KeyExclusive, StatusChanged
  PROVE  KeyExclusive'
<1> DEFINE c == Head(coord_planner).content
<1>1. /\ taken_keys \in Seq(KeyNode) /\ coord_planner \in Seq(CoordinatorFrame)
      /\ coord_planner # <<>> /\ Head(coord_planner).type \in StatusChanges
      /\ Head(coord_planner) \in CoordinatorFrame
  BY DEF PlannerInv, PlannerTypeOK, ListsTypeOK, TypeOK, ChannelsTypeOK, StatusChanged,
     FromCoordinator, Arrives, StatusChanges
<1>2. c.key \in Key /\ c.ESIName \in Name
  BY <1>1, FrameContent DEF StatusChanges
<1>3. c.status = "BLOCKED" => ~HasNode(taken_keys, c.key, "BLOCKED")
  BY <1>1, FramesLeave DEF ReportInv, FreeUntilTold, Takes
<1>4. \/ c.status = "BLOCKED" /\ taken_keys' = load_key(taken_keys, c.key, c.ESIName)
      \/ taken_keys' = Unlink(taken_keys, c.key, "BLOCKED")
  BY DEF StatusChanged, StartRelease
<1> HIDE DEF c
<1>5. CASE c.status = "BLOCKED" /\ taken_keys' = load_key(taken_keys, c.key, c.ESIName)
  <2>1. PICK node : node = Node(c.ESIName, c.key, "BLOCKED")
    OBVIOUS
  <2>2. node \in KeyNode /\ node.key = c.key
    BY <1>2, <2>1 DEF Node, KeyNode
  <2>3. taken_keys' = Append(taken_keys, node) /\ OneHolder(taken_keys)
    BY <1>5, <2>1 DEF load_key, KeyExclusive, OneHolder
  <2>4. node.status = "BLOCKED" => ~HasNode(taken_keys, node.key, "BLOCKED")
    BY <1>3, <1>5, <2>2
  <2>5. OneHolder(Append(taken_keys, node))
    BY <1>1, <2>2, <2>3, <2>4, AppendHolders
  <2>6. OneHolder(taken_keys')
    BY <2>3, <2>5
  <2> QED BY <2>6 DEF KeyExclusive, OneHolder
<1>6. CASE taken_keys' = Unlink(taken_keys, c.key, "BLOCKED")
  BY <1>2, <1>6, HoldersKept DEF Freed, PlannerInv, PlannerTypeOK
<1> QED BY <1>4, <1>5, <1>6

\* A permission other than for a GET is the holder's, and there is one.
LEMMA AnswerHeld ==
  ASSUME TypeOK, OneLine, OthersThanPlanner, ReportInv, KeyExclusive,
         GetAllowed \/ GetDenied \/ CheckOwner
  PROVE  HeldUntilUsed'
<1>1. /\ coord_planner \in Seq(CoordinatorFrame) /\ coord_planner # <<>>
      /\ thread' = thread /\ taken_keys \in Seq(KeyNode)
      /\ Head(coord_planner).type \in Checks /\ taken_keys' = taken_keys
      /\ planner_coord \in Seq(PlannerAnswer) /\ thread \in [ESI -> ThreadRecord]
  BY ThreadsKept DEF GetAllowed, GetDenied, CheckOwner, FromCoordinator, Arrives, TypeOK,
     ChannelsTypeOK, CoordinatorTypeOK, PlannerTypeOK, ListsTypeOK, Checks, plannerVars
<1> SUFFICES ASSUME NEW e \in ESI, Granted(e)', thread'[e].id.operation # "GET_OP"
             PROVE  HeldBy(taken_keys', thread'[e].id.key, thread'[e].id.ESIName)
  BY DEF HeldUntilUsed
<1>2. /\ Asking(e) /\ Head(coord_planner) = CheckOf(thread[e].id)
      /\ Carries(planner_coord', Allowed) /\ planner_coord = <<>>
  BY <1>1, AnswerGrants DEF ReportInv
<1>3. PICK id : id = thread[e].id
  OBVIOUS
<1>4. id \in InstructionDetail /\ id.operation # "GET_OP"
  BY <1>1, <1>2, <1>3 DEF TypeOK, CoordinatorTypeOK, Asking
<1>5. /\ Head(coord_planner).type # "CAN_ESI_GET_KEY"
      /\ Head(coord_planner).content.key = id.key
      /\ Head(coord_planner).content.ESIName = id.ESIName
  BY <1>2, <1>3, <1>4 DEF CheckOf, WithContent, CheckFor, InstructionDetail, Operation
<1>6. CheckOwner /\ HasNode(taken_keys, id.key, "BLOCKED")
  BY <1>5 DEF GetAllowed, GetDenied, CheckOwner, FromCoordinator, Arrives
<1>7. ~check_Key_taken(taken_keys, id.key, id.ESIName)
  <2> SUFFICES ASSUME check_Key_taken(taken_keys, id.key, id.ESIName) PROVE FALSE
    OBVIOUS
  <2> DEFINE frame == Header("PLANNER_COORDINATOR_OP_FAILED")
  <2>1. planner_coord' = Append(planner_coord, frame)
    BY <1>5, <1>6 DEF CheckOwner
  <2>2. frame.type \notin Allowed
    BY DEF Header, Allowed
  <2> HIDE DEF frame
  <2>3. ~Carries(planner_coord, Allowed)
    <3>1. Len(<<>>) = 0 /\ 1..0 = {}
      OBVIOUS
    <3> QED BY <3>1, <1>2 DEF Carries
  <2>4. ~Carries(planner_coord', Allowed)
    BY <1>1, <2>1, <2>2, <2>3, FrameSent DEF NoMore
  <2> QED BY <2>4, <1>2
<1>8. HeldBy(taken_keys, id.key, id.ESIName)
  <2> DEFINE m == Search(taken_keys, id.key, "BLOCKED")
  <2>1. /\ m \in 1..Len(taken_keys) /\ taken_keys[m].key = id.key
        /\ taken_keys[m].status = "BLOCKED" /\ taken_keys[m].ESIName = id.ESIName
    BY <1>1, <1>6, <1>7, SearchProperties DEF check_Key_taken
  <2> HIDE DEF m
  <2> QED BY <1>6, <2>1 DEF HeldBy, KeyExclusive
<1> QED BY <1>1, <1>3, <1>8

LEMMA HeldKept ==
  ASSUME HeldUntilUsed,
         \A key, name : HeldBy(taken_keys, key, name) => HeldBy(taken_keys', key, name),
         \A f \in ESI : Granted(f)' => Granted(f) /\ thread'[f].id = thread[f].id
  PROVE  HeldUntilUsed'
BY DEF HeldUntilUsed

\* Every step of the planner.
LEMMA PlannerPermission ==
  ASSUME TypeOK, PlannerInv, OneLine, ReportInv, KeyExclusive, OthersThanPlanner, PlannerNext,
         \A c \in Commands : c.name # "bloquear"
  PROVE  /\ ReportInv' /\ KeyExclusive'
         /\ HeldUntilUsed /\ (\A c \in Commands : c.name # "desbloquear") => HeldUntilUsed'
<1>1. CASE LineOk
  <2>1. taken_keys' = taken_keys /\ planner_coord' = planner_coord /\ thread' = thread
    BY <1>1, ThreadsKept DEF LineOk
  <2>2. \A f \in ESI : Granted(f)' => Granted(f) /\ thread'[f].id = thread[f].id
    BY <2>1, FrameKept, GrantedKept
  <2> QED BY <1>1, <2>1, <2>2, LineOkReport, HeldKept DEF KeyExclusive
<1>2. CASE StatusChanged
  BY <1>2, StatusChangedReport, StatusExclusive DEF HeldUntilUsed
<1>3. CASE GetAllowed \/ GetDenied \/ CheckOwner
  <2>1. taken_keys' = taken_keys
    BY <1>3 DEF GetAllowed, GetDenied, CheckOwner, plannerVars
  <2> QED BY <1>3, <2>1, AnswerReport, AnswerHeld DEF KeyExclusive
<1>4. CASE \/ \E t \in Releaser : ReleaseNext(t)
           \/ RunNext \/ ConsoleNext \/ Segfault
           \/ \E e \in ESI : RegisterEsi(e) \/ EsiFinished(e) \/ Undecoded(e) \/ LostSocket(e)
           \/ HandshakeStatus \/ HandshakeHeader \/ HandshakeName \/ block_esi \/ WaitForKey
  <2>1. /\ UNCHANGED <<coord_planner, planner_coord, thread>>
        /\ KeysMove \/ (Freed /\ \E c \in Commands : c.name = "desbloquear")
    BY <1>4, QuietKeys
  <2>2. /\ NoneTaken(taken_keys, taken_keys') /\ KeyExclusive'
        /\ KeysMove => \A key, name : HeldBy(taken_keys, key, name)
                                        => HeldBy(taken_keys', key, name)
    BY <2>1, HoldersKept DEF PlannerInv, PlannerTypeOK
  <2>3. ReportInv'
    BY <2>1, <2>2, ReportQuiet
  <2>4. \A f \in ESI : Granted(f)' => Granted(f) /\ thread'[f].id = thread[f].id
    BY <2>1, FrameKept, GrantedKept
  <2> QED BY <2>1, <2>2, <2>3, <2>4, HeldKept
<1> QED BY <1>1, <1>2, <1>3, <1>4 DEF PlannerNext, ListenNext

\* Every step.
LEMMA PermissionStep ==
  ASSUME "answers" \notin Windows, \A c \in Commands : c.name # "bloquear",
         TypeOK, PlannerInv, OneLine, ReportInv, KeyExclusive, [Next]_vars
  PROVE  /\ ReportInv' /\ KeyExclusive'
         /\ HeldUntilUsed /\ (\A c \in Commands : c.name # "desbloquear") => HeldUntilUsed'
<1>1. CASE PlannerNext /\ OthersThanPlanner
  BY <1>1, PlannerPermission
<1>2. CASE CoordinatorNext /\ OthersThanCoordinator
  <2>1. taken_keys' = taken_keys
    BY <1>2 DEF OthersThanCoordinator, plannerVars
  <2>2. ReportInv' /\ \A f \in ESI : Granted(f)' => Granted(f) /\ thread'[f].id = thread[f].id
    BY <1>2, CoordinatorReport
  <2> QED BY <2>1, <2>2, HeldKept DEF KeyExclusive
<1>3. CASE \/ (EsiNext \/ \E e \in ESI : Connect(e)) /\ OthersThanEsi
           \/ InstanceNext /\ OthersThanInstance
           \/ UNCHANGED vars
  <2>1. UNCHANGED <<coord_planner, planner_coord, thread, taken_keys>>
    BY <1>3 DEF OthersThanEsi, OthersThanInstance, vars, channels, plannerVars, coordinatorVars
  <2>2. NoneTaken(taken_keys, taken_keys') /\ KeyExclusive'
    BY <2>1 DEF NoneTaken, KeyExclusive
  <2>3. ReportInv'
    BY <2>1, <2>2, ReportQuiet
  <2>4. \A f \in ESI : Granted(f)' => Granted(f) /\ thread'[f].id = thread[f].id
    BY <2>1, FrameKept, GrantedKept
  <2> QED BY <2>1, <2>2, <2>3, <2>4, HeldKept
<1> QED BY <1>1, <1>2, <1>3 DEF Next, Step, Terminated

LEMMA InitPermission ==
  ASSUME Init
  PROVE  ReportInv /\ HeldUntilUsed /\ (IsInjective(BLOCKED_KEYS) => KeyExclusive)
<1>1. coord_planner = <<>> /\ \A e \in ESI : thread[e].pc = "off"
  BY DEF Init, CoordinatorInit, ChannelsInit, NoThread
<1>2. Len(coord_planner) = 0 /\ 1..0 = {}
  BY <1>1
<1>3. \A e \in ESI : ~Asking(e) /\ ~Granted(e) /\ thread[e].pc # "change"
  BY <1>1 DEF Granted, Asking
<1>4. ReportInv /\ HeldUntilUsed
  BY <1>2, <1>3 DEF ReportInv, ChangeFirst, AskedAndTold, FreeUntilTold, TakesFree, HeldUntilUsed,
     Once, Before, Carries
<1>5. ASSUME IsInjective(BLOCKED_KEYS) PROVE KeyExclusive
  <2>1. /\ DOMAIN taken_keys = 1..Len(taken_keys)
        /\ taken_keys = [i \in 1..Len(BLOCKED_KEYS) |-> Node(<<"", 0>>, BLOCKED_KEYS[i], "BLOCKED")]
        /\ DOMAIN BLOCKED_KEYS = 1..Len(BLOCKED_KEYS)
    BY InitPlannerInv, LenProperties, ConfigAssumption
       DEF Init, PlannerInit, pload_Keys, PlannerInv, PlannerTypeOK, ListsTypeOK
  <2>2. \A m \in 1..Len(taken_keys) : m \in DOMAIN BLOCKED_KEYS /\ taken_keys[m].key = BLOCKED_KEYS[m]
    BY <2>1 DEF Node
  <2> QED BY <1>5, <2>2 DEF KeyExclusive, IsInjective
<1> QED BY <1>4, <1>5

LEMMA ChangeFirstHolds ==
  ASSUME "answers" \notin Windows, NoNewline = {}
  PROVE  Spec => []ChangeFirst
<1>1. Init => ChangeFirst
  BY InitPermission DEF ReportInv
<1>2. TypeOK /\ PlannerInv /\ OneLine /\ ChangeFirst /\ [Next]_vars => ChangeFirst'
  BY ChangeStep
<1>3. Spec => []PlannerInv
  BY SystemRunsPlanner, PlannerInvHolds, PTL
<1> QED
  BY <1>1, <1>2, <1>3, OneLineHolds, SystemTypeOK, PTL DEF Spec

\* No key gets two holders, while the threads of the coordinator ask one by
\* one, every script ends in a newline, the configuration names each key once
\* and the operator takes no key (planner launcher.c:208, 215, coordinator
\* launcher.c:211): the key a GET was allowed for is free when it is reported.
THEOREM KeysAreExclusive ==
  ASSUME "answers" \notin Windows, NoNewline = {}, \A c \in Commands : c.name # "bloquear",
         IsInjective(BLOCKED_KEYS)
  PROVE  Spec => []KeyExclusive
<1> DEFINE I == ReportInv /\ KeyExclusive
<1>1. Init => I
  BY InitPermission
<1>2. TypeOK /\ PlannerInv /\ OneLine /\ I /\ [Next]_vars => I'
  BY PermissionStep
<1>3. Spec => []PlannerInv
  BY SystemRunsPlanner, PlannerInvHolds, PTL
<1>4. I => KeyExclusive
  OBVIOUS
<1> HIDE DEF I
<1> QED
  BY <1>1, <1>2, <1>3, <1>4, OneLineHolds, SystemTypeOK, PTL DEF Spec

\* The invariant behind the permissions, when the operator touches no key.
THEOREM PermissionInvHolds ==
  ASSUME "answers" \notin Windows, NoNewline = {},
         \A c \in Commands : c.name \notin {"bloquear", "desbloquear"}, IsInjective(BLOCKED_KEYS)
  PROVE  Spec => []PermissionInv
<1>1. Init => PermissionInv
  BY InitPermission DEF PermissionInv
<1>2. TypeOK /\ PlannerInv /\ OneLine /\ PermissionInv /\ [Next]_vars => PermissionInv'
  BY PermissionStep DEF PermissionInv
<1>3. Spec => []PlannerInv
  BY SystemRunsPlanner, PlannerInvHolds, PTL
<1> QED
  BY <1>1, <1>2, <1>3, OneLineHolds, SystemTypeOK, PTL DEF Spec

\* A permission of the planner still holds when it is used, two processes
\* later (coordinator launcher.c:180, 190, 211).
THEOREM PermissionsHold ==
  ASSUME "answers" \notin Windows, NoNewline = {},
         \A c \in Commands : c.name \notin {"bloquear", "desbloquear"}, IsInjective(BLOCKED_KEYS)
  PROVE  Spec => []PermissionStillHolds
<1>1. ASSUME PermissionInv, TypeOK PROVE PermissionStillHolds
  <2> SUFFICES ASSUME NEW e \in ESI, thread[e].pc \in {"instance", "change"}
               PROVE  IF thread[e].id.operation = "GET_OP"
                        THEN ~HasNode(taken_keys, thread[e].id.key, "BLOCKED")
                        ELSE /\ HasNode(taken_keys, thread[e].id.key, "BLOCKED")
                             /\ ~check_Key_taken(taken_keys, thread[e].id.key, thread[e].id.ESIName)
    BY DEF PermissionStillHolds
  <2>1. Granted(e)
    BY DEF Granted
  <2>2. CASE thread[e].id.operation = "GET_OP"
    BY <1>1, <2>1, <2>2 DEF PermissionInv, ReportInv, FreeUntilTold
  <2>3. CASE thread[e].id.operation # "GET_OP"
    <3> DEFINE id == thread[e].id
               n == Search(taken_keys, id.key, "BLOCKED")
    <3>1. HeldBy(taken_keys, id.key, id.ESIName)
      BY <1>1, <2>1, <2>3 DEF PermissionInv, HeldUntilUsed
    <3>2. /\ HasNode(taken_keys, id.key, "BLOCKED")
          /\ n \in 1..Len(taken_keys) /\ taken_keys[n].key = id.key /\ taken_keys[n].status = "BLOCKED"
      BY <1>1, <3>1, SearchProperties DEF HeldBy, TypeOK, PlannerTypeOK, ListsTypeOK
    <3>3. taken_keys[n].ESIName = id.ESIName
      BY <3>1, <3>2 DEF HeldBy
    <3> QED BY <2>3, <3>2, <3>3 DEF check_Key_taken
  <2> QED BY <2>2, <2>3
<1> QED
  BY <1>1, PermissionInvHolds, SystemTypeOK, PTL
-----------------------------------------------------------------------------
(***************************************************************************)
(* The line to repeat: the flag of an ESI that is ready again.             *)
(***************************************************************************)
AwaitsTurn(e) == e \in ToSet(ready_queue) \/ (run.pc \in {"put", "start"} /\ run.esi = e)

\* The flag is what it was after each of the updates of an ESI.
LEMMA FlagKept ==
  ASSUME NEW r \in ESIRecord
  PROVE  /\ started(r).redo_last_operation = r.redo_last_operation
         /\ estimated(r).redo_last_operation = r.redo_last_operation
         /\ [estimated(r) EXCEPT !.status = "STATUS_FINISHED"].redo_last_operation
              = r.redo_last_operation
         /\ [r EXCEPT !.status = "STATUS_READY"].redo_last_operation = r.redo_last_operation
         /\ [r EXCEPT !.program_counter = @ + 1].redo_last_operation = r.redo_last_operation
         /\ [r EXCEPT !.redo_last_operation = TRUE].redo_last_operation = TRUE
<1>1. /\ started(r).redo_last_operation = r.redo_last_operation
      /\ estimated(r).redo_last_operation = r.redo_last_operation
  BY DEF started, estimated, ESIRecord
<1>2. estimated(r) \in ESIRecord
  BY TurnType
<1>3. [estimated(r) EXCEPT !.status = "STATUS_FINISHED"].redo_last_operation
        = estimated(r).redo_last_operation
  BY <1>2 DEF ESIRecord
<1>4. /\ [r EXCEPT !.status = "STATUS_READY"].redo_last_operation = r.redo_last_operation
      /\ [r EXCEPT !.program_counter = @ + 1].redo_last_operation = r.redo_last_operation
      /\ [r EXCEPT !.redo_last_operation = TRUE].redo_last_operation = TRUE
  BY DEF ESIRecord
<1> QED BY <1>1, <1>3, <1>4

\* A step in which nobody loses its flag, and whoever is made ready has one.
LEMMA FlagsKept ==
  ASSUME RetryInv, fp' = fp, ToSet(esi_sockets_list) \subseteq ToSet(esi_sockets_list'),
         \A e \in ESI : fp[e] > 0 /\ AwaitsTurn(e)' =>
           \/ esi'[e].redo_last_operation
           \/ AwaitsTurn(e) /\ esi'[e].redo_last_operation = esi[e].redo_last_operation,
         LastDispatched'
  PROVE  RetryInv'
BY DEF RetryInv, RetryPending, AwaitsTurn

\* One ESI is updated and keeps its flag, and nobody is made ready.
LEMMA OneUpdated ==
  ASSUME RetryInv, PlannerTypeOK, fp' = fp, UNCHANGED <<esi_sockets_list, ready_queue>>,
         NEW e \in ESI, NEW r, esi' = [esi EXCEPT ![e] = r],
         r.redo_last_operation = esi[e].redo_last_operation,
         run'.pc \in {"put", "start"} => run' = run, LastDispatched'
  PROVE  RetryInv'
<1>1. \A f \in ESI : esi'[f].redo_last_operation = esi[f].redo_last_operation
  BY DEF PlannerTypeOK, EsisTypeOK
<1>2. \A f \in ESI : AwaitsTurn(f)' => AwaitsTurn(f)
  BY DEF AwaitsTurn
<1> QED BY <1>1, <1>2, FlagsKept

\* The running thread is where it was, and no release starts.
LEMMA DispatchedKept ==
  ASSUME RetryInv, UNCHANGED <<running_queue, blocked_queue, finished_queue, run>>,
         release'["listen"].pc # "idle" => release["listen"].pc # "idle"
  PROVE  LastDispatched'
BY DEF RetryInv, LastDispatched

\* Nothing that the flags depend on changes.
LEMMA FlagsSame ==
  ASSUME RetryInv, UNCHANGED <<fp, esi, esi_sockets_list, queues, run>>,
         release'["listen"].pc # "idle" => release["listen"].pc # "idle"
  PROVE  RetryInv'
BY DispatchedKept DEF RetryInv, RetryPending, queues

\* The running thread: it takes an ESI with its flag, reads the flag when it
\* sends the order, and clears it while that ESI has the processor.
LEMMA RunRetry ==
  ASSUME PlannerInv, QueuePartition, OneLine, RetryInv, OthersThanPlanner, RunNext
  PROVE  RetryInv'
<1> USE DEF PlannerInv, PlannerTypeOK
<1>1. fp' = fp /\ UNCHANGED <<blocked_queue, finished_queue, esi_sockets_list>>
  BY DEF OthersThanPlanner, esiVars, RunNext, RunPoll, RunTake, RunPut, RunStart, ClearRedo, queues
<1>0. run'.pc # "redo" => LastDispatched'
  BY DEF LastDispatched
<1>2. CASE RunPoll
  <2>1. UNCHANGED <<esi, ready_queue, running_queue>> /\ run'.pc = "take"
    BY <1>2 DEF RunPoll, queues, ThreadsTypeOK
  <2> QED BY <1>0, <1>1, <2>1, FlagsKept DEF AwaitsTurn
<1>3. CASE RunTake
  <2>1. /\ ready_queue # <<>> /\ ready_queue \in Seq(ESI) /\ IsInjective(ready_queue)
        /\ run' = [pc |-> "put", esi |-> Head(ready_queue)] /\ ready_queue' = Tail(ready_queue)
        /\ UNCHANGED <<esi, running_queue>>
    BY <1>3 DEF RunTake, LocalsSound, ListsTypeOK, QueuePartition, OnceInEach
  <2>2. /\ ToSet(ready_queue') \subseteq ToSet(ready_queue)
        /\ Head(ready_queue) \in ToSet(ready_queue)
    BY <2>1, TailElements
  <2>3. \A f \in ESI : AwaitsTurn(f)' => AwaitsTurn(f)
    BY <2>1, <2>2 DEF AwaitsTurn
  <2>4. run'.pc # "redo"
    BY <2>1
  <2> QED BY <1>0, <1>1, <2>1, <2>3, <2>4, FlagsKept
<1>4. CASE RunPut
  <2>1. /\ run.pc = "put" /\ run'.pc = "start" /\ run'.esi = run.esi
        /\ UNCHANGED <<esi, ready_queue>>
    BY <1>4 DEF RunPut, ThreadsTypeOK
  <2>2. \A f \in ESI : AwaitsTurn(f)' => AwaitsTurn(f)
    BY <2>1 DEF AwaitsTurn
  <2> QED BY <1>0, <1>1, <2>1, <2>2, FlagsKept
<1>5. CASE RunStart
  <2>1. /\ run.pc = "start" /\ run'.pc = "redo" /\ run'.esi = run.esi /\ run.esi \in ESI
        /\ UNCHANGED <<ready_queue, running_queue>>
        /\ esi' = [esi EXCEPT ![run.esi] = started(esi[run.esi])]
    BY <1>5 DEF RunStart, ThreadsTypeOK, LocalsSound, queues
  <2>2. running_queue = <<run.esi>>
    BY <2>1 DEF OneLine, OwnProcessor, LineAt, Place
  <2>3. LastDispatched'
    <3>1. running_queue # <<>> /\ ToSet(running_queue) = {run.esi}
      BY <2>2 DEF ToSet
    <3> QED BY <2>1, <3>1 DEF LastDispatched
  <2>4. started(esi[run.esi]).redo_last_operation = esi[run.esi].redo_last_operation
    BY <2>1, FlagKept DEF EsisTypeOK
  <2> QED BY <1>1, <2>1, <2>3, <2>4, OneUpdated
<1>6. CASE ClearRedo
  <2>1. /\ run.pc = "redo" /\ run'.pc = "poll"
        /\ UNCHANGED <<ready_queue, running_queue>>
        /\ esi' = [esi EXCEPT ![run.esi].redo_last_operation = FALSE]
    BY <1>6 DEF ClearRedo, queues
  <2>2. run.esi \notin ToSet(ready_queue)
    BY <2>1 DEF RetryInv, LastDispatched, QueuePartition, InOneOnly, Apart
  <2>3. \A f \in ESI : AwaitsTurn(f)' => AwaitsTurn(f) /\ f # run.esi
    BY <2>1, <2>2 DEF AwaitsTurn
  <2>4. \A f \in ESI : f # run.esi => esi'[f] = esi[f]
    BY <2>1 DEF EsisTypeOK
  <2> QED BY <1>0, <1>1, <2>1, <2>3, <2>4, FlagsKept
<1> QED BY <1>2, <1>3, <1>4, <1>5, <1>6 DEF RunNext

\* The release of the console waits while the running thread is to clear a
\* flag, or there is none.
ConsoleYields == "redo" \notin Windows \/ release["console"].pc = "idle"

LEMMA YieldsStep ==
  ASSUME PlannerInv, ConsoleYields, [Next]_vars,
         "redo" \notin Windows \/ \A c \in Commands : c.name # "desbloquear"
  PROVE  ConsoleYields'
<1> SUFFICES ASSUME "redo" \in Windows, release["console"].pc = "idle"
             PROVE  release'["console"].pc = "idle"
  BY DEF ConsoleYields
<1>1. release \in [Releaser -> ReleaseRecord] /\ "console" \in Releaser /\ "listen" # "console"
  BY DEF PlannerInv, PlannerTypeOK, ThreadsTypeOK, Releaser
<1>2. CASE PlannerNext /\ OthersThanPlanner
  <2>1. ASSUME NEW t \in Releaser, ReleaseNext(t) PROVE release'["console"].pc = "idle"
    <3>1. t # "console" /\ \E r : release' = [release EXCEPT ![t] = r]
      BY <2>1, Zenon DEF ReleaseNext, FindWaiting, UnlinkWaiting, LocateBlocked, MoveToReady
    <3> QED BY <1>1, <3>1
  <2>2. CASE ListenNext
    <3>1. UNCHANGED release \/ \E r : release' = [release EXCEPT !["listen"] = r]
      BY <2>2, Zenon DEF ListenNext, RegisterEsi, EsiFinished, Undecoded, LostSocket, HandshakeStatus,
         HandshakeHeader, HandshakeName, LineOk, StatusChanged, GetAllowed, GetDenied, block_esi,
         WaitForKey, CheckOwner, plannerVars, StartRelease
    <3> QED BY <1>1, <3>1
  <2>3. CASE RunNext \/ ConsoleNext \/ Segfault
    <3>1. ~ \E c \in Commands : unblock(c)
      BY DEF unblock
    <3>2. UNCHANGED release
      BY <2>3, <3>1 DEF RunNext, RunPoll, RunTake, RunPut, RunStart, ClearRedo, ConsoleNext, pause,
         resume, block, quit, EndOfInput, Segfault
    <3> QED BY <3>2
  <2> QED BY <1>2, <2>1, <2>2, <2>3 DEF PlannerNext
<1>3. CASE \/ (EsiNext \/ \E e \in ESI : Connect(e)) /\ OthersThanEsi
           \/ CoordinatorNext /\ OthersThanCoordinator
           \/ InstanceNext /\ OthersThanInstance
           \/ UNCHANGED vars
  BY <1>3 DEF OthersThanEsi, OthersThanCoordinator, OthersThanInstance, vars, plannerVars
<1> QED BY <1>2, <1>3 DEF Next, Step, Terminated

\* check_whos_waiting sets the flag before the ESI is ready.  While the running
\* thread is to clear a flag, that is of the ESI that has the processor still.
LEMMA WakeRetry ==
  ASSUME PlannerInv, RetryInv, ConsoleYields, OthersThanPlanner, NEW t \in Releaser,
         ReleaseNext(t)
  PROVE  RetryInv'
<1> USE DEF PlannerInv, PlannerTypeOK
<1>0. /\ release \in [Releaser -> ReleaseRecord] /\ "listen" \in Releaser
      /\ release[t].pc # "idle" /\ \E r : release' = [release EXCEPT ![t] = r]
  BY Zenon DEF ThreadsTypeOK, Releaser, ReleaseNext, FindWaiting, UnlinkWaiting, LocateBlocked,
     MoveToReady
<1>1. /\ fp' = fp /\ UNCHANGED <<running_queue, finished_queue, esi_sockets_list, run>>
      /\ release'["listen"].pc # "idle" => release["listen"].pc # "idle"
  <2>1. fp' = fp /\ UNCHANGED <<running_queue, finished_queue, esi_sockets_list, run>>
    BY DEF OthersThanPlanner, esiVars, ReleaseNext, FindWaiting, UnlinkWaiting, LocateBlocked,
       MoveToReady, queues
  <2> QED BY <1>0, <2>1
<1>2. CASE FindWaiting(t) \/ UnlinkWaiting(t) \/ LocateBlocked(t)
  <2>1. UNCHANGED <<esi, queues>>
    BY <1>2 DEF FindWaiting, UnlinkWaiting, LocateBlocked
  <2> QED BY <1>1, <2>1, FlagsSame
<1>3. CASE MoveToReady(t)
  <2> DEFINE e == release[t].esi
  <2>1. /\ e \in ESI /\ ready_queue' = Append(ready_queue, e) /\ ready_queue \in Seq(ESI)
        /\ esi' = [esi EXCEPT ![e].redo_last_operation = TRUE]
    BY <1>3 DEF MoveToReady, ToRepeat, LocalsSound, ListsTypeOK
  <2>2. /\ esi'[e].redo_last_operation = TRUE
        /\ \A f \in ESI : f # e => esi'[f] = esi[f]
    BY <2>1 DEF EsisTypeOK, ESIRecord
  <2>3. ToSet(ready_queue') = ToSet(ready_queue) \cup {e}
    BY <2>1, AppendElements
  <2>4. \A f \in ESI : AwaitsTurn(f)' => AwaitsTurn(f) \/ f = e
    BY <1>1, <2>3 DEF AwaitsTurn
  <2>5. LastDispatched'
    <3> SUFFICES ASSUME run.pc = "redo"
                 PROVE  /\ run.esi \in ToSet(running_queue) /\ running_queue # <<>>
                        /\ \A f \in ToSet(running_queue) : f = run.esi
      BY <1>1 DEF LastDispatched
    <3>1. t = "listen"
      BY <1>0, <1>3 DEF MoveToReady, ConsoleYields, Releaser
    <3>2. running_queue # <<>> /\ \A f \in ToSet(running_queue) : f = run.esi
      BY <1>0, <3>1 DEF RetryInv, LastDispatched
    <3>3. Head(running_queue) \in ToSet(running_queue)
      <4>1. running_queue \in Seq(ESI) /\ Len(running_queue) \in Nat \ {0}
        BY <3>2 DEF ListsTypeOK
      <4>2. 1 \in 1..Len(running_queue) /\ Head(running_queue) = running_queue[1]
        BY <4>1
      <4> QED BY <4>1, <4>2, ElementsOfSeq
    <3> QED BY <3>2, <3>3
  <2> QED BY <1>1, <2>2, <2>4, <2>5, FlagsKept
<1> QED BY <1>2, <1>3 DEF ReleaseNext

\* The listening thread.  Who registers has read no line; and a release starts
\* before the ESI of its line leaves the processor.
LEMMA ListenRetry ==
  ASSUME TypeOK, QueueInv, OneLine, ChangeFirst, RetryInv, OthersThanPlanner, ListenNext
  PROVE  RetryInv'
<1> USE DEF QueueInv, PlannerInv, PlannerTypeOK
<1>1. /\ fp' = fp /\ run' = run
      /\ ~StatusChanged => release' = release
  BY DEF OthersThanPlanner, esiVars, ListenNext, RegisterEsi, EsiFinished, Undecoded, LostSocket,
     HandshakeStatus, HandshakeHeader, HandshakeName, LineOk, StatusChanged, GetAllowed,
     GetDenied, block_esi, WaitForKey, CheckOwner, plannerVars
<1>2. \A e \in ESI : esi[e] \in ESIRecord
  BY DEF EsisTypeOK
<1>3. UNCHANGED <<running_queue, blocked_queue, finished_queue, release>> => LastDispatched'
  BY <1>1, DispatchedKept
<1>4. ASSUME NEW e \in ESI, RegisterEsi(e) PROVE RetryInv'
  <2>1. /\ \A i \in 1..Len(esi_sockets_list) : esi_sockets_list[i] # e
        /\ esi' = [esi EXCEPT ![e] = register_esi(esi_id_counter)]
        /\ esi_sockets_list' = Append(esi_sockets_list, e) /\ ready_queue' = <<e>> \o ready_queue
        /\ ready_queue \in Seq(ESI) /\ esi_sockets_list \in Seq(ESI)
        /\ UNCHANGED <<running_queue, blocked_queue, finished_queue, release>>
    BY <1>4 DEF RegisterEsi, ListsTypeOK, Select, ListenerFree
  <2>2. e \notin ToSet(esi_sockets_list)
    BY <2>1, ElementsOfSeq
  <2>3. ~(fp[e] > 0)
    BY <2>2 DEF RetryInv
  <2>4. /\ ToSet(esi_sockets_list') = ToSet(esi_sockets_list) \cup {e}
        /\ ToSet(ready_queue') = ToSet(ready_queue) \cup {e}
    BY <2>1, AppendElements, ConsElements
  <2>5. \A f \in ESI : AwaitsTurn(f)' => AwaitsTurn(f) \/ f = e
    BY <1>1, <2>4 DEF AwaitsTurn
  <2>6. \A f \in ESI : f # e => esi'[f] = esi[f]
    BY <2>1 DEF EsisTypeOK
  <2> QED BY <1>1, <1>3, <2>1, <2>3, <2>4, <2>5, <2>6, FlagsKept
<1>5. ASSUME NEW e \in ESI, EsiFinished(e) PROVE RetryInv'
  <2> DEFINE h == Head(running_queue)
  <2>1. /\ running_queue # <<>> /\ running_queue \in Seq(ESI) /\ finished_queue \in Seq(ESI)
        /\ IsInjective(running_queue)
        /\ running_queue' = Tail(running_queue) /\ finished_queue' = Append(finished_queue, h)
        /\ esi' = [esi EXCEPT ![h] = [estimated(esi[h]) EXCEPT !.status = "STATUS_FINISHED"]]
        /\ UNCHANGED <<esi_sockets_list, ready_queue, blocked_queue, release>>
        /\ release["listen"].pc = "idle"
    BY <1>5 DEF EsiFinished, Select, ListenerFree, ListsTypeOK, QueuePartition, OnceInEach
  <2>2. h \in ESI
    BY <2>1
  <2>3. /\ ToSet(running_queue') = ToSet(running_queue) \ {h}
        /\ ToSet(finished_queue') = ToSet(finished_queue) \cup {h}
    BY <2>1, <2>2, TailElements, AppendElements
  <2>4. LastDispatched'
    BY <1>1, <2>1, <2>3 DEF RetryInv, LastDispatched
  <2>5. [estimated(esi[h]) EXCEPT !.status = "STATUS_FINISHED"].redo_last_operation
          = esi[h].redo_last_operation
    BY <1>2, <2>2, FlagKept
  <2> QED BY <1>1, <2>1, <2>2, <2>4, <2>5, OneUpdated
<1>6. CASE HandshakeStatus
  <2>1. /\ listen.esi \in ESI
        /\ esi' = [esi EXCEPT ![listen.esi] = [@ EXCEPT !.status = "STATUS_READY"]]
        /\ UNCHANGED <<queues, esi_sockets_list, release>>
    BY <1>6 DEF HandshakeStatus, LocalsSound, Answering
  <2>2. [esi[listen.esi] EXCEPT !.status = "STATUS_READY"].redo_last_operation
          = esi[listen.esi].redo_last_operation
    BY <1>2, <2>1, FlagKept
  <2> QED BY <1>1, <1>3, <2>1, <2>2, OneUpdated DEF queues
<1>7. CASE LineOk
  <2>1. running_queue # <<>> /\ running_queue \in Seq(ESI)
    BY <1>7 DEF LineOk, ListsTypeOK
  <2>2. PICK h \in ESI : h = Head(running_queue)
    BY <2>1
  <2>3. /\ esi' = [esi EXCEPT ![h] = [esi[h] EXCEPT !.program_counter = @ + 1]]
        /\ UNCHANGED <<queues, esi_sockets_list, release>>
    BY <1>7, <2>2 DEF LineOk
  <2>4. [esi[h] EXCEPT !.program_counter = @ + 1].redo_last_operation
          = esi[h].redo_last_operation
    BY <1>2, FlagKept
  <2> QED BY <1>1, <1>3, <2>3, <2>4, OneUpdated DEF queues
<1>8. CASE block_esi
  <2> DEFINE n == FindEsi(running_queue, listen.name)
             e == running_queue[n]
  <2>1. /\ n # 0 /\ running_queue \in Seq(ESI) /\ IsInjective(running_queue)
        /\ running_queue' = RemoveAt(running_queue, n) /\ blocked_queue \in Seq(ESI)
        /\ blocked_queue' = Append(blocked_queue, e)
        /\ esi' = [esi EXCEPT ![e] = estimated(esi[e])]
        /\ UNCHANGED <<esi_sockets_list, ready_queue, finished_queue, release>>
        /\ release["listen"].pc = "idle"
    BY <1>8 DEF block_esi, ListsTypeOK, QueuePartition, OnceInEach, OneAtATime
  <2>2. n \in 1..Len(running_queue)
    BY <2>1, FindEsiRange
  <2>3. e \in ESI
    BY <2>1, <2>2
  <2>4. /\ ToSet(running_queue') = ToSet(running_queue) \ {e}
        /\ ToSet(blocked_queue') = ToSet(blocked_queue) \cup {e}
    BY <2>1, <2>2, <2>3, RemoveAtElements, AppendElements
  <2>5. LastDispatched'
    BY <1>1, <2>1, <2>4 DEF RetryInv, LastDispatched
  <2>6. estimated(esi[e]).redo_last_operation = esi[e].redo_last_operation
    BY <1>2, <2>3, FlagKept
  <2> QED BY <1>1, <2>1, <2>3, <2>5, <2>6, OneUpdated
<1>9. CASE StatusChanged
  <2>1. Carries(coord_planner, StatusChanges)
    <3>1. /\ coord_planner \in Seq(CoordinatorFrame) /\ coord_planner # <<>>
          /\ Head(coord_planner).type \in StatusChanges
      BY <1>9 DEF StatusChanged, FromCoordinator, Arrives, StatusChanges, TypeOK, ChannelsTypeOK
    <3> QED BY <3>1, FrameReceived
  <2>2. running_queue # <<>>
    <3>1. CASE Carries(coord_planner, DoneLine)
      BY <3>1 DEF OneLine, OwnProcessor
    <3>2. CASE \E e \in ESI : thread[e].pc = "line_ok"
      <4>1. PICK e \in ESI : LineAt(e, "executing")
        BY <3>2 DEF LineAt, Executing
      <4> QED BY <4>1 DEF OneLine, OwnProcessor, Place
    <3> QED BY <2>1, <3>1, <3>2 DEF ChangeFirst
  <2>3. UNCHANGED <<esi, esi_sockets_list, queues>>
    BY <1>9 DEF StatusChanged
  <2>4. LastDispatched'
    BY <1>1, <2>2, <2>3 DEF RetryInv, LastDispatched, queues
  <2> QED BY <1>1, <2>3, <2>4, FlagsKept DEF queues, AwaitsTurn
<1>10. CASE \/ \E e \in ESI : Undecoded(e) \/ LostSocket(e)
            \/ HandshakeHeader \/ HandshakeName \/ GetAllowed
            \/ GetDenied \/ WaitForKey \/ CheckOwner
  <2>1. UNCHANGED <<esi, esi_sockets_list, queues, release>>
    BY <1>10 DEF Undecoded, LostSocket, HandshakeHeader, HandshakeName, GetAllowed, GetDenied,
       WaitForKey, CheckOwner, plannerVars, queues
  <2> QED BY <1>1, <2>1, FlagsSame
<1> QED BY <1>4, <1>5, <1>6, <1>7, <1>8, <1>9, <1>10 DEF ListenNext

\* An ESI reads a line only when it has the processor.
LEMMA EsiRetry ==
  ASSUME TypeOK, QueuePartition, OneLine, RetryInv, OthersThanEsi,
         EsiNext \/ \E e \in ESI : Connect(e)
  PROVE  RetryInv'
<1>1. UNCHANGED <<esi, esi_sockets_list, queues, run, release>>
  BY DEF OthersThanEsi, plannerVars
<1>2. CASE fp' = fp
  BY <1>1, <1>2, FlagsSame
<1>3. CASE fp' # fp
  <2>1. PICK e \in ESI : parser(e)
    BY <1>3 DEF EsiNext, Connect, FromPlannerNext, FromCoordinatorNext, HandshakeOk,
       UnknownFromPlanner, CoordHandshakeOk, OperationError, CoordinatorHungUp, Die, esiVars
  <2>2. Ordered(e) /\ \A f \in ESI : f # e => fp'[f] = fp[f]
    BY <2>1 DEF parser, SendLine, SendLastLineAndExit, AbortOnLine, Eof, TypeOK, EsiTypeOK
  <2>3. LineAt(e, "order") /\ running_queue = <<e>>
    BY <2>2, OrderTaken DEF OneLine, OwnProcessor, Place
  <2>4. e \in ToSet(running_queue)
    BY <2>3 DEF ToSet
  <2>5. e \in ToSet(esi_sockets_list) /\ e \notin ToSet(ready_queue)
    BY <2>4 DEF QueuePartition, InOneOnly, NoneMissing, Apart
  <2>6. ~(run.pc = "put" /\ run.esi = e)
    BY <2>4, HandElements DEF QueuePartition, InOneOnly, Apart
  <2>7. ~(run.pc = "start" /\ run.esi = e)
    <3> SUFFICES ASSUME run.pc = "start", run.esi = e PROVE FALSE
      OBVIOUS
    <3>1. LineAt(e, "start")
      BY DEF LineAt
    <3>2. "start" \in Place /\ "order" \in Place /\ "start" # "order"
      BY DEF Place
    <3> QED BY <2>3, <3>1, <3>2 DEF OneLine, InOnePlace
  <2>8. ~AwaitsTurn(e)
    BY <2>5, <2>6, <2>7 DEF AwaitsTurn
  <2> QED BY <1>1, <2>2, <2>5, <2>8, DispatchedKept DEF RetryInv, RetryPending, AwaitsTurn, queues
<1> QED BY <1>2, <1>3

LEMMA RetryStep ==
  ASSUME TypeOK, QueueInv, OneLine, ChangeFirst, ConsoleYields, RetryInv, [Next]_vars
  PROVE  RetryInv'
<1>1. CASE PlannerNext /\ OthersThanPlanner
  <2>1. CASE ConsoleNext \/ Segfault
    <3>1. /\ UNCHANGED <<fp, esi, esi_sockets_list, queues, run>>
          /\ release'["listen"] = release["listen"]
      BY <1>1, <2>1 DEF ConsoleNext, pause, resume, block, unblock, quit, EndOfInput, Command,
         Segfault, StartRelease, OthersThanPlanner, esiVars, QueueInv, PlannerInv, PlannerTypeOK,
         ThreadsTypeOK, Releaser
    <3> QED BY <3>1, FlagsSame
  <2> QED BY <1>1, <2>1, RunRetry, WakeRetry, ListenRetry DEF PlannerNext, QueueInv
<1>2. CASE (EsiNext \/ \E e \in ESI : Connect(e)) /\ OthersThanEsi
  BY <1>2, EsiRetry DEF QueueInv
<1>3. CASE \/ CoordinatorNext /\ OthersThanCoordinator
           \/ InstanceNext /\ OthersThanInstance
           \/ UNCHANGED vars
  <2>1. UNCHANGED <<fp, esi, esi_sockets_list, queues, run, release>>
    BY <1>3 DEF OthersThanCoordinator, OthersThanInstance, vars, plannerVars, esiVars
  <2> QED BY <2>1, FlagsSame
<1> QED BY <1>1, <1>2, <1>3 DEF Next, Step, Terminated

LEMMA InitRetry == Init => RetryInv
<1> SUFFICES ASSUME Init PROVE RetryInv
  OBVIOUS
<1>1. run.pc = "poll" /\ \A e \in ESI : fp[e] = 0
  BY DEF Init, PlannerInit, EsiInit
<1>2. \A e \in ESI : ~(fp[e] > 0)
  BY <1>1
<1> QED BY <1>1, <1>2 DEF RetryInv, RetryPending, LastDispatched

\* The flags of the ESIs, with who has read a line and whose flag the running
\* thread is about to clear (planner launcher.c:304-311, 599): an inductive
\* invariant of the whole system.  The listening thread may handle the whole
\* line of the ESI that was dispatched, and refuse, park or finish it, before
\* its flag is cleared; only a release from the console has to wait.
THEOREM RetryInvHolds ==
  ASSUME "answers" \notin Windows, "console" \notin Windows, NoNewline = {},
         "redo" \notin Windows \/ \A c \in Commands : c.name # "desbloquear"
  PROVE  Spec => []RetryInv
<1>1. Spec => []QueueInv
  BY SystemRunsPlanner, QueueInvHolds, PTL
<1>2. Init => ConsoleYields
  BY DEF Init, PlannerInit, ConsoleYields, Releaser, NoRelease
<1>3. QueueInv => PlannerInv
  BY DEF QueueInv
<1>4. PlannerInv /\ ConsoleYields /\ [Next]_vars => ConsoleYields'
  BY YieldsStep
<1>5. Spec => []ConsoleYields
  BY <1>1, <1>2, <1>3, <1>4, PTL DEF Spec
<1>6. TypeOK /\ QueueInv /\ OneLine /\ ChangeFirst /\ ConsoleYields /\ RetryInv /\ [Next]_vars
        => RetryInv'
  BY RetryStep
<1> QED
  BY <1>1, <1>5, <1>6, InitRetry, OneLineHolds, ChangeFirstHolds, SystemTypeOK, PTL DEF Spec

\* An ESI that was refused repeats the line it was refused: it is never ready
\* without the flag that says so (planner launcher.c:304-311, 599), whether it
\* was parked before or after the running thread cleared that flag.
THEOREM RetriesArePending ==
  ASSUME "answers" \notin Windows, "console" \notin Windows, NoNewline = {},
         "redo" \notin Windows \/ \A c \in Commands : c.name # "desbloquear"
  PROVE  Spec => []RetryPending
<1>1. RetryInv => RetryPending
  BY DEF RetryInv
<1> QED
  BY <1>1, RetryInvHolds, PTL
=============================================================================
