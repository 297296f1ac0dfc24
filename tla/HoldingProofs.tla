--------------------------- MODULE HoldingProofs ---------------------------
(***************************************************************************)
(* Proofs that the lock list of the planner and the scripts of the ESIs    *)
(* agree: who is about to run its next line holds what its lines so far    *)
(* have taken (HoldsWhatItGot).  The names come first, then the line that  *)
(* travels, then the change it causes, then the accounts.                  *)
(***************************************************************************)
EXTENDS PermissionProofs, FiniteSetTheorems

-----------------------------------------------------------------------------
(***************************************************************************)
(* The names: an ESI is numbered in the order of its registration, and     *)
(* hears its name before it is told to run.                                *)
(***************************************************************************)
LEMMA NumberedStep ==
  ASSUME PlannerInv, Numbered, [PlannerNext]_plannerVars
  PROVE  Numbered'
<1>1. CASE \A e \in ESI : ~RegisterEsi(e)
  BY <1>1, IdsKept DEF Numbered
<1>2. ASSUME NEW e \in ESI, RegisterEsi(e) PROVE Numbered'
  <2>1. /\ esi_sockets_list \in Seq(ESI) /\ esi_sockets_list' = Append(esi_sockets_list, e)
        /\ \A i \in 1..Len(esi_sockets_list) : esi_sockets_list[i] # e
        /\ esi_id_counter' = esi_id_counter + 1
    BY <1>2 DEF RegisterEsi, PlannerInv, PlannerTypeOK, ListsTypeOK
  <2>2. e \notin ToSet(esi_sockets_list)
    BY <2>1, ElementsOfSeq
  <2>3. IsInjective(esi_sockets_list')
    BY <2>1, <2>2, AppendElements DEF Numbered
  <2>4. Len(esi_sockets_list') = Len(esi_sockets_list) + 1 /\ Len(esi_sockets_list) \in Nat
    BY <2>1
  <2>5. esi_id_counter' = INIT_ID + Len(esi_sockets_list')
    BY <2>1, <2>4, ConfigAssumption DEF Numbered
  <2> QED BY <2>3, <2>5 DEF Numbered
<1> QED BY <1>1, <1>2

\* While all numbers have one digit, the four bytes of a name are that name.
LEMMA WholeName ==
  ASSUME IsFiniteSet(ESI), INIT_ID + Cardinality(ESI) <= 10,
         PlannerInv, Numbered, IdsDiffer, NEW e \in ESI, e \in Registered
  PROVE  NameOnWire(esi[e].id) = NameOf(e)
<1> DEFINE n == Len(esi_sockets_list)
<1>1. /\ esi_sockets_list \in Seq(ESI) /\ esi[e].id \in Nat /\ esi[e].id < INIT_ID + n
  BY DEF PlannerInv, PlannerTypeOK, ListsTypeOK, EsisTypeOK, ESIRecord, Numbered, IdsDiffer,
     Registered
<1>2. n \in Nat /\ esi_sockets_list \in [1..n -> ESI]
  BY <1>1
<1>3. esi_sockets_list \in Injection(1..n, ESI)
  BY <1>2 DEF Injection, Numbered
<1>4. Cardinality(1..n) <= Cardinality(ESI)
  BY <1>3, FS_Injection
<1>5. Cardinality(1..n) = n
  <2> HIDE DEF n
  <2>1. 1 \in Int /\ n \in Int
    BY <1>2
  <2>2. Cardinality(1..n) = IF 1 > n THEN 0 ELSE n - 1 + 1
    BY <2>1, FS_Interval
  <2> QED BY <1>2, <2>2
<1>6. Cardinality(ESI) \in Nat
  BY FS_CardinalityType
<1>7. esi[e].id < 10
  BY <1>1, <1>2, <1>4, <1>5, <1>6, ConfigAssumption
<1> QED BY <1>1, <1>7, FirstDigitType DEF NameOnWire, NameOf

\* An order that joins what an ESI has to read leaves its greeting in place.
LEMMA OrderJoins ==
  ASSUME NEW S, NEW q \in Seq(S), NEW frame, frame.type \in Orders
  PROVE  /\ OnlyOrders(q, 1) => OnlyOrders(Append(q, frame), 1)
         /\ \A name : Greeted(q, name) => Greeted(Append(q, frame), name)
<1> DEFINE r == Append(q, frame)
<1>1. /\ Len(q) \in Nat /\ Len(r) = Len(q) + 1 /\ r[Len(q) + 1] = frame
      /\ \A n \in 1..Len(q) : r[n] = q[n]
  OBVIOUS
<1> HIDE DEF r
<1>2. \A n \in 1..Len(r) : n \in 1..Len(q) \/ n = Len(q) + 1
  BY <1>1
<1>3. ASSUME OnlyOrders(q, 1) PROVE OnlyOrders(r, 1)
  BY <1>1, <1>2, <1>3 DEF OnlyOrders
<1>4. ASSUME NEW name, Greeted(q, name) PROVE Greeted(r, name)
  <2> DEFINE answer == Header("ESI_PLANNER_HANDSHAKE_OK")
             named  == WithContent("name bytes", name)
  <2>1. Len(q) > 1 /\ q[1] = answer /\ q[2] = named /\ OnlyOrders(q, 3)
    BY <1>4 DEF Greeted
  <2> HIDE DEF answer, named
  <2>2. 1 \in 1..Len(q) /\ 2 \in 1..Len(q) /\ Len(r) > 1
    BY <1>1, <2>1
  <2>3. \A n \in 3..Len(r) : n \in 3..Len(q) \/ n = Len(q) + 1
    BY <1>1
  <2>4. \A n \in 3..Len(q) : n \in 1..Len(q) /\ q[n].type \in Orders
    BY <1>1, <2>1 DEF OnlyOrders
  <2>5. OnlyOrders(r, 3)
    BY <1>1, <2>3, <2>4 DEF OnlyOrders
  <2>6. r[1] = answer /\ r[2] = named
    BY <1>1, <2>1, <2>2
  <2> QED BY <2>2, <2>5, <2>6 DEF Greeted, answer, named
<1> QED BY <1>3, <1>4 DEF r

\* Nothing that the greeting of an ESI depends on changes, and it is not
\* dispatched while it is being answered.
LEMMA NamedKept ==
  ASSUME NEW e \in ESI, NamedFirst(e), planner_esi'[e] = planner_esi[e],
         esi_name'[e] = esi_name[e], e \in Registered' <=> e \in Registered, NameOf(e)' = NameOf(e),
         Answers(e)' <=> Answers(e), Answers(e) => Unanswered(listen'.pc) = Unanswered(listen.pc),
         run'.pc \in {"put", "start"} =>
           listen.pc \notin Answering \/ (run.pc \in {"put", "start"} /\ run'.esi = run.esi)
  PROVE  NamedFirst(e)'
BY DEF NamedFirst, Answers

\* An ESI that was not being answered is sent an order.
LEMMA OrderedNamed ==
  ASSUME TypeOK, NEW e \in ESI, NamedFirst(e), e \in Registered, ~Answers(e), NEW frame,
         frame.type \in Orders, planner_esi' = [planner_esi EXCEPT ![e] = Append(@, frame)],
         esi_name'[e] = esi_name[e], e \in Registered' <=> e \in Registered, NameOf(e)' = NameOf(e), ~Answers(e)'
  PROVE  NamedFirst(e)'
<1>1. planner_esi[e] \in Seq(PlannerToEsi) /\ planner_esi'[e] = Append(planner_esi[e], frame)
  BY DEF TypeOK, ChannelsTypeOK
<1>2. /\ OnlyOrders(planner_esi[e], 1) => OnlyOrders(planner_esi'[e], 1)
      /\ \A name : Greeted(planner_esi[e], name) => Greeted(planner_esi'[e], name)
  BY <1>1, OrderJoins
<1> QED BY <1>2 DEF NamedFirst

\* Whoever has the processor is registered.
LEMMA RunnerRegistered ==
  ASSUME OneLine, QueuePartition, NEW e \in ESI, NEW place \in Place, LineAt(e, place)
  PROVE  e \in Registered /\ running_queue = <<e>>
<1>1. running_queue = <<e>>
  BY DEF OneLine, OwnProcessor
<1>2. e \in ToSet(running_queue)
  BY <1>1 DEF ToSet
<1> QED BY <1>1, <1>2 DEF QueuePartition, NoneMissing, Registered
-----------------------------------------------------------------------------
\* A step of the planner that registers nobody keeps all names.
LEMMA SameNames ==
  ASSUME PlannerInv, [PlannerNext]_plannerVars, esi_sockets_list' = esi_sockets_list
  PROVE  /\ Registered' = Registered /\ \A e \in ESI : NameOf(e)' = NameOf(e)
         /\ esi_id_counter' = esi_id_counter
<1>1. \A e \in ESI : ~RegisterEsi(e)
  <2> SUFFICES ASSUME NEW e \in ESI, RegisterEsi(e) PROVE FALSE
    OBVIOUS
  <2>1. esi_sockets_list \in Seq(ESI) /\ esi_sockets_list' = Append(esi_sockets_list, e)
    BY DEF RegisterEsi, PlannerInv, PlannerTypeOK, ListsTypeOK
  <2>2. Len(esi_sockets_list') = Len(esi_sockets_list) + 1 /\ Len(esi_sockets_list) \in Nat
    BY <2>1
  <2> QED BY <2>2
<1>2. (\A e \in ESI : ids'[e] = ids[e]) /\ esi_id_counter' = esi_id_counter
  BY <1>1, IdsKept
<1> QED BY <1>2 DEF ids, Registered, NameOf

\* The steps of the planner that send an ESI nothing.
LEMMA NamesQuiet ==
  ASSUME \A e \in ESI : NamedFirst(e), UNCHANGED <<planner_esi, esi_name>>,
         Registered' = Registered, \A e \in ESI : NameOf(e)' = NameOf(e),
         listen' = listen \/ (listen.pc \notin Answering /\ listen'.pc \notin Answering),
         run'.pc \in {"put", "start"} =>
           listen.pc \notin Answering \/ (run.pc \in {"put", "start"} /\ run'.esi = run.esi)
  PROVE  \A e \in ESI : NamedFirst(e)'
<1> SUFFICES ASSUME NEW e \in ESI PROVE NamedFirst(e)'
  OBVIOUS
<1>1. Answers(e)' <=> Answers(e)
  BY DEF Answers
<1>2. Answers(e) => Unanswered(listen'.pc) = Unanswered(listen.pc)
  BY DEF Answers
<1> QED BY <1>1, <1>2, NamedKept

\* The steps of the planner that send nothing to an ESI.
LEMMA QuietNames ==
  ASSUME "handshake" \notin Windows, PlannerInv, OthersThanPlanner,
         \/ \E t \in Releaser : ReleaseNext(t)
         \/ RunPoll \/ RunTake \/ RunPut \/ ClearRedo \/ ConsoleNext \/ Segfault
         \/ \E e \in ESI : EsiFinished(e) \/ Undecoded(e) \/ LostSocket(e)
         \/ StatusChanged \/ GetAllowed \/ GetDenied \/ block_esi \/ WaitForKey \/ CheckOwner
  PROVE  /\ UNCHANGED <<planner_esi, esi_name, esi_sockets_list>>
         /\ listen' = listen \/ (listen.pc \notin Answering /\ listen'.pc \notin Answering)
         /\ run'.pc \in {"put", "start"} =>
              listen.pc \notin Answering \/ (run.pc \in {"put", "start"} /\ run'.esi = run.esi)
<1>0. esi_name' = esi_name
  BY DEF OthersThanPlanner, esiVars
<1>1. CASE \E t \in Releaser : ReleaseNext(t)
  BY <1>0, <1>1 DEF ReleaseNext, FindWaiting, UnlinkWaiting, LocateBlocked, MoveToReady, sockets
<1>2. CASE RunPoll \/ RunTake \/ RunPut \/ ClearRedo
  BY <1>0, <1>2 DEF RunPoll, RunTake, RunPut, ClearRedo, sockets, PlannerInv, PlannerTypeOK, ThreadsTypeOK
<1>3. CASE ConsoleNext \/ Segfault
  BY <1>0, <1>3 DEF ConsoleNext, pause, resume, block, unblock, quit, EndOfInput, Command, Segfault, sockets
<1>4. CASE \E e \in ESI : EsiFinished(e) \/ Undecoded(e) \/ LostSocket(e)
  BY <1>0, <1>4 DEF EsiFinished, Undecoded, LostSocket, plannerVars
<1>5. CASE StatusChanged \/ GetAllowed \/ CheckOwner
  BY <1>0, <1>5 DEF StatusChanged, GetAllowed, CheckOwner, plannerVars
<1>6. CASE GetDenied
  <2>1. listen.pc \notin Answering /\ listen'.pc = "block"
    BY <1>6 DEF GetDenied, Select, ListenerFree, Answering, PlannerInv, PlannerTypeOK, ThreadsTypeOK
  <2> QED BY <1>0, <1>6, <2>1 DEF GetDenied, Answering
<1>7. CASE block_esi
  <2>1. listen.pc \notin Answering /\ listen'.pc = "wait"
    BY <1>7 DEF block_esi, Answering, PlannerInv, PlannerTypeOK, ThreadsTypeOK
  <2> QED BY <1>0, <1>7, <2>1 DEF block_esi, Answering, sockets
<1>8. CASE WaitForKey
  <2>1. listen.pc \notin Answering /\ listen'.pc = "select"
    BY <1>8 DEF WaitForKey, Answering, Listening
  <2> QED BY <1>0, <1>8, <2>1 DEF WaitForKey, Answering, sockets
<1> QED BY <1>1, <1>2, <1>3, <1>4, <1>5, <1>6, <1>7, <1>8

\* A new ESI is not in the hands of the running thread.
LEMMA RegisterNames ==
  ASSUME PlannerInv, QueuePartition, OneLine, NamingInv, OthersThanPlanner,
         NEW e \in ESI, RegisterEsi(e)
  PROVE  \A f \in ESI : NamedFirst(f)'
<1>1. /\ esi_sockets_list \in Seq(ESI) /\ esi_sockets_list' = Append(esi_sockets_list, e)
      /\ esi \in [ESI -> ESIRecord] /\ esi' = [esi EXCEPT ![e] = register_esi(esi_id_counter)]
      /\ UNCHANGED <<planner_esi, run, esi_name>>
      /\ listen.pc = "select" /\ listen'.pc = "hs_status" /\ listen'.esi = e
  BY DEF RegisterEsi, PlannerInv, PlannerTypeOK, ListsTypeOK, EsisTypeOK, OthersThanPlanner, esiVars,
     Select, ListenerFree, ThreadsTypeOK
<1>2. e \notin Registered /\ Registered' = Registered \cup {e}
  BY RegisterPartition, AppendElements, <1>1 DEF PlannerInv, PlannerTypeOK, Registered
<1>3. ASSUME NEW f \in ESI, f # e PROVE NamedFirst(f)'
  <2>1. NameOf(f)' = NameOf(f)
    BY <1>1, <1>3 DEF NameOf
  <2>2. ~Answers(f) /\ ~Answers(f)'
    BY <1>1, <1>3 DEF Answers, Answering
  <2>3. listen.pc \notin Answering
    BY <1>1 DEF Answering
  <2> QED BY <1>1, <1>2, <1>3, <2>1, <2>2, <2>3, NamedKept DEF NamingInv
<1>4. NamedFirst(e)'
  <2>1. ~(run.pc \in {"put", "start"} /\ run.esi = e)
    <3>1. CASE run.pc = "put"
      <4>1. run.esi \in ToSet(hand)
        BY <3>1, HandElements
      <4> QED BY <4>1, <1>2 DEF QueuePartition, NoneMissing, Registered
    <3>2. CASE run.pc = "start" /\ run.esi = e
      <4>1. LineAt(e, "start")
        BY <3>2 DEF LineAt
      <4> QED BY <4>1, <1>2, RunnerRegistered DEF Place
    <3> QED BY <3>1, <3>2
  <2>2. planner_esi[e] = <<>>
    BY <1>2 DEF NamingInv, NamedFirst
  <2>3. Unanswered(listen'.pc) = <<>>
    BY <1>1 DEF Unanswered
  <2>4. Answers(e)'
    BY <1>1 DEF Answers, Answering
  <2> QED BY <1>1, <1>2, <2>1, <2>2, <2>3, <2>4 DEF NamedFirst
<1> QED BY <1>3, <1>4

\* The three steps of the answer to a handshake.
LEMMA AnswerNames ==
  ASSUME IsFiniteSet(ESI), INIT_ID + Cardinality(ESI) <= 10, TypeOK, PlannerInv, IdsDiffer,
         NamingInv, OthersThanPlanner, [PlannerNext]_plannerVars,
         HandshakeStatus \/ HandshakeHeader \/ HandshakeName
  PROVE  \A f \in ESI : NamedFirst(f)'
<1>0. PICK e \in ESI : e = listen.esi
  BY DEF HandshakeStatus, HandshakeHeader, HandshakeName, Answering, PlannerInv, LocalsSound
<1>1. /\ listen.pc \in Answering /\ UNCHANGED <<esi_sockets_list, run, esi_name>>
      /\ planner_esi \in [ESI -> Seq(PlannerToEsi)]
  BY DEF HandshakeStatus, HandshakeHeader, HandshakeName, Answering, OthersThanPlanner, esiVars,
     TypeOK, ChannelsTypeOK
<1>2. Registered' = Registered /\ \A f \in ESI : NameOf(f)' = NameOf(f)
  BY <1>1, SameNames
<1>3. /\ Answers(e) /\ e \in Registered /\ ~(run.pc \in {"put", "start"} /\ run.esi = e)
      /\ planner_esi[e] = Unanswered(listen.pc)
  BY <1>0, <1>1 DEF NamingInv, NamedFirst, Answers
<1>4. \A f \in ESI : f # e => ~Answers(f)
  BY <1>0 DEF Answers
<1>5. run'.pc \in {"put", "start"} =>
        listen.pc \notin Answering \/ (run.pc \in {"put", "start"} /\ run'.esi = run.esi)
  BY <1>1
<1>6. CASE HandshakeStatus
  <2>1. /\ planner_esi' = planner_esi /\ listen.pc = "hs_status"
        /\ listen' = [listen EXCEPT !.pc = "hs_header"]
    BY <1>6 DEF HandshakeStatus, sockets
  <2>2. listen'.pc = "hs_header" /\ listen'.esi = e
    BY <1>0, <2>1 DEF PlannerInv, PlannerTypeOK, ThreadsTypeOK
  <2>3. Unanswered(listen'.pc) = Unanswered(listen.pc)
    BY <2>1, <2>2 DEF Unanswered
  <2>4. \A f \in ESI : Answers(f)' <=> Answers(f)
    BY <1>0, <1>1, <2>2 DEF Answers, Answering
  <2> QED BY <1>1, <1>2, <1>5, <2>1, <2>3, <2>4, NamedKept DEF NamingInv
<1>7. CASE HandshakeHeader
  <2> DEFINE frame == Header("ESI_PLANNER_HANDSHAKE_OK")
  <2>1. /\ planner_esi' = [planner_esi EXCEPT ![e] = Append(@, frame)] /\ listen.pc = "hs_header"
        /\ listen' = [listen EXCEPT !.pc = "hs_name"]
    BY <1>0, <1>7 DEF HandshakeHeader, SendTo
  <2>2. listen'.pc = "hs_name" /\ listen'.esi = e
    BY <1>0, <2>1 DEF PlannerInv, PlannerTypeOK, ThreadsTypeOK
  <2>3. planner_esi[e] = <<>>
    BY <1>3, <2>1 DEF Unanswered
  <2>4. planner_esi'[e] = Unanswered(listen'.pc)
    BY <1>1, <2>1, <2>2, <2>3 DEF Unanswered
  <2>5. Answers(e)'
    BY <1>1, <2>2 DEF Answers, Answering
  <2>6. NamedFirst(e)'
    BY <1>1, <1>2, <1>3, <2>4, <2>5 DEF NamedFirst
  <2>7. ASSUME NEW f \in ESI, f # e PROVE NamedFirst(f)'
    <3>1. ~Answers(f)' /\ planner_esi'[f] = planner_esi[f]
      BY <1>1, <2>1, <2>2, <2>7 DEF Answers
    <3> QED BY <1>1, <1>2, <1>4, <1>5, <2>7, <3>1, NamedKept DEF NamingInv
  <2> QED BY <2>6, <2>7
<1>8. CASE HandshakeName
  <2> DEFINE answer == Header("ESI_PLANNER_HANDSHAKE_OK")
             named  == WithContent("name bytes", NameOf(e))
  <2>1. /\ planner_esi' = [planner_esi EXCEPT ![e] = Append(@, named)]
        /\ listen.pc = "hs_name" /\ listen' = Listening
    BY <1>0, <1>3, <1>8, WholeName DEF HandshakeName, SendTo, NamingInv
  <2>2. listen'.pc = "select"
    BY <2>1 DEF Listening
  <2>3. planner_esi[e] = <<answer>>
    BY <1>3, <2>1 DEF Unanswered
  <2> HIDE DEF answer, named
  <2>4. planner_esi'[e] = Append(<<answer>>, named)
    BY <1>1, <2>1, <2>3
  <2>5. \A f \in ESI : ~Answers(f)'
    BY <2>2 DEF Answers, Answering
  <2>6. Greeted(planner_esi'[e], NameOf(e))
    <3> DEFINE q == Append(<<answer>>, named)
    <3>0. <<answer>> \in Seq({answer, named}) /\ Len(<<answer>>) = 1 /\ <<answer>>[1] = answer
      OBVIOUS
    <3>1. Len(q) = 2 /\ q[1] = answer /\ q[2] = named /\ 3..2 = {}
      BY <3>0
    <3> HIDE DEF q
    <3>2. OnlyOrders(q, 3) /\ Len(q) > 1
      BY <3>1 DEF OnlyOrders
    <3>3. Greeted(q, NameOf(e))
      BY <3>1, <3>2, Zenon DEF Greeted, answer, named
    <3> QED BY <2>4, <3>3 DEF q
  <2>7. NamedFirst(e)'
    BY <1>1, <1>2, <1>3, <2>5, <2>6 DEF NamedFirst
  <2>8. ASSUME NEW f \in ESI, f # e PROVE NamedFirst(f)'
    <3>1. planner_esi'[f] = planner_esi[f]
      BY <1>1, <2>1, <2>8
    <3> QED BY <1>1, <1>2, <1>4, <1>5, <2>5, <2>8, <3>1, NamedKept DEF NamingInv
  <2> QED BY <2>7, <2>8
<1> QED BY <1>6, <1>7, <1>8

\* An order is for an ESI that was answered.
LEMMA OrderNames ==
  ASSUME TypeOK, PlannerInv, QueuePartition, OneLine, NamingInv, OthersThanPlanner,
         [PlannerNext]_plannerVars, LineOk \/ RunStart
  PROVE  \A f \in ESI : NamedFirst(f)'
<1>1. PICK e \in ESI, frame \in PlannerToEsi :
        /\ e \in Registered /\ ~Answers(e) /\ ~Answers(e)' /\ frame.type \in Orders
        /\ planner_esi' = [planner_esi EXCEPT ![e] = Append(@, frame)]
        /\ UNCHANGED <<esi_sockets_list, listen>>
        /\ run'.pc \notin {"put", "start"} \/ (run' = run /\ listen.pc \notin Answering)
  <2>1. CASE LineOk
    <3>1. PICK e \in ESI : e = Head(running_queue) /\ running_queue = <<e>>
      BY <2>1, HasProcessor DEF LineOk
    <3> DEFINE frame == Header("PLANNER_ESI_RUN")
    <3>2. /\ planner_esi' = [planner_esi EXCEPT ![e] = Append(@, frame)]
          /\ UNCHANGED <<esi_sockets_list, listen, run>> /\ listen.pc = "select"
      BY <2>1, <3>1 DEF LineOk, OrderNextLine, SendTo, Select, ListenerFree
    <3>3. Carries(coord_planner, DoneLine)
      <4>1. coord_planner \in Seq(CoordinatorFrame) /\ coord_planner # <<>>
            /\ Head(coord_planner).type \in DoneLine
        BY <2>1 DEF LineOk, FromCoordinator, Arrives, DoneLine, TypeOK, ChannelsTypeOK
      <4> QED BY <4>1, FrameReceived
    <3>4. e \in Registered
      BY <3>1, <3>3, RunnerRegistered DEF LineAt, Place
    <3>5. frame.type \in Orders /\ frame \in PlannerToEsi
      BY HeaderTypes DEF Header, Orders
    <3>6. listen.pc \notin Answering /\ listen'.pc \notin Answering
      BY <3>2 DEF Answering
    <3> HIDE DEF frame
    <3> QED BY <3>2, <3>4, <3>5, <3>6 DEF Answers
  <2>2. CASE RunStart
    <3>1. PICK e \in ESI : e = run.esi
      BY <2>2 DEF RunStart, PlannerInv, LocalsSound
    <3>2. PICK frame : frame = Header(IF esi[e].redo_last_operation
                                        THEN "PLANNER_ESI_RUN_LAST_OPERATION" ELSE "PLANNER_ESI_RUN")
      OBVIOUS
    <3>3. /\ planner_esi' = [planner_esi EXCEPT ![e] = Append(@, frame)]
          /\ UNCHANGED <<esi_sockets_list, listen>> /\ run.pc = "start"
          /\ run' = [run EXCEPT !.pc = "redo"]
      BY <2>2, <3>1, <3>2 DEF RunStart, SendTo
    <3>4. run'.pc \notin {"put", "start"}
      BY <3>3 DEF PlannerInv, PlannerTypeOK, ThreadsTypeOK
    <3>5. e \in Registered
      BY <3>1, <3>3, RunnerRegistered DEF LineAt, Place
    <3>6. ~Answers(e)
      BY <3>1, <3>3 DEF NamingInv, NamedFirst
    <3>7. frame.type \in Orders /\ frame \in PlannerToEsi
      BY <3>2, HeaderTypes DEF Header, Orders
    <3> QED BY <3>3, <3>4, <3>5, <3>6, <3>7 DEF Answers
  <2> QED BY <2>1, <2>2
<1>2. Registered' = Registered /\ \A f \in ESI : NameOf(f)' = NameOf(f)
  BY <1>1, SameNames
<1>3. esi_name' = esi_name
  BY DEF OthersThanPlanner, esiVars
<1>4. NamedFirst(e)'
  BY <1>1, <1>2, <1>3, OrderedNamed DEF NamingInv
<1>5. ASSUME NEW f \in ESI, f # e PROVE NamedFirst(f)'
  <2>1. planner_esi'[f] = planner_esi[f]
    BY <1>1, <1>5 DEF TypeOK, ChannelsTypeOK
  <2>2. Answers(f)' <=> Answers(f)
    BY <1>1 DEF Answers
  <2>3. run'.pc \in {"put", "start"} =>
          listen.pc \notin Answering \/ (run.pc \in {"put", "start"} /\ run'.esi = run.esi)
    BY <1>1
  <2> QED BY <1>1, <1>2, <1>3, <2>1, <2>2, <2>3, NamedKept DEF NamingInv
<1> QED BY <1>4, <1>5

\* Every step of the planner.
LEMMA PlannerNames ==
  ASSUME "handshake" \notin Windows, IsFiniteSet(ESI), INIT_ID + Cardinality(ESI) <= 10,
         TypeOK, PlannerInv, QueuePartition, IdsDiffer, OneLine, NamingInv,
         OthersThanPlanner, PlannerNext
  PROVE  NamingInv'
<1>1. Numbered'
  BY NumberedStep DEF NamingInv
<1>2. \A f \in ESI : NamedFirst(f)'
  <2>1. CASE \/ \E t \in Releaser : ReleaseNext(t)
             \/ RunPoll \/ RunTake \/ RunPut \/ ClearRedo \/ ConsoleNext \/ Segfault
             \/ \E e \in ESI : EsiFinished(e) \/ Undecoded(e) \/ LostSocket(e)
             \/ StatusChanged \/ GetAllowed \/ GetDenied \/ block_esi \/ WaitForKey \/ CheckOwner
    BY <2>1, QuietNames, SameNames, NamesQuiet DEF NamingInv
  <2>2. CASE \E e \in ESI : RegisterEsi(e)
    BY <2>2, RegisterNames
  <2>3. CASE HandshakeStatus \/ HandshakeHeader \/ HandshakeName
    BY <2>3, AnswerNames
  <2>4. CASE LineOk \/ RunStart
    BY <2>4, OrderNames
  <2> QED BY <2>1, <2>2, <2>3, <2>4 DEF PlannerNext, ListenNext, RunNext
<1> QED BY <1>1, <1>2 DEF NamingInv
-----------------------------------------------------------------------------
\* What the first frame for an ESI says of its name.
LEMMA HeadNamed ==
  ASSUME NEW e \in ESI, NamedFirst(e), NEW S, planner_esi[e] \in Seq(S), planner_esi[e] # <<>>
  PROVE  /\ Head(planner_esi[e]).type # "name bytes"
         /\ Head(planner_esi[e]).type \in Orders =>
              /\ e \in Registered /\ ~Answers(e)
              /\ esi_name[e] = NameOf(e) /\ OnlyOrders(planner_esi[e], 1)
         /\ Head(planner_esi[e]).type = "ESI_PLANNER_HANDSHAKE_OK" /\ Len(planner_esi[e]) > 1 =>
              e \in Registered /\ ~Answers(e) /\ Greeted(planner_esi[e], NameOf(e))
<1>1. PICK q : q = planner_esi[e]
  OBVIOUS
<1>2. q \in Seq(S) /\ Len(q) \in Nat \ {0} /\ Head(q) = q[1]
  BY <1>1
<1>3. 1 \in 1..Len(q)
  BY <1>2
<1> DEFINE answer == Header("ESI_PLANNER_HANDSHAKE_OK")
<1>4. answer.type = "ESI_PLANNER_HANDSHAKE_OK"
  BY DEF Header
<1>5. CASE e \notin Registered
  BY <1>5 DEF NamedFirst
<1>6. CASE Answers(e)
  <2>1. q = Unanswered(listen.pc)
    BY <1>1, <1>6 DEF NamedFirst
  <2> HIDE DEF answer
  <2>2. q = <<answer>>
    BY <1>1, <2>1 DEF Unanswered, answer
  <2>3. Len(q) = 1 /\ q[1] = answer
    BY <2>2
  <2>4. Head(planner_esi[e]).type = "ESI_PLANNER_HANDSHAKE_OK" /\ ~(Len(planner_esi[e]) > 1)
    BY <1>1, <1>2, <1>4, <2>3
  <2>5. Head(planner_esi[e]).type \notin Orders
    BY <2>4 DEF Orders
  <2> QED BY <2>4, <2>5
<1>7. CASE e \in Registered /\ ~Answers(e) /\ esi_name[e] = NameOf(e) /\ OnlyOrders(q, 1)
  <2>1. q[1].type \in Orders
    BY <1>3, <1>7 DEF OnlyOrders
  <2> QED BY <1>1, <1>2, <1>7, <2>1 DEF Orders
<1>8. CASE e \in Registered /\ ~Answers(e) /\ Greeted(q, NameOf(e))
  <2> HIDE DEF answer
  <2>1. q[1] = answer
    BY <1>8 DEF Greeted, answer
  <2>2. Head(planner_esi[e]).type = "ESI_PLANNER_HANDSHAKE_OK"
    BY <1>1, <1>2, <1>4, <2>1
  <2>3. Head(planner_esi[e]).type \notin Orders /\ Greeted(planner_esi[e], NameOf(e))
    BY <1>1, <1>8, <2>2 DEF Orders
  <2> QED BY <1>8, <2>2, <2>3
<1> QED BY <1>1, <1>5, <1>6, <1>7, <1>8 DEF NamedFirst

\* What is left when an ESI has read an order, or its greeting.
LEMMA OrderLeaves ==
  ASSUME NEW S, NEW q \in Seq(S), q # <<>>
  PROVE  /\ OnlyOrders(q, 1) => OnlyOrders(Tail(q), 1)
         /\ Len(q) > 1 /\ OnlyOrders(q, 3) => OnlyOrders(Tail(Tail(q)), 1)
<1>1. ASSUME OnlyOrders(q, 1) PROVE OnlyOrders(Tail(q), 1)
  BY <1>1, TailFrames DEF OnlyOrders
<1>2. ASSUME Len(q) > 1, OnlyOrders(q, 3) PROVE OnlyOrders(Tail(Tail(q)), 1)
  <2>1. Tail(q) \in Seq(S) /\ Tail(q) # <<>> /\ Len(q) \in Nat
    BY <1>2, TwoFrames
  <2> SUFFICES ASSUME NEW n \in 1..Len(Tail(Tail(q)))
               PROVE  Tail(Tail(q))[n].type \in Orders
    BY DEF OnlyOrders
  <2>2. n + 1 \in 1..Len(Tail(q)) /\ Tail(Tail(q))[n] = Tail(q)[n + 1]
    BY <2>1, TailFrames
  <2>3. n + 1 + 1 \in 1..Len(q) /\ Tail(q)[n + 1] = q[n + 1 + 1]
    BY <2>2, TailFrames
  <2>4. n + 1 + 1 \in 3..Len(q)
    BY <2>1, <2>3
  <2> QED BY <1>2, <2>2, <2>3, <2>4 DEF OnlyOrders
<1> QED BY <1>1, <1>2

\* An ESI reads its name, or an order.
LEMMA ReadNamed ==
  ASSUME TypeOK, NEW e \in ESI, NamedFirst(e), HandshakeOk(e) \/ Ordered(e),
         UNCHANGED <<esi_sockets_list, esi, listen, run>>
  PROVE  NamedFirst(e)' /\ \A f \in ESI : f # e => UNCHANGED <<planner_esi[f], esi_name[f]>>
<1>1. /\ planner_esi \in [ESI -> Seq(PlannerToEsi)] /\ esi_name \in [ESI -> Name]
      /\ planner_esi[e] \in Seq(PlannerToEsi) /\ planner_esi[e] # <<>>
  BY DEF HandshakeOk, Ordered, Arrives, TypeOK, ChannelsTypeOK, EsiTypeOK
<1>2. Registered' = Registered /\ NameOf(e)' = NameOf(e) /\ (Answers(e)' <=> Answers(e))
  BY DEF Registered, NameOf, Answers
<1>3. CASE HandshakeOk(e)
  <2>1. e \in Registered /\ ~Answers(e) /\ Greeted(planner_esi[e], NameOf(e))
    BY <1>1, <1>3, HeadNamed DEF HandshakeOk, Arrives
  <2> DEFINE named == WithContent("name bytes", NameOf(e))
  <2>2. Len(planner_esi[e]) > 1 /\ planner_esi[e][2] = named /\ OnlyOrders(planner_esi[e], 3)
    BY <2>1 DEF Greeted
  <2>3. named.type = "name bytes" /\ named.content = NameOf(e)
    BY DEF WithContent
  <2> HIDE DEF named
  <2>4. /\ planner_esi' = [planner_esi EXCEPT ![e] = Tail(Tail(@))]
        /\ esi_name' = [esi_name EXCEPT ![e] = NameOf(e)]
    BY <1>3, <2>2, <2>3 DEF HandshakeOk
  <2>5. planner_esi'[e] = Tail(Tail(planner_esi[e])) /\ esi_name'[e] = NameOf(e)
    BY <1>1, <2>4
  <2>6. OnlyOrders(planner_esi'[e], 1)
    BY <1>1, <2>2, <2>5, OrderLeaves
  <2> QED BY <1>1, <1>2, <2>1, <2>4, <2>5, <2>6 DEF NamedFirst
<1>4. CASE Ordered(e)
  <2>1. Head(planner_esi[e]).type \in Orders
    BY <1>4 DEF Ordered, Arrives, Orders
  <2>2. e \in Registered /\ ~Answers(e) /\ esi_name[e] = NameOf(e) /\ OnlyOrders(planner_esi[e], 1)
    BY <1>1, <2>1, HeadNamed
  <2>3. planner_esi' = [planner_esi EXCEPT ![e] = Tail(@)] /\ esi_name' = esi_name
    BY <1>4 DEF Ordered, Receive
  <2>4. planner_esi'[e] = Tail(planner_esi[e])
    BY <1>1, <2>3
  <2>5. OnlyOrders(planner_esi'[e], 1)
    BY <1>1, <2>2, <2>4, OrderLeaves
  <2> QED BY <1>1, <1>2, <2>2, <2>3, <2>5 DEF NamedFirst
<1> QED BY <1>3, <1>4

\* Whatever an ESI does, it has heard its name before an order.
LEMMA EsiNames ==
  ASSUME TypeOK, NamingInv, OthersThanEsi, EsiNext \/ \E e \in ESI : Connect(e)
  PROVE  NamingInv' /\ UNCHANGED <<esi_sockets_list, esi, listen, run>>
<1>1. UNCHANGED <<esi_sockets_list, esi, listen, run, esi_id_counter>>
  BY DEF OthersThanEsi, plannerVars
<1>2. /\ Registered' = Registered /\ \A e \in ESI : NameOf(e)' = NameOf(e)
      /\ \A e \in ESI : Answers(e)' <=> Answers(e)
  BY <1>1 DEF Registered, NameOf, Answers
<1>3. ASSUME NEW e \in ESI, UNCHANGED <<planner_esi[e], esi_name[e]>>
      PROVE  NamedFirst(e)'
  BY <1>1, <1>2, <1>3, NamedKept DEF NamingInv
<1>4. CASE UNCHANGED <<planner_esi, esi_name>>
  BY <1>1, <1>3, <1>4 DEF NamingInv, Numbered
<1>5. ASSUME NEW e \in ESI, HandshakeOk(e) \/ Ordered(e) PROVE NamingInv'
  <2>1. NamedFirst(e)' /\ \A f \in ESI : f # e => UNCHANGED <<planner_esi[f], esi_name[f]>>
    BY <1>1, <1>5, ReadNamed DEF NamingInv
  <2>2. \A f \in ESI : NamedFirst(f)'
    BY <1>3, <2>1
  <2> QED BY <1>1, <2>2 DEF NamingInv, Numbered
<1>6. ASSUME NEW e \in ESI, UnknownFromPlanner(e) PROVE FALSE
  <2>1. planner_esi[e] \in Seq(PlannerToEsi) /\ planner_esi[e] # <<>>
        /\ Head(planner_esi[e]).type = "name bytes"
    BY <1>6 DEF UnknownFromPlanner, Arrives, TypeOK, ChannelsTypeOK
  <2> QED BY <2>1, HeadNamed DEF NamingInv
<1>7. ASSUME NEW e \in ESI, \/ Connect(e) \/ CoordHandshakeOk(e) \/ OperationError(e)
                            \/ CoordinatorHungUp(e) \/ Die(e)
      PROVE  UNCHANGED <<planner_esi, esi_name>>
  BY <1>7 DEF Connect, CoordHandshakeOk, OperationError, CoordinatorHungUp, Die, esiVars
<1>8. ASSUME NEW e \in ESI, parser(e) PROVE Ordered(e)
  BY <1>8 DEF parser, SendLine, SendLastLineAndExit, AbortOnLine, Eof
<1> QED
  BY <1>1, <1>4, <1>5, <1>6, <1>7, <1>8 DEF EsiNext, FromPlannerNext, FromCoordinatorNext

\* Every step: each ESI hears its name before its first order.
LEMMA NamingStep ==
  ASSUME "handshake" \notin Windows, IsFiniteSet(ESI), INIT_ID + Cardinality(ESI) <= 10,
         TypeOK, PlannerInv, QueuePartition, IdsDiffer, OneLine, NamingInv, [Next]_vars
  PROVE  NamingInv'
<1>1. CASE PlannerNext /\ OthersThanPlanner
  BY <1>1, PlannerNames
<1>2. CASE (EsiNext \/ \E e \in ESI : Connect(e)) /\ OthersThanEsi
  BY <1>2, EsiNames
<1>3. CASE \/ CoordinatorNext /\ OthersThanCoordinator
           \/ InstanceNext /\ OthersThanInstance
           \/ UNCHANGED vars
  <2>1. UNCHANGED <<planner_esi, esi_name, esi_sockets_list, esi, listen, run, esi_id_counter>>
    BY <1>3 DEF OthersThanCoordinator, OthersThanInstance, vars, channels, plannerVars, esiVars
  <2>2. Registered' = Registered /\ \A e \in ESI : NameOf(e)' = NameOf(e)
    BY <2>1 DEF Registered, NameOf
  <2>3. \A e \in ESI : NamedFirst(e)'
    BY <2>1, <2>2, NamesQuiet DEF NamingInv
  <2> QED BY <2>1, <2>3 DEF NamingInv, Numbered
<1> QED BY <1>1, <1>2, <1>3 DEF Next, Step, Terminated
-----------------------------------------------------------------------------
(***************************************************************************)
(* The line that is carried from process to process is the one its ESI     *)
(* read last.                                                              *)
(***************************************************************************)

\* The frames of those types in r are frames of q.
Among(q, r, types) ==
  \A n \in 1..Len(r) : r[n].type \in types => \E m \in 1..Len(q) : q[m] = r[n]

\* The frames of a channel, when one leaves or another joins.
LEMMA AmongFrames ==
  ASSUME NEW S, NEW q \in Seq(S), NEW types
  PROVE  /\ Among(q, q, types)
         /\ q # <<>> => Among(q, Tail(q), types)
         /\ \A frame : frame.type \notin types => Among(q, Append(q, frame), types)
<1>1. Among(q, q, types)
  BY DEF Among
<1>2. q # <<>> => Among(q, Tail(q), types)
  BY TailFrames DEF Among
<1>3. ASSUME NEW frame, frame.type \notin types PROVE Among(q, Append(q, frame), types)
  <2> DEFINE r == Append(q, frame)
  <2>1. \A n \in 1..Len(r) : \/ n \in 1..Len(q) /\ r[n] = q[n]
                             \/ n = Len(q) + 1 /\ r[n] = frame
    BY AppendFrames
  <2> HIDE DEF r
  <2>2. Among(q, r, types)
    BY <1>3, <2>1 DEF Among
  <2> QED BY <2>2 DEF r
<1> QED BY <1>1, <1>2, <1>3

\* The same for a family of channels, one of which changes.
LEMMA AmongFamily ==
  ASSUME NEW S, NEW I, NEW c \in [I -> Seq(S)], NEW e \in I, NEW types
  PROVE  /\ c[e] # <<>> => \A f \in I : Among(c[f], [c EXCEPT ![e] = Tail(@)][f], types)
         /\ \A frame : frame.type \notin types =>
              \A f \in I : Among(c[f], [c EXCEPT ![e] = Append(@, frame)][f], types)
<1>1. ASSUME c[e] # <<>>, NEW f \in I PROVE Among(c[f], [c EXCEPT ![e] = Tail(@)][f], types)
  <2>1. [c EXCEPT ![e] = Tail(@)][f] = IF f = e THEN Tail(c[e]) ELSE c[f]
    OBVIOUS
  <2>2. c[f] \in Seq(S) /\ c[e] \in Seq(S)
    OBVIOUS
  <2> QED BY <1>1, <2>1, <2>2, AmongFrames
<1>2. ASSUME NEW frame, frame.type \notin types, NEW f \in I
      PROVE  Among(c[f], [c EXCEPT ![e] = Append(@, frame)][f], types)
  <2>1. [c EXCEPT ![e] = Append(@, frame)][f] = IF f = e THEN Append(c[e], frame) ELSE c[f]
    OBVIOUS
  <2>2. c[f] \in Seq(S) /\ c[e] \in Seq(S)
    OBVIOUS
  <2> QED BY <1>2, <2>1, <2>2, AmongFrames
<1> QED BY <1>1, <1>2

\* A step that leaves a line, its message and its thread alone.
LEMMA CarriedKept ==
  ASSUME NEW e \in ESI, LineCarried(e), fp'[e] = fp[e], NameOf(e)' = NameOf(e) \/ fp[e] = 0,
         fp[e] \in Nat, Among(esi_coord[e], esi_coord'[e], Instruct),
         Asking(e)' \/ Executing(e)' => /\ Asking(e) \/ Executing(e)
                                        /\ thread'[e].id = thread[e].id
  PROVE  LineCarried(e)'
<1>1. fp[e] > 0 => LineOf(e)' = LineOf(e)
  BY DEF LineOf
<1>2. ASSUME NEW n \in 1..Len(esi_coord'[e]), esi_coord'[e][n].type \in Instruct
      PROVE  fp'[e] > 0 /\ esi_coord'[e][n].content = LineOf(e)'
  <2>1. PICK m \in 1..Len(esi_coord[e]) : esi_coord[e][m] = esi_coord'[e][n]
    BY <1>2 DEF Among
  <2> QED BY <1>1, <1>2, <2>1 DEF LineCarried
<1>3. Asking(e)' \/ Executing(e)' => fp'[e] > 0 /\ thread'[e].id = LineOf(e)'
  BY <1>1 DEF LineCarried
<1> QED BY <1>2, <1>3 DEF LineCarried

\* The planner carries no line, and names nobody who has read one.
LEMMA PlannerCarried ==
  ASSUME TypeOK, PlannerInv, RetryInv, OthersThanPlanner, PlannerNext,
         \A e \in ESI : LastLineRead(e) /\ LineCarried(e)
  PROVE  \A e \in ESI : LastLineRead(e)' /\ LineCarried(e)'
<1> SUFFICES ASSUME NEW e \in ESI PROVE LastLineRead(e)' /\ LineCarried(e)'
  OBVIOUS
<1>1. /\ UNCHANGED <<fp, fp_beginning_li, process, thread, esi_coord>>
      /\ fp[e] \in Nat /\ esi_coord[e] \in Seq(EsiToCoordinator)
      /\ esi \in [ESI -> ESIRecord]
  BY DEF OthersThanPlanner, esiVars, coordinatorVars, TypeOK, EsiTypeOK, ChannelsTypeOK,
     PlannerTypeOK, EsisTypeOK
<1>2. NameOf(e)' = NameOf(e) \/ fp[e] = 0
  <2>1. CASE \A f \in ESI : ~RegisterEsi(f)
    <3>1. ids'[e] = ids[e]
      BY <2>1, IdsKept
    <3> QED BY <3>1 DEF ids, NameOf
  <2>2. ASSUME NEW f \in ESI, RegisterEsi(f) PROVE NameOf(e)' = NameOf(e) \/ fp[e] = 0
    <3>1. esi' = [esi EXCEPT ![f] = register_esi(esi_id_counter)]
          /\ \A i \in 1..Len(esi_sockets_list) : esi_sockets_list[i] # f
      BY <2>2 DEF RegisterEsi
    <3>2. f \notin ToSet(esi_sockets_list)
      <4>1. esi_sockets_list \in Seq(ESI)
        BY DEF PlannerInv, PlannerTypeOK, ListsTypeOK
      <4> QED BY <3>1, <4>1, ElementsOfSeq
    <3>3. e = f => fp[e] = 0
      BY <1>1, <3>2 DEF RetryInv
    <3>4. e # f => NameOf(e)' = NameOf(e)
      BY <1>1, <3>1 DEF NameOf
    <3> QED BY <3>3, <3>4
  <2> QED BY <2>1, <2>2
<1>3. Among(esi_coord[e], esi_coord'[e], Instruct)
  BY <1>1, AmongFrames
<1> QED BY <1>1, <1>2, <1>3, CarriedKept DEF LastLineRead, Asking, Executing

\* A thread that goes on goes on with the instruction it has.
LEMMA ThreadCarries ==
  ASSUME TypeOK, CoordinatorNext, \A e \in ESI : ~ReceiveInstruction(e)
  PROVE  /\ \A f \in ESI : Asking(f)' \/ Executing(f)' =>
              /\ Asking(f) \/ Executing(f)
              /\ thread'[f].id = thread[f].id
         /\ \A f \in ESI : Asking(f)' => Asking(f)
         /\ \A f \in ESI : Among(esi_coord[f], esi_coord'[f], Instruct)
<1> USE DEF TypeOK
<1>0. /\ esi_coord \in [ESI -> Seq(EsiToCoordinator)]
      /\ \A f \in ESI : Among(esi_coord[f], esi_coord[f], Instruct)
  BY AmongFrames DEF ChannelsTypeOK
<1>1. CASE listening_thread
  <2>1. CASE \E i \in Inst : AcceptInstance(i)
    BY <1>0, <2>1 DEF AcceptInstance, Asking, Executing
  <2>2. CASE SendInitConfig
    BY <1>0, <2>2 DEF SendInitConfig, Asking, Executing
  <2>3. ASSUME NEW e \in ESI, AcceptEsi(e)
        PROVE  /\ thread'[e].pc = "recv" /\ \A f \in ESI : f # e => thread'[f] = thread[f]
               /\ \A f \in ESI : Among(esi_coord[f], esi_coord'[f], Instruct)
    <3>1. thread' = [thread EXCEPT ![e].pc = "recv"]
          /\ esi_coord' = [esi_coord EXCEPT ![e] = Tail(@)] /\ esi_coord[e] # <<>>
      BY <2>3 DEF AcceptEsi, Receive, Arrives
    <3>2. thread'[e].pc = "recv" /\ \A f \in ESI : f # e => thread'[f] = thread[f]
      BY <3>1, ThreadPc
    <3> QED BY <1>0, <3>1, <3>2, AmongFamily
  <2> QED BY <1>1, <2>1, <2>2, <2>3 DEF listening_thread, Asking, Executing
<1>2. CASE FollowNullInstance \/ BrokenPipe
  BY <1>0, <1>2 DEF FollowNullInstance, BrokenPipe, Asking, Executing
<1>3. ASSUME NEW e \in ESI, ReceiveFinished(e)
      PROVE  /\ thread'[e].pc = "done" /\ \A f \in ESI : f # e => thread'[f] = thread[f]
             /\ \A f \in ESI : Among(esi_coord[f], esi_coord'[f], Instruct)
  <2>1. thread' = [thread EXCEPT ![e].pc = "done"]
        /\ esi_coord' = [esi_coord EXCEPT ![e] = Tail(@)] /\ esi_coord[e] # <<>>
    BY <1>3 DEF ReceiveFinished, Receive, Arrives
  <2>2. thread'[e].pc = "done" /\ \A f \in ESI : f # e => thread'[f] = thread[f]
    BY <2>1, ThreadPc
  <2> QED BY <1>0, <2>1, <2>2, AmongFamily
<1>4. ASSUME NEW e \in ESI, \/ OpFailed(e) \/ InstanceFailed(e) \/ InstanceGone(e) \/ NotifyLineOk(e)
      PROVE  /\ thread'[e].pc = "recv" /\ \A f \in ESI : f # e => thread'[f] = thread[f]
             /\ esi_coord' = esi_coord
  <2>1. thread' = [thread EXCEPT ![e] = [NoThread EXCEPT !.pc = "recv"]] /\ esi_coord' = esi_coord
    BY <1>4 DEF OpFailed, InstanceFailed, InstanceGone, OperationFailed, NotifyLineOk
  <2> QED BY <2>1, ThreadFree
<1>5. ASSUME NEW e \in ESI, OpOk(e) \/ InstanceSucceeded(e) \/ NotifyChange(e)
      PROVE  /\ (Asking(e) \/ Executing(e)) /\ thread'[e].pc \in {"instance", "change", "line_ok"}
             /\ thread'[e].id = thread[e].id
             /\ \A f \in ESI : f # e => thread'[f] = thread[f]
             /\ esi_coord' = esi_coord
  <2>1. CASE OpOk(e)
    <3>1. PICK target \in Inst :
            thread' = [thread EXCEPT ![e] = [@ EXCEPT !.pc = "instance", !.inst = target]]
      BY <2>1, OpOkTarget
    <3>2. thread[e].pc = "permission" /\ esi_coord' = esi_coord
      BY <2>1 DEF OpOk
    <3> QED BY <3>1, <3>2, ThreadSent, ThreadSentTo DEF Asking
  <2>2. CASE InstanceSucceeded(e)
    <3>1. PICK pc : /\ pc \in {"change", "line_ok"} /\ thread' = [thread EXCEPT ![e].pc = pc]
      BY <2>2 DEF InstanceSucceeded
    <3>2. thread[e].pc = "instance" /\ esi_coord' = esi_coord
      BY <2>2 DEF InstanceSucceeded
    <3> QED BY <3>1, <3>2, ThreadPc DEF Executing
  <2>3. CASE NotifyChange(e)
    <3>1. /\ thread' = [thread EXCEPT ![e].pc = "line_ok"] /\ thread[e].pc = "change"
          /\ esi_coord' = esi_coord
      BY <2>3 DEF NotifyChange
    <3> QED BY <3>1, ThreadPc DEF Executing
  <2> QED BY <1>5, <2>1, <2>2, <2>3
<1> QED
  BY <1>0, <1>1, <1>2, <1>3, <1>4, <1>5 DEF CoordinatorNext, thread_listen_esi, Asking, Executing

\* The thread asks for the line that was sent, under the same name.
LEMMA AskCarried ==
  ASSUME NoShortSet, TypeOK, OthersThanCoordinator, NEW e \in ESI, LineCarried(e),
         ReceiveInstruction(e)
  PROVE  /\ LineCarried(e)'
         /\ \A f \in ESI : f # e => UNCHANGED <<thread[f], esi_coord[f]>>
<1>1. /\ UNCHANGED <<fp, esi>> /\ fp[e] \in Nat /\ fp[e] <= Len(Script[e])
      /\ Script[e] \in Seq(Line)
      /\ esi_coord \in [ESI -> Seq(EsiToCoordinator)] /\ esi_coord[e] # <<>>
      /\ Head(esi_coord[e]).type \in Instruct
      /\ esi_coord' = [esi_coord EXCEPT ![e] = Tail(@)]
  BY ScriptAssumption DEF OthersThanCoordinator, plannerVars, esiVars, TypeOK, EsiTypeOK, ChannelsTypeOK,
     ReceiveInstruction, Arrives, Receive, Instruct
<1>2. PICK received : received = Head(esi_coord[e]).content
  OBVIOUS
<1>3. fp[e] > 0 /\ received = LineOf(e)
  <2>1. /\ Len(esi_coord[e]) \in Nat \ {0} /\ Head(esi_coord[e]) = esi_coord[e][1]
    BY <1>1
  <2>2. 1 \in 1..Len(esi_coord[e])
    BY <2>1
  <2> QED BY <1>1, <1>2, <2>1, <2>2 DEF LineCarried
<1>4. received \in InstructionDetail
  <2>1. Head(esi_coord[e]) \in EsiToCoordinator
    BY <1>1
  <2> QED BY <1>1, <1>2, <2>1 DEF EsiToCoordinator, Instruct
<1>5. [received EXCEPT !.ESIName = NameKept(received)] = received
  <2>1. fp[e] \in 1..Len(Script[e])
    BY <1>1, <1>3
  <2>2. received.operation = Script[e][fp[e]].operation /\ received.value = Script[e][fp[e]].value
    BY <1>3 DEF LineOf
  <2>3. NameKept(received) = received.ESIName
    BY <2>1, <2>2 DEF NoShortSet, NameKept
  <2> QED BY <1>4, <2>3 DEF InstructionDetail
<1>6. thread' = [thread EXCEPT ![e] = [@ EXCEPT !.pc = "permission", !.id = received]]
  BY <1>2, <1>5 DEF ReceiveInstruction
<1>7. /\ thread'[e].id = LineOf(e)
      /\ \A f \in ESI : f # e => UNCHANGED <<thread[f], esi_coord[f]>>
  BY <1>1, <1>3, <1>4, <1>6, ThreadAsked, ThreadAskedFor DEF TypeOK
<1>8. LineOf(e)' = LineOf(e)
  BY <1>1 DEF LineOf, NameOf
<1>9. \A n \in 1..Len(esi_coord'[e]) : esi_coord'[e][n].type \in Instruct =>
        esi_coord'[e][n].content = LineOf(e)
  <2>1. Among(esi_coord[e], esi_coord'[e], Instruct)
    BY <1>1, AmongFamily
  <2> QED BY <2>1 DEF Among, LineCarried
<1> QED BY <1>1, <1>3, <1>7, <1>8, <1>9 DEF LineCarried

\* A thread keeps its line until it has reported it.
LEMMA CoordinatorCarried ==
  ASSUME NoShortSet, TypeOK, OthersThanCoordinator, CoordinatorNext,
         \A e \in ESI : LastLineRead(e) /\ LineCarried(e)
  PROVE  \A e \in ESI : LastLineRead(e)' /\ LineCarried(e)'
<1>1. /\ UNCHANGED <<fp, fp_beginning_li, process>> /\ \A e \in ESI : NameOf(e)' = NameOf(e)
      /\ \A e \in ESI : fp[e] \in Nat
  BY DEF OthersThanCoordinator, plannerVars, esiVars, NameOf, TypeOK, EsiTypeOK
<1>2. \A e \in ESI : LastLineRead(e)'
  BY <1>1 DEF LastLineRead
<1>3. CASE \A e \in ESI : ~ReceiveInstruction(e)
  BY <1>1, <1>2, <1>3, ThreadCarries, CarriedKept
<1>4. ASSUME NEW e \in ESI, ReceiveInstruction(e) PROVE \A f \in ESI : LineCarried(f)'
  <2>1. /\ LineCarried(e)'
        /\ \A f \in ESI : f # e => UNCHANGED <<thread[f], esi_coord[f]>>
    BY <1>4, AskCarried
  <2>2. ASSUME NEW f \in ESI, f # e PROVE LineCarried(f)'
    <3>1. Among(esi_coord[f], esi_coord'[f], Instruct)
      BY <2>1, <2>2, AmongFrames DEF TypeOK, ChannelsTypeOK
    <3> QED BY <1>1, <2>1, <2>2, <3>1, CarriedKept DEF Asking, Executing
  <2> QED BY <2>1, <2>2
<1> QED BY <1>2, <1>3, <1>4

\* An ESI that reads a line has nothing of the last one under way, except a
\* question about the line it is told to repeat.
LEMMA ReadCarried ==
  ASSUME NoNewline = {}, TypeOK, NamingInv, OneLine, OthersThanEsi, NEW e \in ESI, parser(e),
         LastLineRead(e), LineCarried(e), NextUnasked(e)
  PROVE  LastLineRead(e)' /\ LineCarried(e)'
<1>0. Ordered(e)
  BY DEF parser, SendLine, SendLastLineAndExit, AbortOnLine, Eof
<1>1. /\ fp \in [ESI -> Nat] /\ fp_beginning_li \in [ESI -> Nat] /\ Script[e] \in Seq(Line)
      /\ esi_coord \in [ESI -> Seq(EsiToCoordinator)] /\ process \in [ESI -> {"off", "on", "exited", "killed"}]
      /\ planner_esi[e] \in Seq(PlannerToEsi) /\ planner_esi[e] # <<>> /\ process[e] = "on"
      /\ UNCHANGED <<thread, esi>>
  BY <1>0, ScriptAssumption DEF TypeOK, EsiTypeOK, ChannelsTypeOK, Ordered, Arrives, OthersThanEsi,
     plannerVars, coordinatorVars
<1>2. PICK at \in Nat : at = LineToRun(e) /\ fp_beginning_li' = [fp_beginning_li EXCEPT ![e] = at]
  BY <1>0, LineTypes DEF TypeOK
<1>3. LineAt(e, "order")
  BY <1>0, OrderTaken
<1>4. ~Executing(e) /\ ~Carries(esi_coord[e], Instruct)
  <2>1. ~LineAt(e, "executing") /\ ~LineAt(e, "sent")
    BY <1>3 DEF OneLine, InOnePlace, Place
  <2> QED BY <2>1 DEF LineAt
<1>5. esi_name[e] = NameOf(e)
  <2>1. Head(planner_esi[e]).type \in Orders
    BY <1>0 DEF Ordered, Arrives, Orders
  <2> QED BY <1>1, <2>1, HeadNamed DEF NamingInv
<1>6. Asking(e) => fp[e] > 0 /\ at + 1 = fp[e] /\ thread[e].id = LineOf(e)
  <2> SUFFICES ASSUME Asking(e) PROVE fp[e] > 0 /\ at + 1 = fp[e] /\ thread[e].id = LineOf(e)
    OBVIOUS
  <2>1. fp[e] > 0 /\ thread[e].id = LineOf(e)
    BY DEF LineCarried
  <2>2. Head(planner_esi[e]).type # "PLANNER_ESI_RUN"
    <3> SUFFICES ASSUME Head(planner_esi[e]).type = "PLANNER_ESI_RUN" PROVE FALSE
      OBVIOUS
    <3>1. Carries(planner_esi[e], {"PLANNER_ESI_RUN"})
      BY <1>1, FrameReceived
    <3> QED BY <3>1 DEF NextUnasked
  <2>3. at = fp_beginning_li[e]
    BY <1>2, <2>2 DEF LineToRun
  <2>4. fp_beginning_li[e] = fp[e] - 1
    BY <1>1, <2>1 DEF LastLineRead
  <2> QED BY <1>1, <2>1, <2>3, <2>4
<1>7. CASE SendLine(e)
  <2> DEFINE line == Script[e][at + 1]
             id == [ESIName |-> NameOf(e), key |-> line.key,
                    operation |-> line.operation, value |-> line.value]
             frame == WithContent("INSTRUCTION_DETAIL_TO_COODRINATOR", id)
  <2>1. /\ fp' = [fp EXCEPT ![e] = at + 1] /\ process' = process
        /\ esi_coord' = [esi_coord EXCEPT ![e] = Append(@, frame)]
    BY <1>2, <1>5, <1>7 DEF SendLine, SendTo, Instruction, LineRead
  <2>2. frame.content = id
    BY DEF WithContent
  <2>3. fp'[e] = at + 1 /\ fp_beginning_li'[e] = at
    BY <1>1, <1>2, <2>1
  <2>4. LineOf(e)' = id
    BY <1>1, <2>3 DEF LineOf, NameOf
  <2> HIDE DEF id, frame
  <2>5. esi_coord'[e] = Append(esi_coord[e], frame) /\ esi_coord[e] \in Seq(EsiToCoordinator)
    BY <1>1, <2>1
  <2>6. \A n \in 1..Len(esi_coord'[e]) : esi_coord'[e][n].type \in Instruct =>
          esi_coord'[e][n].content = id
    <3> DEFINE q == esi_coord[e]
               r == Append(q, frame)
    <3>1. \A n \in 1..Len(r) : \/ n \in 1..Len(q) /\ r[n] = q[n]
                               \/ n = Len(q) + 1 /\ r[n] = frame
      BY <2>5, AppendFrames
    <3>2. \A n \in 1..Len(q) : q[n].type \notin Instruct
      BY <1>4 DEF Carries
    <3> HIDE DEF q, r
    <3>3. \A n \in 1..Len(r) : r[n].type \in Instruct => r[n].content = id
      BY <2>2, <3>1, <3>2
    <3> QED BY <2>5, <3>3 DEF q, r
  <2>7. Asking(e)' \/ Executing(e)' => thread'[e].id = LineOf(e)'
    <3>1. Asking(e)' \/ Executing(e)' => Asking(e)
      BY <1>1, <1>4 DEF Asking, Executing
    <3>2. Asking(e) => LineOf(e)' = LineOf(e)
      BY <1>1, <1>6, <2>3 DEF LineOf, NameOf
    <3> QED BY <1>1, <1>6, <3>1, <3>2
  <2>8. LineCarried(e)'
    BY <1>2, <2>3, <2>4, <2>6, <2>7 DEF LineCarried
  <2>9. LastLineRead(e)'
    BY <1>2, <2>3 DEF LastLineRead
  <2> QED BY <2>8, <2>9
<1>8. CASE AbortOnLine(e) \/ Eof(e)
  <2>1. /\ process' = [process EXCEPT ![e] = "exited"]
        /\ fp' = [fp EXCEPT ![e] = at + 1] \/ fp' = fp
    BY <1>2, <1>8 DEF AbortOnLine, Eof
  <2>2. process'[e] = "exited" /\ (fp'[e] = at + 1 \/ fp'[e] = fp[e])
    BY <1>1, <2>1
  <2>3. ~Carries(esi_coord'[e], Instruct)
    <3>1. CASE AbortOnLine(e)
      BY <1>4, <3>1 DEF AbortOnLine
    <3>2. CASE Eof(e)
      <4> DEFINE frame == Header("ESI_EXECUTION_FINISHED")
      <4>1. esi_coord' = [esi_coord EXCEPT ![e] = Append(@, frame)]
        BY <3>2 DEF Eof, Finished, SendTo
      <4>2. frame.type \notin Instruct
        BY DEF Header, Instruct
      <4> HIDE DEF frame
      <4> QED BY <1>1, <1>4, <4>1, <4>2, FamilyFrames DEF NoMore
    <3> QED BY <1>8, <3>1, <3>2
  <2>4. Asking(e)' \/ Executing(e)' => fp'[e] > 0 /\ thread'[e].id = LineOf(e)'
    <3>1. Asking(e)' \/ Executing(e)' => Asking(e)
      BY <1>1, <1>4 DEF Asking, Executing
    <3>2. Asking(e) => fp'[e] = fp[e]
      BY <1>6, <2>2
    <3>3. Asking(e) => LineOf(e)' = LineOf(e)
      BY <1>1, <3>2 DEF LineOf, NameOf
    <3> QED BY <1>1, <1>6, <3>1, <3>2, <3>3
  <2>5. LineCarried(e)'
    BY <2>3, <2>4 DEF LineCarried, Carries
  <2> QED BY <2>2, <2>5 DEF LastLineRead
<1>9. ~SendLastLineAndExit(e)
  BY DEF SendLastLineAndExit, FeofAfter
<1> QED BY <1>7, <1>8, <1>9 DEF parser

\* An ESI leaves the others, and what they have sent, alone.
LEMMA OtherEsis ==
  ASSUME TypeOK, OthersThanEsi, NEW e \in ESI, NEW f \in ESI, f # e,
         \/ Connect(e) \/ FromPlannerNext(e) \/ FromCoordinatorNext(e)
         \/ CoordinatorHungUp(e) \/ Die(e)
  PROVE  /\ UNCHANGED <<fp[f], fp_beginning_li[f], process[f], esi_coord[f], planner_esi[f]>>
         /\ UNCHANGED <<esi, thread, coord_planner, running_queue, taken_keys, esi_sockets_list>>
<1>1. /\ fp \in [ESI -> Nat] /\ fp_beginning_li \in [ESI -> Nat]
      /\ process \in [ESI -> {"off", "on", "exited", "killed"}]
      /\ esi_coord \in [ESI -> Seq(EsiToCoordinator)] /\ planner_esi \in [ESI -> Seq(PlannerToEsi)]
  BY DEF TypeOK, EsiTypeOK, ChannelsTypeOK
<1>2. UNCHANGED <<esi, thread, coord_planner, running_queue, taken_keys, esi_sockets_list>>
  BY DEF OthersThanEsi, plannerVars, queues, coordinatorVars
<1>3. CASE Connect(e)
  BY <1>1, <1>2, <1>3 DEF Connect, SendTo
<1>4. CASE HandshakeOk(e) \/ UnknownFromPlanner(e)
  BY <1>1, <1>2, <1>4 DEF HandshakeOk, UnknownFromPlanner, Receive, esiVars
<1>5. CASE SendLine(e) \/ AbortOnLine(e) \/ Eof(e)
  BY <1>1, <1>2, <1>5 DEF SendLine, AbortOnLine, Eof, Ordered, Receive, SendTo
<1>6. CASE SendLastLineAndExit(e)
  BY <1>1, <1>2, <1>6 DEF SendLastLineAndExit, Ordered, Receive, SendTo
<1>7. CASE FromCoordinatorNext(e)
  BY <1>1, <1>2, <1>7 DEF FromCoordinatorNext, CoordHandshakeOk, OperationError, Receive, SendTo,
     esiVars
<1>8. CASE CoordinatorHungUp(e) \/ Die(e)
  BY <1>1, <1>2, <1>8 DEF CoordinatorHungUp, Die
<1> QED BY <1>3, <1>4, <1>5, <1>6, <1>7, <1>8 DEF FromPlannerNext, parser

\* Steps of an ESI that read no line.
LEMMA NoLineRead ==
  ASSUME TypeOK, OthersThanEsi, NEW e \in ESI,
         \/ Connect(e) \/ HandshakeOk(e) \/ UnknownFromPlanner(e) \/ FromCoordinatorNext(e)
         \/ CoordinatorHungUp(e) \/ Die(e)
  PROVE  /\ UNCHANGED <<fp[e], fp_beginning_li[e]>>
         /\ process'[e] # "exited" => process[e] # "exited"
         /\ Among(esi_coord[e], esi_coord'[e], Instruct)
<1>1. /\ process \in [ESI -> {"off", "on", "exited", "killed"}]
      /\ esi_coord \in [ESI -> Seq(EsiToCoordinator)] /\ esi_coord[e] \in Seq(EsiToCoordinator)
  BY DEF TypeOK, EsiTypeOK, ChannelsTypeOK
<1>2. /\ Header("ESI_EXECUTION_FINISHED").type \notin Instruct
      /\ Header("ESI_COORD_HANDSHAKE").type \notin Instruct
  BY DEF Header, Instruct
<1>3. UNCHANGED <<fp, fp_beginning_li>>
  BY DEF Connect, HandshakeOk, UnknownFromPlanner, FromCoordinatorNext, CoordHandshakeOk,
     OperationError, CoordinatorHungUp, Die, esiVars
<1>4. process'[e] # "exited" => process[e] # "exited"
  BY <1>1 DEF Connect, HandshakeOk, UnknownFromPlanner, FromCoordinatorNext, CoordHandshakeOk,
     OperationError, CoordinatorHungUp, Die, esiVars
<1>5. CASE Connect(e)
  <2>1. PICK frame : /\ frame.type \notin Instruct
                     /\ esi_coord' = [esi_coord EXCEPT ![e] = Append(@, frame)]
    BY <1>2, <1>5 DEF Connect, SendTo
  <2>2. esi_coord'[e] = Append(esi_coord[e], frame)
    BY <1>1, <2>1
  <2> QED BY <1>1, <1>3, <1>4, <2>1, <2>2, AmongFrames
<1>6. CASE OperationError(e)
  <2>1. PICK frame : /\ frame.type \notin Instruct
                     /\ esi_coord' = [esi_coord EXCEPT ![e] = Append(@, frame)]
    BY <1>2, <1>6 DEF OperationError, SendTo, Finished
  <2>2. esi_coord'[e] = Append(esi_coord[e], frame)
    BY <1>1, <2>1
  <2> QED BY <1>1, <1>3, <1>4, <2>1, <2>2, AmongFrames
<1>7. CASE \/ HandshakeOk(e) \/ UnknownFromPlanner(e) \/ CoordHandshakeOk(e)
           \/ CoordinatorHungUp(e) \/ Die(e)
  <2>1. esi_coord' = esi_coord
    BY <1>7 DEF HandshakeOk, UnknownFromPlanner, CoordHandshakeOk, CoordinatorHungUp, Die
  <2> QED BY <1>1, <1>3, <1>4, <2>1, AmongFrames
<1> QED BY <1>5, <1>6, <1>7 DEF FromCoordinatorNext

\* An ESI sends the line it has just read, and no other.
LEMMA EsiCarried ==
  ASSUME NoNewline = {}, TypeOK, NamingInv, OneLine, OthersThanEsi,
         EsiNext \/ \E e \in ESI : Connect(e),
         \A e \in ESI : LastLineRead(e) /\ LineCarried(e) /\ NextUnasked(e)
  PROVE  \A e \in ESI : LastLineRead(e)' /\ LineCarried(e)'
<1>1. PICK e \in ESI : \/ Connect(e) \/ FromPlannerNext(e) \/ FromCoordinatorNext(e)
                       \/ CoordinatorHungUp(e) \/ Die(e)
  BY DEF EsiNext
<1>2. /\ UNCHANGED <<esi, thread>> /\ \A f \in ESI : NameOf(f)' = NameOf(f) /\ fp[f] \in Nat
      /\ \A f \in ESI : (Asking(f)' <=> Asking(f)) /\ (Executing(f)' <=> Executing(f))
  BY EsiSideKept DEF OthersThanEsi, plannerVars, coordinatorVars, NameOf, TypeOK, EsiTypeOK
<1>3. ASSUME NEW f \in ESI, f # e PROVE LastLineRead(f)' /\ LineCarried(f)'
  <2>1. UNCHANGED <<fp[f], fp_beginning_li[f], process[f], esi_coord[f]>>
    BY <1>1, <1>3, OtherEsis
  <2>2. Among(esi_coord[f], esi_coord'[f], Instruct)
    BY <2>1, AmongFrames DEF TypeOK, ChannelsTypeOK
  <2> QED BY <1>2, <2>1, <2>2, CarriedKept DEF LastLineRead
<1>4. CASE parser(e)
  BY <1>3, <1>4, ReadCarried
<1>5. CASE ~parser(e)
  <2>1. /\ UNCHANGED <<fp[e], fp_beginning_li[e]>>
        /\ process'[e] # "exited" => process[e] # "exited"
        /\ Among(esi_coord[e], esi_coord'[e], Instruct)
    BY <1>1, <1>5, NoLineRead DEF FromPlannerNext
  <2>2. LastLineRead(e)' /\ LineCarried(e)'
    BY <1>2, <2>1, CarriedKept DEF LastLineRead
  <2> QED BY <1>3, <2>2
<1> QED BY <1>4, <1>5

\* Every step.
LEMMA CarriedStep ==
  ASSUME NoNewline = {}, NoShortSet, TypeOK, PlannerInv, RetryInv, NamingInv, OneLine, [Next]_vars,
         \A e \in ESI : LastLineRead(e) /\ LineCarried(e) /\ NextUnasked(e)
  PROVE  \A e \in ESI : LastLineRead(e)' /\ LineCarried(e)'
<1>1. CASE PlannerNext /\ OthersThanPlanner
  BY <1>1, PlannerCarried
<1>2. CASE (EsiNext \/ \E e \in ESI : Connect(e)) /\ OthersThanEsi
  BY <1>2, EsiCarried
<1>3. CASE CoordinatorNext /\ OthersThanCoordinator
  BY <1>3, CoordinatorCarried
<1>4. CASE (InstanceNext /\ OthersThanInstance) \/ UNCHANGED vars
  <2>1. UNCHANGED <<esi, thread, fp, fp_beginning_li, process, esi_coord>>
    BY <1>4 DEF OthersThanInstance, vars, channels, plannerVars, esiVars, coordinatorVars
  <2> QED BY <2>1 DEF LastLineRead, LineCarried, LineOf, NameOf, Asking, Executing
<1> QED BY <1>1, <1>2, <1>3, <1>4 DEF Next, Step, Terminated
-----------------------------------------------------------------------------
(***************************************************************************)
(* The end of a line stays where it is until the planner reads it.         *)
(***************************************************************************)

\* The frame that is read, or added, is of another kind.
LEMMA OtherFrames ==
  ASSUME NEW S, NEW q \in Seq(S), NEW types
  PROVE  /\ q # <<>> /\ Head(q).type \notin types => (Carries(Tail(q), types) <=> Carries(q, types))
         /\ \A frame : frame.type \notin types => (Carries(Append(q, frame), types) <=> Carries(q, types))
<1>1. ASSUME q # <<>>, Head(q).type \notin types PROVE Carries(Tail(q), types) <=> Carries(q, types)
  <2>1. Carries(Tail(q), types) => Carries(q, types)
    BY <1>1, TailFrames DEF Carries
  <2>2. ASSUME Carries(q, types) PROVE Carries(Tail(q), types)
    <3>1. PICK n \in 1..Len(q) : q[n].type \in types
      BY <2>2 DEF Carries
    <3>2. Len(q) \in Nat /\ Head(q) = q[1] /\ Len(Tail(q)) = Len(q) - 1
          /\ \A m \in 1..Len(q) - 1 : Tail(q)[m] = q[m + 1]
      BY <1>1
    <3>3. n - 1 \in 1..Len(Tail(q)) /\ Tail(q)[n - 1] = q[n]
      BY <1>1, <3>1, <3>2
    <3> QED BY <3>1, <3>3 DEF Carries
  <2> QED BY <2>1, <2>2
<1>2. ASSUME NEW frame, frame.type \notin types
      PROVE  Carries(Append(q, frame), types) <=> Carries(q, types)
  <2>1. Carries(Append(q, frame), types) => Carries(q, types)
    BY <1>2, FrameSent DEF NoMore
  <2> QED BY <2>1, FrameStays
<1> QED BY <1>1, <1>2

\* The same, for one channel of a family.
LEMMA OtherFramesFamily ==
  ASSUME NEW S, NEW I, NEW c \in [I -> Seq(S)], NEW e \in I, NEW types
  PROVE  /\ c[e] # <<>> /\ Head(c[e]).type \notin types =>
              \A f \in I : Carries([c EXCEPT ![e] = Tail(@)][f], types) <=> Carries(c[f], types)
         /\ \A frame : frame.type \notin types =>
              \A f \in I : Carries([c EXCEPT ![e] = Append(@, frame)][f], types) <=> Carries(c[f], types)
<1>1. ASSUME c[e] # <<>>, Head(c[e]).type \notin types, NEW f \in I
      PROVE  Carries([c EXCEPT ![e] = Tail(@)][f], types) <=> Carries(c[f], types)
  <2>1. [c EXCEPT ![e] = Tail(@)][f] = IF f = e THEN Tail(c[e]) ELSE c[f]
    OBVIOUS
  <2>2. c[e] \in Seq(S)
    OBVIOUS
  <2> QED BY <1>1, <2>1, <2>2, OtherFrames
<1>2. ASSUME NEW frame, frame.type \notin types, NEW f \in I
      PROVE  Carries([c EXCEPT ![e] = Append(@, frame)][f], types) <=> Carries(c[f], types)
  <2>1. [c EXCEPT ![e] = Append(@, frame)][f] = IF f = e THEN Append(c[e], frame) ELSE c[f]
    OBVIOUS
  <2>2. c[e] \in Seq(S)
    OBVIOUS
  <2> QED BY <1>2, <2>1, <2>2, OtherFrames
<1> QED BY <1>1, <1>2

\* What the planner reads from the coordinator, and who it gives the processor.
LEMMA DoneStays ==
  ASSUME TypeOK, PlannerInv, OneLine, OthersThanPlanner, PlannerNext, ~LineOk
  PROVE  \A e \in ESI : LineAt(e, "done")' <=> LineAt(e, "done")
<1>0. coord_planner \in Seq(CoordinatorFrame)
  BY DEF TypeOK, ChannelsTypeOK
<1>1. CASE UNCHANGED <<coord_planner, running_queue>>
  BY <1>1 DEF LineAt
<1>2. ASSUME coord_planner # <<>>, Head(coord_planner).type \notin DoneLine,
             coord_planner' = Tail(coord_planner), running_queue' = running_queue
      PROVE  \A e \in ESI : LineAt(e, "done")' <=> LineAt(e, "done")
  <2>1. Carries(coord_planner', DoneLine) <=> Carries(coord_planner, DoneLine)
    BY <1>0, <1>2, OtherFrames
  <2> QED BY <1>2, <2>1 DEF LineAt
<1>3. CASE StatusChanged \/ GetAllowed \/ GetDenied \/ CheckOwner
  <2>1. /\ coord_planner # <<>> /\ coord_planner' = Tail(coord_planner)
        /\ running_queue' = running_queue
    BY <1>3 DEF StatusChanged, GetAllowed, GetDenied, CheckOwner, FromCoordinator, Arrives,
       plannerVars, queues
  <2>2. Head(coord_planner).type \notin DoneLine
    BY <1>3 DEF StatusChanged, GetAllowed, GetDenied, CheckOwner, FromCoordinator, Arrives, DoneLine
  <2> QED BY <1>2, <2>1, <2>2
<1>4. ASSUME \A e \in ESI : ~LineAt(e, "done"), coord_planner' = coord_planner,
             \A e \in ESI : running_queue' = <<e>> => ~Carries(coord_planner, DoneLine)
      PROVE  \A e \in ESI : LineAt(e, "done")' <=> LineAt(e, "done")
  BY <1>4 DEF LineAt
<1>5. CASE RunPut
  <2>1. running_queue = <<>> /\ coord_planner' = coord_planner
    BY <1>5 DEF RunPut, PlannerInv, ProcessorFree, sockets
  <2>2. ~Carries(coord_planner, DoneLine)
    BY <2>1 DEF OneLine, OwnProcessor
  <2> QED BY <1>4, <2>1, <2>2 DEF LineAt
<1>6. CASE \E e \in ESI : EsiFinished(e)
  <2>1. PICK e \in ESI : EsiFinished(e)
    BY <1>6
  <2>2. /\ running_queue # <<>> /\ running_queue' = Tail(running_queue)
        /\ coord_planner' = coord_planner
        /\ esi_planner[e] # <<>> /\ Head(esi_planner[e]).type \in EndOfScript
    BY <2>1 DEF EsiFinished, FromEsi, Arrives, EndOfScript
  <2>3. Carries(esi_planner[e], EndOfScript)
    BY <2>2, FrameReceived DEF TypeOK, ChannelsTypeOK
  <2>4. LineAt(e, "ended")
    BY <2>3 DEF LineAt
  <2>5. \A f \in ESI : ~LineAt(f, "done")
    BY <2>4 DEF OneLine, InOnePlace, Place
  <2>6. running_queue \in Seq(ESI) /\ Len(running_queue) <= 1
    BY DEF PlannerInv, PlannerTypeOK, ListsTypeOK, SingleRunning
  <2>7. running_queue' = <<>>
    BY <2>2, <2>6, LastTail
  <2>8. \A f \in ESI : running_queue' # <<f>>
    BY <2>7
  <2> QED BY <1>4, <2>2, <2>5, <2>8
<1>7. CASE block_esi
  <2>1. \A f \in ESI : ~LineAt(f, "done")
    BY <1>7 DEF block_esi, OneLine, OwnProcessor, Place
  <2>2. running_queue \in Seq(ESI) /\ Len(running_queue) <= 1
    BY DEF PlannerInv, PlannerTypeOK, ListsTypeOK, SingleRunning
  <2>3. PICK n : /\ n = FindEsi(running_queue, listen.name) /\ n # 0
                 /\ running_queue' = RemoveAt(running_queue, n)
                 /\ coord_planner' = coord_planner
    BY <1>7 DEF block_esi, sockets
  <2>4. n \in 1..Len(running_queue)
    BY <2>2, <2>3, FindEsiRange
  <2>5. Len(running_queue') = Len(running_queue) - 1
    BY <2>2, <2>3, <2>4, RemoveAtProperties
  <2>6. Len(running_queue') = 0
    BY <2>2, <2>4, <2>5
  <2>7. \A f \in ESI : Len(<<f>>) = 1
    OBVIOUS
  <2>8. \A f \in ESI : running_queue' # <<f>>
    BY <2>6, <2>7
  <2> QED BY <1>4, <2>1, <2>3, <2>8
<1>8. CASE \/ \E t \in Releaser : ReleaseNext(t)
           \/ RunPoll \/ RunTake \/ RunStart \/ ClearRedo \/ Segfault
           \/ \E e \in ESI : RegisterEsi(e) \/ Undecoded(e) \/ LostSocket(e)
           \/ HandshakeStatus \/ HandshakeHeader \/ HandshakeName \/ WaitForKey
  <2>1. UNCHANGED <<coord_planner, running_queue>>
    BY <1>8 DEF ReleaseNext, FindWaiting, UnlinkWaiting, LocateBlocked, MoveToReady, RunPoll, RunTake,
       RunStart, ClearRedo, Segfault, RegisterEsi, Undecoded, LostSocket, HandshakeStatus,
       HandshakeHeader, HandshakeName, WaitForKey, plannerVars, queues, sockets
  <2> QED BY <1>1, <2>1
<1>9. CASE ConsoleNext
  <2>1. UNCHANGED <<coord_planner, running_queue>>
    BY <1>9 DEF ConsoleNext, pause, resume, block, unblock, quit, EndOfInput, Command, queues, sockets
  <2> QED BY <1>1, <2>1
<1> QED
  BY <1>3, <1>5, <1>6, <1>7, <1>8, <1>9 DEF PlannerNext, ListenNext, RunNext
-----------------------------------------------------------------------------
(***************************************************************************)
(* The orders for a next line.                                             *)
(***************************************************************************)
Runs == {"PLANNER_ESI_RUN"}

\* Orders to run the next line come from two steps of the planner only.
LEMMA SameRuns ==
  ASSUME TypeOK, PlannerInv, OthersThanPlanner, PlannerNext, ~LineOk, ~RunStart
  PROVE  \A e \in ESI : Carries(planner_esi'[e], Runs) <=> Carries(planner_esi[e], Runs)
<1>0. planner_esi \in [ESI -> Seq(PlannerToEsi)]
  BY DEF TypeOK, ChannelsTypeOK
<1>1. CASE planner_esi' = planner_esi
  BY <1>1
<1>2. CASE HandshakeHeader \/ HandshakeName
  <2>1. PICK e, frame : /\ e \in ESI /\ frame.type \notin Runs
                        /\ planner_esi' = [planner_esi EXCEPT ![e] = Append(@, frame)]
    <3>1. PICK e \in ESI : e = listen.esi
      BY <1>2 DEF HandshakeHeader, HandshakeName, PlannerInv, LocalsSound, Answering
    <3>2. CASE HandshakeHeader
      <4>1. PICK frame : frame = Header("ESI_PLANNER_HANDSHAKE_OK")
        OBVIOUS
      <4>2. frame.type \notin Runs
        BY <4>1 DEF Header, Runs
      <4> QED BY <3>1, <3>2, <4>1, <4>2 DEF HandshakeHeader, SendTo
    <3>3. CASE HandshakeName
      <4>1. PICK frame : frame = WithContent("name bytes", NameOnWire(esi[listen.esi].id))
        OBVIOUS
      <4>2. frame.type \notin Runs
        BY <4>1 DEF WithContent, Runs
      <4> QED BY <3>1, <3>3, <4>1, <4>2 DEF HandshakeName, SendTo
    <3> QED BY <1>2, <3>2, <3>3
  <2> QED BY <1>0, <2>1, OtherFramesFamily
<1>3. CASE \/ \E t \in Releaser : ReleaseNext(t)
           \/ RunPoll \/ RunTake \/ RunPut \/ ClearRedo \/ Segfault
           \/ \E e \in ESI : RegisterEsi(e) \/ EsiFinished(e) \/ Undecoded(e) \/ LostSocket(e)
           \/ HandshakeStatus \/ StatusChanged \/ GetAllowed \/ GetDenied
           \/ block_esi \/ WaitForKey \/ CheckOwner
  <2>1. planner_esi' = planner_esi
    BY <1>3 DEF ReleaseNext, FindWaiting, UnlinkWaiting, LocateBlocked, MoveToReady, RunPoll, RunTake,
       RunPut, ClearRedo, Segfault, RegisterEsi, EsiFinished, Undecoded, LostSocket, HandshakeStatus,
       StatusChanged, GetAllowed, GetDenied, block_esi, WaitForKey, CheckOwner, sockets
  <2> QED BY <1>1, <2>1
<1>4. CASE ConsoleNext
  <2>1. planner_esi' = planner_esi
    BY <1>4 DEF ConsoleNext, pause, resume, block, unblock, quit, EndOfInput, Command, sockets
  <2> QED BY <1>1, <2>1
<1> QED BY <1>2, <1>3, <1>4 DEF PlannerNext, ListenNext, RunNext

\* ESI_EXECUTION_LINE_OK: who executed the line is told to run the next one.
LEMMA NextOrdered ==
  ASSUME TypeOK, PlannerInv, OneLine, LineOk
  PROVE  \E e \in ESI : /\ LineAt(e, "done") /\ Carries(planner_esi'[e], Runs)
                        /\ \A f \in ESI : f # e => planner_esi'[f] = planner_esi[f]
<1>1. PICK e \in ESI : e = Head(running_queue) /\ running_queue = <<e>>
  BY HasProcessor DEF LineOk
<1>2. Carries(coord_planner, DoneLine)
  <2>1. coord_planner # <<>> /\ Head(coord_planner).type \in DoneLine
    BY DEF LineOk, FromCoordinator, Arrives, DoneLine
  <2> QED BY <2>1, FrameReceived DEF TypeOK, ChannelsTypeOK
<1>3. PICK frame : frame.type \in Runs /\ planner_esi' = [planner_esi EXCEPT ![e] = Append(@, frame)]
  <2>1. PICK frame : frame = Header("PLANNER_ESI_RUN")
    OBVIOUS
  <2>2. frame.type \in Runs
    BY <2>1 DEF Header, Runs
  <2> QED BY <1>1, <2>1, <2>2 DEF LineOk, OrderNextLine, SendTo
<1>4. planner_esi \in [ESI -> Seq(PlannerToEsi)]
  BY DEF TypeOK, ChannelsTypeOK
<1>5. planner_esi'[e] = Append(planner_esi[e], frame) /\ planner_esi[e] \in Seq(PlannerToEsi)
      /\ \A f \in ESI : f # e => planner_esi'[f] = planner_esi[f]
  BY <1>3, <1>4
<1>6. Carries(planner_esi'[e], Runs)
  BY <1>3, <1>5, FrameSent
<1> QED BY <1>1, <1>2, <1>5, <1>6 DEF LineAt

\* The order to start: only who has read no line is told to run the next.
LEMMA StartOrdered ==
  ASSUME TypeOK, PlannerInv, RetryInv, RunStart
  PROVE  \E e \in ESI : /\ LineAt(e, "start")
                        /\ \A f \in ESI : f # e => planner_esi'[f] = planner_esi[f]
                        /\ \/ Carries(planner_esi'[e], Runs) <=> Carries(planner_esi[e], Runs)
                           \/ Carries(planner_esi'[e], Runs) /\ fp[e] = 0
<1>1. PICK e \in ESI : e = run.esi /\ run.pc = "start"
  BY DEF RunStart, PlannerInv, LocalsSound
<1>2. LineAt(e, "start")
  BY <1>1 DEF LineAt
<1>3. PICK redo \in BOOLEAN : redo = esi[e].redo_last_operation
  BY DEF PlannerInv, PlannerTypeOK, EsisTypeOK, ESIRecord
<1>4. ~redo => fp[e] = 0
  <2>1. fp[e] \in Nat
    BY DEF TypeOK, EsiTypeOK
  <2> QED BY <1>1, <1>3, <2>1 DEF RetryInv, RetryPending
<1>5. PICK frame : /\ redo <=> frame.type \notin Runs
                   /\ planner_esi' = [planner_esi EXCEPT ![e] = Append(@, frame)]
  <2>1. PICK frame : frame = Header(IF esi[run.esi].redo_last_operation
                              THEN "PLANNER_ESI_RUN_LAST_OPERATION" ELSE "PLANNER_ESI_RUN")
    OBVIOUS
  <2>2. frame.type = IF redo THEN "PLANNER_ESI_RUN_LAST_OPERATION" ELSE "PLANNER_ESI_RUN"
    BY <1>1, <1>3, <2>1 DEF Header
  <2>3. redo <=> frame.type \notin Runs
    BY <2>2 DEF Runs
  <2> QED BY <1>1, <2>1, <2>3 DEF RunStart, SendTo
<1>6. planner_esi \in [ESI -> Seq(PlannerToEsi)]
  BY DEF TypeOK, ChannelsTypeOK
<1>7. planner_esi'[e] = Append(planner_esi[e], frame) /\ planner_esi[e] \in Seq(PlannerToEsi)
      /\ \A f \in ESI : f # e => planner_esi'[f] = planner_esi[f]
  BY <1>5, <1>6
<1>8. CASE redo
  <2>1. Carries(planner_esi'[e], Runs) <=> Carries(planner_esi[e], Runs)
    BY <1>5, <1>7, <1>8, OtherFrames
  <2> QED BY <1>2, <1>7, <2>1
<1>9. CASE ~redo
  <2>1. Carries(planner_esi'[e], Runs)
    BY <1>5, <1>7, <1>9, FrameSent
  <2> QED BY <1>2, <1>4, <1>7, <1>9, <2>1
<1> QED BY <1>8, <1>9

\* Whoever is told to run its next line has no question pending.
LEMMA PlannerUnasked ==
  ASSUME TypeOK, PlannerInv, OneLine, RetryInv, OthersThanPlanner, PlannerNext,
         \A e \in ESI : LineCarried(e) /\ NextUnasked(e)
  PROVE  \A e \in ESI : NextUnasked(e)'
<1>1. \A e \in ESI : Asking(e)' <=> Asking(e)
  BY ThreadsKept
<1>2. CASE ~LineOk /\ ~RunStart
  BY <1>1, <1>2, SameRuns, DoneStays DEF NextUnasked, Runs
<1>3. CASE LineOk
  <2>1. PICK e \in ESI : /\ LineAt(e, "done")
                         /\ \A f \in ESI : f # e => planner_esi'[f] = planner_esi[f]
    BY <1>3, NextOrdered
  <2>2. ~Asking(e)
    BY <2>1 DEF NextUnasked
  <2>3. \A f \in ESI : LineAt(f, "done")' => f = e
    <3>1. running_queue = <<e>> /\ running_queue' = running_queue
      BY <1>3, <2>1 DEF LineAt, LineOk, queues
    <3> QED BY <3>1 DEF LineAt
  <2> QED BY <1>1, <2>1, <2>2, <2>3 DEF NextUnasked
<1>4. CASE RunStart
  <2>1. PICK e \in ESI :
          /\ \A f \in ESI : f # e => planner_esi'[f] = planner_esi[f]
          /\ \/ Carries(planner_esi'[e], Runs) <=> Carries(planner_esi[e], Runs)
             \/ Carries(planner_esi'[e], Runs) /\ fp[e] = 0
    BY <1>4, StartOrdered
  <2>2. fp[e] = 0 => ~Asking(e)
    BY DEF LineCarried
  <2>3. \A f \in ESI : LineAt(f, "done")' <=> LineAt(f, "done")
    <3>1. run.pc = "start" /\ run' = [run EXCEPT !.pc = "redo"]
          /\ run \in [pc : {"poll", "take", "put", "start", "redo"}, esi : ESI \cup {None}]
      BY <1>4 DEF RunStart, PlannerInv, PlannerTypeOK, ThreadsTypeOK
    <3>2. run'.pc = "redo"
      BY <3>1
    <3>3. ~LineOk
      BY <3>1, <3>2 DEF LineOk
    <3> QED BY <3>3, DoneStays
  <2> QED BY <1>1, <2>1, <2>2, <2>3 DEF NextUnasked, Runs
<1> QED BY <1>2, <1>3, <1>4

\* An ESI reads orders, and is sent none.
LEMMA RunsRead ==
  ASSUME TypeOK, OthersThanEsi, EsiNext \/ \E e \in ESI : Connect(e)
  PROVE  \A f \in ESI : Carries(planner_esi'[f], Runs) => Carries(planner_esi[f], Runs)
<1>0. planner_esi \in [ESI -> Seq(PlannerToEsi)]
  BY DEF TypeOK, ChannelsTypeOK
<1>1. PICK e \in ESI : \/ Connect(e) \/ FromPlannerNext(e) \/ FromCoordinatorNext(e)
                       \/ CoordinatorHungUp(e) \/ Die(e)
  BY DEF EsiNext
<1>2. \A f \in ESI : f # e => planner_esi'[f] = planner_esi[f]
  BY <1>1, OtherEsis
<1>3. CASE HandshakeOk(e)
  <2>1. planner_esi'[e] = Tail(Tail(planner_esi[e])) /\ Len(planner_esi[e]) > 1
        /\ planner_esi[e] \in Seq(PlannerToEsi)
    BY <1>0, <1>3 DEF HandshakeOk
  <2>2. Tail(planner_esi[e]) \in Seq(PlannerToEsi) /\ planner_esi[e] # <<>> /\ Tail(planner_esi[e]) # <<>>
    BY <2>1, TwoFrames
  <2>3. /\ Carries(Tail(planner_esi[e]), Runs) => Carries(planner_esi[e], Runs)
        /\ Carries(Tail(Tail(planner_esi[e])), Runs) => Carries(Tail(planner_esi[e]), Runs)
    BY <2>1, <2>2, FrameReceived DEF NoMore
  <2> QED BY <1>2, <2>1, <2>3
<1>4. CASE UnknownFromPlanner(e) \/ parser(e)
  <2>1. planner_esi' = [planner_esi EXCEPT ![e] = Tail(@)] /\ planner_esi[e] # <<>>
    BY <1>4 DEF UnknownFromPlanner, parser, SendLine, SendLastLineAndExit, AbortOnLine, Eof, Ordered,
       Receive, Arrives
  <2>2. planner_esi'[e] = Tail(planner_esi[e]) /\ planner_esi[e] \in Seq(PlannerToEsi)
    BY <1>0, <2>1
  <2>3. Carries(planner_esi'[e], Runs) => Carries(planner_esi[e], Runs)
    BY <2>1, <2>2, FrameReceived DEF NoMore
  <2> QED BY <1>2, <2>3
<1>5. CASE Connect(e) \/ FromCoordinatorNext(e) \/ CoordinatorHungUp(e) \/ Die(e)
  <2>1. planner_esi' = planner_esi
    BY <1>5 DEF Connect, FromCoordinatorNext, CoordHandshakeOk, OperationError, CoordinatorHungUp, Die
  <2> QED BY <2>1
<1> QED BY <1>1, <1>3, <1>4, <1>5 DEF FromPlannerNext

\* What the coordinator asks is a question.
LEMMA QuestionSent ==
  ASSUME TypeOK, NEW e \in ESI, ReceiveInstruction(e)
  PROVE  /\ \E frame : frame.type \in Checks /\ coord_planner' = Append(coord_planner, frame)
         /\ thread[e].pc = "recv" /\ thread'[e].pc = "permission"
         /\ \A f \in ESI : f # e => thread'[f] = thread[f]
<1>0. esi_coord \in [ESI -> Seq(EsiToCoordinator)]
  BY DEF TypeOK, ChannelsTypeOK
<1>1. PICK received : received = Head(esi_coord[e]).content
  OBVIOUS
<1>2. PICK id : id = [received EXCEPT !.ESIName = NameKept(received)]
  OBVIOUS
<1>3. PICK frame : frame = WithContent(CheckFor(id.operation), [ESIName |-> id.ESIName, key |-> id.key])
  OBVIOUS
<1>4. /\ coord_planner' = Append(coord_planner, frame) /\ thread[e].pc = "recv"
      /\ thread' = [thread EXCEPT ![e] = [@ EXCEPT !.pc = "permission", !.id = id]]
  BY <1>1, <1>2, <1>3 DEF ReceiveInstruction
<1>5. received \in InstructionDetail
  <2>1. Head(esi_coord[e]) \in EsiToCoordinator
    BY <1>0 DEF ReceiveInstruction, Arrives
  <2> QED BY <1>1, <2>1 DEF EsiToCoordinator, ReceiveInstruction, Arrives
<1>6. id \in InstructionDetail
  BY <1>2, <1>5, KeptTypes
<1>7. CheckFor(id.operation) \in Checks
  BY <1>6, CoordinatorFrames DEF Checks
<1>8. frame.type = CheckFor(id.operation)
  BY <1>3 DEF WithContent
<1>9. thread'[e].pc = "permission" /\ \A f \in ESI : f # e => thread'[f] = thread[f]
  BY <1>4, <1>6, ThreadAsked DEF TypeOK
<1> QED BY <1>4, <1>7, <1>8, <1>9

\* A thread that asks has read a line: the order for it was read before.
LEMMA CoordinatorUnasked ==
  ASSUME TypeOK, OneLine, OthersThanCoordinator, CoordinatorNext,
         \A e \in ESI : NextUnasked(e)
  PROVE  \A e \in ESI : NextUnasked(e)'
<1>0. /\ UNCHANGED <<planner_esi, running_queue>> /\ coord_planner \in Seq(CoordinatorFrame)
      /\ esi_coord \in [ESI -> Seq(EsiToCoordinator)]
  BY CoordinatorSideKept DEF TypeOK, ChannelsTypeOK
<1>1. ASSUME NEW e \in ESI, ReceiveInstruction(e) PROVE \A f \in ESI : NextUnasked(f)'
  <2>1. LineAt(e, "sent")
    <3>1. esi_coord[e] # <<>> /\ Head(esi_coord[e]).type \in Instruct
      BY <1>1 DEF ReceiveInstruction, Arrives, Instruct
    <3>2. Carries(esi_coord[e], Instruct)
      BY <1>0, <3>1, FrameReceived
    <3> QED BY <3>2 DEF LineAt
  <2>2. \A f \in ESI : ~LineAt(f, "done") /\ ~LineAt(f, "order")
    BY <2>1 DEF OneLine, InOnePlace, Place
  <2>3. \A f \in ESI : ~Carries(planner_esi'[f], {"PLANNER_ESI_RUN"})
    BY <1>0, <2>2 DEF LineAt, Carries, Orders
  <2>4. PICK frame : frame.type \notin DoneLine /\ coord_planner' = Append(coord_planner, frame)
    BY <1>1, QuestionSent DEF Checks, DoneLine
  <2>5. \A f \in ESI : ~LineAt(f, "done")'
    <3>1. Carries(coord_planner', DoneLine) <=> Carries(coord_planner, DoneLine)
      BY <1>0, <2>4, OtherFrames
    <3> QED BY <1>0, <2>2, <3>1 DEF LineAt
  <2> QED BY <2>3, <2>5 DEF NextUnasked
<1>2. CASE \A e \in ESI : ~ReceiveInstruction(e)
  <2>1. \A f \in ESI : Asking(f)' => Asking(f)
    BY <1>2, ThreadCarries
  <2>2. CASE NoMore(coord_planner, coord_planner', DoneLine)
    BY <1>0, <2>1, <2>2 DEF NextUnasked, LineAt, NoMore
  <2>3. CASE \/ listening_thread \/ FollowNullInstance \/ BrokenPipe
             \/ \E e \in ESI : \/ ReceiveFinished(e) \/ InstanceSucceeded(e) \/ InstanceFailed(e)
                               \/ InstanceGone(e) \/ NotifyChange(e)
    BY <2>2, <2>3, CoordinatorQuiet DEF Quiet
  <2>4. CASE \E e \in ESI : OpFailed(e) \/ OpOk(e)
    <3>1. coord_planner' = coord_planner
      BY <2>4 DEF OpFailed, OpOk
    <3> QED BY <2>2, <3>1, FrameKept
  <2>5. ASSUME NEW e \in ESI, NotifyLineOk(e) PROVE \A f \in ESI : NextUnasked(f)'
    <3>1. thread' = [thread EXCEPT ![e] = [NoThread EXCEPT !.pc = "recv"]] /\ LineAt(e, "executing")
      BY <2>5 DEF NotifyLineOk, LineAt, Executing
    <3>2. ~Asking(e)'
      BY <3>1, ThreadFree DEF TypeOK, Asking
    <3>3. \A f \in ESI : LineAt(f, "done")' => f = e
      <4>1. running_queue' = <<e>>
        BY <1>0, <3>1 DEF OneLine, OwnProcessor, Place
      <4> QED BY <4>1 DEF LineAt
    <3> QED BY <1>0, <2>1, <3>2, <3>3 DEF NextUnasked
  <2> QED
    BY <1>2, <2>3, <2>4, <2>5 DEF CoordinatorNext, thread_listen_esi
<1> QED BY <1>1, <1>2

\* The order for the next line, and the end of the last, exclude a question.
LEMMA UnaskedStep ==
  ASSUME TypeOK, PlannerInv, OneLine, RetryInv, [Next]_vars,
         \A e \in ESI : LineCarried(e) /\ NextUnasked(e)
  PROVE  \A e \in ESI : NextUnasked(e)'
<1>1. CASE PlannerNext /\ OthersThanPlanner
  BY <1>1, PlannerUnasked
<1>2. CASE (EsiNext \/ \E e \in ESI : Connect(e)) /\ OthersThanEsi
  <2>1. \A e \in ESI : Carries(planner_esi'[e], {"PLANNER_ESI_RUN"}) => Carries(planner_esi[e], {"PLANNER_ESI_RUN"})
    BY <1>2, RunsRead DEF Runs
  <2>2. UNCHANGED <<coord_planner, running_queue, thread>>
    BY <1>2, EsiSideKept
  <2> QED BY <2>1, <2>2 DEF NextUnasked, LineAt, Asking
<1>3. CASE CoordinatorNext /\ OthersThanCoordinator
  BY <1>3, CoordinatorUnasked
<1>4. CASE (InstanceNext /\ OthersThanInstance) \/ UNCHANGED vars
  <2>1. UNCHANGED <<planner_esi, coord_planner, running_queue, thread>>
    BY <1>4 DEF OthersThanInstance, vars, channels, plannerVars, queues, coordinatorVars
  <2> QED BY <2>1 DEF NextUnasked, LineAt, Asking
<1> QED BY <1>1, <1>2, <1>3, <1>4 DEF Next, Step, Terminated
-----------------------------------------------------------------------------
(***************************************************************************)
(* What the lines of a script take and give back, one line at a time.      *)
(***************************************************************************)
LEMMA NoLines ==
  ASSUME NEW e, NEW k, NEW lines \in Int, lines <= 0
  PROVE  ~HeldAfter(e, k, lines)
<1>1. 1..lines = {}
  OBVIOUS
<1> QED BY <1>1 DEF HeldAfter

\* The last line takes the key, gives it back, or does neither.
LEMMA OneLineMore ==
  ASSUME NEW e \in ESI, NEW k, NEW n \in Nat, n > 0
  PROVE  LET line == Script[e][n]
         IN /\ line.operation = "GET_OP" /\ line.key = k => HeldAfter(e, k, n)
            /\ line.operation = "STORE_OP" /\ line.key = k => ~HeldAfter(e, k, n)
            /\ line.key # k \/ line.operation \notin {"GET_OP", "STORE_OP"}
                 => (HeldAfter(e, k, n) <=> HeldAfter(e, k, n - 1))
<1>0. n \in 1..n /\ \A m \in n..n : m = n
  OBVIOUS
<1>1. ASSUME Script[e][n].operation = "GET_OP", Script[e][n].key = k PROVE HeldAfter(e, k, n)
  <2>1. \A m \in n..n : ~(Script[e][m].operation = "STORE_OP" /\ Script[e][m].key = k)
    BY <1>0, <1>1
  <2> QED BY <1>0, <1>1, <2>1 DEF HeldAfter
<1>2. ASSUME Script[e][n].operation = "STORE_OP", Script[e][n].key = k PROVE ~HeldAfter(e, k, n)
  <2>1. \A j \in 1..n : n \in j..n
    OBVIOUS
  <2> QED BY <1>2, <2>1 DEF HeldAfter
<1>3. ASSUME Script[e][n].key # k \/ Script[e][n].operation \notin {"GET_OP", "STORE_OP"}
      PROVE  HeldAfter(e, k, n) <=> HeldAfter(e, k, n - 1)
  <2>1. ASSUME HeldAfter(e, k, n) PROVE HeldAfter(e, k, n - 1)
    <3>1. PICK j \in 1..n : /\ Script[e][j].operation = "GET_OP" /\ Script[e][j].key = k
                            /\ \A m \in j..n : ~(Script[e][m].operation = "STORE_OP" /\ Script[e][m].key = k)
      BY <2>1 DEF HeldAfter
    <3>2. j # n
      BY <1>3, <3>1
    <3>3. j \in 1..(n - 1) /\ \A m \in j..(n - 1) : m \in j..n
      BY <3>2
    <3> QED BY <3>1, <3>3 DEF HeldAfter
  <2>2. ASSUME HeldAfter(e, k, n - 1) PROVE HeldAfter(e, k, n)
    <3>1. PICK j \in 1..(n - 1) :
            /\ Script[e][j].operation = "GET_OP" /\ Script[e][j].key = k
            /\ \A m \in j..(n - 1) : ~(Script[e][m].operation = "STORE_OP" /\ Script[e][m].key = k)
      BY <2>2 DEF HeldAfter
    <3>2. j \in 1..n /\ \A m \in j..n : m = n \/ m \in j..(n - 1)
      OBVIOUS
    <3>3. \A m \in j..n : ~(Script[e][m].operation = "STORE_OP" /\ Script[e][m].key = k)
      BY <1>3, <3>1, <3>2
    <3> QED BY <3>1, <3>2, <3>3 DEF HeldAfter
  <2> QED BY <2>1, <2>2
<1> QED BY <1>1, <1>2, <1>3

(***************************************************************************)
(* Who holds a key, when a node joins the list or leaves it.               *)
(***************************************************************************)

\* The BLOCKED nodes of r are nodes of q.
NoNewHolder(q, r) ==
  \A n \in 1..Len(r) : r[n].status = "BLOCKED" => \E m \in 1..Len(q) : q[m] = r[n]

\* Two lists with the same BLOCKED nodes have the same holders.
LEMMA SameHolders ==
  ASSUME NEW q, NEW r, NoNewHolder(q, r), NoNewHolder(r, q)
  PROVE  \A key, name : HeldBy(q, key, name) <=> HeldBy(r, key, name)
BY DEF NoNewHolder, HeldBy, HasNode

\* A node leaves the list.
LEMMA HoldersUnlinked ==
  ASSUME NEW S, NEW keys \in Seq(S), NEW k, NEW status
  PROVE  LET q == Unlink(keys, k, status)
         IN /\ NoNewHolder(keys, q)
            /\ status # "BLOCKED" => NoNewHolder(q, keys)
            /\ \A key, name : key # k => (HeldBy(q, key, name) <=> HeldBy(keys, key, name))
            /\ OneHolder(keys) /\ status = "BLOCKED" => ~HasNode(q, k, "BLOCKED")
<1> DEFINE n == Search(keys, k, status)
           q == Unlink(keys, k, status)
<1>1. CASE ~HasNode(keys, k, status)
  BY <1>1 DEF Unlink, NoNewHolder
<1>2. CASE HasNode(keys, k, status)
  <2>1. /\ n \in 1..Len(keys) /\ keys[n].key = k /\ keys[n].status = status
        /\ \A j \in 1..Len(q) : q[j] = keys[IF j < n THEN j ELSE j + 1]
        /\ Len(q) = Len(keys) - 1
        /\ \A i \in 1..Len(keys) : i # n => \E j \in 1..Len(q) : q[j] = keys[i]
    BY <1>2, UnlinkMembers
  <2>0. Len(keys) \in Nat /\ n \in Nat
    BY <2>1
  <2> HIDE DEF n, q
  <2>2. \A j \in 1..Len(q) : \E i \in 1..Len(keys) : i # n /\ q[j] = keys[i]
    <3> SUFFICES ASSUME NEW j \in 1..Len(q) PROVE \E i \in 1..Len(keys) : i # n /\ q[j] = keys[i]
      OBVIOUS
    <3>0. j \in 1..(Len(keys) - 1) /\ q[j] = keys[IF j < n THEN j ELSE j + 1]
      BY <2>1
    <3>1. CASE j < n
      <4>1. (IF j < n THEN j ELSE j + 1) = j /\ j \in 1..Len(keys) /\ j # n
        BY <2>0, <3>0, <3>1
      <4> QED BY <3>0, <4>1
    <3>2. CASE ~(j < n)
      <4>1. (IF j < n THEN j ELSE j + 1) = j + 1 /\ j + 1 \in 1..Len(keys) /\ j + 1 # n
        BY <2>0, <3>0, <3>2
      <4> QED BY <3>0, <4>1
    <3> QED BY <3>1, <3>2
  <2>3. NoNewHolder(keys, q)
    BY <2>2 DEF NoNewHolder
  <2>4. status # "BLOCKED" => NoNewHolder(q, keys)
    BY <2>1 DEF NoNewHolder
  <2>5. ASSUME NEW key, NEW name, key # k PROVE HeldBy(q, key, name) <=> HeldBy(keys, key, name)
    <3>1. \A i \in 1..Len(keys) : keys[i].key = key => \E j \in 1..Len(q) : q[j] = keys[i]
      BY <2>1, <2>5
    <3>2. HasNode(q, key, "BLOCKED") <=> HasNode(keys, key, "BLOCKED")
      BY <2>2, <3>1 DEF HasNode
    <3> QED BY <2>2, <3>1, <3>2 DEF HeldBy
  <2>6. ASSUME OneHolder(keys), status = "BLOCKED" PROVE ~HasNode(q, k, "BLOCKED")
    BY <2>1, <2>2, <2>6 DEF OneHolder, HasNode
  <2> QED BY <2>3, <2>4, <2>5, <2>6 DEF q
<1> QED BY <1>1, <1>2

\* A node joins the list.
LEMMA HolderAppended ==
  ASSUME NEW S, NEW keys \in Seq(S), NEW node \in S
  PROVE  LET r == Append(keys, node)
         IN /\ NoNewHolder(r, keys)
            /\ node.status # "BLOCKED" => NoNewHolder(keys, r)
            /\ \A key, name : key # node.key => (HeldBy(r, key, name) <=> HeldBy(keys, key, name))
            /\ ~HasNode(keys, node.key, "BLOCKED") /\ node.status = "BLOCKED" =>
                 \A name : HeldBy(r, node.key, name) <=> name = node.ESIName
<1> DEFINE r == Append(keys, node)
<1>1. /\ Len(r) = Len(keys) + 1 /\ Len(keys) \in Nat
      /\ \A i \in 1..Len(keys) + 1 : r[i] = IF i = Len(keys) + 1 THEN node ELSE keys[i]
      /\ \A k : HasNode(r, k, "BLOCKED") <=>
                  HasNode(keys, k, "BLOCKED") \/ (node.key = k /\ node.status = "BLOCKED")
  BY AppendProperties, AppendNode
<1> HIDE DEF r
<1>2. /\ \A i \in 1..Len(keys) : i \in 1..Len(r) /\ r[i] = keys[i]
      /\ Len(r) \in 1..Len(r) /\ r[Len(r)] = node
      /\ \A i \in 1..Len(r) : r[i] = node \/ (i \in 1..Len(keys) /\ r[i] = keys[i])
  BY <1>1
<1>3. NoNewHolder(r, keys)
  BY <1>2 DEF NoNewHolder
<1>4. node.status # "BLOCKED" => NoNewHolder(keys, r)
  BY <1>2 DEF NoNewHolder
<1>5. ASSUME NEW key, NEW name, key # node.key
      PROVE  HeldBy(r, key, name) <=> HeldBy(keys, key, name)
  BY <1>1, <1>2, <1>5 DEF HeldBy
<1>6. ASSUME ~HasNode(keys, node.key, "BLOCKED"), node.status = "BLOCKED", NEW name
      PROVE  HeldBy(r, node.key, name) <=> name = node.ESIName
  <2>1. \A i \in 1..Len(r) : r[i].key = node.key /\ r[i].status = "BLOCKED" => r[i] = node
    BY <1>2, <1>6 DEF HasNode
  <2> QED BY <1>1, <1>2, <1>6, <2>1 DEF HeldBy
<1> QED BY <1>3, <1>4, <1>5, <1>6 DEF r

\* A waiter joins the list, or leaves it: the holders are the same.
LEMMA HoldersSame ==
  ASSUME ListsTypeOK, KeysMove
  PROVE  /\ NoNewHolder(taken_keys, taken_keys')
         /\ \A key, name : HeldBy(taken_keys, key, name) <=> HeldBy(taken_keys', key, name)
<1>1. taken_keys \in Seq(KeyNode)
  BY DEF ListsTypeOK
<1>2. NoNewHolder(taken_keys, taken_keys') /\ NoNewHolder(taken_keys', taken_keys)
  <2>1. CASE taken_keys' = taken_keys
    BY <2>1 DEF NoNewHolder
  <2>2. CASE \E k \in Key : taken_keys' = Unlink(taken_keys, k, "WAITING")
    BY <1>1, <2>2, HoldersUnlinked
  <2>3. CASE \E k \in Key, name \in Name : taken_keys' = Append(taken_keys, Node(name, k, "WAITING"))
    <3>1. PICK k \in Key, name \in Name : taken_keys' = Append(taken_keys, Node(name, k, "WAITING"))
      BY <2>3
    <3>2. PICK node : node = Node(name, k, "WAITING")
      OBVIOUS
    <3>3. node \in KeyNode /\ node.status # "BLOCKED"
      BY <3>2 DEF Node, KeyNode
    <3> QED BY <1>1, <3>1, <3>2, <3>3, HolderAppended
  <2> QED BY <2>1, <2>2, <2>3 DEF KeysMove
<1> QED BY <1>2, SameHolders
-----------------------------------------------------------------------------
(***************************************************************************)
(* The change of the lock list that is on its way.                         *)
(***************************************************************************)

\* While a line is executed, or its end is unread, it is nowhere else.
LEMMA ExecutedAlone ==
  ASSUME OneLine, NEW e \in ESI, Executed(e)
  PROVE  /\ LineAt(e, "executing") \/ LineAt(e, "done")
         /\ \A f \in ESI, place \in Place : LineAt(f, place) => f = e /\ place \in {"executing", "done"}
         /\ \A f \in ESI : Executed(f) => f = e
         /\ running_queue = <<e>>
<1>1. \A f \in ESI : Executed(f) => LineAt(f, "executing") \/ LineAt(f, "done")
  BY DEF Executed, LineAt, Executing
<1>2. "executing" \in Place /\ "done" \in Place
  BY DEF Place
<1> QED BY <1>1, <1>2 DEF OneLine, InOnePlace, OwnProcessor

\* A step that leaves the executed line, and its change, alone.
LEMMA CarriedChangeKept ==
  ASSUME ChangeCarried, Among(coord_planner, coord_planner', StatusChanges),
         Carries(coord_planner', StatusChanges) =>
           /\ \A e \in ESI : Executed(e) =>
                Executed(e)' /\ fp'[e] = fp[e] /\ NameOf(e)' = NameOf(e)
           /\ \A key, name : HeldBy(taken_keys, key, name) => HeldBy(taken_keys', key, name)
  PROVE  ChangeCarried'
<1> SUFFICES ASSUME NEW n \in 1..Len(coord_planner'), coord_planner'[n].type \in StatusChanges,
                    NEW c, c = coord_planner'[n].content
             PROVE  /\ \E e \in ESI : /\ Executed(e)' /\ fp'[e] > 0 /\ c = ChangeOf(LineOf(e)')
                                      /\ LineOf(e)'.operation \in {"GET_OP", "STORE_OP"}
                    /\ c.status = "RELEASED" => HeldBy(taken_keys', c.key, c.ESIName)
  BY DEF ChangeCarried, ChangeOf, HeldBy
<1>1. Carries(coord_planner', StatusChanges)
  BY DEF Carries
<1>2. PICK m \in 1..Len(coord_planner) : coord_planner[m] = coord_planner'[n]
  BY DEF Among
<1>3. /\ \E e \in ESI : /\ Executed(e) /\ fp[e] > 0 /\ c = ChangeOf(LineOf(e))
                        /\ LineOf(e).operation \in {"GET_OP", "STORE_OP"}
      /\ c.status = "RELEASED" => HeldBy(taken_keys, c.key, c.ESIName)
  BY <1>2 DEF ChangeCarried
<1>4. \A e \in ESI : Executed(e) => LineOf(e)' = LineOf(e)
  BY <1>1 DEF LineOf
<1> QED BY <1>1, <1>3, <1>4

\* The steps of the planner that read neither the end of a line nor its change.
LEMMA PlannerOther ==
  ASSUME TypeOK, PlannerInv, OneLine, OthersThanPlanner, PlannerNext, ~LineOk, ~StatusChanged,
         \A c \in Commands : c.name \notin {"bloquear", "desbloquear"}
  PROVE  /\ \A e \in ESI : Executed(e)' <=> Executed(e)
         /\ Among(coord_planner, coord_planner', StatusChanges)
         /\ Carries(coord_planner', StatusChanges) <=> Carries(coord_planner, StatusChanges)
         /\ NoNewHolder(taken_keys, taken_keys')
         /\ \A key, name : HeldBy(taken_keys, key, name) <=> HeldBy(taken_keys', key, name)
         /\ UNCHANGED <<fp, process, thread>>
<1>1. UNCHANGED <<fp, process, thread>>
  BY DEF OthersThanPlanner, esiVars, coordinatorVars
<1>2. \A e \in ESI : Executed(e)' <=> Executed(e)
  BY <1>1, DoneStays DEF Executed
<1>3. coord_planner \in Seq(CoordinatorFrame) /\ ListsTypeOK
  BY DEF TypeOK, ChannelsTypeOK, PlannerInv, PlannerTypeOK
<1>4. ASSUME coord_planner' = coord_planner, KeysMove
      PROVE  /\ Among(coord_planner, coord_planner', StatusChanges)
             /\ Carries(coord_planner', StatusChanges) <=> Carries(coord_planner, StatusChanges)
             /\ NoNewHolder(taken_keys, taken_keys')
             /\ \A key, name : HeldBy(taken_keys, key, name) <=> HeldBy(taken_keys', key, name)
  <2>1. Among(coord_planner, coord_planner', StatusChanges)
    BY <1>3, <1>4, AmongFrames
  <2>2. Carries(coord_planner', StatusChanges) <=> Carries(coord_planner, StatusChanges)
    BY <1>4 DEF Carries
  <2> QED BY <1>3, <1>4, <2>1, <2>2, HoldersSame
<1>5. CASE GetAllowed \/ GetDenied \/ CheckOwner
  <2>1. /\ coord_planner # <<>> /\ coord_planner' = Tail(coord_planner) /\ taken_keys' = taken_keys
    BY <1>5 DEF GetAllowed, GetDenied, CheckOwner, FromCoordinator, Arrives, plannerVars
  <2>2. Head(coord_planner).type \notin StatusChanges
    BY <1>5 DEF GetAllowed, GetDenied, CheckOwner, FromCoordinator, Arrives, StatusChanges
  <2>3. Among(coord_planner, coord_planner', StatusChanges)
    BY <1>3, <2>1, AmongFrames
  <2>4. Carries(coord_planner', StatusChanges) <=> Carries(coord_planner, StatusChanges)
    BY <1>3, <2>1, <2>2, OtherFrames
  <2>5. KeysMove
    BY <2>1 DEF KeysMove
  <2> QED BY <1>1, <1>2, <1>3, <2>3, <2>4, <2>5, HoldersSame
<1>6. CASE ~(GetAllowed \/ GetDenied \/ CheckOwner)
  <2>1. coord_planner' = coord_planner /\ KeysMove
    BY <1>6, QuietKeys DEF PlannerNext, ListenNext
  <2> QED BY <1>1, <1>2, <1>4, <2>1
<1> QED BY <1>5, <1>6

\* A registered ESI keeps its name.
LEMMA NamesStay ==
  ASSUME PlannerInv, [PlannerNext]_plannerVars
  PROVE  \A e \in Registered : e \in Registered' /\ NameOf(e)' = NameOf(e)
<1>0. esi_sockets_list \in Seq(ESI) /\ esi \in [ESI -> ESIRecord]
  BY DEF PlannerInv, PlannerTypeOK, ListsTypeOK, EsisTypeOK
<1>1. CASE \A f \in ESI : ~RegisterEsi(f)
  <2>1. esi_sockets_list' = esi_sockets_list
    BY <1>1, IdsKept
  <2> QED BY <1>0, <2>1, SameNames, ElementsOfSeq DEF Registered
<1>2. ASSUME NEW f \in ESI, RegisterEsi(f)
      PROVE  \A e \in Registered : e \in Registered' /\ NameOf(e)' = NameOf(e)
  <2>1. /\ esi' = [esi EXCEPT ![f] = register_esi(esi_id_counter)]
        /\ esi_sockets_list' = Append(esi_sockets_list, f)
        /\ \A i \in 1..Len(esi_sockets_list) : esi_sockets_list[i] # f
    BY <1>2 DEF RegisterEsi
  <2>2. f \notin Registered /\ Registered \subseteq ESI
    BY <1>0, <2>1, ElementsOfSeq DEF Registered
  <2>3. Registered' = Registered \cup {f}
    BY <1>0, <2>1, AppendElements DEF Registered
  <2>4. \A e \in Registered : esi'[e] = esi[e]
    BY <1>0, <2>1, <2>2
  <2> QED BY <2>3, <2>4 DEF NameOf
<1> QED BY <1>1, <1>2

\* The planner reads a change before the end of the line it is about.
LEMMA PlannerChange ==
  ASSUME TypeOK, PlannerInv, QueuePartition, OneLine, ReportInv, ChangeCarried,
         OthersThanPlanner, PlannerNext,
         \A c \in Commands : c.name \notin {"bloquear", "desbloquear"}
  PROVE  ChangeCarried'
<1>0. coord_planner \in Seq(CoordinatorFrame)
  BY DEF TypeOK, ChannelsTypeOK
<1>1. ASSUME ~Carries(coord_planner', StatusChanges) PROVE ChangeCarried'
  BY <1>1 DEF ChangeCarried, Carries
<1>2. CASE LineOk
  <2>1. /\ coord_planner # <<>> /\ coord_planner' = Tail(coord_planner)
        /\ Head(coord_planner).type \in DoneLine
    BY <1>2 DEF LineOk, FromCoordinator, Arrives, DoneLine
  <2>2. ~Carries(coord_planner, StatusChanges)
    BY <1>0, <2>1, BeforeTail DEF ReportInv, ChangeFirst
  <2>3. ~Carries(coord_planner', StatusChanges)
    BY <1>0, <2>1, <2>2, FrameReceived DEF NoMore
  <2> QED BY <1>1, <2>3
<1>3. CASE StatusChanged
  <2>1. /\ coord_planner # <<>> /\ coord_planner' = Tail(coord_planner)
        /\ Head(coord_planner).type \in StatusChanges
    BY <1>3 DEF StatusChanged, FromCoordinator, Arrives, StatusChanges
  <2>2. ~Carries(coord_planner', StatusChanges)
    BY <1>0, <2>1, FrameReceived DEF ReportInv, ChangeFirst
  <2> QED BY <1>1, <2>2
<1>4. CASE ~LineOk /\ ~StatusChanged
  <2>1. /\ \A e \in ESI : Executed(e)' <=> Executed(e)
        /\ Among(coord_planner, coord_planner', StatusChanges)
        /\ \A key, name : HeldBy(taken_keys, key, name) <=> HeldBy(taken_keys', key, name)
        /\ fp' = fp
    BY <1>4, PlannerOther
  <2>2. ASSUME NEW e \in ESI, Executed(e) PROVE NameOf(e)' = NameOf(e)
    <3>1. e \in Registered
      BY <2>2, ExecutedAlone, RunnerRegistered DEF Place
    <3> QED BY <3>1, NamesStay
  <2> QED BY <2>1, <2>2, CarriedChangeKept
<1> QED BY <1>2, <1>3, <1>4

\* No ESI reads a line while a change is on its way.
LEMMA EsiChange ==
  ASSUME TypeOK, OneLine, ChangeCarried, OthersThanEsi, EsiNext \/ \E e \in ESI : Connect(e)
  PROVE  ChangeCarried'
<1>1. PICK e \in ESI : \/ Connect(e) \/ FromPlannerNext(e) \/ FromCoordinatorNext(e)
                       \/ CoordinatorHungUp(e) \/ Die(e)
  BY DEF EsiNext
<1>2. UNCHANGED <<coord_planner, taken_keys, running_queue, thread>>
      /\ \A f \in ESI : NameOf(f)' = NameOf(f)
  BY DEF OthersThanEsi, plannerVars, queues, coordinatorVars, NameOf
<1>3. Among(coord_planner, coord_planner', StatusChanges)
  BY <1>2, AmongFrames DEF TypeOK, ChannelsTypeOK
<1>4. \A f \in ESI : Executed(f) => Executed(f)'
  BY <1>2 DEF Executed, LineAt
<1>5. ASSUME NEW f \in ESI, Executed(f) PROVE fp'[f] = fp[f]
  <2>1. CASE f # e
    BY <1>1, <2>1, OtherEsis
  <2>2. CASE parser(e)
    <3>1. LineAt(e, "order")
      BY <2>2, OrderTaken DEF parser, SendLine, SendLastLineAndExit, AbortOnLine, Eof
    <3> QED BY <1>5, <3>1, ExecutedAlone DEF Place
  <2>3. CASE f = e /\ ~parser(e)
    BY <1>1, <2>3, NoLineRead DEF FromPlannerNext
  <2> QED BY <2>1, <2>2, <2>3
<1> QED BY <1>2, <1>3, <1>4, <1>5, CarriedChangeKept

\* Who is about to report reports the change of its line; a release is of a
\* key that it holds.
LEMMA NotifyCarried ==
  ASSUME TypeOK, PlannerInv, OneLine, ReportInv, HeldUntilUsed, OthersThanCoordinator,
         NEW e \in ESI, LineCarried(e), NotifyChange(e)
  PROVE  ChangeCarried'
<1>1. PICK id : id = thread[e].id
  OBVIOUS
<1>2. PICK c : c = ChangeOf(id)
  OBVIOUS
<1>3. PICK frame : /\ frame.content = c /\ frame.type \in StatusChanges
                   /\ coord_planner' = Append(coord_planner, frame)
  <2>1. PICK frame : frame = WithContent("RESOURCE_STATUS_CHANGE_TO_PLANNER", c)
    OBVIOUS
  <2>2. frame.content = c /\ frame.type = "RESOURCE_STATUS_CHANGE_TO_PLANNER"
    BY <2>1 DEF WithContent
  <2>3. coord_planner' = Append(coord_planner, frame)
    BY <1>1, <1>2, <2>1 DEF NotifyChange, ChangeOf
  <2> QED BY <2>2, <2>3 DEF StatusChanges
<1>4. /\ thread[e].pc = "change" /\ thread' = [thread EXCEPT ![e].pc = "line_ok"]
      /\ UNCHANGED <<fp, esi, taken_keys>> /\ coord_planner \in Seq(CoordinatorFrame)
  BY DEF NotifyChange, OthersThanCoordinator, esiVars, plannerVars, TypeOK, ChannelsTypeOK
<1>5. id \in InstructionDetail /\ id.operation \in {"GET_OP", "STORE_OP"}
  <2>1. id \in InstructionDetail
    BY <1>1, <1>4 DEF TypeOK, CoordinatorTypeOK
  <2>2. id.operation # "SET_OP"
    BY <1>1, <1>4 DEF ReportInv, AskedAndTold, ToldOf
  <2> QED BY <2>1, <2>2 DEF InstructionDetail, Operation
<1>6. fp[e] > 0 /\ id = LineOf(e) /\ Executed(e)'
  <2>1. Executing(e)
    BY <1>4 DEF Executing
  <2>2. thread'[e].pc = "line_ok"
    BY <1>4, ThreadPc DEF TypeOK
  <2> QED BY <1>1, <2>1, <2>2 DEF LineCarried, Executed
<1>7. LineOf(e)' = LineOf(e)
  BY <1>4 DEF LineOf, NameOf
<1>8. c.status = "RELEASED" => HeldBy(taken_keys', c.key, c.ESIName)
  <2>1. /\ c.key = id.key /\ c.ESIName = id.ESIName
        /\ c.status = "RELEASED" => id.operation # "GET_OP"
    BY <1>2, <1>5 DEF ChangeOf
  <2>2. Granted(e)
    BY <1>4 DEF Granted
  <2> QED BY <1>1, <1>4, <2>1, <2>2 DEF HeldUntilUsed
<1>9. \A n \in 1..Len(coord_planner') :
        coord_planner'[n].type \in StatusChanges => coord_planner'[n].content = c
  <2> DEFINE q == coord_planner
             r == Append(q, frame)
  <2>1. \A n \in 1..Len(r) : \/ n \in 1..Len(q) /\ r[n] = q[n]
                             \/ n = Len(q) + 1 /\ r[n] = frame
    BY <1>4, AppendFrames
  <2>2. Granted(e)
    BY <1>4 DEF Granted
  <2>3. \A n \in 1..Len(q) : q[n].type \notin StatusChanges
    BY <2>2, NothingTold DEF ReportInv, Carries
  <2> HIDE DEF q, r
  <2>4. \A n \in 1..Len(r) : r[n].type \in StatusChanges => r[n].content = c
    BY <1>3, <2>1, <2>3
  <2> QED BY <1>3, <2>4 DEF q, r
<1> QED BY <1>2, <1>4, <1>5, <1>6, <1>7, <1>8, <1>9 DEF ChangeCarried

\* The steps of a thread before it reports to the planner.
LEMMA ThreadEnds ==
  ASSUME TypeOK, CoordinatorNext, \A e \in ESI : ~ReceiveInstruction(e) /\ ~NotifyChange(e) /\ ~NotifyLineOk(e)
  PROVE  /\ coord_planner' = coord_planner
         /\ \A f \in ESI : thread[f].pc = "line_ok" => thread'[f].pc = "line_ok"
         /\ \A f \in ESI : thread'[f].pc = "line_ok" =>
              thread[f].pc = "line_ok" \/ InstanceSucceeded(f)
<1>1. CASE \E e \in ESI : AcceptEsi(e)
  <2>1. PICK e \in ESI : AcceptEsi(e)
    BY <1>1
  <2>2. /\ coord_planner' = coord_planner /\ thread[e].pc = "off"
        /\ thread' = [thread EXCEPT ![e].pc = "recv"]
    BY <2>1 DEF AcceptEsi
  <2>3. thread'[e].pc = "recv" /\ \A f \in ESI : f # e => thread'[f] = thread[f]
    BY <2>2, ThreadPc DEF TypeOK
  <2> QED BY <2>2, <2>3
<1>2. CASE \/ \E i \in Inst : AcceptInstance(i)
           \/ SendInitConfig \/ FollowNullInstance \/ BrokenPipe
  <2>1. coord_planner' = coord_planner /\ thread' = thread
    BY <1>2 DEF AcceptInstance, SendInitConfig, FollowNullInstance, BrokenPipe
  <2> QED BY <2>1
<1>3. ASSUME NEW e \in ESI, ReceiveFinished(e)
      PROVE  /\ coord_planner' = coord_planner
             /\ \A f \in ESI : thread[f].pc = "line_ok" <=> thread'[f].pc = "line_ok"
  <2>1. /\ coord_planner' = coord_planner /\ thread[e].pc = "recv"
        /\ thread' = [thread EXCEPT ![e].pc = "done"]
    BY <1>3 DEF ReceiveFinished
  <2>2. thread'[e].pc = "done" /\ \A f \in ESI : f # e => thread'[f] = thread[f]
    BY <2>1, ThreadPc DEF TypeOK
  <2> QED BY <2>1, <2>2
<1>4. ASSUME NEW e \in ESI, OpFailed(e) \/ InstanceFailed(e) \/ InstanceGone(e)
      PROVE  /\ coord_planner' = coord_planner
             /\ \A f \in ESI : thread[f].pc = "line_ok" <=> thread'[f].pc = "line_ok"
  <2>1. /\ coord_planner' = coord_planner /\ thread[e].pc \in {"permission", "instance"}
        /\ thread' = [thread EXCEPT ![e] = [NoThread EXCEPT !.pc = "recv"]]
    BY <1>4 DEF OpFailed, InstanceFailed, InstanceGone, OperationFailed
  <2>2. thread'[e].pc = "recv" /\ \A f \in ESI : f # e => thread'[f] = thread[f]
    BY <2>1, ThreadFree DEF TypeOK
  <2> QED BY <2>1, <2>2
<1>5. ASSUME NEW e \in ESI, OpOk(e)
      PROVE  /\ coord_planner' = coord_planner
             /\ \A f \in ESI : thread[f].pc = "line_ok" <=> thread'[f].pc = "line_ok"
  <2>1. coord_planner' = coord_planner /\ thread[e].pc = "permission"
    BY <1>5 DEF OpOk
  <2>2. PICK target \in Inst :
          thread' = [thread EXCEPT ![e] = [@ EXCEPT !.pc = "instance", !.inst = target]]
    BY <1>5, OpOkTarget
  <2>3. thread'[e].pc = "instance" /\ \A f \in ESI : f # e => thread'[f] = thread[f]
    BY <2>2, ThreadSent DEF TypeOK
  <2> QED BY <2>1, <2>3
<1>6. ASSUME NEW e \in ESI, InstanceSucceeded(e)
      PROVE  /\ coord_planner' = coord_planner /\ thread[e].pc = "instance"
             /\ \A f \in ESI : f # e => thread'[f] = thread[f]
  <2>1. PICK pc : pc = IF ToldOf(thread[e].id.operation) THEN "change" ELSE "line_ok"
    OBVIOUS
  <2>2. /\ coord_planner' = coord_planner /\ thread[e].pc = "instance"
        /\ thread' = [thread EXCEPT ![e].pc = pc]
    BY <1>6, <2>1 DEF InstanceSucceeded
  <2>3. \A f \in ESI : f # e => thread'[f] = thread[f]
    BY <2>2, ThreadPc DEF TypeOK
  <2> QED BY <2>2, <2>3
<1>7. CASE \E e \in ESI : InstanceSucceeded(e)
  <2>1. PICK e \in ESI : InstanceSucceeded(e)
    BY <1>7
  <2> QED BY <1>6, <2>1
<1> QED
  BY <1>1, <1>2, <1>3, <1>4, <1>5, <1>7 DEF CoordinatorNext, listening_thread, thread_listen_esi

\* The steps of the coordinator that report no change: who has executed a line
\* still has, and only the report of an Instance ends an execution.
LEMMA CoordinatorOther ==
  ASSUME TypeOK, OneLine, OthersThanCoordinator, CoordinatorNext, \A e \in ESI : ~NotifyChange(e)
  PROVE  /\ Among(coord_planner, coord_planner', StatusChanges)
         /\ Carries(coord_planner', StatusChanges) <=> Carries(coord_planner, StatusChanges)
         /\ \A f \in ESI : Executed(f) => Executed(f)'
         /\ \A f \in ESI : Executed(f)' => Executed(f) \/ InstanceSucceeded(f)
<1>0. coord_planner \in Seq(CoordinatorFrame) /\ running_queue' = running_queue
  BY CoordinatorSideKept DEF TypeOK, ChannelsTypeOK
<1>1. ASSUME NEW e \in ESI, ReceiveInstruction(e)
      PROVE  /\ Among(coord_planner, coord_planner', StatusChanges)
             /\ Carries(coord_planner', StatusChanges) <=> Carries(coord_planner, StatusChanges)
             /\ \A f \in ESI : Executed(f)' <=> Executed(f)
  <2>1. PICK frame : frame.type \in Checks /\ coord_planner' = Append(coord_planner, frame)
    BY <1>1, QuestionSent
  <2>2. frame.type \notin StatusChanges /\ frame.type \notin DoneLine
    BY <2>1 DEF Checks, StatusChanges, DoneLine
  <2>3. /\ Among(coord_planner, coord_planner', StatusChanges)
        /\ Carries(coord_planner', StatusChanges) <=> Carries(coord_planner, StatusChanges)
        /\ Carries(coord_planner', DoneLine) <=> Carries(coord_planner, DoneLine)
    BY <1>0, <2>1, <2>2, AmongFrames, OtherFrames
  <2>4. \A f \in ESI : thread'[f].pc = "line_ok" <=> thread[f].pc = "line_ok"
    BY <1>1, QuestionSent
  <2> QED BY <1>0, <2>3, <2>4 DEF Executed, LineAt
<1>2. ASSUME NEW e \in ESI, NotifyLineOk(e)
      PROVE  /\ Among(coord_planner, coord_planner', StatusChanges)
             /\ Carries(coord_planner', StatusChanges) <=> Carries(coord_planner, StatusChanges)
             /\ \A f \in ESI : Executed(f)' <=> Executed(f)
  <2>1. PICK frame : frame.type \in DoneLine /\ coord_planner' = Append(coord_planner, frame)
    <3>1. PICK frame : frame = Header("ESI_EXECUTION_LINE_OK")
      OBVIOUS
    <3> QED BY <1>2, <3>1 DEF NotifyLineOk, Header, DoneLine
  <2>2. /\ Among(coord_planner, coord_planner', StatusChanges)
        /\ Carries(coord_planner', StatusChanges) <=> Carries(coord_planner, StatusChanges)
        /\ Carries(coord_planner', DoneLine)
    <3>1. frame.type \notin StatusChanges
      BY <2>1 DEF DoneLine, StatusChanges
    <3> QED BY <1>0, <2>1, <3>1, AmongFrames, OtherFrames, FrameSent
  <2>3. thread[e].pc = "line_ok" /\ thread' = [thread EXCEPT ![e] = [NoThread EXCEPT !.pc = "recv"]]
    BY <1>2 DEF NotifyLineOk
  <2>4. thread'[e].pc = "recv" /\ \A f \in ESI : f # e => thread'[f] = thread[f]
    BY <2>3, ThreadFree DEF TypeOK
  <2>5. Executed(e) /\ running_queue = <<e>> /\ \A f \in ESI : Executed(f) => f = e
    BY <2>3, ExecutedAlone DEF Executed
  <2>6. Executed(e)'
    BY <1>0, <2>2, <2>5 DEF Executed, LineAt
  <2>7. ASSUME NEW f \in ESI, Executed(f)' PROVE f = e
    <3>1. running_queue' = <<f>> => f = e
      BY <1>0, <2>5
    <3>2. f # e => thread[f].pc # "line_ok"
      BY <2>5 DEF Executed
    <3> QED BY <2>4, <2>7, <3>1, <3>2 DEF Executed, LineAt
  <2> QED BY <2>2, <2>5, <2>6, <2>7
<1>3. CASE \A e \in ESI : ~ReceiveInstruction(e) /\ ~NotifyLineOk(e)
  <2>1. /\ coord_planner' = coord_planner
        /\ \A f \in ESI : thread[f].pc = "line_ok" => thread'[f].pc = "line_ok"
        /\ \A f \in ESI : thread'[f].pc = "line_ok" =>
             thread[f].pc = "line_ok" \/ InstanceSucceeded(f)
    BY <1>3, ThreadEnds
  <2>2. Among(coord_planner, coord_planner', StatusChanges)
    BY <1>0, <2>1, AmongFrames
  <2>3. \A f \in ESI : LineAt(f, "done")' <=> LineAt(f, "done")
    BY <1>0, <2>1 DEF LineAt
  <2> QED BY <2>1, <2>2, <2>3 DEF Executed
<1>4. CASE \E e \in ESI : ReceiveInstruction(e)
  <2>1. PICK e \in ESI : ReceiveInstruction(e)
    BY <1>4
  <2> QED BY <1>1, <2>1
<1>5. CASE \E e \in ESI : NotifyLineOk(e)
  <2>1. PICK e \in ESI : NotifyLineOk(e)
    BY <1>5
  <2> QED BY <1>2, <2>1
<1> QED BY <1>3, <1>4, <1>5

\* Every step keeps the change that travels that of the executed line.
LEMMA ChangeCarriedStep ==
  ASSUME TypeOK, PlannerInv, QueuePartition, OneLine, ReportInv, HeldUntilUsed, ChangeCarried,
         \A e \in ESI : LineCarried(e), [Next]_vars,
         \A c \in Commands : c.name \notin {"bloquear", "desbloquear"}
  PROVE  ChangeCarried'
<1>1. CASE PlannerNext /\ OthersThanPlanner
  BY <1>1, PlannerChange
<1>2. CASE (EsiNext \/ \E e \in ESI : Connect(e)) /\ OthersThanEsi
  BY <1>2, EsiChange
<1>3. CASE CoordinatorNext /\ OthersThanCoordinator
  <2>1. CASE \E e \in ESI : NotifyChange(e)
    BY <1>3, <2>1, NotifyCarried
  <2>2. CASE \A e \in ESI : ~NotifyChange(e)
    <3>1. /\ Among(coord_planner, coord_planner', StatusChanges)
          /\ \A f \in ESI : Executed(f) => Executed(f)'
      BY <1>3, <2>2, CoordinatorOther
    <3>2. UNCHANGED <<fp, esi, taken_keys>>
      BY <1>3 DEF OthersThanCoordinator, esiVars, plannerVars
    <3> QED BY <3>1, <3>2, CarriedChangeKept DEF NameOf
  <2> QED BY <2>1, <2>2
<1>4. CASE (InstanceNext /\ OthersThanInstance) \/ UNCHANGED vars
  <2>1. UNCHANGED <<coord_planner, running_queue, thread, fp, esi, taken_keys>>
    BY <1>4 DEF OthersThanInstance, vars, channels, plannerVars, queues, coordinatorVars, esiVars
  <2>2. Among(coord_planner, coord_planner', StatusChanges)
    BY <2>1, AmongFrames DEF TypeOK, ChannelsTypeOK
  <2> QED BY <2>1, <2>2, CarriedChangeKept DEF NameOf, Executed, LineAt
<1> QED BY <1>1, <1>2, <1>3, <1>4 DEF Next, Step, Terminated

\* The change that is read: a GET takes a key that nobody held, a STORE frees
\* one that its ESI held; who holds the other keys stays.
LEMMA StatusHeld ==
  ASSUME TypeOK, PlannerInv, ReportInv, KeyExclusive, ChangeCarried, StatusChanged
  PROVE  \E e \in ESI :
           LET line == Script[e][fp[e]]
           IN /\ Executed(e) /\ fp[e] > 0
              /\ \/ /\ line.operation = "GET_OP"
                    /\ \A name : /\ ~HeldBy(taken_keys, line.key, name)
                                 /\ HeldBy(taken_keys', line.key, name) <=> name = NameOf(e)
                 \/ /\ line.operation = "STORE_OP"
                    /\ HeldBy(taken_keys, line.key, NameOf(e))
                    /\ \A name : ~HeldBy(taken_keys', line.key, name)
              /\ \A key, name : key # line.key =>
                   (HeldBy(taken_keys', key, name) <=> HeldBy(taken_keys, key, name))
              /\ \A n \in 1..Len(taken_keys') : taken_keys'[n].status = "BLOCKED" =>
                   \/ taken_keys'[n].ESIName = NameOf(e)
                   \/ \E m \in 1..Len(taken_keys) : taken_keys[m] = taken_keys'[n]
<1>1. PICK c : c = Head(coord_planner).content
  OBVIOUS
<1>2. /\ taken_keys \in Seq(KeyNode) /\ coord_planner \in Seq(CoordinatorFrame)
      /\ coord_planner # <<>> /\ Head(coord_planner).type \in StatusChanges
      /\ Head(coord_planner) \in CoordinatorFrame
      /\ Len(coord_planner) > 0 /\ coord_planner[1] = Head(coord_planner)
  BY DEF PlannerInv, PlannerTypeOK, ListsTypeOK, TypeOK, ChannelsTypeOK, StatusChanged,
     FromCoordinator, Arrives, StatusChanges
<1>3. c.key \in Key /\ c.ESIName \in Name
  BY <1>1, <1>2, FrameContent DEF StatusChanges
<1>4. /\ \E e \in ESI : /\ Executed(e) /\ fp[e] > 0 /\ c = ChangeOf(LineOf(e))
                        /\ LineOf(e).operation \in {"GET_OP", "STORE_OP"}
      /\ c.status = "RELEASED" => HeldBy(taken_keys, c.key, c.ESIName)
  BY <1>1, <1>2 DEF ChangeCarried
<1>5. PICK e \in ESI : /\ Executed(e) /\ fp[e] > 0 /\ c = ChangeOf(LineOf(e))
                       /\ LineOf(e).operation \in {"GET_OP", "STORE_OP"}
  BY <1>4
<1>6. PICK line : line = Script[e][fp[e]]
  OBVIOUS
<1>7. /\ line.operation \in {"GET_OP", "STORE_OP"} /\ c.key = line.key /\ c.ESIName = NameOf(e)
      /\ c.status = "BLOCKED" <=> line.operation = "GET_OP"
      /\ c.status = "RELEASED" <=> line.operation = "STORE_OP"
  <2>1. /\ LineOf(e).operation = line.operation /\ LineOf(e).key = line.key
        /\ LineOf(e).ESIName = NameOf(e)
    BY <1>6 DEF LineOf
  <2> QED BY <1>5, <2>1 DEF ChangeOf
<1>8. CASE line.operation = "GET_OP"
  <2>1. taken_keys' = load_key(taken_keys, c.key, c.ESIName)
    BY <1>1, <1>7, <1>8 DEF StatusChanged
  <2>2. ~HasNode(taken_keys, c.key, "BLOCKED")
    BY <1>1, <1>2, <1>7, <1>8, FramesLeave DEF ReportInv, FreeUntilTold, Takes
  <2>3. PICK node : node = Node(c.ESIName, c.key, "BLOCKED")
    OBVIOUS
  <2>4. node \in KeyNode /\ node.key = line.key /\ node.ESIName = NameOf(e) /\ node.status = "BLOCKED"
    BY <1>3, <1>7, <2>3 DEF Node, KeyNode
  <2>5. taken_keys' = Append(taken_keys, node)
    BY <2>1, <2>3 DEF load_key
  <2>6. /\ \A key, name : key # line.key =>
             (HeldBy(taken_keys', key, name) <=> HeldBy(taken_keys, key, name))
        /\ \A name : HeldBy(taken_keys', line.key, name) <=> name = NameOf(e)
    BY <1>2, <1>7, <2>2, <2>4, <2>5, HolderAppended
  <2>7. \A name : ~HeldBy(taken_keys, line.key, name)
    BY <1>7, <2>2 DEF HeldBy
  <2>8. \A n \in 1..Len(taken_keys') :
          taken_keys'[n] = node \/ \E m \in 1..Len(taken_keys) : taken_keys[m] = taken_keys'[n]
    <3>1. \A n \in 1..Len(Append(taken_keys, node)) :
            \/ n \in 1..Len(taken_keys) /\ Append(taken_keys, node)[n] = taken_keys[n]
            \/ n = Len(taken_keys) + 1 /\ Append(taken_keys, node)[n] = node
      BY <1>2, AppendFrames
    <3> QED BY <2>5, <3>1
  <2> QED BY <1>5, <1>6, <1>8, <2>4, <2>6, <2>7, <2>8
<1>9. CASE line.operation = "STORE_OP"
  <2>1. taken_keys' = Unlink(taken_keys, line.key, "BLOCKED")
    BY <1>1, <1>7, <1>9 DEF StatusChanged, StartRelease
  <2>2. OneHolder(taken_keys)
    BY DEF KeyExclusive, OneHolder
  <2>3. /\ NoNewHolder(taken_keys, taken_keys') /\ ~HasNode(taken_keys', line.key, "BLOCKED")
        /\ \A key, name : key # line.key =>
             (HeldBy(taken_keys', key, name) <=> HeldBy(taken_keys, key, name))
    BY <1>2, <2>1, <2>2, HoldersUnlinked
  <2>4. \A name : ~HeldBy(taken_keys', line.key, name)
    BY <2>3 DEF HeldBy
  <2>5. HeldBy(taken_keys, line.key, NameOf(e))
    BY <1>4, <1>7, <1>9
  <2> QED BY <1>5, <1>6, <1>9, <2>3, <2>4, <2>5 DEF NoNewHolder
<1> QED BY <1>7, <1>8, <1>9

\* Nobody but a registered ESI takes a key.
LEMMA KnownStep ==
  ASSUME TypeOK, PlannerInv, QueuePartition, OneLine, ReportInv, KeyExclusive, ChangeCarried,
         KnownHolders, [Next]_vars,
         \A c \in Commands : c.name \notin {"bloquear", "desbloquear"}
  PROVE  KnownHolders'
<1>1. ASSUME [PlannerNext]_plannerVars, NoNewHolder(taken_keys, taken_keys') PROVE KnownHolders'
  <2>1. \A e \in Registered : e \in Registered' /\ NameOf(e)' = NameOf(e)
    BY <1>1, NamesStay
  <2> QED BY <1>1, <2>1 DEF KnownHolders, NoNewHolder
<1>2. NoNewHolder(taken_keys, taken_keys)
  BY DEF NoNewHolder
<1>3. CASE PlannerNext /\ OthersThanPlanner
  <2>1. CASE LineOk
    <3>1. taken_keys' = taken_keys
      BY <2>1 DEF LineOk
    <3> QED BY <1>1, <1>2, <1>3, <3>1
  <2>2. CASE StatusChanged
    <3>1. PICK e \in ESI :
            /\ Executed(e)
            /\ \A n \in 1..Len(taken_keys') : taken_keys'[n].status = "BLOCKED" =>
                 \/ taken_keys'[n].ESIName = NameOf(e)
                 \/ \E m \in 1..Len(taken_keys) : taken_keys[m] = taken_keys'[n]
      BY <2>2, StatusHeld
    <3>2. e \in Registered
      BY <3>1, ExecutedAlone, RunnerRegistered DEF Place
    <3>3. Registered' = Registered /\ \A f \in ESI : NameOf(f)' = NameOf(f)
      BY <2>2 DEF StatusChanged, Registered, NameOf
    <3>4. Registered \subseteq ESI
      <4>1. esi_sockets_list \in Seq(ESI)
        BY DEF PlannerInv, PlannerTypeOK, ListsTypeOK
      <4> QED BY <4>1, ElementsOfSeq DEF Registered
    <3> QED BY <3>1, <3>2, <3>3, <3>4 DEF KnownHolders
  <2>3. CASE ~LineOk /\ ~StatusChanged
    <3>1. NoNewHolder(taken_keys, taken_keys')
      BY <1>3, <2>3, PlannerOther
    <3> QED BY <1>1, <1>3, <3>1
  <2> QED BY <2>1, <2>2, <2>3
<1>4. CASE UNCHANGED plannerVars
  <2>1. taken_keys' = taken_keys
    BY <1>4 DEF plannerVars
  <2> QED BY <1>1, <1>2, <1>4, <2>1
<1>5. (PlannerNext /\ OthersThanPlanner) \/ UNCHANGED plannerVars
  BY DEF Next, Step, Terminated, vars, OthersThanEsi, OthersThanCoordinator, OthersThanInstance
<1> QED BY <1>3, <1>4, <1>5
-----------------------------------------------------------------------------
(***************************************************************************)
(* The lock list accounts for the lines that were reported.                *)
(***************************************************************************)
Reported(e) == Executed(e) /\ ~Carries(coord_planner, StatusChanges)
AccountedFor(e, k) == HeldAfter(e, k, Accounted(e)) <=> HeldBy(taken_keys, k, NameOf(e))

\* The lines accounted for, before a step and after it.
LEMMA AccountOf ==
  ASSUME NEW e \in ESI
  PROVE  /\ Accounted(e) = IF Carries(planner_esi[e], Runs) \/ Reported(e)
                             THEN fp[e] ELSE fp[e] - 1
         /\ Accounted(e)' = IF Carries(planner_esi'[e], Runs) \/ Reported(e)'
                              THEN fp'[e] ELSE fp'[e] - 1
  BY DEF Accounted, Reported, Runs

\* An account that moves over lines that take and give back nothing of a key.
LEMMA AccountMoves ==
  ASSUME NEW e, NEW k, AccountedFor(e, k), NameOf(e)' = NameOf(e),
         HeldAfter(e, k, Accounted(e)') <=> HeldAfter(e, k, Accounted(e)),
         HeldBy(taken_keys', k, NameOf(e)) <=> HeldBy(taken_keys, k, NameOf(e))
  PROVE  AccountedFor(e, k)'
<1>1. HeldAfter(e, k, Accounted(e))' <=> HeldAfter(e, k, Accounted(e)')
  BY DEF HeldAfter
<1>2. HeldBy(taken_keys, k, NameOf(e))' <=> HeldBy(taken_keys', k, NameOf(e)')
  BY DEF HeldBy, HasNode
<1> QED BY <1>1, <1>2 DEF AccountedFor

\* A step that leaves the line, the order and the holders of a key alone.
LEMMA AccountKept ==
  ASSUME NEW e \in ESI, NEW k, AccountedFor(e, k), NameOf(e)' = NameOf(e), fp'[e] = fp[e],
         Carries(planner_esi'[e], Runs) <=> Carries(planner_esi[e], Runs),
         Reported(e)' <=> Reported(e),
         HeldBy(taken_keys', k, NameOf(e)) <=> HeldBy(taken_keys, k, NameOf(e))
  PROVE  AccountedFor(e, k)'
<1>1. Accounted(e)' = Accounted(e)
  BY AccountOf
<1> QED BY <1>1, AccountMoves

\* An ESI that registers has read nothing, and its name is new.
LEMMA NewAccount ==
  ASSUME TypeOK, PlannerInv, RetryInv, IdsDiffer, KnownHolders, OthersThanPlanner,
         NEW e \in ESI, RegisterEsi(e), NEW k
  PROVE  AccountedFor(e, k)'
<1>1. /\ e \notin Registered /\ taken_keys' = taken_keys /\ fp' = fp /\ fp[e] \in Nat
      /\ esi' = [esi EXCEPT ![e] = register_esi(esi_id_counter)] /\ esi_sockets_list \in Seq(ESI)
  <2>1. esi_sockets_list \in Seq(ESI)
    BY DEF PlannerInv, PlannerTypeOK, ListsTypeOK
  <2>2. e \notin Registered
    BY <2>1, ElementsOfSeq DEF RegisterEsi, Registered
  <2> QED BY <2>1, <2>2 DEF RegisterEsi, OthersThanPlanner, esiVars, TypeOK, EsiTypeOK
<1>2. fp'[e] = 0
  BY <1>1 DEF RetryInv, Registered
<1>3. ~HeldAfter(e, k, Accounted(e))'
  <2>1. Accounted(e)' \in {0, -1}
    BY <1>2, AccountOf
  <2>2. PICK lines \in Int : lines = Accounted(e)' /\ lines <= 0
    BY <2>1
  <2>3. ~HeldAfter(e, k, lines)
    BY <2>2, NoLines
  <2> QED BY <2>2, <2>3 DEF HeldAfter
<1>4. NameOf(e)' = EsiName(esi_id_counter)
  BY <1>1 DEF NameOf, register_esi, PlannerInv, PlannerTypeOK, EsisTypeOK
<1>5. \A n \in 1..Len(taken_keys) : taken_keys[n].status = "BLOCKED" =>
        taken_keys[n].ESIName # EsiName(esi_id_counter)
  <2>1. NoName # EsiName(esi_id_counter)
    BY DEF NoName, EsiName
  <2>2. ASSUME NEW f \in Registered PROVE NameOf(f) # EsiName(esi_id_counter)
    <3>1. esi[f].id < esi_id_counter /\ esi[f].id \in Nat /\ esi_id_counter \in Nat
      <4>1. f \in ESI
        BY <1>1, ElementsOfSeq DEF Registered
      <4> QED BY <4>1 DEF IdsDiffer, Registered, PlannerInv, PlannerTypeOK, EsisTypeOK, ESIRecord
    <3>2. esi[f].id # esi_id_counter
      BY <3>1
    <3> QED BY <3>2, EsiNameInjective DEF NameOf
  <2> QED BY <2>1, <2>2 DEF KnownHolders
<1>6. ~HeldBy(taken_keys, k, NameOf(e))'
  BY <1>1, <1>4, <1>5 DEF HeldBy, HasNode
<1> QED BY <1>3, <1>6 DEF AccountedFor

\* An end of line that is read: its line was accounted for when it was reported.
LEMMA LineOkAccounts ==
  ASSUME TypeOK, PlannerInv, OneLine, ReportInv, OthersThanPlanner, PlannerNext, LineOk,
         NEW e \in Registered, NEW k, AccountedFor(e, k)
  PROVE  AccountedFor(e, k)'
<1>0. /\ UNCHANGED <<fp, thread, taken_keys, running_queue>> /\ coord_planner \in Seq(CoordinatorFrame)
      /\ esi_sockets_list \in Seq(ESI)
  BY DEF LineOk, OthersThanPlanner, esiVars, coordinatorVars, queues, TypeOK, ChannelsTypeOK,
     PlannerInv, PlannerTypeOK, ListsTypeOK
<1>1. e \in ESI /\ NameOf(e)' = NameOf(e)
  BY <1>0, NamesStay, ElementsOfSeq DEF Registered
<1>2. PICK h \in ESI : /\ LineAt(h, "done") /\ Carries(planner_esi'[h], Runs)
                       /\ \A f \in ESI : f # h => planner_esi'[f] = planner_esi[f]
  BY NextOrdered
<1>3. ~Carries(coord_planner, StatusChanges)
  <2>1. coord_planner # <<>> /\ Head(coord_planner).type \in DoneLine
    BY DEF LineOk, FromCoordinator, Arrives, DoneLine
  <2> QED BY <1>0, <2>1, BeforeTail DEF ReportInv, ChangeFirst
<1>4. Executed(h) /\ running_queue = <<h>> /\ \A f \in ESI : Executed(f) => f = h
  BY <1>2, ExecutedAlone DEF Executed
<1>5. CASE e = h
  <2>1. Reported(e)
    BY <1>3, <1>4, <1>5 DEF Reported
  <2>2. Accounted(e)' = Accounted(e)
    BY <1>0, <1>1, <1>2, <1>5, <2>1, AccountOf
  <2> QED BY <1>0, <1>1, <2>2, AccountMoves
<1>6. CASE e # h
  <2>1. ~Executed(e) /\ ~Executed(e)'
    <3>1. running_queue' = <<e>> => e = h
      BY <1>0, <1>4
    <3>2. thread'[e].pc = "line_ok" => Executed(e)
      BY <1>0 DEF Executed
    <3> QED BY <1>1, <1>4, <1>6, <3>1, <3>2 DEF Executed, LineAt
  <2> QED BY <1>0, <1>1, <1>2, <1>6, <2>1, AccountKept DEF Reported
<1> QED BY <1>5, <1>6

\* A change that is read: the line it is about is accounted for from now on.
LEMMA ChangeAccounts ==
  ASSUME TypeOK, PlannerInv, QueuePartition, IdsDiffer, OneLine, ReportInv, KeyExclusive,
         ChangeCarried, OthersThanPlanner, PlannerNext, StatusChanged,
         NEW f \in Registered, NEW k, AccountedFor(f, k)
  PROVE  AccountedFor(f, k)'
<1>0. /\ UNCHANGED <<fp, thread, planner_esi, running_queue, esi>>
      /\ coord_planner \in Seq(CoordinatorFrame) /\ esi_sockets_list \in Seq(ESI)
  BY DEF StatusChanged, OthersThanPlanner, esiVars, coordinatorVars, queues, TypeOK, ChannelsTypeOK,
     PlannerInv, PlannerTypeOK, ListsTypeOK
<1>1. f \in ESI /\ NameOf(f)' = NameOf(f)
  BY <1>0, ElementsOfSeq DEF Registered, NameOf
<1>2. Carries(coord_planner, StatusChanges) /\ ~Carries(coord_planner', StatusChanges)
  <2>1. /\ coord_planner # <<>> /\ coord_planner' = Tail(coord_planner)
        /\ Head(coord_planner).type \in StatusChanges
    BY DEF StatusChanged, FromCoordinator, Arrives, StatusChanges
  <2> QED BY <1>0, <2>1, FrameReceived DEF ReportInv, ChangeFirst
<1>3. \A h \in ESI : Executed(h)' <=> Executed(h)
  <2>1. ~LineOk
    BY DEF LineOk, StatusChanged, FromCoordinator, Arrives
  <2> QED BY <1>0, <2>1, DoneStays DEF Executed
<1>4. PICK e \in ESI :
        LET line == Script[e][fp[e]]
        IN /\ Executed(e) /\ fp[e] > 0
           /\ \/ /\ line.operation = "GET_OP"
                 /\ \A name : /\ ~HeldBy(taken_keys, line.key, name)
                              /\ HeldBy(taken_keys', line.key, name) <=> name = NameOf(e)
              \/ /\ line.operation = "STORE_OP"
                 /\ HeldBy(taken_keys, line.key, NameOf(e))
                 /\ \A name : ~HeldBy(taken_keys', line.key, name)
           /\ \A key, name : key # line.key =>
                (HeldBy(taken_keys', key, name) <=> HeldBy(taken_keys, key, name))
  BY StatusHeld
<1>5. PICK line : line = Script[e][fp[e]]
  OBVIOUS
<1>6. /\ \A h \in ESI : Executed(h) => h = e
      /\ \A h \in ESI : ~Carries(planner_esi[h], Runs)
      /\ e \in Registered
  <2>1. /\ \A h \in ESI : Executed(h) => h = e
        /\ \A h \in ESI : ~LineAt(h, "order")
    BY <1>4, ExecutedAlone DEF Place
  <2>2. e \in Registered
    BY <1>4, ExecutedAlone, RunnerRegistered DEF Place
  <2> QED BY <2>1, <2>2 DEF LineAt, Carries, Orders, Runs
<1>7. CASE f # e
  <2>1. ~Reported(f) /\ ~Reported(f)'
    BY <1>1, <1>3, <1>6, <1>7 DEF Reported
  <2>2. HeldBy(taken_keys', k, NameOf(f)) <=> HeldBy(taken_keys, k, NameOf(f))
    <3>1. NameOf(f) # NameOf(e)
      BY <1>6, <1>7, EsiNameInjective DEF IdsDiffer, NameOf, Registered
    <3>2. HeldBy(taken_keys, k, NameOf(e)) => ~HeldBy(taken_keys, k, NameOf(f))
      BY <3>1 DEF HeldBy, HasNode
    <3> QED BY <1>4, <1>5, <3>1, <3>2
  <2> QED BY <1>0, <1>1, <2>1, <2>2, AccountKept
<1>8. CASE f = e
  <2>1. fp[e] \in Nat /\ fp[e] > 0
    BY <1>4 DEF TypeOK, EsiTypeOK
  <2>2. Accounted(e) = fp[e] - 1 /\ Accounted(e)' = fp[e]
    <3>1. ~Reported(e) /\ Reported(e)'
      BY <1>2, <1>3, <1>4 DEF Reported
    <3> QED BY <1>0, <1>6, <3>1, AccountOf
  <2>3. /\ line.operation = "GET_OP" /\ line.key = k => HeldAfter(e, k, fp[e])
        /\ line.operation = "STORE_OP" /\ line.key = k => ~HeldAfter(e, k, fp[e])
        /\ line.key # k => (HeldAfter(e, k, fp[e]) <=> HeldAfter(e, k, fp[e] - 1))
    BY <1>5, <2>1, OneLineMore
  <2>4. HeldAfter(e, k, fp[e]) <=> HeldBy(taken_keys', k, NameOf(e))
    BY <1>4, <1>5, <1>8, <2>2, <2>3 DEF AccountedFor
  <2>5. HeldAfter(e, k, Accounted(e))' <=> HeldAfter(e, k, fp[e])
    BY <2>2 DEF HeldAfter
  <2>6. HeldBy(taken_keys, k, NameOf(e))' <=> HeldBy(taken_keys', k, NameOf(e))
    BY <1>1, <1>8 DEF HeldBy, HasNode
  <2> QED BY <1>8, <2>4, <2>5, <2>6 DEF AccountedFor
<1> QED BY <1>7, <1>8

\* An order to start is for an ESI that is accounted for, or has read nothing.
LEMMA StartAccounts ==
  ASSUME TypeOK, PlannerInv, RetryInv, OneLine, OthersThanPlanner, PlannerNext, RunStart,
         NEW f \in Registered, NEW k, AccountedFor(f, k),
         Reported(f)' <=> Reported(f),
         HeldBy(taken_keys', k, NameOf(f)) <=> HeldBy(taken_keys, k, NameOf(f))
  PROVE  AccountedFor(f, k)'
<1>0. fp' = fp /\ fp[f] \in Nat /\ f \in ESI /\ NameOf(f)' = NameOf(f)
  <2>1. esi_sockets_list \in Seq(ESI)
    BY DEF PlannerInv, PlannerTypeOK, ListsTypeOK
  <2>2. f \in ESI
    BY <2>1, ElementsOfSeq DEF Registered
  <2> QED BY <2>2, NamesStay DEF OthersThanPlanner, esiVars, TypeOK, EsiTypeOK
<1>1. PICK e \in ESI :
        /\ LineAt(e, "start")
        /\ \A g \in ESI : g # e => planner_esi'[g] = planner_esi[g]
        /\ \/ Carries(planner_esi'[e], Runs) <=> Carries(planner_esi[e], Runs)
           \/ Carries(planner_esi'[e], Runs) /\ fp[e] = 0
  BY StartOrdered
<1>2. CASE Carries(planner_esi'[f], Runs) <=> Carries(planner_esi[f], Runs)
  BY <1>0, <1>2, AccountKept
<1>3. CASE fp[f] = 0
  <2>1. PICK here \in Int : here = Accounted(f) /\ here <= 0
    BY <1>0, <1>3, AccountOf
  <2>2. PICK there \in Int : there = Accounted(f)' /\ there <= 0
    BY <1>0, <1>3, AccountOf
  <2>3. ~HeldAfter(f, k, here) /\ ~HeldAfter(f, k, there)
    BY <2>1, <2>2, NoLines
  <2> QED BY <1>0, <2>1, <2>2, <2>3, AccountMoves
<1> QED BY <1>0, <1>1, <1>2, <1>3

\* Every step of the planner keeps the accounts.
LEMMA PlannerAccounts ==
  ASSUME TypeOK, PlannerInv, QueuePartition, IdsDiffer, RetryInv, OneLine, ReportInv, KeyExclusive,
         ChangeCarried, KnownHolders, Accounts, OthersThanPlanner, PlannerNext,
         \A c \in Commands : c.name \notin {"bloquear", "desbloquear"}
  PROVE  Accounts'
<1>0. /\ UNCHANGED <<fp, process>> /\ esi_sockets_list \in Seq(ESI)
      /\ \A f \in Registered : f \in ESI /\ NameOf(f)' = NameOf(f)
  <2>1. esi_sockets_list \in Seq(ESI)
    BY DEF PlannerInv, PlannerTypeOK, ListsTypeOK
  <2> QED BY <2>1, NamesStay, ElementsOfSeq DEF Registered, OthersThanPlanner, esiVars
<1>1. ASSUME NEW f \in Registered, NEW k \in Key, process'[f] # "exited"
      PROVE  AccountedFor(f, k)'
  <2>1. AccountedFor(f, k)
    BY <1>0, <1>1 DEF Accounts, AccountedFor
  <2>2. CASE LineOk
    BY <1>1, <2>1, <2>2, LineOkAccounts
  <2>3. CASE StatusChanged
    BY <1>1, <2>1, <2>3, ChangeAccounts
  <2>4. ASSUME ~LineOk, ~StatusChanged
        PROVE  /\ Reported(f)' <=> Reported(f)
               /\ HeldBy(taken_keys', k, NameOf(f)) <=> HeldBy(taken_keys, k, NameOf(f))
    BY <1>0, <1>1, <2>4, PlannerOther DEF Reported
  <2>5. CASE ~LineOk /\ ~StatusChanged /\ RunStart
    BY <1>1, <2>1, <2>4, <2>5, StartAccounts
  <2>6. CASE ~LineOk /\ ~StatusChanged /\ ~RunStart
    <3>1. Carries(planner_esi'[f], Runs) <=> Carries(planner_esi[f], Runs)
      BY <1>0, <1>1, <2>6, SameRuns
    <3> QED BY <1>0, <1>1, <2>1, <2>4, <2>6, <3>1, AccountKept
  <2> QED BY <2>2, <2>3, <2>5, <2>6
<1>2. ASSUME NEW f \in Registered', f \notin Registered, NEW k
      PROVE  AccountedFor(f, k)'
  <2>1. PICK e \in ESI : RegisterEsi(e)
    <3>1. esi_sockets_list' # esi_sockets_list
      BY <1>2 DEF Registered
    <3> QED BY <3>1, IdsKept
  <2>2. esi_sockets_list' = Append(esi_sockets_list, e)
    BY <2>1 DEF RegisterEsi
  <2>3. Registered' = Registered \cup {e}
    BY <1>0, <2>2, AppendElements DEF Registered
  <2>4. f = e
    BY <1>2, <2>3
  <2> QED BY <2>1, <2>4, NewAccount
<1>3. Accounts' <=> \A f \in Registered', k \in Key : process'[f] # "exited" => AccountedFor(f, k)'
  BY DEF Accounts, AccountedFor
<1> QED BY <1>1, <1>2, <1>3

\* What an ESI reads, other than an order, is no order.
LEMMA RunsStay ==
  ASSUME TypeOK, NamingInv, NEW e \in ESI,
         \/ Connect(e) \/ HandshakeOk(e) \/ UnknownFromPlanner(e) \/ FromCoordinatorNext(e) \/ Die(e)
  PROVE  Carries(planner_esi'[e], Runs) <=> Carries(planner_esi[e], Runs)
<1>0. planner_esi \in [ESI -> Seq(PlannerToEsi)]
  BY DEF TypeOK, ChannelsTypeOK
<1>1. CASE HandshakeOk(e)
  <2>1. /\ planner_esi'[e] = Tail(Tail(planner_esi[e])) /\ Len(planner_esi[e]) > 1
        /\ planner_esi[e] \in Seq(PlannerToEsi) /\ planner_esi[e] # <<>>
        /\ Head(planner_esi[e]).type = "ESI_PLANNER_HANDSHAKE_OK"
    BY <1>0, <1>1 DEF HandshakeOk, Arrives
  <2>2. Greeted(planner_esi[e], NameOf(e))
    BY <2>1, HeadNamed DEF NamingInv
  <2>3. PICK second : second.type = "name bytes" /\ planner_esi[e][2] = second
    <3>1. PICK second : second = WithContent("name bytes", NameOf(e))
      OBVIOUS
    <3>2. second.type = "name bytes"
      BY <3>1 DEF WithContent
    <3> QED BY <2>2, <3>1, <3>2 DEF Greeted
  <2>5. /\ Tail(planner_esi[e]) \in Seq(PlannerToEsi) /\ Tail(planner_esi[e]) # <<>>
        /\ Head(Tail(planner_esi[e])) = second
    <3>1. PICK q \in Seq(PlannerToEsi) : q = planner_esi[e]
      BY <2>1
    <3>2. Tail(q) \in Seq(PlannerToEsi) /\ Tail(q) # <<>> /\ q # <<>>
      BY <2>1, <3>1, TwoFrames
    <3>3. PICK t \in Seq(PlannerToEsi) : t = Tail(q)
      BY <3>2
    <3>4. 1 \in 1..Len(t) /\ Head(t) = t[1]
      BY <3>2, <3>3
    <3>5. t[1] = q[2]
      BY <3>2, <3>3, <3>4, TailFrames
    <3> QED BY <2>3, <3>1, <3>2, <3>3, <3>4, <3>5
  <2>6. Head(planner_esi[e]).type \notin Runs /\ Head(Tail(planner_esi[e])).type \notin Runs
    BY <2>1, <2>3, <2>5 DEF Runs
  <2>7. Carries(Tail(planner_esi[e]), Runs) <=> Carries(planner_esi[e], Runs)
    BY <2>1, <2>6, OtherFrames
  <2>8. Carries(Tail(Tail(planner_esi[e])), Runs) <=> Carries(Tail(planner_esi[e]), Runs)
    BY <2>5, <2>6, OtherFrames
  <2> QED BY <2>1, <2>7, <2>8
<1>2. CASE UnknownFromPlanner(e)
  <2>1. /\ planner_esi'[e] = Tail(planner_esi[e]) /\ planner_esi[e] \in Seq(PlannerToEsi)
        /\ planner_esi[e] # <<>> /\ Head(planner_esi[e]).type \notin Runs
    BY <1>0, <1>2 DEF UnknownFromPlanner, Receive, Arrives, Runs
  <2> QED BY <2>1, OtherFrames
<1>3. CASE Connect(e) \/ FromCoordinatorNext(e) \/ Die(e)
  <2>1. planner_esi' = planner_esi
    BY <1>3 DEF Connect, FromCoordinatorNext, CoordHandshakeOk, OperationError, Die
  <2> QED BY <2>1
<1> QED BY <1>1, <1>2, <1>3

\* An ESI that reads a line has the lines before it accounted for.
LEMMA LineAccounts ==
  ASSUME TypeOK, OneLine, OthersThanEsi, NEW e \in ESI, SendLine(e), LastLineRead(e),
         NEW k, AccountedFor(e, k)
  PROVE  AccountedFor(e, k)'
<1>0. /\ UNCHANGED <<taken_keys, coord_planner, running_queue, thread, esi>>
      /\ fp \in [ESI -> Nat] /\ fp[e] \in Nat /\ process[e] = "on"
      /\ planner_esi[e] # <<>> /\ Head(planner_esi[e]).type \in Orders
      /\ planner_esi[e] \in Seq(PlannerToEsi)
  BY DEF OthersThanEsi, plannerVars, queues, coordinatorVars, TypeOK, EsiTypeOK, ChannelsTypeOK,
     SendLine, Ordered, Arrives, Orders
<1>1. NameOf(e)' = NameOf(e)
  BY <1>0 DEF NameOf
<1>2. LineAt(e, "order") /\ ~Carries(planner_esi'[e], Orders)
  BY OrderTaken DEF SendLine
<1>3. ~Reported(e) /\ ~Reported(e)'
  <2>1. ~Executed(e)
    BY <1>2, ExecutedAlone DEF Place
  <2> QED BY <1>0, <2>1 DEF Reported, Executed, LineAt
<1>4. ~Carries(planner_esi'[e], Runs)
  BY <1>2 DEF Carries, Orders, Runs
<1>5. PICK line : line = LineToRun(e)
  OBVIOUS
<1>6. fp'[e] = line + 1
  BY <1>0, <1>5 DEF SendLine
<1>7. CASE Head(planner_esi[e]).type = "PLANNER_ESI_RUN"
  <2>1. line = fp[e]
    BY <1>5, <1>7 DEF LineToRun
  <2>2. Carries(planner_esi[e], Runs)
    BY <1>0, <1>7, FrameReceived DEF Runs
  <2>3. Accounted(e)' = Accounted(e)
    BY <1>0, <1>3, <1>4, <1>6, <2>1, <2>2, AccountOf
  <2> QED BY <1>0, <1>1, <2>3, AccountMoves
<1>8. CASE Head(planner_esi[e]).type # "PLANNER_ESI_RUN"
  <2>1. line = IF fp[e] = 0 THEN 0 ELSE fp[e] - 1
    BY <1>0, <1>5, <1>8 DEF LineToRun, LastLineRead
  <2>2. ~Carries(planner_esi[e], Runs)
    <3>1. Once(planner_esi[e], Orders)
      BY DEF OneLine, SentOnce
    <3>2. Len(planner_esi[e]) > 0 /\ planner_esi[e][1] = Head(planner_esi[e])
      BY <1>0
    <3>3. \A n \in 1..Len(planner_esi[e]) : planner_esi[e][n].type \in Orders => n = 1
      BY <1>0, <3>1, <3>2 DEF Once
    <3> QED BY <1>8, <3>2, <3>3 DEF Carries, Runs, Orders
  <2>3. CASE fp[e] > 0
    <3>1. Accounted(e)' = Accounted(e)
      BY <1>0, <1>3, <1>4, <1>6, <2>1, <2>2, <2>3, AccountOf
    <3> QED BY <1>0, <1>1, <3>1, AccountMoves
  <2>4. CASE fp[e] = 0
    <3>1. PICK here \in Int : here = Accounted(e) /\ here <= 0
      BY <1>0, <1>3, <2>2, <2>4, AccountOf
    <3>2. PICK there \in Int : there = Accounted(e)' /\ there <= 0
      BY <1>3, <1>4, <1>6, <2>1, <2>4, AccountOf
    <3>3. ~HeldAfter(e, k, here) /\ ~HeldAfter(e, k, there)
      BY <3>1, <3>2, NoLines
    <3> QED BY <1>0, <1>1, <3>1, <3>2, <3>3, AccountMoves
  <2> QED BY <1>0, <2>3, <2>4
<1> QED BY <1>7, <1>8

\* Every step of an ESI keeps the accounts.
LEMMA EsiAccounts ==
  ASSUME NoNewline = {}, TypeOK, PlannerInv, OneLine, NamingInv, Accounts, OthersThanEsi,
         EsiNext \/ \E e \in ESI : Connect(e), \A e \in ESI : LastLineRead(e)
  PROVE  Accounts'
<1>0. /\ UNCHANGED <<taken_keys, coord_planner, running_queue, thread, esi, esi_sockets_list>>
      /\ esi_sockets_list \in Seq(ESI) /\ process \in [ESI -> {"off", "on", "exited", "killed"}]
  BY DEF OthersThanEsi, plannerVars, queues, coordinatorVars, TypeOK, EsiTypeOK,
     PlannerInv, PlannerTypeOK, ListsTypeOK
<1>1. /\ Registered' = Registered /\ Registered \subseteq ESI
      /\ \A f \in ESI : NameOf(f)' = NameOf(f) /\ (Reported(f)' <=> Reported(f))
  BY <1>0, ElementsOfSeq DEF Registered, NameOf, Reported, Executed, LineAt
<1>2. PICK e \in ESI : \/ Connect(e) \/ FromPlannerNext(e) \/ FromCoordinatorNext(e)
                       \/ CoordinatorHungUp(e) \/ Die(e)
  BY DEF EsiNext
<1>3. ASSUME NEW f \in Registered, NEW k \in Key, process'[f] # "exited"
      PROVE  AccountedFor(f, k)'
  <2>1. CASE f # e
    <3>1. UNCHANGED <<fp[f], process[f], planner_esi[f]>>
      BY <1>1, <1>2, <1>3, <2>1, OtherEsis
    <3>2. AccountedFor(f, k)
      BY <1>3, <3>1 DEF Accounts, AccountedFor
    <3> QED BY <1>0, <1>1, <1>3, <3>1, <3>2, AccountKept
  <2>2. CASE f = e /\ \/ Connect(e) \/ HandshakeOk(e) \/ UnknownFromPlanner(e)
                      \/ FromCoordinatorNext(e) \/ Die(e)
    <3>1. fp'[f] = fp[f] /\ process[f] # "exited"
      BY <1>3, <2>2, NoLineRead
    <3>2. Carries(planner_esi'[f], Runs) <=> Carries(planner_esi[f], Runs)
      BY <2>2, RunsStay
    <3>3. AccountedFor(f, k)
      BY <1>3, <3>1 DEF Accounts, AccountedFor
    <3> QED BY <1>0, <1>1, <1>3, <3>1, <3>2, <3>3, AccountKept
  <2>3. CASE f = e /\ SendLine(e)
    <3>1. process[f] # "exited"
      BY <2>3 DEF SendLine, Ordered
    <3>2. AccountedFor(f, k)
      BY <1>3, <3>1 DEF Accounts, AccountedFor
    <3> QED BY <2>3, <3>2, LineAccounts
  <2>4. ~(SendLastLineAndExit(e) \/ AbortOnLine(e) \/ Eof(e) \/ CoordinatorHungUp(e)) \/ f # e
    BY <1>0, <1>3 DEF SendLastLineAndExit, AbortOnLine, Eof, CoordinatorHungUp
  <2> QED BY <1>2, <2>1, <2>2, <2>3, <2>4 DEF FromPlannerNext, parser
<1> QED BY <1>1, <1>3 DEF Accounts, AccountedFor

\* An operation that succeeded is accounted for when it is reported: a SET
\* takes no key, and the change of a GET or a STORE is reported first.
LEMMA SuccessAccounts ==
  ASSUME TypeOK, PlannerInv, OneLine, ReportInv, OthersThanCoordinator, NEW e \in ESI,
         InstanceSucceeded(e), LineCarried(e), NEW k, AccountedFor(e, k)
  PROVE  AccountedFor(e, k)'
<1>0. /\ UNCHANGED <<fp, taken_keys, planner_esi, running_queue, esi, coord_planner>>
      /\ fp[e] \in Nat /\ thread[e].pc = "instance"
  BY DEF OthersThanCoordinator, esiVars, plannerVars, queues, InstanceSucceeded, TypeOK, EsiTypeOK
<1>1. NameOf(e)' = NameOf(e)
  BY <1>0 DEF NameOf
<1>2. /\ ~Carries(planner_esi[e], Runs) /\ ~LineAt(e, "done") /\ ~Executed(e)
      /\ ~Carries(coord_planner, StatusChanges)
  <2>1. LineAt(e, "executing") /\ Granted(e)
    BY <1>0 DEF LineAt, Executing, Granted
  <2>2. ~LineAt(e, "order") /\ ~LineAt(e, "done")
    BY <2>1 DEF OneLine, InOnePlace, Place
  <2>3. ~Carries(planner_esi[e], Runs)
    BY <2>2 DEF LineAt, Carries, Orders, Runs
  <2> QED BY <1>0, <2>1, <2>2, <2>3, NothingTold DEF Executed, ReportInv
<1>3. CASE Executed(e)'
  <2>1. thread'[e].pc = "line_ok"
    BY <1>0, <1>2, <1>3 DEF Executed, LineAt
  <2>2. ~ToldOf(thread[e].id.operation)
    <3>1. PICK pc : pc = IF ToldOf(thread[e].id.operation) THEN "change" ELSE "line_ok"
      OBVIOUS
    <3>2. thread'[e].pc = pc
      BY <3>1, ThreadPc DEF InstanceSucceeded, TypeOK
    <3> QED BY <2>1, <3>1, <3>2
  <2>3. fp[e] > 0 /\ Script[e][fp[e]].operation = "SET_OP"
    <3>1. fp[e] > 0 /\ thread[e].id = LineOf(e)
      BY <1>0 DEF LineCarried, Executing
    <3>2. LineOf(e).operation = Script[e][fp[e]].operation
      BY DEF LineOf
    <3> QED BY <2>2, <3>1, <3>2 DEF ToldOf
  <2>4. HeldAfter(e, k, fp[e]) <=> HeldAfter(e, k, fp[e] - 1)
    BY <1>0, <2>3, OneLineMore
  <2>5. Accounted(e) = fp[e] - 1 /\ Accounted(e)' = fp[e]
    BY <1>0, <1>2, <1>3, AccountOf DEF Reported
  <2> QED BY <1>0, <1>1, <2>4, <2>5, AccountMoves
<1>4. CASE ~Executed(e)'
  BY <1>0, <1>1, <1>2, <1>4, AccountKept DEF Reported
<1> QED BY <1>3, <1>4

\* Every step of the coordinator keeps the accounts.
LEMMA CoordinatorAccounts ==
  ASSUME TypeOK, PlannerInv, OneLine, ReportInv, OthersThanCoordinator, CoordinatorNext,
         \A e \in ESI : LineCarried(e), Accounts
  PROVE  Accounts'
<1>0. /\ UNCHANGED <<fp, process, taken_keys, planner_esi, running_queue, esi, esi_sockets_list>>
      /\ esi_sockets_list \in Seq(ESI)
  BY DEF OthersThanCoordinator, esiVars, plannerVars, queues, PlannerInv, PlannerTypeOK, ListsTypeOK
<1>1. /\ Registered' = Registered /\ Registered \subseteq ESI
      /\ \A f \in ESI : NameOf(f)' = NameOf(f)
  BY <1>0, ElementsOfSeq DEF Registered, NameOf
<1>2. ASSUME NEW f \in Registered, Reported(f)' <=> Reported(f),
             NEW k \in Key, process'[f] # "exited"
      PROVE  AccountedFor(f, k)'
  <2>1. AccountedFor(f, k)
    BY <1>0, <1>2 DEF Accounts, AccountedFor
  <2> QED BY <1>0, <1>1, <1>2, <2>1, AccountKept
<1>3. ASSUME NEW e \in ESI, NotifyChange(e) PROVE Accounts'
  <2>1. \A f \in ESI : ~Executed(f)
    <3>1. thread[e].pc = "change" /\ LineAt(e, "executing")
      BY <1>3 DEF NotifyChange, LineAt, Executing
    <3>2. \A f \in ESI : ~LineAt(f, "done") /\ (LineAt(f, "executing") => f = e)
      BY <3>1 DEF OneLine, InOnePlace, Place
    <3> QED BY <3>1, <3>2 DEF Executed, LineAt, Executing
  <2>2. Carries(coord_planner', StatusChanges)
    <3>1. PICK c : c = [ESIName |-> thread[e].id.ESIName, key |-> thread[e].id.key,
                        status |-> IF thread[e].id.operation = "STORE_OP" THEN "RELEASED" ELSE "BLOCKED"]
      OBVIOUS
    <3>2. PICK frame : frame = WithContent("RESOURCE_STATUS_CHANGE_TO_PLANNER", c)
      OBVIOUS
    <3>3. frame.type \in StatusChanges
      BY <3>2 DEF WithContent, StatusChanges
    <3>4. coord_planner' = Append(coord_planner, frame) /\ coord_planner \in Seq(CoordinatorFrame)
      BY <1>3, <3>1, <3>2 DEF NotifyChange, TypeOK, ChannelsTypeOK
    <3> QED BY <3>3, <3>4, FrameSent
  <2>3. \A f \in ESI : ~Reported(f) /\ ~Reported(f)'
    BY <2>1, <2>2 DEF Reported
  <2> QED BY <1>1, <1>2, <2>3 DEF Accounts, AccountedFor
<1>4. CASE \A e \in ESI : ~NotifyChange(e)
  <2>1. /\ Carries(coord_planner', StatusChanges) <=> Carries(coord_planner, StatusChanges)
        /\ \A f \in ESI : Executed(f) => Executed(f)'
        /\ \A f \in ESI : Executed(f)' => Executed(f) \/ InstanceSucceeded(f)
    BY <1>4, CoordinatorOther
  <2>2. ASSUME NEW f \in Registered, NEW k \in Key, process'[f] # "exited"
        PROVE  AccountedFor(f, k)'
    <3>1. CASE InstanceSucceeded(f)
      <4>1. AccountedFor(f, k)
        BY <1>0, <2>2 DEF Accounts, AccountedFor
      <4> QED BY <1>1, <2>2, <3>1, <4>1, SuccessAccounts
    <3>2. CASE ~InstanceSucceeded(f)
      <4>1. Reported(f)' <=> Reported(f)
        BY <1>1, <2>1, <2>2, <3>2 DEF Reported
      <4> QED BY <1>2, <2>2, <4>1
    <3> QED BY <3>1, <3>2
  <2> QED BY <1>1, <2>2 DEF Accounts, AccountedFor
<1> QED BY <1>3, <1>4

\* Every step of the system keeps the accounts.
LEMMA AccountsStep ==
  ASSUME NoNewline = {}, TypeOK, PlannerInv, QueuePartition, IdsDiffer, RetryInv, OneLine,
         ReportInv, KeyExclusive, HoldingInv, [Next]_vars,
         \A c \in Commands : c.name \notin {"bloquear", "desbloquear"}
  PROVE  Accounts'
<1>1. CASE PlannerNext /\ OthersThanPlanner
  BY <1>1, PlannerAccounts DEF HoldingInv
<1>2. CASE (EsiNext \/ \E e \in ESI : Connect(e)) /\ OthersThanEsi
  BY <1>2, EsiAccounts DEF HoldingInv
<1>3. CASE CoordinatorNext /\ OthersThanCoordinator
  BY <1>3, CoordinatorAccounts DEF HoldingInv
<1>4. CASE (InstanceNext /\ OthersThanInstance) \/ UNCHANGED vars
  <2>1. UNCHANGED <<fp, process, taken_keys, planner_esi, running_queue, esi, esi_sockets_list,
                    thread, coord_planner>>
    BY <1>4 DEF OthersThanInstance, vars, channels, plannerVars, queues, coordinatorVars, esiVars
  <2>2. /\ Registered' = Registered /\ Registered \subseteq ESI
        /\ \A f \in ESI : NameOf(f)' = NameOf(f) /\ (Reported(f)' <=> Reported(f))
    <3>1. esi_sockets_list \in Seq(ESI)
      BY DEF PlannerInv, PlannerTypeOK, ListsTypeOK
    <3> QED BY <2>1, <3>1, ElementsOfSeq DEF Registered, NameOf, Reported, Executed, LineAt
  <2>3. ASSUME NEW f \in Registered, NEW k \in Key, process'[f] # "exited"
        PROVE  AccountedFor(f, k)'
    <3>1. AccountedFor(f, k)
      BY <2>1, <2>3 DEF HoldingInv, Accounts, AccountedFor
    <3> QED BY <2>1, <2>2, <2>3, <3>1, AccountKept
  <2> QED BY <2>2, <2>3 DEF Accounts, AccountedFor
<1> QED BY <1>1, <1>2, <1>3, <1>4 DEF Next, Step, Terminated
-----------------------------------------------------------------------------
\* At first nobody is registered, and the configuration holds what is held.
LEMMA InitHolding == Init => HoldingInv
<1> SUFFICES ASSUME Init PROVE HoldingInv
  OBVIOUS
<1>1. /\ esi_sockets_list = <<>> /\ esi_id_counter = INIT_ID /\ listen.pc = "select"
      /\ coord_planner = <<>>
      /\ \A e \in ESI : /\ planner_esi[e] = <<>> /\ esi_coord[e] = <<>> /\ thread[e].pc = "off"
                        /\ fp[e] = 0 /\ fp_beginning_li[e] = 0
  BY DEF Init, ChannelsInit, PlannerInit, EsiInit, CoordinatorInit, NoThread, Listening
<1>2. Len(<<>>) = 0 /\ 1..0 = {} /\ INIT_ID \in Nat
  BY ConfigAssumption
<1>3. Registered = {} /\ IsInjective(esi_sockets_list)
  <2>1. ToSet(<<>>) = {} /\ IsInjective(<<>>)
    BY DEF ToSet, IsInjective
  <2> QED BY <1>1, <2>1 DEF Registered
<1>4. \A e \in ESI : ~Answers(e) /\ ~Asking(e) /\ ~Executing(e)
  BY <1>1 DEF Answers, Answering, Asking, Executing
<1>5. NamingInv
  BY <1>1, <1>2, <1>3, <1>4 DEF NamingInv, Numbered, NamedFirst
<1>6. \A e \in ESI : LastLineRead(e) /\ LineCarried(e) /\ NextUnasked(e)
  BY <1>1, <1>2, <1>4 DEF LastLineRead, LineCarried, NextUnasked
<1>7. ChangeCarried
  BY <1>1, <1>2 DEF ChangeCarried
<1>8. KnownHolders
  <2>1. /\ DOMAIN taken_keys = 1..Len(taken_keys)
        /\ taken_keys = [i \in 1..Len(BLOCKED_KEYS) |-> Node(<<"", 0>>, BLOCKED_KEYS[i], "BLOCKED")]
    BY InitPlannerInv, LenProperties
       DEF Init, PlannerInit, pload_Keys, PlannerInv, PlannerTypeOK, ListsTypeOK
  <2>2. \A n \in 1..Len(taken_keys) : taken_keys[n].ESIName = NoName
    BY <2>1 DEF Node, NoName
  <2> QED BY <2>2 DEF KnownHolders
<1>9. Accounts
  BY <1>3 DEF Accounts
<1> QED BY <1>5, <1>6, <1>7, <1>8, <1>9 DEF HoldingInv

\* The parts of HoldingInv, step by step.
LEMMA HoldingStep ==
  ASSUME "handshake" \notin Windows, NoNewline = {}, NoShortSet, IsFiniteSet(ESI),
         INIT_ID + Cardinality(ESI) <= 10,
         \A c \in Commands : c.name \notin {"bloquear", "desbloquear"},
         TypeOK, PlannerInv, QueuePartition, IdsDiffer, OneLine, RetryInv, PermissionInv,
         HoldingInv, [Next]_vars
  PROVE  HoldingInv'
<1>0. /\ NamingInv /\ \A e \in ESI : LastLineRead(e) /\ LineCarried(e) /\ NextUnasked(e)
      /\ ChangeCarried /\ KnownHolders /\ ReportInv /\ KeyExclusive /\ HeldUntilUsed
  BY DEF HoldingInv, PermissionInv
<1>1. NamingInv'
  BY <1>0, NamingStep
<1>2. \A e \in ESI : LastLineRead(e)' /\ LineCarried(e)'
  BY <1>0, CarriedStep
<1>3. \A e \in ESI : NextUnasked(e)'
  BY <1>0, UnaskedStep
<1>4. ChangeCarried'
  BY <1>0, ChangeCarriedStep
<1>5. KnownHolders'
  BY <1>0, KnownStep
<1>6. Accounts'
  BY <1>0, AccountsStep
<1> QED BY <1>1, <1>2, <1>3, <1>4, <1>5, <1>6 DEF HoldingInv

\* While dispatching waits for the answer to the handshake, answers are read
\* by who asked, numbers have one digit, no value is shorter than a name and no
\* command touches a key: the messages about a line carry the name its ESI was
\* given, and the lock list accounts for the lines of each ESI up to the last
\* reported one.
THEOREM HoldingInvHolds ==
  ASSUME "handshake" \notin Windows, "answers" \notin Windows, "console" \notin Windows,
         NoNewline = {}, NoShortSet, IsFiniteSet(ESI),
         INIT_ID + Cardinality(ESI) <= 10, IsInjective(BLOCKED_KEYS),
         \A c \in Commands : c.name \notin {"bloquear", "desbloquear"}
  PROVE  Spec => []HoldingInv
<1>1. Init => HoldingInv
  BY InitHolding
<1>2. TypeOK /\ PlannerInv /\ QueuePartition /\ IdsDiffer /\ OneLine /\ RetryInv /\ PermissionInv
        /\ HoldingInv /\ [Next]_vars => HoldingInv'
  BY HoldingStep
<1>3. Spec => []PlannerInv
  BY SystemRunsPlanner, PlannerInvHolds, PTL
<1>4. ParkedInv => IdsDiffer
  BY DEF ParkedInv
<1>5. Spec => []IdsDiffer
  BY <1>4, SystemRunsPlanner, ParkedInvHolds, PTL
<1>6. \A c \in Commands : c.name # "desbloquear"
  OBVIOUS
<1>7. Spec => []RetryInv
  BY <1>6, RetryInvHolds
<1> QED
  BY <1>1, <1>2, <1>3, <1>5, <1>7, SystemQueuePartition, OneLineHolds, PermissionInvHolds,
     SystemTypeOK, PTL DEF Spec

\* An ESI that is about to run its next line holds, in the planner's list, the
\* keys that its lines so far have taken, and no other (planner launcher.c:163,
\* 211, coordinator launcher.c:224, 226).
THEOREM ScriptsHoldWhatTheyGot ==
  ASSUME "handshake" \notin Windows, "answers" \notin Windows, "console" \notin Windows,
         NoNewline = {}, NoShortSet, IsFiniteSet(ESI),
         INIT_ID + Cardinality(ESI) <= 10, IsInjective(BLOCKED_KEYS),
         \A c \in Commands : c.name \notin {"bloquear", "desbloquear"}
  PROVE  Spec => []HoldsWhatItGot
<1>1. ASSUME HoldingInv, PermissionInv, TypeOK PROVE HoldsWhatItGot
  <2> SUFFICES ASSUME NEW e \in ESI, NEW k \in Key, process[e] = "on",
                      Arrives(planner_esi[e], "PLANNER_ESI_RUN")
               PROVE  HeldAfter(e, k, fp[e]) <=> /\ HasNode(taken_keys, k, "BLOCKED")
                                             /\ ~check_Key_taken(taken_keys, k, EsiName(esi[e].id))
    BY DEF HoldsWhatItGot
  <2>1. /\ planner_esi[e] \in Seq(PlannerToEsi) /\ planner_esi[e] # <<>>
        /\ Head(planner_esi[e]).type = "PLANNER_ESI_RUN" /\ taken_keys \in Seq(KeyNode)
    BY <1>1 DEF TypeOK, ChannelsTypeOK, Arrives, PlannerTypeOK, ListsTypeOK
  <2>2. e \in Registered
    BY <1>1, <2>1, HeadNamed DEF HoldingInv, NamingInv, Orders
  <2>3. Accounted(e) = fp[e]
    <3>1. Carries(planner_esi[e], Runs)
      BY <2>1, FrameReceived DEF Runs
    <3> QED BY <3>1, AccountOf
  <2>4. HeldAfter(e, k, fp[e]) <=> HeldBy(taken_keys, k, NameOf(e))
    BY <1>1, <2>2, <2>3 DEF HoldingInv, Accounts, HeldAfter
  <2>5. PICK n : n = Search(taken_keys, k, "BLOCKED")
    OBVIOUS
  <2>6. HasNode(taken_keys, k, "BLOCKED") =>
          n \in 1..Len(taken_keys) /\ taken_keys[n].key = k /\ taken_keys[n].status = "BLOCKED"
    BY <2>1, <2>5, SearchProperties
  <2>7. HasNode(taken_keys, k, "BLOCKED") =>
          (HeldBy(taken_keys, k, NameOf(e)) <=> taken_keys[n].ESIName = NameOf(e))
    <3> SUFFICES ASSUME HasNode(taken_keys, k, "BLOCKED")
                 PROVE  HeldBy(taken_keys, k, NameOf(e)) <=> taken_keys[n].ESIName = NameOf(e)
      OBVIOUS
    <3>1. n \in 1..Len(taken_keys) /\ taken_keys[n].key = k /\ taken_keys[n].status = "BLOCKED"
      BY <2>6
    <3>2. \A m \in 1..Len(taken_keys) : taken_keys[m].key = k /\ taken_keys[m].status = "BLOCKED" => m = n
      BY <1>1, <3>1 DEF PermissionInv, KeyExclusive
    <3> QED BY <3>1, <3>2 DEF HeldBy
  <2> QED BY <2>4, <2>5, <2>7 DEF HeldBy, check_Key_taken, NameOf
<1> QED
  BY <1>1, HoldingInvHolds, PermissionInvHolds, SystemTypeOK, PTL
=============================================================================
