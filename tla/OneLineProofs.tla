---------------------------- MODULE OneLineProofs ----------------------------
(***************************************************************************)
(* The line under way: the processor is in one place of the system at a    *)
(* time, and what follows for the sockets that the threads of the          *)
(* coordinator share.                                                      *)
(***************************************************************************)
EXTENDS SystemProofs, Inductive

\* The channel r carries no frame of the types more than q does.
NoMore(q, r, types) ==
  /\ Carries(r, types) => Carries(q, types)
  /\ Once(q, types) => Once(r, types)

\* A frame that is received.
LEMMA FrameReceived ==
  ASSUME NEW S, NEW q \in Seq(S), q # <<>>, NEW types
  PROVE  /\ NoMore(q, Tail(q), types)
         /\ Head(q).type \in types => Carries(q, types)
         /\ Once(q, types) /\ Head(q).type \in types => ~Carries(Tail(q), types)
<1>1. /\ Len(q) \in Nat \ {0} /\ Head(q) = q[1] /\ Len(Tail(q)) = Len(q) - 1
      /\ \A n \in 1..Len(Tail(q)) : Tail(q)[n] = q[n + 1]
  OBVIOUS
<1>2. Carries(Tail(q), types) => \E n \in 2..Len(q) : q[n].type \in types
  <2> SUFFICES ASSUME NEW n \in 1..Len(Tail(q)), Tail(q)[n].type \in types
               PROVE  \E m \in 2..Len(q) : q[m].type \in types
    BY DEF Carries
  <2>1. n + 1 \in 2..Len(q) /\ q[n + 1].type \in types
    BY <1>1
  <2> QED BY <2>1
<1>3. Once(q, types) => Once(Tail(q), types)
  <2> SUFFICES ASSUME Once(q, types), NEW m \in 1..Len(Tail(q)), NEW n \in 1..Len(Tail(q)),
                      Tail(q)[m].type \in types, Tail(q)[n].type \in types
               PROVE  m = n
    BY DEF Once
  <2>1. m + 1 \in 1..Len(q) /\ n + 1 \in 1..Len(q)
        /\ q[m + 1].type \in types /\ q[n + 1].type \in types
    BY <1>1
  <2>2. m + 1 = n + 1
    BY <2>1 DEF Once
  <2> QED BY <2>2
<1>4. Head(q).type \in types => Carries(q, types)
  BY <1>1 DEF Carries
<1>5. Once(q, types) /\ Head(q).type \in types => ~Carries(Tail(q), types)
  BY <1>1, <1>2 DEF Once
<1> QED BY <1>2, <1>3, <1>4, <1>5 DEF NoMore, Carries

\* A frame that is sent.
LEMMA FrameSent ==
  ASSUME NEW S, NEW q \in Seq(S), NEW frame, NEW types
  PROVE  /\ frame.type \notin types => NoMore(q, Append(q, frame), types)
         /\ frame.type \in types => Carries(Append(q, frame), types)
         /\ ~Carries(q, types) => Once(Append(q, frame), types)
<1> DEFINE r == Append(q, frame)
<1>1. /\ Len(q) \in Nat /\ Len(r) = Len(q) + 1 /\ r[Len(q) + 1] = frame
      /\ \A n \in 1..Len(q) : r[n] = q[n]
  OBVIOUS
<1> HIDE DEF r
<1>2. frame.type \notin types => NoMore(q, r, types)
  BY <1>1 DEF NoMore, Carries, Once
<1>3. frame.type \in types => Carries(r, types)
  BY <1>1 DEF Carries
<1>4. ~Carries(q, types) => Once(r, types)
  BY <1>1 DEF Carries, Once
<1> QED BY <1>2, <1>3, <1>4 DEF r

\* The frames that are left, and those that are there then.
LEMMA TailFrames ==
  ASSUME NEW S, NEW q \in Seq(S), q # <<>>
  PROVE  \A n \in 1..Len(Tail(q)) : n + 1 \in 1..Len(q) /\ Tail(q)[n] = q[n + 1]
OBVIOUS

LEMMA AppendFrames ==
  ASSUME NEW S, NEW q \in Seq(S), NEW frame
  PROVE  LET r == Append(q, frame)
         IN \A n \in 1..Len(r) : \/ n \in 1..Len(q) /\ r[n] = q[n]
                                 \/ n = Len(q) + 1 /\ r[n] = frame
<1> DEFINE r == Append(q, frame)
<1>1. /\ Len(q) \in Nat /\ Len(r) = Len(q) + 1 /\ r[Len(q) + 1] = frame
      /\ \A n \in 1..Len(q) : r[n] = q[n]
  OBVIOUS
<1> HIDE DEF r
<1>2. \A n \in 1..Len(r) : \/ n \in 1..Len(q) /\ r[n] = q[n]
                           \/ n = Len(q) + 1 /\ r[n] = frame
  <2> SUFFICES ASSUME NEW n \in 1..Len(r), n \notin 1..Len(q)
               PROVE  n = Len(q) + 1 /\ r[n] = frame
    BY <1>1
  <2>1. n = Len(q) + 1
    BY <1>1
  <2> QED BY <1>1, <2>1
<1> QED BY <1>2 DEF r

LEMMA FrameKept ==
  ASSUME NEW q, NEW types
  PROVE  NoMore(q, q, types)
BY DEF NoMore

\* The same for one channel of a family.
LEMMA FamilyFrames ==
  ASSUME NEW S, NEW I, NEW c \in [I -> Seq(S)], NEW e \in I, NEW types
  PROVE  /\ c[e] # <<>> => \A f \in I : NoMore(c[f], [c EXCEPT ![e] = Tail(@)][f], types)
         /\ \A frame : frame.type \notin types =>
              \A f \in I : NoMore(c[f], [c EXCEPT ![e] = Append(@, frame)][f], types)
<1>1. ASSUME c[e] # <<>>, NEW f \in I
      PROVE  NoMore(c[f], [c EXCEPT ![e] = Tail(@)][f], types)
  <2>1. CASE f = e
    <3>1. c[e] \in Seq(S) /\ [c EXCEPT ![e] = Tail(@)][e] = Tail(c[e])
      OBVIOUS
    <3> QED BY <3>1, <2>1, <1>1, FrameReceived
  <2>2. CASE f # e
    BY <2>2, FrameKept
  <2> QED BY <2>1, <2>2
<1>2. ASSUME NEW frame, frame.type \notin types, NEW f \in I
      PROVE  NoMore(c[f], [c EXCEPT ![e] = Append(@, frame)][f], types)
  <2>1. CASE f = e
    <3>1. c[e] \in Seq(S) /\ [c EXCEPT ![e] = Append(@, frame)][e] = Append(c[e], frame)
      OBVIOUS
    <3> QED BY <3>1, <2>1, <1>2, FrameSent
  <2>2. CASE f # e
    BY <2>2, FrameKept
  <2> QED BY <2>1, <2>2
<1> QED BY <1>1, <1>2

-----------------------------------------------------------------------------
\* A step that takes the line nowhere: it gives no order and no answer, sends
\* no line and starts no thread on one.
Quiet ==
  /\ run'.pc = "start" => run' = run
  /\ listen'.pc = "block" => listen.pc = "block"
  /\ running_queue' = running_queue /\ planner_coord' = planner_coord
  /\ \A e \in ESI :
       /\ NoMore(planner_esi[e], planner_esi'[e], Orders)
       /\ NoMore(esi_coord[e], esi_coord'[e], Instruct)
       /\ NoMore(esi_planner[e], esi_planner'[e], EndOfScript)
       /\ Asking(e)' <=> Asking(e)
       /\ Executing(e)' => Executing(e)
  /\ NoMore(coord_planner, coord_planner', DoneLine)
  /\ NoMore(coord_planner, coord_planner', Checks)

LEMMA QuietLine ==
  ASSUME OneLine, Quiet
  PROVE  OneLine'
<1>1. \A e \in ESI, place \in Place : LineAt(e, place)' => LineAt(e, place)
  BY DEF Quiet, LineAt, NoMore
<1>2. InOnePlace'
  BY <1>1 DEF OneLine, InOnePlace
<1>3. OwnProcessor'
  BY <1>1 DEF OneLine, OwnProcessor, Quiet, NoMore
<1>4. SentOnce'
  BY DEF OneLine, SentOnce, Quiet, NoMore
<1>5. OneQuestion'
  BY DEF OneLine, OneQuestion, Quiet, NoMore
<1> QED BY <1>2, <1>3, <1>4, <1>5 DEF OneLine

\* The line goes from one place to another.
LEMMA LineMoves ==
  ASSUME OneLine, NEW e \in ESI, NEW here \in Place, NEW there \in Place, LineAt(e, here),
         running_queue' = running_queue, listen'.pc = "block" => listen.pc = "block",
         \A f \in ESI, place \in Place : LineAt(f, place)' =>
           \/ f = e /\ place = there
           \/ LineAt(f, place) /\ ~(f = e /\ place = here)
  PROVE  InOnePlace' /\ OwnProcessor'
<1>1. \A f \in ESI, place \in Place : LineAt(f, place)' => f = e /\ place = there
  BY DEF OneLine, InOnePlace
<1>2. running_queue' = <<e>> /\ running_queue' # <<>> /\ listen.pc # "block"
  BY DEF OneLine, OwnProcessor
<1> QED BY <1>1, <1>2 DEF InOnePlace, OwnProcessor

-----------------------------------------------------------------------------
\* The steps of the planner that are not about the line under way.
LEMMA ThreadsKept ==
  ASSUME OthersThanPlanner
  PROVE  /\ thread' = thread /\ esi_coord' = esi_coord
         /\ \A e \in ESI : (Asking(e)' <=> Asking(e)) /\ (Executing(e)' <=> Executing(e))
BY DEF OthersThanPlanner, coordinatorVars, Asking, Executing

LEMMA SocketsKept ==
  ASSUME OthersThanPlanner, UNCHANGED <<sockets, running_queue>>,
         run'.pc = "start" => run' = run, listen'.pc = "block" => listen.pc = "block"
  PROVE  Quiet
<1>1. UNCHANGED <<planner_esi, esi_coord, esi_planner, coord_planner, planner_coord>>
  BY ThreadsKept DEF sockets
<1> QED BY <1>1, ThreadsKept, FrameKept DEF Quiet

LEMMA LoopQuiet ==
  ASSUME PlannerTypeOK, OthersThanPlanner,
         \/ \E t \in Releaser : ReleaseNext(t)
         \/ RunPoll \/ RunTake \/ ClearRedo \/ ConsoleNext \/ Segfault
         \/ HandshakeStatus \/ WaitForKey
  PROVE  Quiet
<1>0. "pc" \in DOMAIN run /\ "pc" \in DOMAIN listen
  BY DEF PlannerTypeOK, ThreadsTypeOK
<1>1. CASE \E t \in Releaser : ReleaseNext(t)
  BY <1>1, SocketsKept
     DEF ReleaseNext, FindWaiting, UnlinkWaiting, LocateBlocked, MoveToReady, queues
<1>2. CASE RunPoll \/ RunTake \/ ClearRedo
  <2>1. run'.pc # "start" /\ listen' = listen /\ UNCHANGED <<sockets, running_queue>>
    BY <1>0, <1>2 DEF RunPoll, RunTake, ClearRedo, queues, PlannerTypeOK, ThreadsTypeOK
  <2> QED BY <2>1, SocketsKept
<1>3. CASE ConsoleNext
  <2>1. run' = run /\ listen' = listen /\ UNCHANGED <<sockets, running_queue>>
    BY <1>3 DEF ConsoleNext, pause, resume, block, unblock, quit, EndOfInput, Command, queues
  <2> QED BY <2>1, SocketsKept
<1>4. CASE Segfault
  <2>1. run' = run /\ listen' = listen /\ UNCHANGED <<sockets, running_queue>>
    BY <1>4 DEF Segfault, queues
  <2> QED BY <2>1, SocketsKept
<1>5. CASE HandshakeStatus \/ WaitForKey
  <2>1. run' = run /\ listen'.pc # "block" /\ UNCHANGED <<sockets, running_queue>>
    BY <1>0, <1>5 DEF HandshakeStatus, WaitForKey, Listening, queues, PlannerTypeOK, ThreadsTypeOK
  <2> QED BY <2>1, SocketsKept
<1> QED BY <1>1, <1>2, <1>3, <1>4, <1>5

\* A frame from an ESI, or to one, that is neither an end nor an order.
LEMMA EsiFrameQuiet ==
  ASSUME TypeOK, PlannerInv, OthersThanPlanner, NEW e \in ESI,
         \/ RegisterEsi(e) \/ Undecoded(e) \/ LostSocket(e)
         \/ HandshakeHeader \/ HandshakeName
  PROVE  Quiet
<1>0. /\ "pc" \in DOMAIN run /\ "pc" \in DOMAIN listen
      /\ planner_esi \in [ESI -> Seq(PlannerToEsi)] /\ esi_planner \in [ESI -> Seq(EsiToPlanner)]
  BY DEF TypeOK, ChannelsTypeOK, PlannerTypeOK, ThreadsTypeOK
<1>1. CASE RegisterEsi(e) \/ Undecoded(e) \/ LostSocket(e)
  <2>1. /\ esi_planner[e] # <<>> /\ esi_planner' = [esi_planner EXCEPT ![e] = Tail(@)]
        /\ UNCHANGED <<run, running_queue, planner_esi, coord_planner, planner_coord>>
        /\ listen'.pc = "block" => listen.pc = "block"
    BY <1>0, <1>1 DEF RegisterEsi, Undecoded, LostSocket, FromEsi, Arrives, Receive, plannerVars,
       queues, TypeOK, PlannerTypeOK, ThreadsTypeOK
  <2>2. \A f \in ESI : NoMore(esi_planner[f], esi_planner'[f], EndOfScript)
    BY <2>1, <1>0, FamilyFrames
  <2> QED BY <2>1, <2>2, ThreadsKept, FrameKept DEF Quiet
<1>2. ASSUME NEW f \in ESI, NEW frame, planner_esi' = [planner_esi EXCEPT ![f] = Append(@, frame)],
             frame.type \notin Orders, listen'.pc # "block",
             UNCHANGED <<run, running_queue, esi_planner, coord_planner, planner_coord>>
      PROVE  Quiet
  <2>1. \A g \in ESI : NoMore(planner_esi[g], planner_esi'[g], Orders)
    BY <1>2, <1>0, FamilyFrames
  <2> QED BY <2>1, <1>2, ThreadsKept, FrameKept DEF Quiet
<1>3. ASSUME listen.pc \in Answering PROVE listen.esi \in ESI
  BY <1>3 DEF PlannerInv, LocalsSound
<1>4. CASE HandshakeHeader \/ HandshakeName
  <2>1. listen.esi \in ESI
    BY <1>3, <1>4 DEF HandshakeHeader, HandshakeName, Answering
  <2>2. /\ UNCHANGED <<run, running_queue, esi_planner, coord_planner, planner_coord>>
        /\ listen'.pc # "block"
    <3>1. CASE HandshakeHeader
      BY <1>0, <3>1 DEF HandshakeHeader, queues
    <3>2. CASE HandshakeName
      BY <3>2 DEF HandshakeName, Listening, queues
    <3> QED BY <3>1, <3>2, <1>4
  <2>3. CASE HandshakeHeader
    <3> DEFINE frame == Header("ESI_PLANNER_HANDSHAKE_OK")
    <3>1. planner_esi' = [planner_esi EXCEPT ![listen.esi] = Append(@, frame)]
      BY <2>3 DEF HandshakeHeader, SendTo
    <3>2. frame.type \notin Orders
      BY DEF Header, Orders
    <3> HIDE DEF frame
    <3> QED BY <1>2, <2>1, <2>2, <3>1, <3>2
  <2>4. CASE HandshakeName
    <3> DEFINE frame == WithContent("name bytes", NameOnWire(esi[listen.esi].id))
    <3>1. planner_esi' = [planner_esi EXCEPT ![listen.esi] = Append(@, frame)]
      BY <2>4 DEF HandshakeName, SendTo
    <3>2. frame.type \notin Orders
      BY DEF WithContent, Orders
    <3> HIDE DEF frame
    <3> QED BY <1>2, <2>1, <2>2, <3>1, <3>2
  <2> QED BY <2>3, <2>4, <1>4
<1> QED BY <1>1, <1>4

\* A change of a key is received.
LEMMA StatusQuiet ==
  ASSUME TypeOK, OthersThanPlanner, StatusChanged
  PROVE  Quiet
<1>1. /\ coord_planner \in Seq(CoordinatorFrame) /\ coord_planner # <<>>
      /\ coord_planner' = Tail(coord_planner)
      /\ UNCHANGED <<run, listen, running_queue, planner_esi, esi_planner, planner_coord>>
  BY DEF StatusChanged, FromCoordinator, Arrives, TypeOK, ChannelsTypeOK, queues
<1>2. \A types : NoMore(coord_planner, coord_planner', types)
  BY <1>1, FrameReceived
<1> QED BY <1>1, <1>2, ThreadsKept, FrameKept DEF Quiet

-----------------------------------------------------------------------------
\* The steps of the planner that are about the line under way.
LEMMA QuestionKept ==
  ASSUME OneLine, planner_coord' = planner_coord, NoMore(coord_planner, coord_planner', Checks),
         \A e \in ESI : Asking(e)' <=> Asking(e)
  PROVE  OneQuestion'
BY DEF OneLine, OneQuestion, NoMore

LEMMA PlacesKept ==
  ASSUME OneLine, running_queue' = running_queue, listen'.pc = "block" => listen.pc = "block",
         NoMore(coord_planner, coord_planner', DoneLine),
         \A e \in ESI, place \in Place : LineAt(e, place)' => LineAt(e, place)
  PROVE  InOnePlace' /\ OwnProcessor'
BY DEF OneLine, InOnePlace, OwnProcessor, NoMore

LEMMA OneElement ==
  ASSUME NEW S, NEW q \in Seq(S), q # <<>>, Len(q) <= 1
  PROVE  Head(q) \in S /\ q = <<Head(q)>>
<1>0. Len(q) \in Nat \ {0}
  OBVIOUS
<1>1. Len(q) = 1 /\ q[1] \in S /\ Head(q) = q[1]
  BY <1>0
<1> DEFINE r == <<Head(q)>>
<1>2. r \in Seq(S) /\ Len(r) = 1 /\ r[1] = q[1]
  BY <1>1
<1> HIDE DEF r
<1>3. Len(q) = Len(r) /\ \A i \in 1..Len(q) : q[i] = r[i]
  BY <1>1, <1>2
<1>4. q = r
  BY <1>2, <1>3, SeqEqual
<1> QED BY <1>1, <1>4 DEF r

LEMMA HasProcessor ==
  ASSUME PlannerInv, running_queue # <<>>
  PROVE  Head(running_queue) \in ESI /\ running_queue = <<Head(running_queue)>>
<1>1. running_queue \in Seq(ESI) /\ Len(running_queue) <= 1
  BY DEF PlannerInv, PlannerTypeOK, ListsTypeOK, SingleRunning
<1> QED BY <1>1, OneElement

\* The planner orders the next line.
LEMMA LineOkStep ==
  ASSUME TypeOK, PlannerInv, OneLine, OthersThanPlanner, LineOk
  PROVE  OneLine'
<1> DEFINE e == Head(running_queue)
<1>1. /\ coord_planner \in Seq(CoordinatorFrame) /\ planner_esi \in [ESI -> Seq(PlannerToEsi)]
      /\ coord_planner # <<>> /\ coord_planner' = Tail(coord_planner)
      /\ Head(coord_planner).type \in DoneLine
      /\ UNCHANGED <<run, listen, running_queue, esi_planner, planner_coord>>
      /\ running_queue # <<>>
  BY DEF LineOk, FromCoordinator, Arrives, TypeOK, ChannelsTypeOK, queues, DoneLine
<1> DEFINE frame == Header("PLANNER_ESI_RUN")
<1>2. /\ planner_esi' = [planner_esi EXCEPT ![e] = Append(@, frame)]
      /\ frame.type \in Orders
  BY DEF LineOk, OrderNextLine, SendTo, Header, Orders
<1>3. e \in ESI /\ running_queue = <<e>>
  BY <1>1, HasProcessor
<1> HIDE DEF e, frame
<1>4. /\ Carries(coord_planner, DoneLine) /\ ~Carries(coord_planner', DoneLine)
      /\ Once(coord_planner', DoneLine)
      /\ NoMore(coord_planner, coord_planner', Checks)
  BY <1>1, FrameReceived DEF OneLine, SentOnce, NoMore
<1>5. LineAt(e, "done")
  BY <1>3, <1>4 DEF LineAt
<1>6. \A f \in ESI : f # e => planner_esi'[f] = planner_esi[f]
  BY <1>1, <1>2
<1>7. \A f \in ESI, place \in Place : LineAt(f, place)' =>
           \/ f = e /\ place = "order"
           \/ LineAt(f, place) /\ ~(f = e /\ place = "done")
  BY <1>1, <1>4, <1>6, ThreadsKept DEF LineAt, NoMore
<1>8. InOnePlace' /\ OwnProcessor'
  BY <1>1, <1>3, <1>5, <1>7, LineMoves DEF Place
<1>9. ~Carries(planner_esi[e], Orders)
  BY <1>3, <1>5 DEF OneLine, InOnePlace, LineAt, Place
<1>10. Once(planner_esi'[e], Orders)
  <2>1. planner_esi[e] \in Seq(PlannerToEsi) /\ planner_esi'[e] = Append(planner_esi[e], frame)
    BY <1>1, <1>2, <1>3
  <2> QED BY <2>1, <1>9, FrameSent
<1>11. SentOnce'
  BY <1>1, <1>3, <1>4, <1>6, <1>10, ThreadsKept DEF OneLine, SentOnce, NoMore
<1>12. OneQuestion'
  BY <1>1, <1>4, ThreadsKept, QuestionKept
<1> QED BY <1>8, <1>11, <1>12 DEF OneLine

\* The ESI that has the processor ends, and nobody has it.
LEMMA EsiFinishedStep ==
  ASSUME TypeOK, PlannerInv, OneLine, OthersThanPlanner, NEW e \in ESI, EsiFinished(e)
  PROVE  OneLine'
<1>1. /\ esi_planner \in [ESI -> Seq(EsiToPlanner)] /\ esi_planner[e] # <<>>
      /\ esi_planner' = [esi_planner EXCEPT ![e] = Tail(@)]
      /\ Head(esi_planner[e]).type \in EndOfScript
      /\ UNCHANGED <<run, listen, planner_esi, coord_planner, planner_coord>>
      /\ running_queue' = Tail(running_queue) /\ listen.pc # "block"
  BY DEF EsiFinished, FromEsi, Arrives, Receive, TypeOK, ChannelsTypeOK, EndOfScript, Select,
     ListenerFree
<1>2. \A f \in ESI : NoMore(esi_planner[f], esi_planner'[f], EndOfScript)
  BY <1>1, FamilyFrames
<1>3. Carries(esi_planner[e], EndOfScript) /\ ~Carries(esi_planner'[e], EndOfScript)
  <2>1. esi_planner[e] \in Seq(EsiToPlanner) /\ esi_planner'[e] = Tail(esi_planner[e])
    BY <1>1
  <2> QED BY <2>1, <1>1, FrameReceived DEF OneLine, SentOnce
<1>4. LineAt(e, "ended")
  BY <1>3 DEF LineAt
<1>5. running_queue = <<e>> /\ running_queue' = <<>>
  <2>1. running_queue = <<e>>
    BY <1>4 DEF OneLine, OwnProcessor, Place
  <2> QED BY <2>1, <1>1
<1>6. ~Carries(coord_planner, DoneLine)
  BY <1>4, <1>5 DEF OneLine, InOnePlace, LineAt, Place
<1>7. \A f \in ESI, place \in Place : ~LineAt(f, place)'
  <2> SUFFICES ASSUME NEW f \in ESI, NEW place \in Place, LineAt(f, place)' PROVE FALSE
    OBVIOUS
  <2>1. LineAt(f, place)
    BY <1>1, <1>2, <1>6, ThreadsKept DEF LineAt, NoMore
  <2>2. f = e /\ place = "ended"
    BY <2>1, <1>4 DEF OneLine, InOnePlace, Place
  <2> QED BY <2>2, <1>3 DEF LineAt
<1>8. InOnePlace' /\ OwnProcessor'
  BY <1>1, <1>6, <1>7 DEF InOnePlace, OwnProcessor
<1>9. SentOnce'
  BY <1>1, <1>2, ThreadsKept DEF OneLine, SentOnce, NoMore
<1>10. OneQuestion'
  BY <1>1, FrameKept, ThreadsKept, QuestionKept
<1> QED BY <1>8, <1>9, <1>10 DEF OneLine

\* What the planner answers to a check: nothing else is under way then.
LEMMA AnswerGiven ==
  ASSUME TypeOK, OneLine, OthersThanPlanner, NEW frame,
         coord_planner # <<>>, Head(coord_planner).type \in Checks,
         coord_planner' = Tail(coord_planner), planner_coord' = Append(planner_coord, frame),
         UNCHANGED <<run, running_queue, planner_esi, esi_planner>>
  PROVE  /\ SentOnce' /\ OneQuestion' /\ running_queue # <<>>
         /\ NoMore(coord_planner, coord_planner', DoneLine)
         /\ \A e \in ESI, place \in Place : LineAt(e, place)' => LineAt(e, place)
         /\ frame.type \notin Allowed => \A e \in ESI, place \in Place : ~LineAt(e, place)'
<1>1. /\ coord_planner \in Seq(CoordinatorFrame) /\ planner_coord \in Seq(PlannerAnswer)
  BY DEF TypeOK, ChannelsTypeOK
<1>2. /\ Carries(coord_planner, Checks) /\ ~Carries(coord_planner', Checks)
      /\ NoMore(coord_planner, coord_planner', DoneLine)
      /\ NoMore(coord_planner, coord_planner', Checks)
  BY <1>1, FrameReceived DEF OneLine, SentOnce
<1>3. planner_coord = <<>> /\ Len(planner_coord) <= 1
  BY <1>2 DEF OneLine, OneQuestion
<1>4. PICK e \in ESI : Asking(e)
  BY <1>2 DEF OneLine, OneQuestion
<1>5. LineAt(e, "asked")
  BY <1>2, <1>4 DEF LineAt
<1>6. Len(planner_coord') = 1
  BY <1>1, <1>3
<1>7. SentOnce'
  BY <1>2, ThreadsKept DEF OneLine, SentOnce, NoMore
<1>8. OneQuestion'
  BY <1>2, <1>4, <1>6, ThreadsKept DEF OneLine, OneQuestion
<1>9. \A f \in ESI, place \in Place : LineAt(f, place)' => LineAt(f, place)
  BY <1>2, ThreadsKept DEF LineAt, NoMore
<1>10. running_queue # <<>>
  <2>1. running_queue = <<e>>
    BY <1>5 DEF OneLine, OwnProcessor, Place
  <2> QED BY <2>1
<1>11. ASSUME frame.type \notin Allowed, NEW f \in ESI, NEW place \in Place, LineAt(f, place)'
       PROVE  FALSE
  <2>1. place = "asked"
    BY <1>5, <1>9, <1>11 DEF OneLine, InOnePlace, Place
  <2>2. ~Carries(planner_coord', Allowed)
    <3>1. planner_coord \in Seq(PlannerAnswer) /\ ~Carries(planner_coord, Allowed)
      BY <1>1, <1>3 DEF Carries
    <3> QED BY <3>1, <1>11, FrameSent DEF NoMore
  <2> QED BY <2>1, <2>2, <1>2, <1>11 DEF LineAt
<1> QED BY <1>2, <1>7, <1>8, <1>9, <1>10, <1>11

LEMMA GetAllowedStep ==
  ASSUME TypeOK, OneLine, OthersThanPlanner, GetAllowed \/ CheckOwner
  PROVE  OneLine'
<1>1. /\ coord_planner # <<>> /\ Head(coord_planner).type \in Checks
      /\ coord_planner' = Tail(coord_planner)
      /\ UNCHANGED <<run, listen, running_queue, planner_esi, esi_planner>>
  BY DEF GetAllowed, CheckOwner, FromCoordinator, Arrives, Checks, plannerVars, queues
<1>2. \E frame : planner_coord' = Append(planner_coord, frame)
  BY DEF GetAllowed, CheckOwner
<1> QED BY <1>1, <1>2, AnswerGiven, PlacesKept DEF OneLine

LEMMA GetDeniedStep ==
  ASSUME TypeOK, OneLine, OthersThanPlanner, GetDenied
  PROVE  OneLine'
<1> DEFINE frame == Header("PLANNER_COORDINATOR_OP_FAILED")
<1>1. /\ coord_planner # <<>> /\ Head(coord_planner).type \in Checks
      /\ coord_planner' = Tail(coord_planner) /\ planner_coord' = Append(planner_coord, frame)
      /\ UNCHANGED <<run, running_queue, planner_esi, esi_planner>>
      /\ frame.type \notin Allowed
  BY DEF GetDenied, FromCoordinator, Arrives, Checks, queues, Header, Allowed
<1> HIDE DEF frame
<1>2. /\ SentOnce' /\ OneQuestion' /\ running_queue # <<>>
      /\ \A e \in ESI, place \in Place : ~LineAt(e, place)'
  BY <1>1, AnswerGiven
<1>3. InOnePlace' /\ OwnProcessor'
  BY <1>1, <1>2 DEF InOnePlace, OwnProcessor
<1> QED BY <1>2, <1>3 DEF OneLine

\* The ESI that was refused leaves the processor.
LEMMA ParkStepLine ==
  ASSUME TypeOK, PlannerInv, OneLine, OthersThanPlanner, block_esi
  PROVE  OneLine'
<1>1. /\ listen.pc = "block" /\ listen'.pc = "wait"
      /\ UNCHANGED <<run, planner_esi, esi_planner, planner_coord, coord_planner>>
  BY DEF block_esi, sockets, TypeOK, PlannerTypeOK, ThreadsTypeOK
<1>2. running_queue # <<>> /\ \A e \in ESI, place \in Place : ~LineAt(e, place)
  BY <1>1 DEF OneLine, OwnProcessor
<1>3. ~Carries(coord_planner, DoneLine)
  <2>1. Head(running_queue) \in ESI /\ running_queue = <<Head(running_queue)>>
    BY <1>2, HasProcessor
  <2>2. ~LineAt(Head(running_queue), "done")
    BY <2>1, <1>2 DEF Place
  <2> QED BY <2>1, <2>2 DEF LineAt
<1>4. \A e \in ESI, place \in Place : ~LineAt(e, place)'
  BY <1>1, <1>2, <1>3, ThreadsKept DEF LineAt
<1>5. InOnePlace' /\ OwnProcessor'
  BY <1>1, <1>3, <1>4 DEF InOnePlace, OwnProcessor
<1>6. SentOnce'
  BY <1>1, ThreadsKept DEF OneLine, SentOnce
<1>7. OneQuestion'
  BY <1>1, FrameKept, ThreadsKept, QuestionKept
<1> QED BY <1>5, <1>6, <1>7 DEF OneLine

\* The processor, when it is free, is given to an ESI.
LEMMA PutStepLine ==
  ASSUME TypeOK, PlannerInv, OneLine, OthersThanPlanner, RunPut
  PROVE  OneLine'
<1>1. /\ run.pc = "put" /\ run'.pc = "start" /\ run'.esi = run.esi
      /\ running_queue' = <<run.esi>> \o running_queue
      /\ UNCHANGED <<listen, planner_esi, esi_planner, planner_coord, coord_planner>>
  BY DEF RunPut, sockets, TypeOK, PlannerTypeOK, ThreadsTypeOK
<1>2. running_queue = <<>> /\ run.esi \in ESI
  BY <1>1 DEF PlannerInv, ProcessorFree, LocalsSound
<1>3. running_queue' = <<run.esi>>
  BY <1>1, <1>2
<1>4. /\ \A e \in ESI, place \in Place : ~LineAt(e, place)
      /\ ~Carries(coord_planner, DoneLine) /\ listen.pc # "block"
  BY <1>2 DEF OneLine, OwnProcessor
<1>5. \A e \in ESI, place \in Place : LineAt(e, place)' => e = run.esi /\ place = "start"
  BY <1>1, <1>4, ThreadsKept DEF LineAt
<1>6. InOnePlace' /\ OwnProcessor'
  BY <1>1, <1>3, <1>4, <1>5 DEF InOnePlace, OwnProcessor
<1>7. SentOnce'
  BY <1>1, ThreadsKept DEF OneLine, SentOnce
<1>8. OneQuestion'
  BY <1>1, FrameKept, ThreadsKept, QuestionKept
<1> QED BY <1>6, <1>7, <1>8 DEF OneLine

\* The ESI is given its first order.
LEMMA StartStepLine ==
  ASSUME TypeOK, PlannerInv, OneLine, OthersThanPlanner, RunStart
  PROVE  OneLine'
<1> DEFINE e == run.esi
           frame == Header(IF esi[run.esi].redo_last_operation
                             THEN "PLANNER_ESI_RUN_LAST_OPERATION" ELSE "PLANNER_ESI_RUN")
<1>1. /\ run.pc = "start" /\ run'.pc = "redo"
      /\ UNCHANGED <<listen, running_queue, esi_planner, planner_coord, coord_planner>>
  BY DEF RunStart, queues, TypeOK, PlannerTypeOK, ThreadsTypeOK
<1>2. planner_esi' = [planner_esi EXCEPT ![e] = Append(@, frame)] /\ frame.type \in Orders
  BY DEF RunStart, SendTo, Header, Orders
<1>3. e \in ESI /\ LineAt(e, "start") /\ planner_esi \in [ESI -> Seq(PlannerToEsi)]
  BY <1>1 DEF PlannerInv, LocalsSound, LineAt, TypeOK, ChannelsTypeOK
<1>4. run.esi = e
  OBVIOUS
<1> HIDE DEF e, frame
<1>5. \A f \in ESI : f # e => planner_esi'[f] = planner_esi[f]
  BY <1>2, <1>3
<1>6. \A f \in ESI, place \in Place : LineAt(f, place)' =>
           \/ f = e /\ place = "order"
           \/ LineAt(f, place) /\ ~(f = e /\ place = "start")
  BY <1>1, <1>5, ThreadsKept DEF LineAt
<1>7. InOnePlace' /\ OwnProcessor'
  BY <1>1, <1>3, <1>6, LineMoves DEF Place
<1>8. Once(planner_esi'[e], Orders)
  <2>1. ~Carries(planner_esi[e], Orders)
    BY <1>3 DEF OneLine, InOnePlace, LineAt, Place
  <2>2. planner_esi[e] \in Seq(PlannerToEsi) /\ planner_esi'[e] = Append(planner_esi[e], frame)
    BY <1>2, <1>3
  <2> QED BY <2>1, <2>2, FrameSent
<1>9. SentOnce'
  BY <1>1, <1>5, <1>8, ThreadsKept DEF OneLine, SentOnce
<1>10. OneQuestion'
  BY <1>1, FrameKept, ThreadsKept, QuestionKept
<1> QED BY <1>7, <1>9, <1>10 DEF OneLine

LEMMA PlannerLine ==
  ASSUME TypeOK, PlannerInv, OneLine, OthersThanPlanner, PlannerNext
  PROVE  OneLine'
<1>1. CASE \/ \E t \in Releaser : ReleaseNext(t)
           \/ RunPoll \/ RunTake \/ ClearRedo \/ ConsoleNext \/ Segfault
           \/ HandshakeStatus \/ WaitForKey
  BY <1>1, LoopQuiet, QuietLine DEF TypeOK
<1>2. CASE \E e \in ESI : \/ RegisterEsi(e) \/ Undecoded(e) \/ LostSocket(e)
                          \/ HandshakeHeader \/ HandshakeName
  BY <1>2, EsiFrameQuiet, QuietLine
<1>3. CASE HandshakeHeader \/ HandshakeName
  <2>1. listen.esi \in ESI
    BY <1>3 DEF HandshakeHeader, HandshakeName, PlannerInv, LocalsSound, Answering
  <2> QED BY <2>1, <1>3, EsiFrameQuiet, QuietLine
<1>4. CASE StatusChanged
  BY <1>4, StatusQuiet, QuietLine
<1>5. CASE \E e \in ESI : EsiFinished(e)
  BY <1>5, EsiFinishedStep
<1>6. CASE LineOk
  BY <1>6, LineOkStep
<1>7. CASE GetAllowed \/ CheckOwner
  BY <1>7, GetAllowedStep
<1>8. CASE GetDenied
  BY <1>8, GetDeniedStep
<1>9. CASE block_esi
  BY <1>9, ParkStepLine
<1>10. CASE RunPut
  BY <1>10, PutStepLine
<1>11. CASE RunStart
  BY <1>11, StartStepLine
<1> QED
  BY <1>1, <1>2, <1>3, <1>4, <1>5, <1>6, <1>7, <1>8, <1>9, <1>10, <1>11
     DEF PlannerNext, ListenNext, RunNext

-----------------------------------------------------------------------------
\* The steps of the ESIs.
LEMMA EsiSideKept ==
  ASSUME OthersThanEsi
  PROVE  /\ UNCHANGED <<run, listen, running_queue, thread, planner_coord, coord_planner>>
         /\ \A e \in ESI : (Asking(e)' <=> Asking(e)) /\ (Executing(e)' <=> Executing(e))
BY DEF OthersThanEsi, plannerVars, queues, coordinatorVars, Asking, Executing

LEMMA TwoFrames ==
  ASSUME NEW S, NEW q \in Seq(S), Len(q) > 1
  PROVE  q # <<>> /\ Tail(q) \in Seq(S) /\ Tail(q) # <<>>
<1>1. q # <<>>
  BY EmptySeq
<1>2. Tail(q) \in Seq(S) /\ Len(Tail(q)) = Len(q) - 1 /\ Len(q) \in Nat
  BY <1>1
<1>3. Len(Tail(q)) # 0
  BY <1>2
<1>4. Tail(q) # <<>>
  BY <1>3, EmptySeq
<1> QED BY <1>1, <1>2, <1>4

LEMMA GreetingRead ==
  ASSUME TypeOK, NEW e \in ESI, HandshakeOk(e)
  PROVE  \A f \in ESI : NoMore(planner_esi[f], planner_esi'[f], Orders)
<1>1. /\ planner_esi \in [ESI -> Seq(PlannerToEsi)] /\ Len(planner_esi[e]) > 1
      /\ planner_esi' = [planner_esi EXCEPT ![e] = Tail(Tail(@))]
  BY DEF HandshakeOk, TypeOK, ChannelsTypeOK
<1> DEFINE q == planner_esi[e]
<1>2. q \in Seq(PlannerToEsi) /\ planner_esi'[e] = Tail(Tail(q)) /\ Len(q) > 1
  BY <1>1
<1>3. \A f \in ESI : f # e => planner_esi'[f] = planner_esi[f]
  BY <1>1
<1> HIDE DEF q
<1>4. q # <<>> /\ Tail(q) \in Seq(PlannerToEsi) /\ Tail(q) # <<>>
  BY <1>2, TwoFrames
<1>5. NoMore(q, Tail(q), Orders) /\ NoMore(Tail(q), Tail(Tail(q)), Orders)
  BY <1>2, <1>4, FrameReceived
<1>6. NoMore(planner_esi[e], planner_esi'[e], Orders)
  BY <1>2, <1>5 DEF NoMore, q
<1> QED BY <1>3, <1>6, FrameKept

LEMMA EsiQuiet ==
  ASSUME TypeOK, OthersThanEsi, NEW e \in ESI,
         \/ Connect(e) \/ HandshakeOk(e) \/ UnknownFromPlanner(e) \/ CoordHandshakeOk(e)
         \/ OperationError(e) \/ CoordinatorHungUp(e) \/ Die(e)
  PROVE  Quiet
<1>1. /\ planner_esi \in [ESI -> Seq(PlannerToEsi)] /\ esi_planner \in [ESI -> Seq(EsiToPlanner)]
      /\ esi_coord \in [ESI -> Seq(EsiToCoordinator)]
  BY DEF TypeOK, ChannelsTypeOK
<1>2. \A f \in ESI : NoMore(planner_esi[f], planner_esi'[f], Orders)
  <2>1. CASE HandshakeOk(e)
    BY <2>1, GreetingRead
  <2>2. CASE UnknownFromPlanner(e)
    <3>1. planner_esi[e] # <<>> /\ planner_esi' = [planner_esi EXCEPT ![e] = Tail(@)]
      BY <2>2 DEF UnknownFromPlanner, Arrives, Receive
    <3> QED BY <3>1, <1>1, FamilyFrames
  <2>3. CASE ~HandshakeOk(e) /\ ~UnknownFromPlanner(e)
    <3>1. planner_esi' = planner_esi
      BY <2>3 DEF Connect, CoordHandshakeOk, OperationError, CoordinatorHungUp, Die
    <3> QED BY <3>1, FrameKept
  <2> QED BY <2>1, <2>2, <2>3
<1>3. \A f \in ESI : NoMore(esi_coord[f], esi_coord'[f], Instruct)
  <2>1. CASE Connect(e)
    <3> DEFINE frame == Header("ESI_COORD_HANDSHAKE")
    <3>1. esi_coord' = [esi_coord EXCEPT ![e] = Append(@, frame)] /\ frame.type \notin Instruct
      BY <2>1 DEF Connect, SendTo, Header, Instruct
    <3> HIDE DEF frame
    <3> QED BY <3>1, <1>1, FamilyFrames
  <2>2. CASE OperationError(e)
    <3> DEFINE frame == Finished
    <3>1. esi_coord' = [esi_coord EXCEPT ![e] = Append(@, frame)] /\ frame.type \notin Instruct
      BY <2>2 DEF OperationError, SendTo, Finished, Header, Instruct
    <3> HIDE DEF frame
    <3> QED BY <3>1, <1>1, FamilyFrames
  <2>3. CASE ~Connect(e) /\ ~OperationError(e)
    <3>1. esi_coord' = esi_coord
      BY <2>3 DEF HandshakeOk, UnknownFromPlanner, CoordHandshakeOk, CoordinatorHungUp, Die
    <3> QED BY <3>1, FrameKept
  <2> QED BY <2>1, <2>2, <2>3
<1>4. \A f \in ESI : NoMore(esi_planner[f], esi_planner'[f], EndOfScript)
  <2>1. CASE UnknownFromPlanner(e) \/ Connect(e) \/ CoordinatorHungUp(e) \/ Die(e)
    <3>1. ASSUME NEW frame, frame.type \notin EndOfScript,
                 esi_planner' = [esi_planner EXCEPT ![e] = Append(@, frame)]
          PROVE  \A f \in ESI : NoMore(esi_planner[f], esi_planner'[f], EndOfScript)
      BY <3>1, <1>1, FamilyFrames
    <3>2. Header("UNKNOWN_MSG_TYPE").type \notin EndOfScript
          /\ Header("ESI_PLANNER_HANDSHAKE").type \notin EndOfScript
          /\ EndOf(planner_esi[e]).type \notin EndOfScript
      BY DEF Header, EndOf, EndOfScript
    <3>3. \/ esi_planner' = [esi_planner EXCEPT ![e] = Append(@, Header("UNKNOWN_MSG_TYPE"))]
          \/ esi_planner' = [esi_planner EXCEPT ![e] = Append(@, Header("ESI_PLANNER_HANDSHAKE"))]
          \/ esi_planner' = [esi_planner EXCEPT ![e] = Append(@, EndOf(planner_esi[e]))]
      BY <2>1 DEF UnknownFromPlanner, Connect, CoordinatorHungUp, Die, SendTo
    <3> QED BY <3>1, <3>2, <3>3
  <2>2. CASE HandshakeOk(e) \/ CoordHandshakeOk(e) \/ OperationError(e)
    <3>1. esi_planner' = esi_planner
      BY <2>2 DEF HandshakeOk, CoordHandshakeOk, OperationError
    <3> QED BY <3>1, FrameKept
  <2> QED BY <2>1, <2>2
<1> QED BY <1>2, <1>3, <1>4, EsiSideKept, FrameKept DEF Quiet

\* An order is taken from its channel.
LEMMA OrderTaken ==
  ASSUME TypeOK, OneLine, NEW e \in ESI, Ordered(e)
  PROVE  /\ LineAt(e, "order") /\ ~Carries(planner_esi'[e], Orders)
         /\ \A f \in ESI : NoMore(planner_esi[f], planner_esi'[f], Orders)
<1>1. /\ planner_esi \in [ESI -> Seq(PlannerToEsi)] /\ planner_esi[e] # <<>>
      /\ Head(planner_esi[e]).type \in Orders /\ planner_esi' = [planner_esi EXCEPT ![e] = Tail(@)]
  BY DEF Ordered, Arrives, Receive, TypeOK, ChannelsTypeOK, Orders
<1>2. \A f \in ESI : NoMore(planner_esi[f], planner_esi'[f], Orders)
  BY <1>1, FamilyFrames
<1>3. Carries(planner_esi[e], Orders) /\ ~Carries(planner_esi'[e], Orders)
  <2>1. planner_esi[e] \in Seq(PlannerToEsi) /\ planner_esi'[e] = Tail(planner_esi[e])
    BY <1>1
  <2> QED BY <2>1, <1>1, FrameReceived DEF OneLine, SentOnce
<1> QED BY <1>2, <1>3 DEF LineAt

\* The line is sent to the coordinator.
LEMMA SendLineStep ==
  ASSUME TypeOK, OneLine, OthersThanEsi, NEW e \in ESI, SendLine(e)
  PROVE  OneLine'
<1> DEFINE frame == Instruction(e)
<1>1. /\ LineAt(e, "order") /\ ~Carries(planner_esi'[e], Orders)
      /\ \A f \in ESI : NoMore(planner_esi[f], planner_esi'[f], Orders)
  BY OrderTaken DEF SendLine
<1>2. /\ esi_coord \in [ESI -> Seq(EsiToCoordinator)] /\ esi_planner' = esi_planner
      /\ esi_coord' = [esi_coord EXCEPT ![e] = Append(@, frame)]
  BY DEF SendLine, SendTo, TypeOK, ChannelsTypeOK
<1> HIDE DEF frame
<1>3. \A f \in ESI : f # e => esi_coord'[f] = esi_coord[f]
  BY <1>2
<1>4. \A f \in ESI, place \in Place : LineAt(f, place)' =>
           \/ f = e /\ place = "sent"
           \/ LineAt(f, place) /\ ~(f = e /\ place = "order")
  BY <1>1, <1>2, <1>3, EsiSideKept DEF LineAt, NoMore
<1>5. InOnePlace' /\ OwnProcessor'
  BY <1>1, <1>4, EsiSideKept, LineMoves DEF Place
<1>6. Once(esi_coord'[e], Instruct)
  <2>1. ~Carries(esi_coord[e], Instruct)
    BY <1>1 DEF OneLine, InOnePlace, LineAt, Place
  <2>2. esi_coord[e] \in Seq(EsiToCoordinator) /\ esi_coord'[e] = Append(esi_coord[e], frame)
    BY <1>2
  <2> QED BY <2>1, <2>2, FrameSent
<1>7. SentOnce'
  BY <1>1, <1>2, <1>3, <1>6, EsiSideKept DEF OneLine, SentOnce, NoMore
<1>8. OneQuestion'
  BY FrameKept, EsiSideKept, QuestionKept
<1> QED BY <1>5, <1>7, <1>8 DEF OneLine

\* The ESI ends, or gives up on a line.
LEMMA EndStep ==
  ASSUME TypeOK, OneLine, OthersThanEsi, NEW e \in ESI, AbortOnLine(e) \/ Eof(e)
  PROVE  OneLine'
<1> DEFINE frame == Finished
<1>1. /\ LineAt(e, "order") /\ ~Carries(planner_esi'[e], Orders)
      /\ \A f \in ESI : NoMore(planner_esi[f], planner_esi'[f], Orders)
  BY OrderTaken DEF AbortOnLine, Eof
<1>2. /\ esi_planner \in [ESI -> Seq(EsiToPlanner)] /\ esi_coord \in [ESI -> Seq(EsiToCoordinator)]
      /\ esi_planner' = [esi_planner EXCEPT ![e] = Append(@, frame)]
      /\ esi_coord' = esi_coord \/ esi_coord' = [esi_coord EXCEPT ![e] = Append(@, frame)]
      /\ frame.type \notin Instruct
  BY DEF AbortOnLine, Eof, SendTo, TypeOK, ChannelsTypeOK, Finished, Header, Instruct
<1> HIDE DEF frame
<1>3. /\ \A f \in ESI : f # e => esi_planner'[f] = esi_planner[f]
      /\ \A f \in ESI : NoMore(esi_coord[f], esi_coord'[f], Instruct)
  BY <1>2, FamilyFrames, FrameKept
<1>4. \A f \in ESI, place \in Place : LineAt(f, place)' =>
           \/ f = e /\ place = "ended"
           \/ LineAt(f, place) /\ ~(f = e /\ place = "order")
  BY <1>1, <1>3, EsiSideKept DEF LineAt, NoMore
<1>5. InOnePlace' /\ OwnProcessor'
  BY <1>1, <1>4, EsiSideKept, LineMoves DEF Place
<1>6. Once(esi_planner'[e], EndOfScript)
  <2>1. ~Carries(esi_planner[e], EndOfScript)
    BY <1>1 DEF OneLine, InOnePlace, LineAt, Place
  <2>2. esi_planner[e] \in Seq(EsiToPlanner) /\ esi_planner'[e] = Append(esi_planner[e], frame)
    BY <1>2
  <2> QED BY <2>1, <2>2, FrameSent
<1>7. SentOnce'
  BY <1>1, <1>3, <1>6, EsiSideKept DEF OneLine, SentOnce, NoMore
<1>8. OneQuestion'
  BY FrameKept, EsiSideKept, QuestionKept
<1> QED BY <1>5, <1>7, <1>8 DEF OneLine

LEMMA EsiLine ==
  ASSUME NoNewline = {}, TypeOK, OneLine, OthersThanEsi, EsiNext \/ \E e \in ESI : Connect(e)
  PROVE  OneLine'
<1>1. PICK e \in ESI : \/ Connect(e) \/ CoordinatorHungUp(e) \/ Die(e)
                      \/ FromPlannerNext(e) \/ FromCoordinatorNext(e)
  BY DEF EsiNext
<1>2. ~SendLastLineAndExit(e)
  BY DEF SendLastLineAndExit, FeofAfter
<1> QED BY <1>1, <1>2, EsiQuiet, QuietLine, SendLineStep, EndStep
        DEF FromPlannerNext, FromCoordinatorNext, parser

-----------------------------------------------------------------------------
\* The steps of the coordinator.
LEMMA CoordinatorSideKept ==
  ASSUME OthersThanCoordinator
  PROVE  UNCHANGED <<run, listen, running_queue, planner_esi, esi_planner>>
BY DEF OthersThanCoordinator, plannerVars, queues

\* What becomes of the record of a thread.
LEMMA ThreadPc ==
  ASSUME CoordinatorTypeOK, NEW e \in ESI, NEW pc,
         thread' = [thread EXCEPT ![e].pc = pc]
  PROVE  /\ thread'[e].pc = pc /\ thread'[e].id = thread[e].id /\ thread'[e].inst = thread[e].inst
         /\ \A f \in ESI : f # e => thread'[f] = thread[f]
BY DEF CoordinatorTypeOK, ThreadRecord

LEMMA ThreadFree ==
  ASSUME CoordinatorTypeOK, NEW e \in ESI,
         thread' = [thread EXCEPT ![e] = [NoThread EXCEPT !.pc = "recv"]]
  PROVE  thread'[e].pc = "recv" /\ \A f \in ESI : f # e => thread'[f] = thread[f]
BY DEF CoordinatorTypeOK, NoThread

LEMMA ThreadAsked ==
  ASSUME CoordinatorTypeOK, NEW e \in ESI, NEW id \in InstructionDetail,
         thread' = [thread EXCEPT ![e] = [@ EXCEPT !.pc = "permission", !.id = id]]
  PROVE  thread'[e].pc = "permission" /\ \A f \in ESI : f # e => thread'[f] = thread[f]
<1> DEFINE r == [pc |-> "permission", id |-> id, inst |-> thread[e].inst]
<1>1. thread' = [thread EXCEPT ![e] = r]
  BY ThreadAsks
<1>2. r.pc = "permission"
  OBVIOUS
<1> HIDE DEF r
<1> QED BY <1>1, <1>2 DEF CoordinatorTypeOK

LEMMA ThreadSent ==
  ASSUME CoordinatorTypeOK, NEW e \in ESI, NEW target \in Inst,
         thread' = [thread EXCEPT ![e] = [@ EXCEPT !.pc = "instance", !.inst = target]]
  PROVE  thread'[e].pc = "instance" /\ \A f \in ESI : f # e => thread'[f] = thread[f]
<1> DEFINE r == [pc |-> "instance", id |-> thread[e].id, inst |-> target]
<1>1. thread' = [thread EXCEPT ![e] = r]
  BY ThreadGoes
<1>2. r.pc = "instance"
  OBVIOUS
<1> HIDE DEF r
<1> QED BY <1>1, <1>2 DEF CoordinatorTypeOK

LEMMA ThreadSentTo ==
  ASSUME CoordinatorTypeOK, NEW e \in ESI, NEW target \in Inst,
         thread' = [thread EXCEPT ![e] = [@ EXCEPT !.pc = "instance", !.inst = target]]
  PROVE  thread'[e].id = thread[e].id
<1> DEFINE r == [pc |-> "instance", id |-> thread[e].id, inst |-> target]
<1>1. thread' = [thread EXCEPT ![e] = r]
  BY ThreadGoes
<1>2. r.id = thread[e].id
  OBVIOUS
<1> HIDE DEF r
<1> QED BY <1>1, <1>2 DEF CoordinatorTypeOK

LEMMA CoordinatorQuiet ==
  ASSUME TypeOK, OthersThanCoordinator,
         \/ listening_thread \/ FollowNullInstance \/ BrokenPipe
         \/ \E e \in ESI : \/ ReceiveFinished(e) \/ InstanceSucceeded(e) \/ InstanceFailed(e)
                          \/ InstanceGone(e) \/ NotifyChange(e)
  PROVE  Quiet
<1>1. /\ CoordinatorTypeOK /\ esi_coord \in [ESI -> Seq(EsiToCoordinator)]
      /\ coord_planner \in Seq(CoordinatorFrame)
  BY DEF TypeOK, ChannelsTypeOK
<1>2. ASSUME UNCHANGED <<planner_coord, coord_planner>>,
             \A f \in ESI : NoMore(esi_coord[f], esi_coord'[f], Instruct),
             \A f \in ESI : (Asking(f)' <=> Asking(f)) /\ (Executing(f)' => Executing(f))
      PROVE  Quiet
  BY <1>2, CoordinatorSideKept, FrameKept DEF Quiet
<1>3. CASE \/ \E i \in Inst : AcceptInstance(i)
           \/ SendInitConfig \/ FollowNullInstance \/ BrokenPipe
  <2>1. UNCHANGED <<planner_coord, coord_planner, thread, esi_coord>>
    BY <1>3 DEF AcceptInstance, SendInitConfig, FollowNullInstance, BrokenPipe
  <2> QED BY <2>1, <1>2, FrameKept DEF Asking, Executing
<1>4. ASSUME NEW e \in ESI, AcceptEsi(e) \/ ReceiveFinished(e) PROVE Quiet
  <2>1. /\ UNCHANGED <<planner_coord, coord_planner>> /\ esi_coord[e] # <<>>
        /\ esi_coord' = [esi_coord EXCEPT ![e] = Tail(@)]
        /\ ~Asking(e) /\ ~Executing(e)
    BY <1>4 DEF AcceptEsi, ReceiveFinished, Arrives, Receive, Asking, Executing
  <2>2. PICK pc : thread' = [thread EXCEPT ![e].pc = pc] /\ pc \in {"recv", "done"}
    BY <1>4 DEF AcceptEsi, ReceiveFinished
  <2>3. ~Asking(e)' /\ ~Executing(e)' /\ \A f \in ESI : f # e => thread'[f] = thread[f]
    BY <1>1, <2>2, ThreadPc DEF Asking, Executing
  <2>4. \A f \in ESI : NoMore(esi_coord[f], esi_coord'[f], Instruct)
    BY <1>1, <2>1, FamilyFrames
  <2>5. \A f \in ESI : (Asking(f)' <=> Asking(f)) /\ (Executing(f)' => Executing(f))
    BY <2>1, <2>3 DEF Asking, Executing
  <2> QED BY <2>1, <2>4, <2>5, <1>2
<1>5. ASSUME NEW e \in ESI, Executing(e), ~Asking(e)',
             \A f \in ESI : f # e => thread'[f] = thread[f]
      PROVE  \A f \in ESI : (Asking(f)' <=> Asking(f)) /\ (Executing(f)' => Executing(f))
  BY <1>5 DEF Asking, Executing
<1>6. ASSUME NEW e \in ESI, InstanceSucceeded(e) PROVE Quiet
  <2>1. UNCHANGED <<planner_coord, coord_planner, esi_coord>> /\ Executing(e)
    BY <1>6 DEF InstanceSucceeded, Executing
  <2>2. PICK pc : thread' = [thread EXCEPT ![e].pc = pc] /\ pc \in {"change", "line_ok"}
    BY <1>6 DEF InstanceSucceeded
  <2>3. ~Asking(e)' /\ \A f \in ESI : f # e => thread'[f] = thread[f]
    BY <1>1, <2>2, ThreadPc DEF Asking
  <2> QED BY <2>1, <2>3, <1>2, <1>5, FrameKept
<1>7. ASSUME NEW e \in ESI, InstanceFailed(e) \/ InstanceGone(e) PROVE Quiet
  <2>1. /\ UNCHANGED <<planner_coord, coord_planner, esi_coord>> /\ Executing(e)
        /\ thread' = [thread EXCEPT ![e] = [NoThread EXCEPT !.pc = "recv"]]
    BY <1>7 DEF InstanceFailed, InstanceGone, OperationFailed, Executing
  <2>2. ~Asking(e)' /\ \A f \in ESI : f # e => thread'[f] = thread[f]
    BY <1>1, <2>1, ThreadFree DEF Asking
  <2> QED BY <2>1, <2>2, <1>2, <1>5, FrameKept
<1>8. ASSUME NEW e \in ESI, NotifyChange(e) PROVE Quiet
  <2> DEFINE id == thread[e].id
             frame == WithContent("RESOURCE_STATUS_CHANGE_TO_PLANNER",
                        [ESIName |-> id.ESIName, key |-> id.key,
                         status |-> IF id.operation = "STORE_OP" THEN "RELEASED" ELSE "BLOCKED"])
  <2>1. /\ coord_planner' = Append(coord_planner, frame)
        /\ UNCHANGED <<planner_coord, esi_coord>> /\ Executing(e)
        /\ thread' = [thread EXCEPT ![e].pc = "line_ok"]
    BY <1>8 DEF NotifyChange, Executing
  <2>2. frame.type \notin DoneLine /\ frame.type \notin Checks
    BY DEF WithContent, DoneLine, Checks
  <2> HIDE DEF frame
  <2>3. /\ NoMore(coord_planner, coord_planner', DoneLine)
        /\ NoMore(coord_planner, coord_planner', Checks)
    BY <1>1, <2>1, <2>2, FrameSent
  <2>4. ~Asking(e)' /\ \A f \in ESI : f # e => thread'[f] = thread[f]
    <3>1. thread' = [thread EXCEPT ![e].pc = "line_ok"]
      BY <2>1
    <3>2. thread'[e].pc = "line_ok" /\ \A f \in ESI : f # e => thread'[f] = thread[f]
      BY <1>1, <3>1, ThreadPc
    <3> QED BY <3>2 DEF Asking
  <2>5. \A f \in ESI : NoMore(esi_coord[f], esi_coord'[f], Instruct)
    BY <2>1, FrameKept
  <2>6. \A f \in ESI : (Asking(f)' <=> Asking(f)) /\ (Executing(f)' => Executing(f))
    BY <2>1, <2>4, <1>5
  <2> QED BY <2>1, <2>3, <2>5, <2>6, CoordinatorSideKept, FrameKept DEF Quiet
<1> QED BY <1>3, <1>4, <1>6, <1>7, <1>8 DEF listening_thread

\* A thread asks the planner.
LEMMA AskStep ==
  ASSUME TypeOK, OneLine, OthersThanCoordinator, "answers" \notin Windows,
         NEW e \in ESI, ReceiveInstruction(e)
  PROVE  OneLine'
<1>1. /\ esi_coord \in [ESI -> Seq(EsiToCoordinator)] /\ esi_coord[e] # <<>>
      /\ Head(esi_coord[e]).type \in Instruct /\ esi_coord' = [esi_coord EXCEPT ![e] = Tail(@)]
      /\ coord_planner \in Seq(CoordinatorFrame) /\ planner_coord' = planner_coord
      /\ \A f \in ESI : ~Asking(f)
  BY DEF ReceiveInstruction, Arrives, Receive, TypeOK, ChannelsTypeOK, Instruct, Asking
<1> DEFINE received == Head(esi_coord[e]).content
<1>2. PICK id : id = [received EXCEPT !.ESIName = NameKept(received)]
  OBVIOUS
<1> DEFINE frame == WithContent(CheckFor(id.operation), [ESIName |-> id.ESIName, key |-> id.key])
<1>3. /\ thread' = [thread EXCEPT ![e] = [@ EXCEPT !.pc = "permission", !.id = id]]
      /\ coord_planner' = Append(coord_planner, frame)
  BY <1>2 DEF ReceiveInstruction
<1>4. id \in InstructionDetail
  <2>1. Head(esi_coord[e]) \in EsiToCoordinator
    BY <1>1
  <2>2. Head(esi_coord[e]).content \in InstructionDetail
    BY <2>1, <1>1 DEF EsiToCoordinator, Instruct
  <2> QED BY <2>2, <1>2, KeptTypes
<1>5. frame.type \in Checks /\ frame.type \notin DoneLine
  BY <1>4 DEF WithContent, CheckFor, Checks, DoneLine, InstructionDetail, Operation
<1> HIDE DEF frame
<1>6. /\ thread'[e].pc = "permission" /\ \A f \in ESI : f # e => thread'[f] = thread[f]
  BY <1>3, <1>4, ThreadAsked DEF TypeOK
<1>7. planner_coord = <<>> /\ ~Carries(coord_planner, Checks)
  BY <1>1 DEF OneLine, OneQuestion
<1>8. /\ Carries(coord_planner', Checks) /\ Once(coord_planner', Checks)
      /\ NoMore(coord_planner, coord_planner', DoneLine)
  BY <1>1, <1>3, <1>5, <1>7, FrameSent
<1>9. /\ \A f \in ESI : NoMore(esi_coord[f], esi_coord'[f], Instruct)
      /\ LineAt(e, "sent") /\ ~Carries(esi_coord'[e], Instruct)
  <2>1. \A f \in ESI : NoMore(esi_coord[f], esi_coord'[f], Instruct)
    BY <1>1, FamilyFrames
  <2>2. esi_coord[e] \in Seq(EsiToCoordinator) /\ esi_coord'[e] = Tail(esi_coord[e])
    BY <1>1
  <2>3. Carries(esi_coord[e], Instruct) /\ ~Carries(esi_coord'[e], Instruct)
    BY <2>2, <1>1, FrameReceived DEF OneLine, SentOnce
  <2> QED BY <2>1, <2>3 DEF LineAt
<1>10. \A f \in ESI : /\ Asking(f)' <=> f = e
                      /\ Executing(f)' => Executing(f)
  BY <1>1, <1>6 DEF Asking, Executing
<1>11. \A f \in ESI, place \in Place : LineAt(f, place)' =>
           \/ f = e /\ place = "asked"
           \/ LineAt(f, place) /\ ~(f = e /\ place = "sent")
  BY <1>8, <1>9, <1>10, CoordinatorSideKept DEF LineAt, NoMore
<1>12. InOnePlace' /\ OwnProcessor'
  BY <1>9, <1>11, CoordinatorSideKept, LineMoves DEF Place
<1>13. SentOnce'
  BY <1>8, <1>9, CoordinatorSideKept DEF OneLine, SentOnce, NoMore
<1>14. OneQuestion'
  BY <1>1, <1>7, <1>10 DEF OneLine, OneQuestion
<1> QED BY <1>12, <1>13, <1>14 DEF OneLine

LEMMA LastTail ==
  ASSUME NEW S, NEW q \in Seq(S), q # <<>>, Len(q) <= 1
  PROVE  Tail(q) = <<>> /\ Len(<<>>) = 0
<1>1. Len(q) = 1
  <2>1. Len(q) \in Nat \ {0}
    OBVIOUS
  <2> QED BY <2>1
<1>2. Tail(q) \in Seq(S) /\ Len(Tail(q)) = 0
  BY <1>1
<1> QED BY <1>2

\* The answer is read: there is no other, and nobody else reads it.
LEMMA AnswerRead ==
  ASSUME TypeOK, OneLine, NEW e \in ESI, Asking(e), planner_coord # <<>>,
         planner_coord' = Tail(planner_coord), coord_planner' = coord_planner, ~Asking(e)',
         \A f \in ESI : f # e => thread'[f] = thread[f]
  PROVE  /\ OneQuestion' /\ ~Carries(coord_planner, Checks)
         /\ ~Carries(planner_coord', Allowed) /\ \A f \in ESI : ~Asking(f)'
<1>1. planner_coord \in Seq(PlannerAnswer) /\ Len(planner_coord) <= 1
  BY DEF TypeOK, ChannelsTypeOK, OneLine, OneQuestion
<1>2. Tail(planner_coord) = <<>> /\ Len(<<>>) = 0
  BY <1>1, LastTail
<1>3. planner_coord' = <<>>
  BY <1>2
<1>4. Len(planner_coord') = 0
  BY <1>2, <1>3
<1>5. \A f \in ESI : ~Asking(f)'
  BY DEF OneLine, OneQuestion, Asking
<1>6. ~Carries(coord_planner, Checks)
  BY DEF OneLine, OneQuestion
<1>7. ~Carries(planner_coord', Allowed)
  <2>1. 1..0 = {}
    OBVIOUS
  <2> QED BY <2>1, <1>4 DEF Carries
<1>8. OneQuestion'
  BY <1>3, <1>4, <1>5, <1>6 DEF OneQuestion
<1> QED BY <1>5, <1>6, <1>7, <1>8

LEMMA OpFailedStep ==
  ASSUME TypeOK, OneLine, OthersThanCoordinator, NEW e \in ESI, OpFailed(e)
  PROVE  OneLine'
<1>1. /\ Asking(e) /\ planner_coord # <<>> /\ planner_coord' = Tail(planner_coord)
      /\ UNCHANGED <<coord_planner, esi_coord>>
      /\ thread' = [thread EXCEPT ![e] = [NoThread EXCEPT !.pc = "recv"]]
  BY DEF OpFailed, Arrives, Asking
<1>2. ~Asking(e)' /\ ~Executing(e)' /\ \A f \in ESI : f # e => thread'[f] = thread[f]
  BY <1>1, ThreadFree DEF Asking, Executing, TypeOK
<1>3. OneQuestion' /\ \A f \in ESI : ~Asking(f)'
  BY <1>1, <1>2, AnswerRead
<1>4. \A f \in ESI, place \in Place : LineAt(f, place)' => LineAt(f, place)
  BY <1>1, <1>2, <1>3, CoordinatorSideKept DEF LineAt, Executing
<1>5. InOnePlace' /\ OwnProcessor'
  BY <1>1, <1>4, CoordinatorSideKept, FrameKept, PlacesKept
<1>6. SentOnce'
  BY <1>1, CoordinatorSideKept DEF OneLine, SentOnce
<1> QED BY <1>3, <1>5, <1>6 DEF OneLine

LEMMA OpOkStep ==
  ASSUME TypeOK, OneLine, OthersThanCoordinator, NEW e \in ESI, OpOk(e), NEW target \in Inst,
         thread' = [thread EXCEPT ![e] = [@ EXCEPT !.pc = "instance", !.inst = target]]
  PROVE  OneLine'
<1>1. /\ Asking(e) /\ planner_coord # <<>> /\ planner_coord' = Tail(planner_coord)
      /\ Head(planner_coord).type \in Allowed /\ UNCHANGED <<coord_planner, esi_coord>>
  BY DEF OpOk, Arrives, Asking, Allowed
<1>2. ~Asking(e)' /\ \A f \in ESI : f # e => thread'[f] = thread[f]
  BY ThreadSent DEF Asking, TypeOK
<1>3. OneQuestion' /\ \A f \in ESI : ~Asking(f)'
  BY <1>1, <1>2, AnswerRead
<1>4. LineAt(e, "asked")
  <2>1. planner_coord \in Seq(PlannerAnswer)
    BY DEF TypeOK, ChannelsTypeOK
  <2>2. Carries(planner_coord, Allowed)
    BY <2>1, <1>1, FrameReceived
  <2> QED BY <2>2, <1>1 DEF LineAt
<1>5. \A f \in ESI, place \in Place : LineAt(f, place)' =>
           \/ f = e /\ place = "executing"
           \/ LineAt(f, place) /\ ~(f = e /\ place = "asked")
  BY <1>1, <1>2, <1>3, CoordinatorSideKept DEF LineAt, Executing
<1>6. InOnePlace' /\ OwnProcessor'
  BY <1>4, <1>5, CoordinatorSideKept, LineMoves DEF Place
<1>7. SentOnce'
  BY <1>1, CoordinatorSideKept DEF OneLine, SentOnce
<1> QED BY <1>3, <1>6, <1>7 DEF OneLine

\* The line is reported as done.
LEMMA DoneStep ==
  ASSUME TypeOK, OneLine, OthersThanCoordinator, NEW e \in ESI, NotifyLineOk(e)
  PROVE  OneLine'
<1> DEFINE frame == Header("ESI_EXECUTION_LINE_OK")
<1>1. /\ LineAt(e, "executing") /\ ~Asking(e) /\ coord_planner' = Append(coord_planner, frame)
      /\ UNCHANGED <<planner_coord, esi_coord>>
      /\ thread' = [thread EXCEPT ![e] = [NoThread EXCEPT !.pc = "recv"]]
      /\ frame.type \in DoneLine /\ frame.type \notin Checks
  BY DEF NotifyLineOk, LineAt, Executing, Asking, Header, DoneLine, Checks
<1> HIDE DEF frame
<1>2. ~Asking(e)' /\ ~Executing(e)' /\ \A f \in ESI : f # e => thread'[f] = thread[f]
  BY <1>1, ThreadFree DEF Asking, Executing, TypeOK
<1>3. /\ NoMore(coord_planner, coord_planner', Checks)
      /\ ~Carries(coord_planner, DoneLine) => Once(coord_planner', DoneLine)
  BY <1>1, FrameSent DEF TypeOK, ChannelsTypeOK
<1>4. running_queue = <<e>>
  BY <1>1 DEF OneLine, OwnProcessor, Place
<1>5. ~Carries(coord_planner, DoneLine)
  BY <1>1, <1>4 DEF OneLine, InOnePlace, LineAt, Place
<1>6. \A f \in ESI : (Asking(f)' <=> Asking(f)) /\ (Executing(f)' => Executing(f) /\ f # e)
  BY <1>1, <1>2 DEF Asking, Executing
<1>7. ASSUME NEW f \in ESI, running_queue = <<f>> PROVE f = e
  BY <1>7, <1>4
<1>8. \A f \in ESI, place \in Place : LineAt(f, place)' =>
           \/ f = e /\ place = "done"
           \/ LineAt(f, place) /\ ~(f = e /\ place = "executing")
  BY <1>1, <1>3, <1>6, <1>7, CoordinatorSideKept DEF LineAt, NoMore
<1>9. InOnePlace' /\ OwnProcessor'
  BY <1>1, <1>8, CoordinatorSideKept, LineMoves DEF Place
<1>10. SentOnce'
  BY <1>1, <1>3, <1>5, CoordinatorSideKept DEF OneLine, SentOnce, NoMore
<1>11. OneQuestion'
  BY <1>1, <1>3, <1>6, QuestionKept
<1> QED BY <1>9, <1>10, <1>11 DEF OneLine

\* The Instance that a permitted line goes to is one of the list.
LEMMA OpOkTarget ==
  ASSUME TypeOK, NEW e \in ESI, OpOk(e)
  PROVE  \E target \in Inst :
           /\ thread' = [thread EXCEPT ![e] = [@ EXCEPT !.pc = "instance", !.inst = target]]
           /\ \E sent \in Forwarded(thread[e].id) :
                SendTo(coord_instance, target, WithContent("INSTRUCTION_DETAIL_TO_INSTANCE", sent))
<1> DEFINE target == instances[get_instance_index_to_use + 1].inst
<1>1. /\ thread' = [thread EXCEPT ![e] = [@ EXCEPT !.pc = "instance", !.inst = target]]
      /\ \E sent \in Forwarded(thread[e].id) :
           SendTo(coord_instance, target, WithContent("INSTRUCTION_DETAIL_TO_INSTANCE", sent))
      /\ get_instance_index_to_use # -1
  BY DEF OpOk
<1>2. target \in Inst
  <2>1. CoordinatorTypeOK
    BY DEF TypeOK
  <2>2. get_instance_index_to_use + 1 \in 1..Len(instances)
    BY <2>1, <1>1, IndexRange DEF CoordinatorTypeOK
  <2>3. instances \in Seq([inst : Inst, status : {"AVAILABLE"}])
    BY <2>1 DEF CoordinatorTypeOK
  <2>4. instances[get_instance_index_to_use + 1] \in [inst : Inst, status : {"AVAILABLE"}]
    BY <2>2, <2>3, ElementOfSeq
  <2> QED BY <2>4
<1> HIDE DEF target
<1> QED BY <1>1, <1>2

LEMMA CoordinatorLine ==
  ASSUME TypeOK, OneLine, OthersThanCoordinator, "answers" \notin Windows, CoordinatorNext
  PROVE  OneLine'
<1>1. CASE \/ listening_thread \/ FollowNullInstance \/ BrokenPipe
           \/ \E e \in ESI : \/ ReceiveFinished(e) \/ InstanceSucceeded(e) \/ InstanceFailed(e)
                            \/ InstanceGone(e) \/ NotifyChange(e)
  BY <1>1, CoordinatorQuiet, QuietLine
<1>2. ASSUME NEW e \in ESI, OpOk(e) PROVE OneLine'
  BY <1>2, OpOkTarget, OpOkStep
<1>3. ASSUME NEW e \in ESI, ReceiveInstruction(e) \/ OpFailed(e) \/ NotifyLineOk(e)
      PROVE  OneLine'
  BY <1>3, AskStep, OpFailedStep, DoneStep
<1> QED BY <1>1, <1>2, <1>3 DEF CoordinatorNext, thread_listen_esi

-----------------------------------------------------------------------------
\* What an Instance does moves no line, nor does a step that changes nothing.
LEMMA StutterLine ==
  ASSUME OneLine, (InstanceNext /\ OthersThanInstance) \/ UNCHANGED vars
  PROVE  OneLine'
<1>1. UNCHANGED <<run, listen, running_queue, thread, planner_esi, esi_planner, esi_coord,
                  planner_coord, coord_planner>>
  BY DEF OthersThanInstance, vars, plannerVars, queues, coordinatorVars, channels
<1>2. Quiet
  BY <1>1, FrameKept DEF Quiet, Asking, Executing
<1> QED BY <1>2, QuietLine

LEMMA LineStep ==
  ASSUME "answers" \notin Windows, NoNewline = {}, TypeOK, PlannerInv, OneLine, [Next]_vars
  PROVE  OneLine'
<1>1. CASE PlannerNext /\ OthersThanPlanner
  BY <1>1, PlannerLine
<1>2. CASE (EsiNext \/ \E e \in ESI : Connect(e)) /\ OthersThanEsi
  BY <1>2, EsiLine
<1>3. CASE CoordinatorNext /\ OthersThanCoordinator
  BY <1>3, CoordinatorLine
<1>4. CASE (InstanceNext /\ OthersThanInstance) \/ UNCHANGED vars
  BY <1>4, StutterLine
<1> QED BY <1>1, <1>2, <1>3, <1>4 DEF Next, Step, Terminated

LEMMA InitLine == Init => OneLine
<1> SUFFICES ASSUME Init PROVE OneLine
  OBVIOUS
<1>1. /\ running_queue = <<>> /\ run.pc # "start" /\ listen.pc # "block"
      /\ coord_planner = <<>> /\ planner_coord = <<>>
      /\ \A e \in ESI : thread[e].pc = "off"
      /\ \A e \in ESI : planner_esi[e] = <<>> /\ esi_planner[e] = <<>> /\ esi_coord[e] = <<>>
  BY DEF Init, PlannerInit, CoordinatorInit, ChannelsInit, NoThread, Listening
<1>2. \A types : ~Carries(<<>>, types) /\ Once(<<>>, types)
  <2>1. Len(<<>>) = 0 /\ 1..0 = {}
    OBVIOUS
  <2> QED BY <2>1 DEF Carries, Once
<1>3. \A e \in ESI : ~Asking(e) /\ ~Executing(e)
  BY <1>1 DEF Asking, Executing
<1>4. \A e \in ESI, place \in Place : ~LineAt(e, place)
  BY <1>1, <1>2, <1>3 DEF LineAt
<1>5. Len(planner_coord) = 0
  BY <1>1
<1> QED BY <1>1, <1>2, <1>3, <1>4, <1>5
        DEF OneLine, InOnePlace, OwnProcessor, SentOnce, OneQuestion

\* While no thread asks the planner with an answer of it unread and every
\* script ends in a newline, the processor has one line at a time, in one
\* place: two threads of the coordinator never execute, or ask, together
\* (coordinator launcher.c:150-255, planner launcher.c:97-131).
THEOREM OneLineHolds ==
  ASSUME "answers" \notin Windows, NoNewline = {}
  PROVE  Spec => []OneLine
<1>1. Spec => []PlannerInv
  BY SystemRunsPlanner, PlannerInvHolds, PTL
<1>2. TypeOK /\ PlannerInv /\ OneLine /\ [Next]_vars => OneLine'
  BY LineStep
<1> QED
  BY <1>1, <1>2, InitLine, SystemTypeOK, PTL DEF Spec

\* Then no two threads are at the socket of an Instance, or on the way to it,
\* at a time (coordinator launcher.c:224-236): the answer a thread reads is to
\* what it sent.
THEOREM SocketsAreUnshared ==
  ASSUME "answers" \notin Windows, NoNewline = {}
  PROVE  Spec => []SocketsUnshared
<1>1. ASSUME OneLine, TypeOK PROVE SocketsUnshared
  <2>1. ASSUME NEW e \in ESI, Sends(e) PROVE LineAt(e, "executing") \/ LineAt(e, "sent")
    <3>1. CASE Executing(e)
      BY <3>1 DEF LineAt
    <3>2. CASE Arrives(esi_coord[e], "INSTRUCTION_DETAIL_TO_COODRINATOR")
      <4>1. /\ esi_coord[e] \in Seq(EsiToCoordinator) /\ esi_coord[e] # <<>>
            /\ Head(esi_coord[e]).type \in Instruct
        BY <1>1, <3>2 DEF Arrives, TypeOK, ChannelsTypeOK, Instruct
      <4>2. Carries(esi_coord[e], Instruct)
        BY <4>1, FrameReceived
      <4> QED BY <4>2 DEF LineAt
    <3> QED BY <2>1, <3>1, <3>2 DEF Sends, Executing
  <2> QED BY <1>1, <2>1 DEF SocketsUnshared, OneLine, InOnePlace, Place
<1> QED
  BY <1>1, OneLineHolds, SystemTypeOK, PTL
=============================================================================
