---------------------------- MODULE LockProofs -----------------------------
(***************************************************************************)
(* No wakeup is lost between the planner's refusal of a GET and the node   *)
(* that records who waits, provided that no release from the console       *)
(* overlaps a handler of the listening thread ("console" not in Windows).  *)
(*                                                                         *)
(* The inductive invariant is WakeupInv.  DenierHolds carries the check    *)
(* over the steps between the refusal and the node: the key is released by *)
(* the listening thread itself, busy with the refusal, or by the console,  *)
(* which waits (OneAtATime).                                               *)
(***************************************************************************)
EXTENDS PlannerProofs

\* A thread in the release loop keeps its key until nobody waits for it.
LEMMA ReleaseNextKeys ==
  ASSUME ListsTypeOK, ThreadsTypeOK, NEW t \in Releaser, ReleaseNext(t)
  PROVE  /\ \A k \in Key : HasNode(taken_keys', k, "WAITING") => HasNode(taken_keys, k, "WAITING")
         /\ \A k \in Key : HasNode(taken_keys, k, "BLOCKED") => HasNode(taken_keys', k, "BLOCKED")
         /\ \/ release'[t].pc # "idle" /\ release'[t].key = release[t].key
            \/ ~HasNode(taken_keys, release[t].key, "WAITING")
<1>0. release[t] \in ReleaseRecord
  BY DEF ThreadsTypeOK
<1>1. CASE FindWaiting(t)
  <2> DEFINE n == Search(taken_keys, release[t].key, "WAITING")
  <2>1. HasNode(taken_keys, release[t].key, "WAITING") => n # 0
    BY SearchProperties DEF ListsTypeOK
  <2>2. n # 0 => release'[t] = [release[t] EXCEPT !.pc = "unlink", !.name = taken_keys[n].ESIName]
    BY <1>1 DEF FindWaiting, ThreadsTypeOK
  <2>3. UNCHANGED taken_keys
    BY <1>1 DEF FindWaiting
  <2> HIDE DEF n
  <2>4. n # 0 => release'[t].pc = "unlink" /\ release'[t].key = release[t].key
    BY <1>0, <2>2 DEF ReleaseRecord
  <2> QED
    BY <2>1, <2>3, <2>4
<1>2. CASE UnlinkWaiting(t)
  <2>1. taken_keys' = Unlink(taken_keys, release[t].key, "WAITING")
    BY <1>2 DEF UnlinkWaiting
  <2>2. release'[t].pc = "locate" /\ release'[t].key = release[t].key
    BY <1>0, <1>2 DEF UnlinkWaiting, ThreadsTypeOK, ReleaseRecord
  <2> QED
    BY <2>1, <2>2, UnlinkNodes DEF ListsTypeOK
<1>3. CASE LocateBlocked(t) \/ MoveToReady(t)
  <2>1. UNCHANGED taken_keys
    BY <1>3 DEF LocateBlocked, MoveToReady
  <2>2. release'[t].pc # "idle" /\ release'[t].key = release[t].key
    <3>1. CASE LocateBlocked(t)
      BY <1>0, <3>1 DEF LocateBlocked, ThreadsTypeOK, ReleaseRecord
    <3>2. CASE MoveToReady(t)
      BY <3>2 DEF MoveToReady, NextWaiting, NoRelease, ThreadsTypeOK
    <3> QED
      BY <1>3, <3>1, <3>2
  <2> QED
    BY <2>1, <2>2
<1> QED
  BY <1>1, <1>2, <1>3 DEF ReleaseNext

\* A step that changes neither the nodes nor the releases.
LEMMA WakeupKept ==
  ASSUME NoLostWakeup, UNCHANGED <<taken_keys, release>> PROVE NoLostWakeup'
  BY DEF NoLostWakeup, Releasing

\* A new holder, or a new waiter for a key that has a holder.
LEMMA WakeupAppend ==
  ASSUME ListsTypeOK, NoLostWakeup, UNCHANGED release, NEW node \in KeyNode,
         taken_keys' = Append(taken_keys, node),
         node.status = "WAITING" => HasNode(taken_keys, node.key, "BLOCKED")
  PROVE  NoLostWakeup'
<1>1. \A k \in Key : \A st \in {"BLOCKED", "WAITING"} :
        HasNode(taken_keys', k, st) <=>
          HasNode(taken_keys, k, st) \/ (node.key = k /\ node.status = st)
  BY AppendNode DEF ListsTypeOK
<1> QED
  BY <1>1 DEF NoLostWakeup, Releasing

\* A thread that unlinks a holder looks for those who wait for its key.
LEMMA WakeupStart ==
  ASSUME ListsTypeOK, ThreadsTypeOK, NoLostWakeup, NEW t \in Releaser, NEW key \in Key,
         StartRelease(t, key), \A u \in Releaser : release[u].pc = "idle"
  PROVE  NoLostWakeup'
<1>1. release'[t].pc = "find" /\ release'[t].key = key
  BY StartReleaseType DEF StartRelease
<1>2. taken_keys' = Unlink(taken_keys, key, "BLOCKED")
  BY DEF StartRelease
<1>3. ASSUME NEW k \in Key, HasNode(taken_keys', k, "WAITING")
      PROVE  HasNode(taken_keys', k, "BLOCKED") \/ (\E u \in Releaser : release'[u].pc # "idle" /\ release'[u].key = k)
  <2>1. HasNode(taken_keys, k, "WAITING")
    BY <1>2, <1>3, UnlinkNodes DEF ListsTypeOK
  <2>2. HasNode(taken_keys, k, "BLOCKED")
    BY <2>1 DEF NoLostWakeup, Releasing
  <2>3. CASE k = key
    BY <2>3, <1>1
  <2>4. CASE k # key
    BY <2>2, <2>4, <1>2, UnlinkNodes DEF ListsTypeOK
  <2> QED
    BY <2>3, <2>4
<1> QED
  BY <1>3 DEF NoLostWakeup, Releasing

-----------------------------------------------------------------------------
\* The listening thread: the refusal holds until the node joins the list.
LEMMA ListenWakeup ==
  ASSUME "console" \notin Windows, PlannerInv, OneAtATime, DenierHolds, NoLostWakeup, ListenNext
  PROVE  DenierHolds' /\ NoLostWakeup'
<1> USE DEF PlannerInv, PlannerTypeOK
<1>0. "listen" \in Releaser /\ "console" \in Releaser
  BY DEF Releaser
<1>1. ASSUME \/ \E e \in ESI : RegisterEsi(e) \/ EsiFinished(e) \/ Undecoded(e) \/ LostSocket(e)
             \/ HandshakeStatus \/ HandshakeHeader \/ HandshakeName
             \/ LineOk \/ GetAllowed \/ CheckOwner
      PROVE  DenierHolds' /\ NoLostWakeup'
  <2>1. UNCHANGED <<taken_keys, release>>
    BY <1>1 DEF RegisterEsi, EsiFinished, Undecoded, LostSocket, HandshakeStatus, HandshakeHeader,
                HandshakeName, LineOk, GetAllowed, CheckOwner, plannerVars
  <2>2. listen'.pc \notin {"block", "wait"}
    <3>1. ASSUME NEW e \in ESI, RegisterEsi(e) PROVE listen'.pc \notin {"block", "wait"}
      <4>1. listen' = [listen EXCEPT !.pc = "hs_status", !.esi = e]
        BY <3>1 DEF RegisterEsi
      <4> QED
        BY <4>1 DEF ThreadsTypeOK
    <3>2. ASSUME HandshakeStatus \/ HandshakeHeader \/ HandshakeName
          PROVE  listen'.pc \notin {"block", "wait"}
      <4>1. \/ listen' = [listen EXCEPT !.pc = "hs_header"]
            \/ listen' = [listen EXCEPT !.pc = "hs_name"]
            \/ listen' = Listening
        BY <3>2 DEF HandshakeStatus, HandshakeHeader, HandshakeName
      <4> QED
        BY <4>1 DEF ThreadsTypeOK, Listening
    <3>3. ASSUME \/ \E e \in ESI : EsiFinished(e) \/ Undecoded(e) \/ LostSocket(e)
                 \/ LineOk \/ GetAllowed \/ CheckOwner
          PROVE  listen'.pc \notin {"block", "wait"}
      BY <3>3 DEF EsiFinished, Undecoded, LostSocket, LineOk, GetAllowed, CheckOwner, plannerVars, Select,
                  ListenerFree
    <3> QED
      BY <1>1, <3>1, <3>2, <3>3
  <2> QED
    BY <2>1, <2>2, WakeupKept DEF DenierHolds
<1>2. CASE StatusChanged
  <2> DEFINE c == Head(coord_planner).content
  <2>1. c.key \in Key /\ c.ESIName \in Name
    BY <1>2, FrameContent DEF StatusChanged, FromCoordinator, Arrives
  <2>2. /\ listen.pc = "select" /\ UNCHANGED listen
        /\ \A u \in Releaser : release[u].pc = "idle"
    BY <1>2 DEF StatusChanged, Select, ListenerFree, ConsoleFree, Releaser
  <2>3. \/ taken_keys' = load_key(taken_keys, c.key, c.ESIName) /\ UNCHANGED release
        \/ StartRelease("listen", c.key)
    BY <1>2 DEF StatusChanged
  <2> HIDE DEF c
  <2>4. CASE taken_keys' = load_key(taken_keys, c.key, c.ESIName) /\ UNCHANGED release
    <3>1. /\ Node(c.ESIName, c.key, "BLOCKED") \in KeyNode
          /\ Node(c.ESIName, c.key, "BLOCKED").status = "BLOCKED"
      BY <2>1 DEF Node, KeyNode
    <3> QED
      BY <2>2, <2>4, <3>1, WakeupAppend DEF load_key, DenierHolds
  <2>5. CASE StartRelease("listen", c.key)
    BY <1>0, <2>1, <2>2, <2>5, WakeupStart DEF DenierHolds
  <2> QED
    BY <2>3, <2>4, <2>5
<1>3. CASE GetDenied
  <2>1. /\ HasNode(taken_keys, listen'.key, "BLOCKED") /\ UNCHANGED <<taken_keys, release>>
    BY <1>3 DEF GetDenied, check_Key_availability, ThreadsTypeOK
  <2> QED
    BY <2>1, WakeupKept DEF DenierHolds
<1>4. CASE block_esi
  <2>1. /\ listen.pc = "block" /\ listen'.key = listen.key
        /\ UNCHANGED <<taken_keys, release>>
    BY <1>4 DEF block_esi, ThreadsTypeOK
  <2> QED
    BY <2>1, WakeupKept DEF DenierHolds
<1>5. CASE WaitForKey
  <2> DEFINE node == Node(listen.name, listen.key, "WAITING")
  <2>1. listen.pc = "wait" /\ listen' = Listening /\ UNCHANGED release
        /\ taken_keys' = Append(taken_keys, node)
    BY <1>5 DEF WaitForKey, wait_for_key
  <2>2. node \in KeyNode /\ node.key = listen.key
    BY <2>1 DEF Node, KeyNode, LocalsSound, ThreadsTypeOK
  <2>3. HasNode(taken_keys, node.key, "BLOCKED")
    BY <2>1, <2>2 DEF DenierHolds
  <2> HIDE DEF node
  <2>4. DenierHolds'
    BY <2>1 DEF DenierHolds, Listening
  <2> QED
    BY <2>1, <2>2, <2>3, <2>4, WakeupAppend
<1> QED
  BY <1>1, <1>2, <1>3, <1>4, <1>5 DEF ListenNext

\* The console adds a holder at any moment, and releases a key while the
\* listening thread is idle.
LEMMA ConsoleWakeup ==
  ASSUME "console" \notin Windows, PlannerInv, OneAtATime, DenierHolds, NoLostWakeup, ConsoleNext
  PROVE  DenierHolds' /\ NoLostWakeup'
<1> USE DEF PlannerInv, PlannerTypeOK
<1>1. PICK c \in Commands : pause(c) \/ resume(c) \/ block(c) \/ unblock(c) \/ quit(c) \/ EndOfInput(c)
  BY DEF ConsoleNext
<1>2. Command(c)
  BY <1>1 DEF pause, resume, block, unblock, quit, EndOfInput
<1>3. UNCHANGED listen
  BY <1>2 DEF Command
<1>4. CASE pause(c) \/ resume(c) \/ quit(c) \/ EndOfInput(c)
  BY <1>3, <1>4, WakeupKept DEF pause, resume, quit, EndOfInput, DenierHolds
<1>5. CASE block(c)
  <2> DEFINE node == Node(ConsoleName(c.id), ConsoleKey(c.key), "BLOCKED")
  <2>1. ConsoleKey(c.key) \in Key /\ c.id \in Nat
    BY <1>5, ConfigAssumption DEF block, ConsoleKey
  <2>2. node \in KeyNode /\ node.status = "BLOCKED"
    BY <2>1, ConsoleNameIsName DEF Node, KeyNode
  <2>3. taken_keys' = Append(taken_keys, node) /\ UNCHANGED release
    BY <1>5 DEF block, load_key
  <2> HIDE DEF node
  <2>4. DenierHolds'
    BY <1>3, <2>2, <2>3, AppendNode DEF DenierHolds, ListsTypeOK
  <2> QED
    BY <2>2, <2>3, <2>4, WakeupAppend
<1>6. CASE unblock(c)
  <2>1. ConsoleKey(c.key) \in Key /\ StartRelease("console", ConsoleKey(c.key)) /\ "console" \in Releaser
    BY <1>6, ConfigAssumption DEF unblock, Releaser, ConsoleKey
  <2>2. listen.pc = "select" /\ \A u \in Releaser : release[u].pc = "idle"
    BY <1>2, <1>6 DEF unblock, Command, Undisturbed, ListenerFree, ConsoleFree, Releaser
  <2> QED
    BY <1>3, <2>1, <2>2, WakeupStart DEF DenierHolds
<1> QED
  BY <1>1, <1>4, <1>5, <1>6

\* The release loop ends only when nobody waits for its key.
LEMMA ReleaseWakeup ==
  ASSUME PlannerInv, OneAtATime, NoLostWakeup, NEW t \in Releaser, ReleaseNext(t)
  PROVE  DenierHolds' /\ NoLostWakeup'
<1> USE DEF PlannerInv, PlannerTypeOK
<1>1. /\ release[t].pc # "idle" /\ UNCHANGED listen
      /\ \A u \in Releaser : u # t => release'[u] = release[u]
  BY ReleaseNextLocals
<1>2. listen.pc = "select"
  BY <1>1 DEF OneAtATime, ListenerFree, Releaser
<1>3. ASSUME NEW k \in Key, HasNode(taken_keys', k, "WAITING")
      PROVE  HasNode(taken_keys', k, "BLOCKED")
               \/ \E u \in Releaser : release'[u].pc # "idle" /\ release'[u].key = k
  <2>1. HasNode(taken_keys, k, "WAITING")
    BY <1>3, ReleaseNextKeys
  <2>2. CASE HasNode(taken_keys, k, "BLOCKED")
    BY <2>2, ReleaseNextKeys
  <2>3. ASSUME NEW u \in Releaser, release[u].pc # "idle", release[u].key = k
        PROVE  release'[u].pc # "idle" /\ release'[u].key = k
    <3>1. CASE u = t
      BY <2>1, <2>3, <3>1, ReleaseNextKeys
    <3>2. CASE u # t
      BY <1>1, <2>3, <3>2
    <3> QED
      BY <3>1, <3>2
  <2> QED
    BY <2>1, <2>2, <2>3 DEF NoLostWakeup, Releasing
<1> QED
  BY <1>1, <1>2, <1>3 DEF DenierHolds, NoLostWakeup, Releasing

\* Every step of the planner.
LEMMA StepWakeup ==
  ASSUME "console" \notin Windows, PlannerInv, OneAtATime, DenierHolds, NoLostWakeup,
         [PlannerNext]_plannerVars
  PROVE  DenierHolds' /\ NoLostWakeup'
<1>1. CASE ListenNext
  BY <1>1, ListenWakeup
<1>2. CASE ConsoleNext
  BY <1>2, ConsoleWakeup
<1>3. ASSUME NEW t \in Releaser, ReleaseNext(t) PROVE DenierHolds' /\ NoLostWakeup'
  BY <1>3, ReleaseWakeup
<1>4. CASE RunNext \/ Segfault \/ UNCHANGED plannerVars
  <2>1. UNCHANGED <<taken_keys, release, listen>>
    BY <1>4 DEF RunNext, RunPoll, RunTake, RunPut, RunStart, ClearRedo, Segfault, plannerVars
  <2> QED
    BY <2>1, WakeupKept DEF DenierHolds
<1> QED
  BY <1>1, <1>2, <1>3, <1>4 DEF PlannerNext

\* At the start nobody waits.
LEMMA InitWakeup == PlannerInit => DenierHolds /\ NoLostWakeup
<1> SUFFICES ASSUME PlannerInit PROVE DenierHolds /\ NoLostWakeup
  OBVIOUS
<1>1. DenierHolds
  BY DEF PlannerInit, DenierHolds, Listening
<1>2. \A i \in 1..Len(taken_keys) : taken_keys[i].status = "BLOCKED"
  <2>1. DOMAIN taken_keys = 1..Len(taken_keys)
    BY InitPlannerInv, LenProperties DEF PlannerInv, PlannerTypeOK, ListsTypeOK
  <2>2. \A i \in DOMAIN taken_keys : taken_keys[i].status = "BLOCKED"
    BY DEF PlannerInit, pload_Keys, Node
  <2> QED
    BY <2>1, <2>2
<1>3. NoLostWakeup
  BY <1>2 DEF NoLostWakeup, HasNode
<1> QED
  BY <1>1, <1>3

\* What keeps the wakeups (types, one thread at a time, the holder that made
\* the planner refuse a GET is still there when the node joins) is inductive,
\* when no release from the console overlaps a handler of the listening thread.
LEMMA WakeupInvHolds ==
  ASSUME "console" \notin Windows
  PROVE  PlannerSpec => []WakeupInv
<1>1. PlannerInit => WakeupInv
  BY InitPlannerInv, InitQueueInv, InitWakeup DEF WakeupInv
<1>2. WakeupInv /\ [PlannerNext]_plannerVars => WakeupInv'
  BY StepPlannerInv, StepOneAtATime, StepWakeup DEF WakeupInv
<1> QED
  BY <1>1, <1>2, PTL DEF PlannerSpec

\* A key that somebody waits for has a holder, or a thread is releasing it
\* (launcher.c:220-233, 502, 587-600), when no release from the console overlaps a
\* handler of the listening thread: no wakeup is lost.
THEOREM WakeupsAreNotLost ==
  ASSUME "console" \notin Windows
  PROVE  PlannerSpec => []NoLostWakeup
<1>1. WakeupInv => NoLostWakeup
  BY DEF WakeupInv
<1> QED
  BY <1>1, WakeupInvHolds, PTL

-----------------------------------------------------------------------------
(***************************************************************************)
(* taken_keys and the release loops implement LockService.  While a thread *)
(* is in the release loop of a key, its waiters count as dismissed: so the *)
(* whole release is its first step, and the others are stutters.           *)
(* WakeupInv is why a stutter it is when the loop ends, and why a waiter   *)
(* joins a key that is held and not being released.                        *)
(***************************************************************************)
held == {k \in Key : HasNode(taken_keys, k, "BLOCKED")}

\* Who a name in NamesWaiting is.
LEMMA NamesMember ==
  ASSUME NEW keys, NEW k, NEW name
  PROVE  name \in NamesWaiting(keys, k) <=>
           \E n \in 1..Len(keys) :
             keys[n].key = k /\ keys[n].status = "WAITING" /\ keys[n].ESIName = name
  BY DEF NamesWaiting

\* A holder that joins the list is no waiter; a waiter joins those of its key.
LEMMA AppendNames ==
  ASSUME NEW S, NEW keys \in Seq(S), NEW node \in S, NEW k
  PROVE  /\ \A name : name \in NamesWaiting(Append(keys, node), k) <=>
              \/ name \in NamesWaiting(keys, k)
              \/ node.key = k /\ node.status = "WAITING" /\ node.ESIName = name
         /\ node.key # k \/ node.status # "WAITING"
              => NamesWaiting(Append(keys, node), k) = NamesWaiting(keys, k)
<1> DEFINE q == Append(keys, node)
<1>1. /\ Len(q) = Len(keys) + 1 /\ Len(keys) \in Nat
      /\ \A i \in 1..Len(keys) + 1 : q[i] = IF i = Len(keys) + 1 THEN node ELSE keys[i]
  BY AppendProperties
<1> HIDE DEF q
<1>2. ASSUME NEW name
      PROVE  name \in NamesWaiting(q, k) <=>
               \/ name \in NamesWaiting(keys, k)
               \/ node.key = k /\ node.status = "WAITING" /\ node.ESIName = name
  <2>1. ASSUME name \in NamesWaiting(keys, k) PROVE name \in NamesWaiting(q, k)
    <3>1. PICK n \in 1..Len(keys) :
            keys[n].key = k /\ keys[n].status = "WAITING" /\ keys[n].ESIName = name
      BY <2>1, NamesMember
    <3>2. n \in 1..Len(q) /\ q[n] = keys[n]
      BY <1>1, <3>1
    <3> QED
      BY <3>1, <3>2, NamesMember
  <2>2. ASSUME node.key = k, node.status = "WAITING", node.ESIName = name
        PROVE  name \in NamesWaiting(q, k)
    <3>1. Len(q) \in 1..Len(q) /\ q[Len(q)] = node
      BY <1>1
    <3> QED
      BY <2>2, <3>1, NamesMember
  <2>3. ASSUME name \in NamesWaiting(q, k)
        PROVE  \/ name \in NamesWaiting(keys, k)
               \/ node.key = k /\ node.status = "WAITING" /\ node.ESIName = name
    <3>1. PICK n \in 1..Len(q) : q[n].key = k /\ q[n].status = "WAITING" /\ q[n].ESIName = name
      BY <2>3, NamesMember
    <3>2. q[n] = node \/ (n \in 1..Len(keys) /\ q[n] = keys[n])
      BY <1>1, <3>1
    <3> QED
      BY <3>1, <3>2, NamesMember
  <2> QED
    BY <2>1, <2>2, <2>3
<1> QED
  BY <1>2 DEF q

\* Unlinking a holder takes no waiter, and unlinking a waiter takes none of
\* another key.
LEMMA UnlinkNames ==
  ASSUME NEW S, NEW keys \in Seq(S), NEW key, NEW status, NEW k,
         k # key \/ status # "WAITING"
  PROVE  NamesWaiting(Unlink(keys, key, status), k) = NamesWaiting(keys, k)
<1> DEFINE n == Search(keys, key, status)
           q == Unlink(keys, key, status)
<1>1. CASE ~HasNode(keys, key, status)
  BY <1>1 DEF Unlink
<1>2. CASE HasNode(keys, key, status)
  <2>1. /\ n \in 1..Len(keys) /\ keys[n].key = key /\ keys[n].status = status
        /\ Len(q) = Len(keys) - 1
        /\ \A j \in 1..Len(q) : q[j] = keys[IF j < n THEN j ELSE j + 1]
        /\ \A i \in 1..Len(keys) : i # n => \E j \in 1..Len(q) : q[j] = keys[i]
    BY <1>2, UnlinkMembers
  <2> HIDE DEF n, q
  <2>2. \A j \in 1..Len(q) : (IF j < n THEN j ELSE j + 1) \in 1..Len(keys)
    BY <2>1
  <2>3. ASSUME NEW name \in NamesWaiting(q, k) PROVE name \in NamesWaiting(keys, k)
    <3>1. PICK j \in 1..Len(q) : q[j].key = k /\ q[j].status = "WAITING" /\ q[j].ESIName = name
      BY <2>3, NamesMember
    <3>2. PICK i \in 1..Len(keys) : q[j] = keys[i]
      BY <2>1, <2>2
    <3> QED
      BY <3>1, <3>2, NamesMember
  <2>4. ASSUME NEW name \in NamesWaiting(keys, k) PROVE name \in NamesWaiting(q, k)
    <3>1. PICK i \in 1..Len(keys) :
            keys[i].key = k /\ keys[i].status = "WAITING" /\ keys[i].ESIName = name
      BY <2>4, NamesMember
    <3>2. PICK j \in 1..Len(q) : q[j] = keys[i]
      BY <2>1, <3>1
    <3> QED
      BY <3>1, <3>2, NamesMember
  <2> QED
    BY <2>3, <2>4 DEF q
<1> QED
  BY <1>1, <1>2

\* A key nobody waits for has no names.
LEMMA NoNames ==
  ASSUME NEW keys, NEW k, ~HasNode(keys, k, "WAITING") PROVE NamesWaiting(keys, k) = {}
  BY NamesMember DEF HasNode

\* A thread in the loop keeps its key until it leaves.
LEMMA ReleaseKey ==
  ASSUME ThreadsTypeOK, NEW t \in Releaser, ReleaseNext(t)
  PROVE  release'[t].pc = "idle" \/ release'[t].key = release[t].key
<1>1. release[t] \in ReleaseRecord
  BY DEF ThreadsTypeOK
<1>2. CASE FindWaiting(t)
  <2> DEFINE n == Search(taken_keys, release[t].key, "WAITING")
  <2>1. release'[t] = IF n = 0 THEN NoRelease
                      ELSE [release[t] EXCEPT !.pc = "unlink", !.name = taken_keys[n].ESIName]
    BY <1>2 DEF FindWaiting, ThreadsTypeOK
  <2> HIDE DEF n
  <2> QED
    BY <1>1, <2>1 DEF NoRelease, ReleaseRecord
<1>3. CASE UnlinkWaiting(t)
  BY <1>1, <1>3 DEF UnlinkWaiting, ThreadsTypeOK, ReleaseRecord
<1>4. CASE LocateBlocked(t)
  BY <1>1, <1>4 DEF LocateBlocked, ThreadsTypeOK, ReleaseRecord
<1>5. CASE MoveToReady(t)
  BY <1>5 DEF MoveToReady, NextWaiting, NoRelease, ThreadsTypeOK
<1> QED
  BY <1>2, <1>3, <1>4, <1>5 DEF ReleaseNext

-----------------------------------------------------------------------------
\* A step that leaves the holders, and the waiters of every key, as they are.
LEMMA LocksKept ==
  ASSUME \A k \in Key : HasNode(taken_keys', k, "BLOCKED") <=> HasNode(taken_keys, k, "BLOCKED"),
         \A k \in Key : WaitersOf(k)' = WaitersOf(k)
  PROVE  UNCHANGED <<held, [k \in Key |-> WaitersOf(k)]>>
  BY DEF held

LEMMA LocksUntouched ==
  ASSUME UNCHANGED <<taken_keys, release>>
  PROVE  UNCHANGED <<held, [k \in Key |-> WaitersOf(k)]>>
  BY DEF held, WaitersOf, Releasing

\* load_key: a key that nobody held is held; nobody waited for it.
LEMMA HoldStep ==
  ASSUME ListsTypeOK, UNCHANGED release, NEW node \in KeyNode, node.status = "BLOCKED",
         taken_keys' = Append(taken_keys, node)
  PROVE  Locks!Next \/ UNCHANGED <<held, [k \in Key |-> WaitersOf(k)]>>
<1>1. \A k \in Key : HasNode(taken_keys', k, "BLOCKED") <=>
                       HasNode(taken_keys, k, "BLOCKED") \/ node.key = k
  BY AppendNode DEF ListsTypeOK
<1>2. \A k \in Key : NamesWaiting(taken_keys', k) = NamesWaiting(taken_keys, k)
  BY AppendNames DEF ListsTypeOK
<1>3. \A k \in Key : WaitersOf(k)' = WaitersOf(k)
  BY <1>2 DEF WaitersOf, Releasing
<1>4. CASE HasNode(taken_keys, node.key, "BLOCKED")
  BY <1>1, <1>3, <1>4, LocksKept
<1>5. CASE ~HasNode(taken_keys, node.key, "BLOCKED")
  <2>1. node.key \in Key
    BY DEF KeyNode
  <2>2. held' = held \cup {node.key} /\ node.key \notin held
    BY <1>1, <1>5, <2>1 DEF held
  <2> QED
    BY <1>3, <2>1, <2>2 DEF Locks!Next, Locks!Hold, held
<1> QED
  BY <1>4, <1>5

\* release_key: all who wait for the key are dismissed.
LEMMA ReleaseStart ==
  ASSUME ListsTypeOK, ThreadsTypeOK, NEW t \in Releaser, NEW key \in Key,
         StartRelease(t, key), \A u \in Releaser : release[u].pc = "idle"
  PROVE  Locks!Next
<1>1. /\ release'[t].pc = "find" /\ release'[t].key = key
      /\ \A u \in Releaser : u # t => release'[u] = release[u]
  BY StartReleaseType DEF StartRelease
<1>2. taken_keys' = Unlink(taken_keys, key, "BLOCKED")
  BY DEF StartRelease
<1>3. \A k \in Key : ~Releasing(k) /\ (Releasing(k)' <=> k = key)
  BY <1>1 DEF Releasing
<1>4. \A k \in Key : WaitersOf(k)' = IF k = key THEN {} ELSE WaitersOf(k)
  <2>1. ASSUME NEW k \in Key PROVE NamesWaiting(taken_keys', k) = NamesWaiting(taken_keys, k)
    BY <1>2, UnlinkNames DEF ListsTypeOK
  <2> QED
    BY <1>3, <2>1 DEF WaitersOf
<1>5. held' \in {held, held \ {key}}
  <2>1. \A k \in Key : k # key =>
          (HasNode(taken_keys', k, "BLOCKED") <=> HasNode(taken_keys, k, "BLOCKED"))
    BY <1>2, UnlinkNodes DEF ListsTypeOK
  <2>2. HasNode(taken_keys', key, "BLOCKED") => HasNode(taken_keys, key, "BLOCKED")
    BY <1>2, UnlinkNodes DEF ListsTypeOK
  <2> QED
    BY <2>1, <2>2 DEF held
<1> QED
  BY <1>4, <1>5 DEF Locks!Next, Locks!Release, held

\* WaitForKey: the ESI that was refused joins those who wait for a held key.
LEMMA WaitStep ==
  ASSUME PlannerInv, OneAtATime, DenierHolds, WaitForKey
  PROVE  Locks!Next
<1> USE DEF PlannerInv, PlannerTypeOK
<1> DEFINE key  == listen.key
           node == Node(listen.name, listen.key, "WAITING")
<1>1. /\ listen.pc = "wait" /\ UNCHANGED release
      /\ taken_keys' = Append(taken_keys, node)
  BY DEF WaitForKey, wait_for_key
<1>2. /\ key \in Key /\ node \in KeyNode /\ node.key = key
      /\ node.status = "WAITING" /\ node.ESIName = listen.name
  BY <1>1 DEF Node, KeyNode, LocalsSound, ThreadsTypeOK
<1>3. \A k \in Key : ~Releasing(k) /\ ~Releasing(k)'
  BY <1>1 DEF OneAtATime, ListenerFree, Releasing, Releaser
<1>4. PICK k \in Key : k = key
  BY <1>2
<1>5. PICK name : name = listen.name
  OBVIOUS
<1>6. HasNode(taken_keys, k, "BLOCKED")
  BY <1>1, <1>4 DEF DenierHolds
<1> HIDE DEF node, key
<1>7. \A j \in Key : HasNode(taken_keys', j, "BLOCKED") <=> HasNode(taken_keys, j, "BLOCKED")
  BY <1>1, <1>2, AppendNode DEF ListsTypeOK
<1>8. \A j \in Key : WaitersOf(j)' = IF j = k THEN WaitersOf(j) \cup {name} ELSE WaitersOf(j)
  <2>1. NamesWaiting(taken_keys', k) = NamesWaiting(taken_keys, k) \cup {name}
    <3>1. node \in KeyNode /\ node.key = k /\ node.status = "WAITING" /\ node.ESIName = name
      BY <1>2, <1>4, <1>5
    <3>2. \A x : x \in NamesWaiting(taken_keys', k) <=>
                   x \in NamesWaiting(taken_keys, k) \/ x = name
      BY <1>1, <3>1, AppendNames DEF ListsTypeOK
    <3> QED
      BY <3>2
  <2>2. \A j \in Key : j # k => NamesWaiting(taken_keys', j) = NamesWaiting(taken_keys, j)
    BY <1>1, <1>2, <1>4, AppendNames DEF ListsTypeOK
  <2> QED
    BY <1>3, <2>1, <2>2 DEF WaitersOf
<1>9. UNCHANGED held /\ k \in held
  BY <1>6, <1>7 DEF held
<1> QED
  BY <1>8, <1>9 DEF Locks!Next, Locks!Wait, held

\* The steps of the loop: who waits for its key has been dismissed already,
\* and when it ends nobody is left.
LEMMA LoopStep ==
  ASSUME PlannerInv, OneAtATime, NEW t \in Releaser, ReleaseNext(t)
  PROVE  UNCHANGED <<held, [k \in Key |-> WaitersOf(k)]>>
<1> USE DEF PlannerInv, PlannerTypeOK
<1>1. /\ release[t].pc # "idle"
      /\ \A u \in Releaser : u # t => release[u].pc = "idle" /\ release'[u] = release[u]
  BY ReleaseNextLocals DEF OneAtATime, ListenerFree, Releaser
<1>2. release[t].key \in Key
  BY <1>1 DEF LocalsSound
<1>3. \A k \in Key : Releasing(k) <=> k = release[t].key
  BY <1>1 DEF Releasing
<1>4. PICK key \in Key : key = release[t].key
  BY <1>2
<1>5. /\ \A k \in Key : HasNode(taken_keys', k, "BLOCKED") <=> HasNode(taken_keys, k, "BLOCKED")
      /\ \A k \in Key : k # key => NamesWaiting(taken_keys', k) = NamesWaiting(taken_keys, k)
      /\ NamesWaiting(taken_keys', key) = {} \/ (release'[t].pc # "idle" /\ release'[t].key = key)
  <2>1. CASE UnlinkWaiting(t)
    <3>1. taken_keys' = Unlink(taken_keys, key, "WAITING")
      BY <1>4, <2>1 DEF UnlinkWaiting
    <3>2. release'[t].pc # "idle" /\ release'[t].key = key
      BY <1>4, <2>1 DEF UnlinkWaiting, ThreadsTypeOK, ReleaseRecord
    <3> QED
      BY <3>1, <3>2, UnlinkNodes, UnlinkNames DEF ListsTypeOK
  <2>2. CASE ~UnlinkWaiting(t)
    <3>1. UNCHANGED taken_keys
      BY <2>2 DEF ReleaseNext, FindWaiting, LocateBlocked, MoveToReady
    <3>2. ~HasNode(taken_keys, key, "WAITING") => NamesWaiting(taken_keys', key) = {}
      BY <3>1, NoNames
    <3> QED
      BY <1>4, <3>1, <3>2, ReleaseNextKeys
  <2> QED
    BY <2>1, <2>2
<1>6. \A k \in Key : k # key => ~Releasing(k) /\ ~Releasing(k)'
  <2>1. release'[t].pc = "idle" \/ release'[t].key = release[t].key
    BY ReleaseKey
  <2> QED
    BY <1>1, <1>3, <1>4, <2>1 DEF Releasing
<1>7. \A k \in Key : WaitersOf(k)' = WaitersOf(k)
  <2>1. ASSUME NEW k \in Key, k # key PROVE WaitersOf(k)' = WaitersOf(k)
    BY <1>5, <1>6, <2>1 DEF WaitersOf
  <2>2. WaitersOf(key) = {} /\ WaitersOf(key)' = {}
    BY <1>1, <1>4, <1>5 DEF WaitersOf, Releasing
  <2> QED
    BY <2>1, <2>2
<1> QED
  BY <1>5, <1>7, LocksKept
-----------------------------------------------------------------------------
\* The listening thread.
LEMMA ListenLocks ==
  ASSUME PlannerInv, OneAtATime, DenierHolds, "console" \notin Windows, ListenNext
  PROVE  Locks!Next \/ UNCHANGED <<held, [k \in Key |-> WaitersOf(k)]>>
<1> USE DEF PlannerInv, PlannerTypeOK
<1>1. CASE StatusChanged
  <2> DEFINE c == Head(coord_planner).content
  <2>1. c.key \in Key /\ c.ESIName \in Name
    BY <1>1, FrameContent DEF StatusChanged, FromCoordinator, Arrives
  <2>2. "listen" \in Releaser /\ \A u \in Releaser : release[u].pc = "idle"
    BY <1>1 DEF StatusChanged, Select, ListenerFree, ConsoleFree, Releaser
  <2>3. \/ taken_keys' = load_key(taken_keys, c.key, c.ESIName) /\ UNCHANGED release
        \/ StartRelease("listen", c.key)
    BY <1>1 DEF StatusChanged
  <2> HIDE DEF c
  <2>4. CASE taken_keys' = load_key(taken_keys, c.key, c.ESIName) /\ UNCHANGED release
    <3>1. /\ Node(c.ESIName, c.key, "BLOCKED") \in KeyNode
          /\ Node(c.ESIName, c.key, "BLOCKED").status = "BLOCKED"
      BY <2>1 DEF Node, KeyNode
    <3> QED
      BY <2>4, <3>1, HoldStep DEF load_key
  <2>5. CASE StartRelease("listen", c.key)
    BY <2>1, <2>2, <2>5, ReleaseStart
  <2> QED
    BY <2>3, <2>4, <2>5
<1>2. CASE WaitForKey
  BY <1>2, WaitStep
<1>3. CASE ~StatusChanged /\ ~WaitForKey
  <2>1. UNCHANGED <<taken_keys, release>>
    BY <1>3 DEF ListenNext, RegisterEsi, EsiFinished, Undecoded, LostSocket, HandshakeStatus,
                HandshakeHeader, HandshakeName, LineOk, GetAllowed, GetDenied, block_esi,
                CheckOwner, plannerVars
  <2> QED
    BY <2>1, LocksUntouched
<1> QED
  BY <1>1, <1>2, <1>3

\* The console: block is a holder more, unblock is a release.
LEMMA ConsoleLocks ==
  ASSUME PlannerInv, OneAtATime, "console" \notin Windows, ConsoleNext
  PROVE  Locks!Next \/ UNCHANGED <<held, [k \in Key |-> WaitersOf(k)]>>
<1> USE DEF PlannerInv, PlannerTypeOK
<1>1. PICK c \in Commands : pause(c) \/ resume(c) \/ block(c) \/ unblock(c) \/ quit(c) \/ EndOfInput(c)
  BY DEF ConsoleNext
<1>2. CASE pause(c) \/ resume(c) \/ quit(c) \/ EndOfInput(c)
  BY <1>2, LocksUntouched DEF pause, resume, quit, EndOfInput
<1>3. CASE block(c)
  <2>1. ConsoleKey(c.key) \in Key /\ c.id \in Nat
    BY <1>3, ConfigAssumption DEF block, ConsoleKey
  <2>2. /\ Node(ConsoleName(c.id), ConsoleKey(c.key), "BLOCKED") \in KeyNode
        /\ Node(ConsoleName(c.id), ConsoleKey(c.key), "BLOCKED").status = "BLOCKED"
    BY <2>1, ConsoleNameIsName DEF Node, KeyNode
  <2>3. UNCHANGED release
    BY <1>3 DEF block
  <2> QED
    BY <1>3, <2>2, <2>3, HoldStep DEF block, load_key
<1>4. CASE unblock(c)
  <2>1. ConsoleKey(c.key) \in Key /\ StartRelease("console", ConsoleKey(c.key)) /\ "console" \in Releaser
    BY <1>4, ConfigAssumption DEF ConsoleKey, unblock, Releaser
  <2>2. \A u \in Releaser : release[u].pc = "idle"
    BY <1>4 DEF unblock, Command, Undisturbed, ListenerFree, ConsoleFree, Releaser
  <2> QED
    BY <2>1, <2>2, ReleaseStart
<1> QED
  BY <1>1, <1>2, <1>3, <1>4

\* Every step of the planner.
LEMMA StepLocks ==
  ASSUME "console" \notin Windows, WakeupInv, [PlannerNext]_plannerVars
  PROVE  [Locks!Next]_<<held, [k \in Key |-> WaitersOf(k)]>>
<1> USE DEF WakeupInv
<1>1. CASE ListenNext
  BY <1>1, ListenLocks
<1>2. CASE ConsoleNext
  BY <1>2, ConsoleLocks
<1>3. ASSUME NEW t \in Releaser, ReleaseNext(t)
      PROVE  UNCHANGED <<held, [k \in Key |-> WaitersOf(k)]>>
  BY <1>3, LoopStep
<1>4. CASE RunNext \/ Segfault \/ UNCHANGED plannerVars
  <2>1. UNCHANGED <<taken_keys, release>>
    BY <1>4 DEF RunNext, RunPoll, RunTake, RunPut, RunStart, ClearRedo, Segfault, plannerVars
  <2> QED
    BY <2>1, LocksUntouched
<1> QED
  BY <1>1, <1>2, <1>3, <1>4 DEF PlannerNext

\* At the start the keys of the configuration file are held.
LEMMA InitLocks ==
  ASSUME PlannerInit PROVE Locks!Init
<1>1. \A i \in 1..Len(taken_keys) : taken_keys[i].status = "BLOCKED"
  <2>1. DOMAIN taken_keys = 1..Len(taken_keys)
    BY InitPlannerInv, LenProperties DEF PlannerInv, PlannerTypeOK, ListsTypeOK
  <2>2. \A i \in DOMAIN taken_keys : taken_keys[i].status = "BLOCKED"
    BY DEF PlannerInit, pload_Keys, Node
  <2> QED
    BY <2>1, <2>2
<1>2. \A k \in Key : NamesWaiting(taken_keys, k) = {}
  BY <1>1, NoNames DEF HasNode
<1>3. \A k \in Key : WaitersOf(k) = {}
  BY <1>2 DEF WaitersOf
<1> QED
  BY <1>3 DEF Locks!Init

\* Together the three threads implement a lock service (launcher.c:492-503,
\* 575-605, 225-233), when no release from the console overlaps a handler of the
\* listening thread: a release dismisses all who wait, one waits only for a
\* key that is held, and no waiter is dropped in between.
THEOREM TakenKeysImplementLocks ==
  ASSUME "console" \notin Windows
  PROVE  PlannerSpec => ImplementsLockService
<1>1. PlannerInit => Locks!Init
  BY InitLocks
<1>2. WakeupInv /\ [PlannerNext]_plannerVars
        => [Locks!Next]_<<{k \in Key : HasNode(taken_keys, k, "BLOCKED")},
                          [k \in Key |-> WaitersOf(k)]>>
  BY StepLocks DEF held
<1> QED
  BY <1>1, <1>2, WakeupInvHolds, PTL DEF PlannerSpec, ImplementsLockService, Locks!Spec
-----------------------------------------------------------------------------
(***************************************************************************)
(* blocked_queue and the WAITING nodes of taken_keys name the same ESIs,   *)
(* when no release from the console overlaps a handler of the listening    *)
(* thread ("console" not in Windows): so the release loop finds whom it    *)
(* wakes.                                                                  *)
(*                                                                         *)
(* The inductive invariant is ParkedInv.  Its part about names is proved   *)
(* of sets (Consistent): who is parked, who is registered, the names that  *)
(* wait, the number of each ESI, and who is in hand.                       *)
(***************************************************************************)
\* Who a name in WaitingNames is.
LEMMA WaitingMember ==
  ASSUME NEW keys, NEW name
  PROVE  name \in WaitingNames(keys) <=>
           \E n \in 1..Len(keys) : keys[n].status = "WAITING" /\ keys[n].ESIName = name
  BY DEF WaitingNames

\* A holder that joins the list changes no waiter; a waiter joins once.
LEMMA AppendWaiting ==
  ASSUME NEW S, NEW keys \in Seq(S), NEW node \in S, OnceWaiting(keys)
  PROVE  /\ node.status # "WAITING"
              => /\ \A name : name \in WaitingNames(Append(keys, node))
                                <=> name \in WaitingNames(keys)
                 /\ OnceWaiting(Append(keys, node))
         /\ node.status = "WAITING"
              => \A name : name \in WaitingNames(Append(keys, node))
                             <=> name \in WaitingNames(keys) \/ name = node.ESIName
         /\ node.ESIName \notin WaitingNames(keys) => OnceWaiting(Append(keys, node))
<1> DEFINE q == Append(keys, node)
<1>1. /\ Len(q) = Len(keys) + 1 /\ Len(keys) \in Nat
      /\ \A i \in 1..Len(keys) + 1 : q[i] = IF i = Len(keys) + 1 THEN node ELSE keys[i]
  BY AppendProperties
<1> HIDE DEF q
<1>2. ASSUME NEW name
      PROVE  name \in WaitingNames(q) <=>
               name \in WaitingNames(keys) \/ (node.status = "WAITING" /\ node.ESIName = name)
  <2>1. ASSUME name \in WaitingNames(keys) PROVE name \in WaitingNames(q)
    <3>1. PICK n \in 1..Len(keys) : keys[n].status = "WAITING" /\ keys[n].ESIName = name
      BY <2>1, WaitingMember
    <3>2. n \in 1..Len(q) /\ q[n] = keys[n]
      BY <1>1, <3>1
    <3> QED
      BY <3>1, <3>2, WaitingMember
  <2>2. ASSUME node.status = "WAITING", node.ESIName = name PROVE name \in WaitingNames(q)
    <3>1. Len(q) \in 1..Len(q) /\ q[Len(q)] = node
      BY <1>1
    <3> QED
      BY <2>2, <3>1, WaitingMember
  <2>3. ASSUME name \in WaitingNames(q)
        PROVE  name \in WaitingNames(keys) \/ (node.status = "WAITING" /\ node.ESIName = name)
    <3>1. PICK n \in 1..Len(q) : q[n].status = "WAITING" /\ q[n].ESIName = name
      BY <2>3, WaitingMember
    <3>2. q[n] = node \/ (n \in 1..Len(keys) /\ q[n] = keys[n])
      BY <1>1, <3>1
    <3> QED
      BY <3>1, <3>2, WaitingMember
  <2> QED
    BY <2>1, <2>2, <2>3
<1>3. ASSUME node.status # "WAITING" \/ node.ESIName \notin WaitingNames(keys)
      PROVE  OnceWaiting(q)
  <2> SUFFICES ASSUME NEW m \in 1..Len(q), NEW n \in 1..Len(q),
                      q[m].status = "WAITING", q[n].status = "WAITING",
                      q[m].ESIName = q[n].ESIName, m # n
               PROVE  FALSE
    BY DEF OnceWaiting
  <2>1. CASE m \in 1..Len(keys) /\ n \in 1..Len(keys)
    BY <1>1, <2>1 DEF OnceWaiting
  <2>2. CASE m = Len(keys) + 1
    <3>1. n \in 1..Len(keys) /\ q[n] = keys[n] /\ q[m] = node
      BY <1>1, <2>2
    <3> QED
      BY <1>3, <3>1, WaitingMember
  <2>3. CASE n = Len(keys) + 1
    <3>1. m \in 1..Len(keys) /\ q[m] = keys[m] /\ q[n] = node
      BY <1>1, <2>3
    <3> QED
      BY <1>3, <3>1, WaitingMember
  <2> QED
    BY <1>1, <2>1, <2>2, <2>3
<1> QED
  BY <1>2, <1>3 DEF q

\* Unlinking a holder changes no waiter; a waiter that is unlinked was the
\* only node with his name.
LEMMA UnlinkWaiters ==
  ASSUME NEW S, NEW keys \in Seq(S), NEW key, NEW status, OnceWaiting(keys)
  PROVE  LET n == Search(keys, key, status)
             q == Unlink(keys, key, status)
         IN /\ OnceWaiting(q)
            /\ status # "WAITING" =>
                 \A name : name \in WaitingNames(q) <=> name \in WaitingNames(keys)
            /\ status = "WAITING" /\ HasNode(keys, key, status) =>
                 \A name : name \in WaitingNames(q)
                             <=> name \in WaitingNames(keys) /\ name # keys[n].ESIName
<1> DEFINE n == Search(keys, key, status)
           q == Unlink(keys, key, status)
<1>1. CASE ~HasNode(keys, key, status)
  BY <1>1 DEF Unlink
<1>2. CASE HasNode(keys, key, status)
  <2>1. /\ n \in 1..Len(keys) /\ keys[n].key = key /\ keys[n].status = status
        /\ Len(q) = Len(keys) - 1
        /\ \A j \in 1..Len(q) : q[j] = keys[IF j < n THEN j ELSE j + 1]
        /\ \A i \in 1..Len(keys) : i # n => \E j \in 1..Len(q) : q[j] = keys[i]
    BY <1>2, UnlinkMembers
  <2> HIDE DEF n, q
  <2>2. \A j \in 1..Len(q) :
          LET i == IF j < n THEN j ELSE j + 1 IN i \in 1..Len(keys) /\ i # n
    BY <2>1
  <2>3. \A j, i \in 1..Len(q) :
          (IF j < n THEN j ELSE j + 1) = (IF i < n THEN i ELSE i + 1) => i = j
    BY <2>1
  <2>4. OnceWaiting(q)
    <3> SUFFICES ASSUME NEW i \in 1..Len(q), NEW j \in 1..Len(q),
                        q[i].status = "WAITING", q[j].status = "WAITING",
                        q[i].ESIName = q[j].ESIName
                 PROVE  i = j
      BY DEF OnceWaiting
    <3> DEFINE x == IF i < n THEN i ELSE i + 1
               y == IF j < n THEN j ELSE j + 1
    <3>1. x \in 1..Len(keys) /\ y \in 1..Len(keys) /\ q[i] = keys[x] /\ q[j] = keys[y]
      BY <2>1, <2>2
    <3>2. x = y => i = j
      BY <2>3
    <3> HIDE DEF x, y
    <3> QED
      BY <3>1, <3>2 DEF OnceWaiting
  <2>5. ASSUME NEW name \in WaitingNames(q)
        PROVE  name \in WaitingNames(keys) /\ (status = "WAITING" => name # keys[n].ESIName)
    <3>1. PICK j \in 1..Len(q) : q[j].status = "WAITING" /\ q[j].ESIName = name
      BY <2>5, WaitingMember
    <3>2. PICK i \in 1..Len(keys) : i # n /\ q[j] = keys[i]
      BY <2>1, <2>2
    <3> QED
      BY <2>1, <3>1, <3>2, WaitingMember DEF OnceWaiting
  <2>6. ASSUME NEW name \in WaitingNames(keys), status # "WAITING" \/ name # keys[n].ESIName
        PROVE  name \in WaitingNames(q)
    <3>1. PICK i \in 1..Len(keys) : keys[i].status = "WAITING" /\ keys[i].ESIName = name
      BY <2>6, WaitingMember
    <3>2. i # n
      BY <2>1, <2>6, <3>1
    <3>3. PICK j \in 1..Len(q) : q[j] = keys[i]
      BY <2>1, <3>2
    <3> QED
      BY <3>1, <3>3, WaitingMember
  <2> QED
    BY <2>4, <2>5, <2>6 DEF n, q
<1> QED
  BY <1>1, <1>2

\* FindEsi returns the position of an ESI with that name, if there is one.
LEMMA FindEsiFound ==
  ASSUME NEW q \in Seq(ESI), NEW name
  PROVE  LET n == FindEsi(q, name)
         IN /\ n # 0 => n \in 1..Len(q) /\ q[n] \in ToSet(q) /\ EsiName(esi[q[n]].id) = name
            /\ (\E e \in ToSet(q) : EsiName(esi[e].id) = name) => n # 0
<1> DEFINE I == {i \in 1..Len(q) : EsiName(esi[q[i]].id) = name}
           n == FindEsi(q, name)
<1>1. n = IF I # {} THEN Min(I) ELSE 0
  BY DEF FindEsi, SelectInSeq
<1>2. I \in SUBSET Nat
  OBVIOUS
<1>3. I # {} => Min(I) \in I
  BY <1>2, MinOfNats
<1>4. ToSet(q) = {q[i] : i \in 1..Len(q)}
  BY ElementsOfSeq
<1>5. n # 0 => n \in I
  BY <1>1, <1>3
<1>6. ASSUME NEW e \in ToSet(q), EsiName(esi[e].id) = name PROVE n # 0
  <2>1. I # {}
    BY <1>4, <1>6
  <2>2. n \in I
    BY <1>1, <1>3, <2>1
  <2> QED
    BY <2>2
<1> HIDE DEF n
<1>7. n # 0 => n \in 1..Len(q) /\ q[n] \in ToSet(q) /\ EsiName(esi[q[n]].id) = name
  BY <1>4, <1>5
<1> QED
  BY <1>6, <1>7 DEF n

-----------------------------------------------------------------------------
\* Who is parked, who is registered, the names that wait, the number of each
\* ESI, the next number, and who is in hand.
Consistent(parked, members, names, id, next, hands) ==
  /\ parked \subseteq members /\ members \subseteq ESI
  /\ \A e \in members : id[e] \in Nat /\ id[e] < next
  /\ \A e, f \in members : id[e] = id[f] => e = f
  /\ \A name \in names : \E e \in parked : EsiName(id[e]) = name
  /\ \A e \in parked : EsiName(id[e]) \in names <=> e \notin hands

LEMMA EsiNameInjective == ASSUME NEW m, NEW n, EsiName(m) = EsiName(n) PROVE m = n
  BY DEF EsiName

\* A registered ESI that waits is parked.
LEMMA ConsistentWaiter ==
  ASSUME NEW B, NEW M, NEW W, NEW id, NEW c, NEW H, Consistent(B, M, W, id, c, H),
         NEW e \in M, EsiName(id[e]) \in W
  PROVE  e \in B
<1>1. PICK f \in B : EsiName(id[f]) = EsiName(id[e])
  BY DEF Consistent
<1>2. id[f] = id[e]
  BY <1>1, EsiNameInjective
<1> QED
  BY <1>1, <1>2 DEF Consistent

\* Nothing of it changes.
LEMMA ConsistentSame ==
  ASSUME NEW B, NEW M, NEW W, NEW id, NEW c, NEW H, Consistent(B, M, W, id, c, H),
         NEW W2, NEW id2, NEW H2,
         \A e \in M : id2[e] = id[e],
         \A name : name \in W2 <=> name \in W,
         \A e \in B : e \in H2 <=> e \in H
  PROVE  Consistent(B, M, W2, id2, c, H2)
  BY DEF Consistent

\* Registration: a number that nobody has.
LEMMA ConsistentRegister ==
  ASSUME NEW B, NEW M, NEW W, NEW id, NEW c \in Nat, NEW H, Consistent(B, M, W, id, c, H),
         NEW id2, NEW H2, NEW e \in ESI, e \notin M, id2[e] = c,
         \A f \in M : id2[f] = id[f],
         \A f \in B : f \in H2 <=> f \in H
  PROVE  Consistent(B, M \cup {e}, W, id2, c + 1, H2)
  BY DEF Consistent

\* block_esi: who leaves the processor is parked, and in hand.
LEMMA ConsistentPark ==
  ASSUME NEW B, NEW M, NEW W, NEW id, NEW c, NEW H, Consistent(B, M, W, id, c, H),
         NEW id2, NEW H2, NEW e \in M, e \notin B, e \in H2,
         \A f \in M : id2[f] = id[f],
         \A f \in B : f \in H2 <=> f \in H
  PROVE  Consistent(B \cup {e}, M, W, id2, c, H2)
<1>1. EsiName(id[e]) \notin W
  BY ConsistentWaiter
<1> QED
  BY <1>1 DEF Consistent

\* WaitForKey: who is in hand waits from now on.
LEMMA ConsistentWait ==
  ASSUME NEW B, NEW M, NEW W, NEW id, NEW c, NEW H, Consistent(B, M, W, id, c, H),
         NEW W2, NEW H2, NEW e \in B,
         \A name : name \in W2 <=> name \in W \/ name = EsiName(id[e]),
         \A f \in B : f \in H2 <=> f \in H /\ f # e
  PROVE  Consistent(B, M, W2, id, c, H2)
<1>1. \A f \in B : f # e => EsiName(id[f]) # EsiName(id[e])
  BY EsiNameInjective DEF Consistent
<1> QED
  BY <1>1 DEF Consistent

\* UnlinkWaiting: who waited is in hand.
LEMMA ConsistentUnlink ==
  ASSUME NEW B, NEW M, NEW W, NEW id, NEW c, NEW H, Consistent(B, M, W, id, c, H),
         NEW W2, NEW H2, NEW e \in B,
         \A name : name \in W2 <=> name \in W /\ name # EsiName(id[e]),
         \A f \in B : f \in H2 <=> f \in H \/ f = e
  PROVE  Consistent(B, M, W2, id, c, H2)
<1>1. \A f \in B : f # e => EsiName(id[f]) # EsiName(id[e])
  BY EsiNameInjective DEF Consistent
<1> QED
  BY <1>1 DEF Consistent

\* MoveToReady: who was in hand is not parked any more.
LEMMA ConsistentWake ==
  ASSUME NEW B, NEW M, NEW W, NEW id, NEW c, NEW H, Consistent(B, M, W, id, c, H),
         NEW id2, NEW H2, NEW e \in B, e \in H,
         \A f \in M : id2[f] = id[f],
         \A f \in B \ {e} : f \in H2 <=> f \in H
  PROVE  Consistent(B \ {e}, M, W, id2, c, H2)
<1>1. EsiName(id[e]) \notin W
  BY DEF Consistent
<1> QED
  BY <1>1 DEF Consistent

-----------------------------------------------------------------------------
ids   == [e \in ESI |-> esi[e].id]
hands == {e \in ESI : InHand(e)}

NamesConsistent ==
  Consistent(ToSet(blocked_queue), ToSet(esi_sockets_list), WaitingNames(taken_keys),
             ids, esi_id_counter, hands)

\* ParkedInv with its part about names in terms of sets.
NamesInv == QueueInv /\ HandParked /\ OnceWaiting(taken_keys) /\ NamesConsistent

LEMMA IdsAndHands ==
  /\ \A e \in ESI : ids[e] = esi[e].id /\ ids'[e] = esi'[e].id
  /\ \A e \in ESI : (e \in hands <=> InHand(e)) /\ (e \in hands' <=> InHand(e)')
  BY DEF ids, hands

LEMMA ParkedESI ==
  ASSUME ListsTypeOK, QueuePartition
  PROVE  /\ ToSet(blocked_queue) \subseteq ToSet(esi_sockets_list)
         /\ ToSet(running_queue) \subseteq ToSet(esi_sockets_list)
         /\ ToSet(running_queue) \cap ToSet(blocked_queue) = {}
         /\ ToSet(esi_sockets_list) \subseteq ESI
  BY PartitionOfSets, ElementsOfSeq DEF Partition, ListsTypeOK

LEMMA NamesInvIsParkedInv == NamesInv <=> ParkedInv
<1> DEFINE B == ToSet(blocked_queue)
           M == ToSet(esi_sockets_list)
           W == WaitingNames(taken_keys)
<1>1. ASSUME QueueInv
      PROVE  NamesConsistent <=>
               IdsDiffer /\ WaitersParked /\ \A name \in W : ParkedAs(name)
  <2>1. B \subseteq M /\ M \subseteq ESI
    BY <1>1, ParkedESI DEF QueueInv, PlannerInv, PlannerTypeOK
  <2>2. \A e \in ESI : ids[e] \in Nat
    BY <1>1 DEF ids, QueueInv, PlannerInv, PlannerTypeOK, EsisTypeOK, ESIRecord
  <2> HIDE DEF B, M, W
  <2>3. ASSUME IdsDiffer, WaitersParked, \A name \in W : ParkedAs(name)
        PROVE  Consistent(B, M, W, ids, esi_id_counter, hands)
    BY <2>1, <2>2, <2>3, IdsAndHands
       DEF IdsDiffer, WaitersParked, Waiting, ParkedAs, Consistent, B, M, W
  <2>4. ASSUME Consistent(B, M, W, ids, esi_id_counter, hands)
        PROVE  IdsDiffer /\ WaitersParked /\ \A name \in W : ParkedAs(name)
    <3>1. \A e \in M : EsiName(ids[e]) \in W => e \in B
      BY <2>4, ConsistentWaiter
    <3> QED
      BY <2>1, <2>2, <2>4, <3>1, IdsAndHands
         DEF IdsDiffer, WaitersParked, Waiting, ParkedAs, Consistent, B, M, W
  <2> QED
    BY <2>3, <2>4 DEF NamesConsistent, B, M, W
<1> QED
  BY <1>1 DEF NamesInv, ParkedInv

\* NamesConsistent of the next state.
LEMMA NamesConsistentNext ==
  ASSUME Consistent(ToSet(blocked_queue'), ToSet(esi_sockets_list'), WaitingNames(taken_keys'),
                    ids', esi_id_counter', hands')
  PROVE  NamesConsistent'
  BY DEF NamesConsistent, Consistent

\* While the listening thread handles a message nobody releases a key.
LEMMA ListenIdle ==
  ASSUME "console" \notin Windows, OneAtATime, ListenNext
  PROVE  \A u \in Releaser : release[u].pc = "idle"
<1>1. Select \/ listen.pc # "select"
  BY DEF ListenNext, RegisterEsi, EsiFinished, Undecoded, LostSocket, HandshakeStatus,
         HandshakeHeader, HandshakeName, LineOk, StatusChanged, GetAllowed, GetDenied,
         block_esi, WaitForKey, CheckOwner
<1> QED
  BY <1>1 DEF Select, OneAtATime, ListenerFree, ConsoleFree, Releaser

\* An ESI keeps its number once it is registered.
LEMMA IdsKept ==
  ASSUME PlannerInv, [PlannerNext]_plannerVars, \A e \in ESI : ~RegisterEsi(e)
  PROVE  /\ \A e \in ESI : ids'[e] = ids[e]
         /\ UNCHANGED <<esi_sockets_list, esi_id_counter>>
<1> USE DEF PlannerInv, PlannerTypeOK
<1>1. \A e \in ESI : esi[e] \in ESIRecord
  BY DEF EsisTypeOK
<1>2. \A e \in ESI : started(esi[e]).id = esi[e].id /\ estimated(esi[e]).id = esi[e].id
  BY <1>1 DEF started, estimated, ESIRecord
<1>3. \A e \in ESI : [estimated(esi[e]) EXCEPT !.status = "STATUS_FINISHED"].id = esi[e].id
  <2>1. \A e \in ESI : estimated(esi[e]) \in ESIRecord
    BY <1>1, TurnType
  <2> QED
    BY <1>2, <2>1 DEF ESIRecord
<1>4. ASSUME NEW f \in ESI, NEW r, r.id = esi[f].id, esi' = [esi EXCEPT ![f] = r]
      PROVE  \A e \in ESI : esi'[e].id = esi[e].id
  BY <1>4 DEF EsisTypeOK
<1>5. CASE ListenNext
  <2>1. /\ running_queue # <<>> => Head(running_queue) \in ESI
        /\ FindEsi(running_queue, listen.name) # 0
             => running_queue[FindEsi(running_queue, listen.name)] \in ESI
    BY FindEsiRange DEF ListsTypeOK
  <2>2. CASE \E e \in ESI : EsiFinished(e)
    BY <1>3, <1>4, <2>1, <2>2, IdsAndHands DEF EsiFinished
  <2>3. CASE HandshakeStatus
    <3>1. listen.esi \in ESI
      BY <2>3 DEF HandshakeStatus, LocalsSound, Answering
    <3>2. [esi[listen.esi] EXCEPT !.status = "STATUS_READY"].id = esi[listen.esi].id
      BY <1>1, <3>1 DEF ESIRecord
    <3> QED
      BY <1>4, <2>3, <3>1, <3>2, IdsAndHands DEF HandshakeStatus
  <2>4. CASE LineOk
    <3> DEFINE h == Head(running_queue)
    <3>1. h \in ESI
      BY <2>1, <2>4 DEF LineOk
    <3>2. [esi[h] EXCEPT !.program_counter = @ + 1].id = esi[h].id
      BY <1>1, <3>1 DEF ESIRecord
    <3> QED
      BY <1>4, <2>4, <3>1, <3>2, IdsAndHands DEF LineOk
  <2>5. CASE block_esi
    BY <1>2, <1>4, <2>1, <2>5, IdsAndHands DEF block_esi
  <2>6. CASE \/ \E e \in ESI : Undecoded(e) \/ LostSocket(e)
             \/ HandshakeHeader \/ HandshakeName \/ StatusChanged \/ GetAllowed
             \/ GetDenied \/ WaitForKey \/ CheckOwner
    BY <2>6, IdsAndHands DEF Undecoded, LostSocket, HandshakeHeader, HandshakeName,
       StatusChanged, GetAllowed, GetDenied, WaitForKey, CheckOwner, plannerVars
  <2>7. UNCHANGED <<esi_sockets_list, esi_id_counter>>
    BY <1>5 DEF ListenNext, EsiFinished, Undecoded, LostSocket, HandshakeStatus,
       HandshakeHeader, HandshakeName, LineOk, StatusChanged, GetAllowed, GetDenied,
       block_esi, WaitForKey, CheckOwner, plannerVars
  <2> QED
    BY <1>5, <2>2, <2>3, <2>4, <2>5, <2>6, <2>7 DEF ListenNext
<1>6. CASE RunNext
  <2>1. UNCHANGED <<esi_sockets_list, esi_id_counter>>
    BY <1>6 DEF RunNext, RunPoll, RunTake, RunPut, RunStart, ClearRedo
  <2>2. run.pc \in {"start", "redo"} => run.esi \in ESI
    BY DEF LocalsSound
  <2>3. run.pc = "redo" =>
          [esi[run.esi] EXCEPT !.redo_last_operation = FALSE].id = esi[run.esi].id
    BY <1>1, <2>2 DEF ESIRecord
  <2>4. \A e \in ESI : esi'[e].id = esi[e].id
    BY <1>2, <1>4, <1>6, <2>2, <2>3 DEF RunNext, RunPoll, RunTake, RunPut, RunStart, ClearRedo
  <2> QED
    BY <2>1, <2>4, IdsAndHands
<1>7. ASSUME NEW t \in Releaser, ReleaseNext(t)
      PROVE  (\A e \in ESI : ids'[e] = ids[e]) /\ UNCHANGED <<esi_sockets_list, esi_id_counter>>
  <2>1. CASE MoveToReady(t)
    <3>1. release[t].esi \in ESI
      BY <2>1 DEF MoveToReady, LocalsSound
    <3>2. [esi[release[t].esi] EXCEPT !.redo_last_operation = TRUE].id = esi[release[t].esi].id
      BY <1>1, <3>1 DEF ESIRecord
    <3> QED
      BY <1>4, <2>1, <3>1, <3>2, IdsAndHands DEF MoveToReady, ToRepeat
  <2>2. CASE FindWaiting(t) \/ UnlinkWaiting(t) \/ LocateBlocked(t)
    BY <2>2, IdsAndHands DEF FindWaiting, UnlinkWaiting, LocateBlocked
  <2> QED
    BY <1>7, <2>1, <2>2 DEF ReleaseNext
<1>8. CASE ConsoleNext \/ Segfault \/ UNCHANGED plannerVars
  BY <1>8, IdsAndHands DEF ConsoleNext, pause, resume, block, unblock, quit, EndOfInput, Command,
     Segfault, plannerVars
<1> QED
  BY <1>5, <1>6, <1>7, <1>8 DEF PlannerNext

-----------------------------------------------------------------------------
\* A step that parks nobody, wakes nobody and changes no waiter.
LEMMA QuietStep ==
  ASSUME NamesInv, UNCHANGED <<blocked_queue, taken_keys, release>>,
         listen' = listen \/ (listen.pc # "wait" /\ listen'.pc # "wait"),
         \A e \in ESI : ids'[e] = ids[e], UNCHANGED <<esi_sockets_list, esi_id_counter>>
  PROVE  NamesConsistent' /\ OnceWaiting(taken_keys)' /\ HandParked'
<1> USE DEF NamesInv, QueueInv, PlannerInv, PlannerTypeOK
<1>1. /\ ToSet(blocked_queue) \subseteq ESI /\ ToSet(esi_sockets_list) \subseteq ESI
      /\ \A e \in ESI : esi'[e].id = esi[e].id
  BY ParkedESI, IdsAndHands
<1>2. \A e \in ToSet(blocked_queue) : InHand(e)' <=> InHand(e)
  BY <1>1 DEF InHand
<1>3. NamesConsistent'
  <2>1. \A e \in ToSet(blocked_queue) : e \in hands' <=> e \in hands
    BY <1>1, <1>2, IdsAndHands
  <2> QED
    BY <1>1, <2>1, ConsistentSame, NamesConsistentNext DEF NamesConsistent
<1>4. \A name : ParkedAs(name)' <=> ParkedAs(name)
  BY <1>1 DEF ParkedAs
<1>5. HandParked'
  BY <1>4 DEF HandParked
<1> QED
  BY <1>3, <1>5

\* A step of a thread that changes who holds a key, while nobody is in hand.
LEMMA HolderStep ==
  ASSUME NamesInv, UNCHANGED <<blocked_queue, listen>>, listen.pc # "wait",
         \A u \in Releaser : release[u].pc = "idle" /\ release'[u].pc \in {"idle", "find"},
         OnceWaiting(taken_keys'),
         \A name : name \in WaitingNames(taken_keys') <=> name \in WaitingNames(taken_keys),
         \A e \in ESI : ids'[e] = ids[e], UNCHANGED <<esi_sockets_list, esi_id_counter>>
  PROVE  NamesConsistent' /\ OnceWaiting(taken_keys)' /\ HandParked'
<1> USE DEF NamesInv, QueueInv, PlannerInv, PlannerTypeOK
<1>1. ToSet(blocked_queue) \subseteq ESI /\ ToSet(esi_sockets_list) \subseteq ESI
  BY ParkedESI
<1>2. \A e \in ESI : ~InHand(e) /\ ~InHand(e)'
  BY DEF InHand
<1>3. NamesConsistent'
  <2>1. \A e \in ToSet(blocked_queue) : e \in hands' <=> e \in hands
    BY <1>1, <1>2, IdsAndHands
  <2> QED
    BY <1>1, <2>1, ConsistentSame, NamesConsistentNext DEF NamesConsistent
<1>4. HandParked'
  BY DEF HandParked
<1> QED
  BY <1>3, <1>4

\* RegisterEsi: nobody has the number that the counter gives.
LEMMA RegisterStep ==
  ASSUME NamesInv, "console" \notin Windows, NEW e \in ESI, RegisterEsi(e)
  PROVE  NamesConsistent' /\ OnceWaiting(taken_keys)' /\ HandParked'
<1> USE DEF NamesInv, QueueInv, PlannerInv, PlannerTypeOK
<1>1. /\ UNCHANGED <<blocked_queue, taken_keys, release>>
      /\ esi' = [esi EXCEPT ![e] = register_esi(esi_id_counter)]
      /\ esi_id_counter' = esi_id_counter + 1 /\ esi_id_counter \in Nat
      /\ esi_sockets_list' = Append(esi_sockets_list, e)
      /\ listen.pc # "wait" /\ listen'.pc # "wait"
      /\ \A u \in Releaser : release[u].pc = "idle"
  BY DEF RegisterEsi, Select, ListenerFree, ConsoleFree, EsisTypeOK, ThreadsTypeOK, OneAtATime,
         Releaser
<1>2. /\ e \notin ToSet(esi_sockets_list)
      /\ ToSet(esi_sockets_list') = ToSet(esi_sockets_list) \cup {e}
  BY <1>1, RegisterPartition, AppendElements DEF ListsTypeOK
<1>3. ToSet(blocked_queue) \subseteq ToSet(esi_sockets_list) /\ ToSet(esi_sockets_list) \subseteq ESI
  BY ParkedESI
<1>4. /\ esi'[e].id = esi_id_counter
      /\ \A f \in ESI : f # e => esi'[f].id = esi[f].id
  BY <1>1 DEF EsisTypeOK, register_esi
<1>5. \A f \in ESI : ~InHand(f) /\ ~InHand(f)'
  BY <1>1 DEF InHand
<1>6. NamesConsistent'
  <2>1. ids'[e] = esi_id_counter /\ \A f \in ToSet(esi_sockets_list) : ids'[f] = ids[f]
    BY <1>2, <1>3, <1>4, IdsAndHands
  <2>2. \A f \in ToSet(blocked_queue) : f \in hands' <=> f \in hands
    BY <1>3, <1>5, IdsAndHands
  <2> QED
    BY <1>1, <1>2, <2>1, <2>2, ConsistentRegister, NamesConsistentNext DEF NamesConsistent
<1>7. HandParked'
  BY <1>1 DEF HandParked
<1> QED
  BY <1>1, <1>6, <1>7

\* block_esi: the ESI that was refused is parked, and in hand until it waits.
LEMMA ParkStep ==
  ASSUME NamesInv, "console" \notin Windows, block_esi,
         \A e \in ESI : ids'[e] = ids[e], UNCHANGED <<esi_sockets_list, esi_id_counter>>
  PROVE  NamesConsistent' /\ OnceWaiting(taken_keys)' /\ HandParked'
<1> USE DEF NamesInv, QueueInv, PlannerInv, PlannerTypeOK
<1> DEFINE n == FindEsi(running_queue, listen.name)
<1>1. /\ n # 0 /\ blocked_queue' = Append(blocked_queue, running_queue[n])
      /\ UNCHANGED <<taken_keys, release>>
      /\ listen.pc # "wait" /\ listen'.pc = "wait" /\ listen'.name = listen.name
  BY DEF block_esi, ThreadsTypeOK
<1>2. \A u \in Releaser : release[u].pc = "idle"
  BY ListenIdle DEF ListenNext
<1>3. PICK e \in ToSet(running_queue) : e = running_queue[n] /\ EsiName(esi[e].id) = listen.name
  BY <1>1, FindEsiFound DEF ListsTypeOK
<1> HIDE DEF n
<1>4. /\ ToSet(blocked_queue) \subseteq ESI /\ ToSet(esi_sockets_list) \subseteq ESI
      /\ e \in ToSet(esi_sockets_list) /\ e \notin ToSet(blocked_queue) /\ e \in ESI
  BY ParkedESI
<1>5. ToSet(blocked_queue') = ToSet(blocked_queue) \cup {e}
  BY <1>1, <1>3, <1>4, AppendElements DEF ListsTypeOK
<1>6. \A f \in ESI : esi'[f].id = esi[f].id
  BY IdsAndHands
<1>7. \A f \in ESI : ~InHand(f) /\ (InHand(f)' <=> EsiName(esi[f].id) = listen.name)
  BY <1>1, <1>2, <1>6 DEF InHand
<1>8. \A f \in ToSet(esi_sockets_list) : EsiName(esi[f].id) = listen.name => f = e
  BY <1>3, <1>4, IdsAndHands, EsiNameInjective DEF NamesConsistent, Consistent
<1>9. NamesConsistent'
  <2>1. e \in hands'
    BY <1>3, <1>4, <1>7, IdsAndHands
  <2>2. \A f \in ToSet(blocked_queue) : f \in hands' <=> f \in hands
    <3>1. \A f \in ToSet(blocked_queue) : f # e /\ f \in ToSet(esi_sockets_list)
      BY <1>4, ParkedESI
    <3> QED
      BY <1>4, <1>7, <1>8, <3>1, IdsAndHands
  <2>3. \A f \in ToSet(esi_sockets_list) : ids'[f] = ids[f]
    BY <1>4
  <2> QED
    BY <1>1, <1>4, <1>5, <2>1, <2>2, <2>3, ConsistentPark, NamesConsistentNext
       DEF NamesConsistent
<1>10. HandParked'
  <2>1. ParkedAs(listen.name)'
    BY <1>1, <1>3, <1>4, <1>5, <1>6 DEF ParkedAs
  <2> QED
    BY <1>1, <1>2, <2>1 DEF HandParked
<1> QED
  BY <1>1, <1>9, <1>10

\* WaitForKey: who is in hand waits.
LEMMA WaitingStep ==
  ASSUME NamesInv, "console" \notin Windows, WaitForKey,
         \A e \in ESI : ids'[e] = ids[e], UNCHANGED <<esi_sockets_list, esi_id_counter>>
  PROVE  NamesConsistent' /\ OnceWaiting(taken_keys)' /\ HandParked'
<1> USE DEF NamesInv, QueueInv, PlannerInv, PlannerTypeOK
<1> DEFINE node == Node(listen.name, listen.key, "WAITING")
<1>1. /\ listen.pc = "wait" /\ listen'.pc # "wait"
      /\ taken_keys' = Append(taken_keys, node)
      /\ UNCHANGED <<blocked_queue, release>>
  BY DEF WaitForKey, wait_for_key, Listening, queues
<1>2. node \in KeyNode /\ node.status = "WAITING" /\ node.ESIName = listen.name
  BY <1>1 DEF Node, KeyNode, LocalsSound, ThreadsTypeOK
<1> HIDE DEF node
<1>3. \A u \in Releaser : release[u].pc = "idle"
  BY ListenIdle DEF ListenNext
<1>4. PICK e \in ToSet(blocked_queue) : EsiName(esi[e].id) = listen.name
  BY <1>1 DEF HandParked, ParkedAs
<1>5. /\ ToSet(blocked_queue) \subseteq ESI /\ ToSet(esi_sockets_list) \subseteq ESI
      /\ ToSet(blocked_queue) \subseteq ToSet(esi_sockets_list)
  BY ParkedESI
<1>6. \A f \in ESI : InHand(f) <=> EsiName(ids[f]) = EsiName(ids[e])
  BY <1>1, <1>3, <1>4, <1>5, IdsAndHands DEF InHand
<1>7. \A f \in ESI : ~InHand(f)'
  BY <1>1, <1>3 DEF InHand
<1>8. EsiName(ids[e]) = listen.name /\ EsiName(ids[e]) \notin WaitingNames(taken_keys)
  BY <1>4, <1>5, <1>6, IdsAndHands DEF NamesConsistent, Consistent
<1>9. OnceWaiting(taken_keys')
  BY <1>1, <1>2, <1>8, AppendWaiting DEF ListsTypeOK
<1>10. NamesConsistent'
  <2>1. \A f \in ToSet(blocked_queue) : f \in hands' <=> f \in hands /\ f # e
    <3>1. \A f \in ToSet(blocked_queue) : f # e => EsiName(ids[f]) # EsiName(ids[e])
      BY <1>5, EsiNameInjective DEF NamesConsistent, Consistent
    <3> QED
      BY <1>5, <1>6, <1>7, <3>1, IdsAndHands
  <2>2. \A name : name \in WaitingNames(taken_keys')
                    <=> name \in WaitingNames(taken_keys) \/ name = EsiName(ids[e])
    BY <1>1, <1>2, <1>8, AppendWaiting DEF ListsTypeOK
  <2>3. Consistent(ToSet(blocked_queue), ToSet(esi_sockets_list), WaitingNames(taken_keys'),
                   ids, esi_id_counter, hands')
    BY <2>1, <2>2, ConsistentWait DEF NamesConsistent
  <2>4. Consistent(ToSet(blocked_queue), ToSet(esi_sockets_list), WaitingNames(taken_keys'),
                   ids', esi_id_counter, hands')
    BY <1>5, <2>3, ConsistentSame
  <2> QED
    BY <1>1, <2>4, NamesConsistentNext
<1>11. HandParked'
  BY <1>1, <1>3 DEF HandParked
<1> QED
  BY <1>9, <1>10, <1>11

\* load_key and release_key change no waiter.
LEMMA HolderNames ==
  ASSUME ListsTypeOK, OnceWaiting(taken_keys), NEW name \in Name, NEW key \in Key,
         \/ taken_keys' = load_key(taken_keys, key, name)
         \/ taken_keys' = Unlink(taken_keys, key, "BLOCKED")
  PROVE  /\ OnceWaiting(taken_keys')
         /\ \A x : x \in WaitingNames(taken_keys') <=> x \in WaitingNames(taken_keys)
<1> DEFINE node == Node(name, key, "BLOCKED")
<1>1. node \in KeyNode /\ node.status # "WAITING"
  BY DEF Node, KeyNode
<1> HIDE DEF node
<1>2. CASE taken_keys' = load_key(taken_keys, key, name)
  <2>1. taken_keys' = Append(taken_keys, node)
    BY <1>2 DEF load_key, node
  <2> QED
    BY <1>1, <2>1, AppendWaiting DEF ListsTypeOK
<1>3. CASE taken_keys' = Unlink(taken_keys, key, "BLOCKED")
  BY <1>3, UnlinkWaiters DEF ListsTypeOK
<1> QED
  BY <1>2, <1>3

\* RESOURCE_STATUS_CHANGE_TO_PLANNER.
LEMMA StatusStep ==
  ASSUME NamesInv, "console" \notin Windows, StatusChanged,
         \A e \in ESI : ids'[e] = ids[e], UNCHANGED <<esi_sockets_list, esi_id_counter>>
  PROVE  NamesConsistent' /\ OnceWaiting(taken_keys)' /\ HandParked'
<1> USE DEF NamesInv, QueueInv, PlannerInv, PlannerTypeOK
<1> DEFINE c == Head(coord_planner).content
<1>1. c.key \in Key /\ c.ESIName \in Name
  BY FrameContent DEF StatusChanged, FromCoordinator, Arrives
<1>2. /\ \A u \in Releaser : release[u].pc = "idle"
      /\ listen.pc # "wait" /\ UNCHANGED <<blocked_queue, listen>> /\ "listen" \in Releaser
  BY DEF StatusChanged, Select, ListenerFree, ConsoleFree, Releaser, queues
<1>3. \/ taken_keys' = load_key(taken_keys, c.key, c.ESIName) /\ UNCHANGED release
      \/ StartRelease("listen", c.key)
  BY DEF StatusChanged
<1> HIDE DEF c
<1>4. \A u \in Releaser : release'[u].pc \in {"idle", "find"}
  BY <1>1, <1>2, <1>3, StartReleaseType DEF StartRelease
<1>5. /\ OnceWaiting(taken_keys')
      /\ \A x : x \in WaitingNames(taken_keys') <=> x \in WaitingNames(taken_keys)
  BY <1>1, <1>3, HolderNames DEF StartRelease
<1> QED
  BY <1>2, <1>4, <1>5, HolderStep

\* A holder that joins the list moves no WAITING node.
LEMMA AppendedSearch ==
  ASSUME NEW S, NEW keys \in Seq(S), NEW node \in S, node.status # "WAITING", NEW key
  PROVE  /\ Search(Append(keys, node), key, "WAITING") = Search(keys, key, "WAITING")
         /\ \A n \in 1..Len(keys) : Append(keys, node)[n] = keys[n]
<1> DEFINE q == Append(keys, node)
           I == {i \in 1..Len(keys) : keys[i].key = key /\ keys[i].status = "WAITING"}
           J == {i \in 1..Len(q) : q[i].key = key /\ q[i].status = "WAITING"}
<1>1. /\ Len(q) = Len(keys) + 1 /\ Len(keys) \in Nat
      /\ \A i \in 1..Len(keys) + 1 : q[i] = IF i = Len(keys) + 1 THEN node ELSE keys[i]
  BY AppendProperties
<1>2. I = J
  <2> HIDE DEF q
  <2> QED
    BY <1>1
<1>3. /\ Search(keys, key, "WAITING") = IF I # {} THEN Min(I) ELSE 0
      /\ Search(q, key, "WAITING") = IF J # {} THEN Min(J) ELSE 0
  BY DEF Search, SelectInSeq
<1> HIDE DEF q, I, J
<1> QED
  BY <1>1, <1>2, <1>3 DEF q

\* block, whatever the threads have in hand.
LEMMA BlockStep ==
  ASSUME NamesInv, NEW c \in Commands, block(c),
         \A e \in ESI : ids'[e] = ids[e], UNCHANGED <<esi_sockets_list, esi_id_counter>>
  PROVE  NamesConsistent' /\ OnceWaiting(taken_keys)' /\ HandParked'
<1> USE DEF NamesInv, QueueInv, PlannerInv, PlannerTypeOK
<1> DEFINE node == Node(ConsoleName(c.id), ConsoleKey(c.key), "BLOCKED")
<1>1. node \in KeyNode /\ node.status # "WAITING"
  <2>1. ConsoleKey(c.key) \in Key /\ ConsoleName(c.id) \in Name
    BY ConfigAssumption, ConsoleNameIsName DEF block, ConsoleKey
  <2> QED
    BY <2>1 DEF Node, KeyNode
<1>2. /\ taken_keys' = Append(taken_keys, node)
      /\ UNCHANGED <<blocked_queue, release, listen>>
  BY DEF block, load_key, Command, queues
<1> HIDE DEF node
<1>3. /\ OnceWaiting(taken_keys)'
      /\ \A x : x \in WaitingNames(taken_keys') <=> x \in WaitingNames(taken_keys)
  BY <1>1, <1>2, AppendWaiting DEF ListsTypeOK
<1>4. ToSet(blocked_queue) \subseteq ESI /\ ToSet(esi_sockets_list) \subseteq ESI
  BY ParkedESI
<1>5. \A e \in ESI : esi'[e].id = esi[e].id
  BY IdsAndHands
<1>6. NamesConsistent'
  <2>1. \A e \in ESI : InHand(e)' <=> InHand(e)
    BY <1>2, <1>5 DEF InHand
  <2>2. \A e \in ToSet(blocked_queue) : e \in hands' <=> e \in hands
    BY <1>4, <2>1, IdsAndHands
  <2> QED
    BY <1>2, <1>3, <1>4, <2>2, ConsistentSame, NamesConsistentNext DEF NamesConsistent
<1>7. HandParked'
  <2>1. \A x : ParkedAs(x)' <=> ParkedAs(x)
    BY <1>2, <1>4, <1>5 DEF ParkedAs
  <2>2. (listen.pc = "wait" => ParkedAs(listen.name))'
    BY <1>2, <2>1 DEF HandParked
  <2>3. ASSUME NEW t \in Releaser, release[t].pc = "unlink"
        PROVE  /\ HasNode(taken_keys', release[t].key, "WAITING")
               /\ taken_keys'[Search(taken_keys', release[t].key, "WAITING")].ESIName
                    = release[t].name
    <3> DEFINE n == Search(taken_keys, release[t].key, "WAITING")
    <3>1. HasNode(taken_keys, release[t].key, "WAITING") /\ taken_keys[n].ESIName = release[t].name
      BY <2>3 DEF HandParked
    <3>2. HasNode(taken_keys', release[t].key, "WAITING")
      BY <1>1, <1>2, <3>1, AppendNode DEF ListsTypeOK
    <3>3. n \in 1..Len(taken_keys)
      BY <3>1, SearchProperties DEF ListsTypeOK
    <3>4. Search(taken_keys', release[t].key, "WAITING") = n /\ taken_keys'[n] = taken_keys[n]
      BY <1>1, <1>2, <3>3, AppendedSearch DEF ListsTypeOK
    <3> QED
      BY <3>1, <3>2, <3>4
  <2>4. \A t \in Releaser : release[t].pc = "locate" => ParkedAs(release[t].name)
    BY DEF HandParked
  <2> QED
    BY <1>2, <2>1, <2>2, <2>3, <2>4 DEF HandParked
<1> QED
  BY <1>3, <1>6, <1>7

\* unblock, while nobody is in hand.
LEMMA UnblockStep ==
  ASSUME NamesInv, "console" \notin Windows, NEW c \in Commands, unblock(c),
         \A e \in ESI : ids'[e] = ids[e], UNCHANGED <<esi_sockets_list, esi_id_counter>>
  PROVE  NamesConsistent' /\ OnceWaiting(taken_keys)' /\ HandParked'
<1> USE DEF NamesInv, QueueInv, PlannerInv, PlannerTypeOK
<1>1. ConsoleKey(c.key) \in Key /\ StartRelease("console", ConsoleKey(c.key))
  BY ConfigAssumption DEF unblock, ConsoleKey
<1>2. /\ \A u \in Releaser : release[u].pc = "idle"
      /\ listen.pc # "wait" /\ UNCHANGED <<blocked_queue, listen>> /\ "console" \in Releaser
  BY DEF unblock, Command, Undisturbed, ListenerFree, ConsoleFree, Releaser, queues
<1>3. \A u \in Releaser : release'[u].pc \in {"idle", "find"}
  BY <1>1, <1>2, StartReleaseType DEF StartRelease
<1>4. /\ OnceWaiting(taken_keys')
      /\ \A x : x \in WaitingNames(taken_keys') <=> x \in WaitingNames(taken_keys)
  BY <1>1, NoNameIsName, HolderNames DEF StartRelease
<1> QED
  BY <1>2, <1>3, <1>4, HolderStep

-----------------------------------------------------------------------------
\* The release loop: its thread is the only one with somebody in hand.
LEMMA LoopAlone ==
  ASSUME OneAtATime, ThreadsTypeOK, NEW t \in Releaser, ReleaseNext(t)
  PROVE  /\ listen.pc = "select" /\ UNCHANGED listen
         /\ \A u \in Releaser : u # t => release[u].pc = "idle" /\ release'[u].pc = "idle"
<1>1. /\ release[t].pc # "idle" /\ UNCHANGED listen
      /\ \A u \in Releaser : u # t => release'[u] = release[u]
  BY ReleaseNextLocals
<1> QED
  BY <1>1 DEF OneAtATime, ListenerFree, Releaser

\* FindWaiting: the node it finds is there.
LEMMA FindStep ==
  ASSUME NamesInv, NEW t \in Releaser, FindWaiting(t),
         \A e \in ESI : ids'[e] = ids[e], UNCHANGED <<esi_sockets_list, esi_id_counter>>
  PROVE  NamesConsistent' /\ OnceWaiting(taken_keys)' /\ HandParked'
<1> USE DEF NamesInv, QueueInv, PlannerInv, PlannerTypeOK
<1> DEFINE r == release[t]
           n == Search(taken_keys, r.key, "WAITING")
<1>1. /\ listen.pc = "select" /\ UNCHANGED <<listen, blocked_queue, taken_keys>>
      /\ \A u \in Releaser : u # t => release[u].pc = "idle" /\ release'[u].pc = "idle"
  BY LoopAlone DEF ReleaseNext, FindWaiting, queues
<1>2. /\ r.pc = "find" /\ r \in ReleaseRecord
      /\ release'[t] = IF n = 0 THEN NoRelease
                       ELSE [r EXCEPT !.pc = "unlink", !.name = taken_keys[n].ESIName]
  BY DEF FindWaiting, ThreadsTypeOK
<1>3. HasNode(taken_keys, r.key, "WAITING") <=> n # 0
  BY SearchProperties DEF ListsTypeOK
<1> HIDE DEF n
<1>4. \/ release'[t].pc = "idle"
      \/ /\ release'[t].pc = "unlink" /\ release'[t].key = r.key
         /\ release'[t].name = taken_keys[n].ESIName /\ n # 0
  BY <1>2 DEF NoRelease, ReleaseRecord
<1>5. /\ ToSet(blocked_queue) \subseteq ESI /\ ToSet(esi_sockets_list) \subseteq ESI
      /\ \A e \in ESI : ~InHand(e) /\ ~InHand(e)'
  BY <1>1, <1>2, <1>4, ParkedESI DEF InHand
<1>6. NamesConsistent'
  <2>1. \A e \in ToSet(blocked_queue) : e \in hands' <=> e \in hands
    BY <1>5, IdsAndHands
  <2> QED
    BY <1>1, <1>5, <2>1, ConsistentSame, NamesConsistentNext DEF NamesConsistent
<1>7. HandParked'
  <2>1. /\ release'[t].pc # "locate" /\ listen'.pc # "wait"
        /\ release'[t].pc = "unlink" =>
             /\ HasNode(taken_keys', release'[t].key, "WAITING")
             /\ taken_keys'[Search(taken_keys', release'[t].key, "WAITING")].ESIName
                  = release'[t].name
    BY <1>1, <1>3, <1>4 DEF n
  <2> QED
    BY <1>1, <2>1 DEF HandParked
<1> QED
  BY <1>1, <1>6, <1>7

\* UnlinkWaiting: who waited is in hand, and parked.
LEMMA UnlinkStep ==
  ASSUME NamesInv, NEW t \in Releaser, UnlinkWaiting(t),
         \A e \in ESI : ids'[e] = ids[e], UNCHANGED <<esi_sockets_list, esi_id_counter>>
  PROVE  NamesConsistent' /\ OnceWaiting(taken_keys)' /\ HandParked'
<1> USE DEF NamesInv, QueueInv, PlannerInv, PlannerTypeOK
<1> DEFINE r == release[t]
           n == Search(taken_keys, r.key, "WAITING")
<1>1. /\ listen.pc = "select" /\ UNCHANGED <<listen, blocked_queue>>
      /\ \A u \in Releaser : u # t => release[u].pc = "idle" /\ release'[u].pc = "idle"
  BY LoopAlone DEF ReleaseNext, UnlinkWaiting, queues
<1>2. /\ r.pc = "unlink" /\ taken_keys' = Unlink(taken_keys, r.key, "WAITING")
      /\ release'[t].pc = "locate" /\ release'[t].name = r.name
  BY DEF UnlinkWaiting, ThreadsTypeOK, ReleaseRecord
<1>3. HasNode(taken_keys, r.key, "WAITING") /\ taken_keys[n].ESIName = r.name
  BY <1>2 DEF HandParked
<1>4. n \in 1..Len(taken_keys) /\ taken_keys[n].status = "WAITING"
  BY <1>3, SearchProperties DEF ListsTypeOK
<1>5. /\ OnceWaiting(taken_keys')
      /\ \A x : x \in WaitingNames(taken_keys') <=> x \in WaitingNames(taken_keys) /\ x # r.name
  BY <1>2, <1>3, UnlinkWaiters DEF ListsTypeOK
<1>6. r.name \in WaitingNames(taken_keys)
  BY <1>3, <1>4, WaitingMember
<1> HIDE DEF n
<1>7. PICK e \in ToSet(blocked_queue) : EsiName(ids[e]) = r.name
  BY <1>6 DEF NamesConsistent, Consistent
<1>8. /\ ToSet(blocked_queue) \subseteq ESI /\ ToSet(esi_sockets_list) \subseteq ESI
      /\ ToSet(blocked_queue) \subseteq ToSet(esi_sockets_list)
  BY ParkedESI
<1>9. \A f \in ESI : ~InHand(f) /\ (InHand(f)' <=> EsiName(ids[f]) = r.name)
  <2>1. \A f \in ESI : ~InHand(f)
    BY <1>1, <1>2 DEF InHand
  <2>2. \A f \in ESI : InHand(f)' <=> EsiName(esi'[f].id) = r.name
    BY <1>1, <1>2 DEF InHand
  <2> QED
    BY <2>1, <2>2, IdsAndHands
<1>10. NamesConsistent'
  <2>1. \A f \in ToSet(blocked_queue) : f # e => EsiName(ids[f]) # EsiName(ids[e])
    BY <1>8, EsiNameInjective DEF NamesConsistent, Consistent
  <2>2. \A f \in ToSet(blocked_queue) : f \in hands' <=> f \in hands \/ f = e
    BY <1>7, <1>8, <1>9, <2>1, IdsAndHands
  <2>3. Consistent(ToSet(blocked_queue), ToSet(esi_sockets_list), WaitingNames(taken_keys'),
                   ids, esi_id_counter, hands')
    BY <1>5, <1>7, <2>2, ConsistentUnlink DEF NamesConsistent
  <2>4. Consistent(ToSet(blocked_queue), ToSet(esi_sockets_list), WaitingNames(taken_keys'),
                   ids', esi_id_counter, hands')
    BY <1>8, <2>3, ConsistentSame
  <2> QED
    BY <1>1, <2>4, NamesConsistentNext
<1>11. HandParked'
  <2>1. EsiName(esi'[e].id) = r.name /\ e \in ToSet(blocked_queue')
    BY <1>1, <1>7, <1>8, IdsAndHands
  <2>2. ParkedAs(release[t].name)'
    BY <1>2, <2>1 DEF ParkedAs
  <2> QED
    BY <1>1, <1>2, <2>2 DEF HandParked
<1> QED
  BY <1>5, <1>10, <1>11

\* LocateBlocked: the ESI that it finds is the one with the name.
LEMMA LocateStep ==
  ASSUME NamesInv, NEW t \in Releaser, LocateBlocked(t),
         \A e \in ESI : ids'[e] = ids[e], UNCHANGED <<esi_sockets_list, esi_id_counter>>
  PROVE  NamesConsistent' /\ OnceWaiting(taken_keys)' /\ HandParked'
<1> USE DEF NamesInv, QueueInv, PlannerInv, PlannerTypeOK
<1> DEFINE r == release[t]
           n == FindEsi(blocked_queue, r.name)
<1>1. /\ listen.pc = "select" /\ UNCHANGED <<listen, blocked_queue, taken_keys>>
      /\ \A u \in Releaser : u # t => release[u].pc = "idle" /\ release'[u].pc = "idle"
  BY LoopAlone DEF ReleaseNext, LocateBlocked, queues
<1>2. /\ r.pc = "locate" /\ n # 0
      /\ release'[t].pc = "move" /\ release'[t].esi = blocked_queue[n]
  BY DEF LocateBlocked, ThreadsTypeOK, ReleaseRecord
<1>3. PICK e \in ToSet(blocked_queue) : e = blocked_queue[n] /\ EsiName(esi[e].id) = r.name
  BY <1>2, FindEsiFound DEF ListsTypeOK
<1> HIDE DEF n
<1>4. /\ ToSet(blocked_queue) \subseteq ESI /\ ToSet(esi_sockets_list) \subseteq ESI
      /\ ToSet(blocked_queue) \subseteq ToSet(esi_sockets_list)
  BY ParkedESI
<1>5. \A f \in ESI : (InHand(f) <=> EsiName(ids[f]) = EsiName(ids[e])) /\ (InHand(f)' <=> f = e)
  <2>1. \A f \in ESI : InHand(f) <=> EsiName(esi[f].id) = r.name
    BY <1>1, <1>2 DEF InHand
  <2>2. \A f \in ESI : InHand(f)' <=> f = e
    BY <1>1, <1>2, <1>3 DEF InHand
  <2> QED
    BY <1>3, <1>4, <2>1, <2>2, IdsAndHands
<1>6. NamesConsistent'
  <2>1. \A f \in ToSet(blocked_queue) : EsiName(ids[f]) = EsiName(ids[e]) <=> f = e
    BY <1>4, EsiNameInjective DEF NamesConsistent, Consistent
  <2>2. \A f \in ToSet(blocked_queue) : f \in hands' <=> f \in hands
    BY <1>4, <1>5, <2>1, IdsAndHands
  <2> QED
    BY <1>1, <1>4, <2>2, ConsistentSame, NamesConsistentNext DEF NamesConsistent
<1>7. HandParked'
  BY <1>1, <1>2 DEF HandParked
<1> QED
  BY <1>1, <1>6, <1>7

\* MoveToReady: who was in hand is parked no more.
LEMMA MoveStep ==
  ASSUME NamesInv, NEW t \in Releaser, MoveToReady(t),
         \A e \in ESI : ids'[e] = ids[e], UNCHANGED <<esi_sockets_list, esi_id_counter>>
  PROVE  NamesConsistent' /\ OnceWaiting(taken_keys)' /\ HandParked'
<1> USE DEF NamesInv, QueueInv, PlannerInv, PlannerTypeOK
<1> DEFINE e == release[t].esi
           n == release[t].at
<1>1. /\ listen.pc = "select" /\ UNCHANGED <<listen, taken_keys>>
      /\ \A u \in Releaser : u # t => release[u].pc = "idle" /\ release'[u].pc = "idle"
  BY LoopAlone DEF ReleaseNext, MoveToReady
<1>2. /\ release[t].pc = "move" /\ release'[t].pc = "find"
      /\ n \in 1..Len(blocked_queue) /\ e = blocked_queue[n]
      /\ blocked_queue' = RemoveAt(blocked_queue, n)
  BY DEF MoveToReady, list_remove, NextWaiting, NoRelease, PositionHeld, ThreadsTypeOK, ListsTypeOK
<1>3. /\ e \in ToSet(blocked_queue) /\ ToSet(blocked_queue') = ToSet(blocked_queue) \ {e}
  BY <1>2, PartitionOfSets, RemoveAtElements, ElementsOfSeq DEF ListsTypeOK, OnceInEach
<1> HIDE DEF n
<1>4. /\ ToSet(blocked_queue) \subseteq ESI /\ ToSet(esi_sockets_list) \subseteq ESI
  BY ParkedESI
<1>5. \A f \in ESI : (InHand(f) <=> f = e) /\ ~InHand(f)'
  BY <1>1, <1>2 DEF InHand
<1> HIDE DEF e
<1>6. NamesConsistent'
  <2>1. e \in hands /\ \A f \in ToSet(blocked_queue) \ {e} : f \in hands' <=> f \in hands
    BY <1>3, <1>4, <1>5, IdsAndHands
  <2>2. \A f \in ToSet(esi_sockets_list) : ids'[f] = ids[f]
    BY <1>4
  <2> QED
    BY <1>1, <1>3, <2>1, <2>2, ConsistentWake, NamesConsistentNext DEF NamesConsistent
<1>7. HandParked'
  BY <1>1, <1>2 DEF HandParked
<1> QED
  BY <1>1, <1>6, <1>7

-----------------------------------------------------------------------------
\* An ESI that is answered or refused is not the one whose node is to join.
LEMMA NotWaiting ==
  ASSUME ThreadsTypeOK, HandshakeStatus \/ HandshakeHeader \/ HandshakeName \/ GetDenied
  PROVE  listen.pc # "wait" /\ listen'.pc # "wait"
<1>1. ASSUME NEW pc, NEW key, NEW name
      PROVE  /\ [listen EXCEPT !.pc = pc].pc = pc
             /\ [listen EXCEPT !.pc = pc, !.key = key, !.name = name].pc = pc
  BY DEF ThreadsTypeOK
<1>2. HandshakeStatus \/ HandshakeHeader =>
        \E pc \in Answering : listen' = [listen EXCEPT !.pc = pc]
  BY DEF HandshakeStatus, HandshakeHeader, Answering
<1>3. HandshakeName => listen' = Listening
  BY Zenon DEF HandshakeName
<1>4. GetDenied => \E key, name :
        listen' = [listen EXCEPT !.pc = "block", !.key = key, !.name = name]
  BY Zenon DEF GetDenied
<1>5. Listening.pc = "select"
  BY DEF Listening
<1>6. listen.pc # "wait"
  BY DEF HandshakeStatus, HandshakeHeader, HandshakeName, GetDenied, Select, ListenerFree
<1> QED
  BY <1>1, <1>2, <1>3, <1>4, <1>5, <1>6 DEF Answering

\* Every step of the planner keeps the two lists consistent.
LEMMA StepNames ==
  ASSUME NamesInv, "console" \notin Windows, [PlannerNext]_plannerVars
  PROVE  NamesConsistent' /\ OnceWaiting(taken_keys)' /\ HandParked'
<1>1. CASE \E e \in ESI : RegisterEsi(e)
  BY <1>1, RegisterStep
<1>2. CASE \A e \in ESI : ~RegisterEsi(e)
  <2>1. /\ \A e \in ESI : ids'[e] = ids[e]
        /\ UNCHANGED <<esi_sockets_list, esi_id_counter>>
    BY <1>2, IdsKept DEF NamesInv, QueueInv
  <2>2. CASE StatusChanged
    BY <2>1, <2>2, StatusStep
  <2>3. CASE block_esi
    BY <2>1, <2>3, ParkStep
  <2>4. CASE WaitForKey
    BY <2>1, <2>4, WaitingStep
  <2>5. CASE \E c \in Commands : block(c) \/ unblock(c)
    BY <2>1, <2>5, BlockStep, UnblockStep
  <2>6. ASSUME NEW t \in Releaser, ReleaseNext(t)
        PROVE  NamesConsistent' /\ OnceWaiting(taken_keys)' /\ HandParked'
    BY <2>1, <2>6, FindStep, UnlinkStep, LocateStep, MoveStep DEF ReleaseNext
  <2>7. CASE \/ \E e \in ESI : EsiFinished(e) \/ Undecoded(e) \/ LostSocket(e)
             \/ HandshakeStatus \/ HandshakeHeader \/ HandshakeName
             \/ LineOk \/ GetAllowed \/ GetDenied \/ CheckOwner
    <3>1. UNCHANGED <<blocked_queue, taken_keys, release>>
      BY <2>7 DEF EsiFinished, Undecoded, LostSocket, HandshakeStatus, HandshakeHeader,
         HandshakeName, LineOk, GetAllowed, GetDenied, CheckOwner, plannerVars, queues
    <3>2. listen' = listen \/ (listen.pc # "wait" /\ listen'.pc # "wait")
      <4>1. CASE HandshakeStatus \/ HandshakeHeader \/ HandshakeName \/ GetDenied
        BY <4>1, NotWaiting DEF NamesInv, QueueInv, PlannerInv, PlannerTypeOK
      <4>2. CASE ~(HandshakeStatus \/ HandshakeHeader \/ HandshakeName \/ GetDenied)
        BY <2>7, <4>2 DEF EsiFinished, Undecoded, LostSocket, LineOk, GetAllowed, CheckOwner,
           plannerVars
      <4> QED
        BY <4>1, <4>2
    <3> QED
      BY <2>1, <3>1, <3>2, QuietStep
  <2>8. CASE \/ \E c \in Commands : pause(c) \/ resume(c) \/ quit(c) \/ EndOfInput(c)
             \/ RunNext \/ Segfault \/ UNCHANGED plannerVars
    <3>1. UNCHANGED <<blocked_queue, taken_keys, release, listen>>
      BY <2>8 DEF pause, resume, quit, EndOfInput, Command, RunNext, RunPoll, RunTake, RunPut, RunStart,
         ClearRedo, Segfault, plannerVars, queues
    <3> QED
      BY <2>1, <3>1, QuietStep
  <2> QED
    BY <1>2, <2>2, <2>3, <2>4, <2>5, <2>6, <2>7, <2>8 DEF PlannerNext, ListenNext, ConsoleNext
<1> QED
  BY <1>1, <1>2

\* At the start nobody is registered and nobody waits.
LEMMA InitNames == PlannerInit => HandParked /\ OnceWaiting(taken_keys) /\ NamesConsistent
<1> SUFFICES ASSUME PlannerInit PROVE HandParked /\ OnceWaiting(taken_keys) /\ NamesConsistent
  OBVIOUS
<1>1. \A i \in 1..Len(taken_keys) : taken_keys[i].status = "BLOCKED"
  <2>1. DOMAIN taken_keys = 1..Len(taken_keys)
    BY InitPlannerInv, LenProperties DEF PlannerInv, PlannerTypeOK, ListsTypeOK
  <2>2. \A i \in DOMAIN taken_keys : taken_keys[i].status = "BLOCKED"
    BY DEF PlannerInit, pload_Keys, Node
  <2> QED
    BY <2>1, <2>2
<1>2. OnceWaiting(taken_keys) /\ \A name : name \notin WaitingNames(taken_keys)
  BY <1>1, WaitingMember DEF OnceWaiting
<1>3. ToSet(blocked_queue) = {} /\ ToSet(esi_sockets_list) = {}
  BY DEF PlannerInit, ToSet
<1>4. NamesConsistent
  BY <1>2, <1>3 DEF NamesConsistent, Consistent
<1>5. HandParked
  BY DEF PlannerInit, HandParked, Listening, NoRelease, Releaser
<1> QED
  BY <1>2, <1>4, <1>5

\* What keeps blocked_queue and the WAITING nodes in step (nobody lost or
\* duplicated in the queues, no number given twice, whoever a thread has in
\* hand parked still) is inductive, when no release from the console overlaps a handler.
THEOREM ParkedInvHolds ==
  ASSUME "console" \notin Windows
  PROVE  PlannerSpec => []ParkedInv
<1>1. PlannerInit => NamesInv
  BY InitPlannerInv, InitQueueInv, InitNames DEF NamesInv, QueueInv
<1>2. NamesInv /\ [PlannerNext]_plannerVars => NamesInv'
  BY StepPlannerInv, StepOneAtATime, StepPositionHeld, StepPartition, StepNames
     DEF NamesInv, QueueInv
<1>3. NamesInv => ParkedInv
  BY NamesInvIsParkedInv
<1> QED
  BY <1>1, <1>2, <1>3, PTL DEF PlannerSpec

\* blocked_queue and the WAITING nodes of taken_keys, which no single call
\* updates (launcher.c:227-233, 587-600), name the same ESIs except the one a
\* thread has in hand, when no release from the console overlaps a handler.
THEOREM WaitersAreParked ==
  ASSUME "console" \notin Windows
  PROVE  PlannerSpec => []WaitersParked
<1>1. ParkedInv => WaitersParked
  BY DEF ParkedInv
<1> QED
  BY <1>1, ParkedInvHolds, PTL

\* Whoever the release loop is about to wake is in blocked_queue: the NULL
\* pointer that list_find may give it (launcher.c:595-599) is never followed,
\* when no release from the console overlaps a handler.
THEOREM WokenIsFound ==
  ASSUME "console" \notin Windows
  PROVE  PlannerSpec => [](\A t \in Releaser :
           release[t].pc = "locate" => FindEsi(blocked_queue, release[t].name) # 0)
<1>1. ParkedInv => \A t \in Releaser :
        release[t].pc = "locate" => FindEsi(blocked_queue, release[t].name) # 0
  BY FindEsiFound
     DEF ParkedInv, HandParked, ParkedAs, QueueInv, PlannerInv, PlannerTypeOK, ListsTypeOK
<1> QED
  BY <1>1, ParkedInvHolds, PTL
=============================================================================
