--------------------------- MODULE PlannerProofs ---------------------------
(***************************************************************************)
(* The planner alone: whatever arrives on its sockets, in whatever order   *)
(* and at whatever time, its variables keep their types and the processor  *)
(* never has two ESIs.  Nothing is assumed of Windows: the proofs hold for *)
(* the code as it is.                                                      *)
(*                                                                         *)
(* The inductive invariant is PlannerInv.  SingleRunning alone is not      *)
(* inductive: the running thread looks at running_queue in RunPoll and     *)
(* adds to it in RunPut, two steps later; ProcessorFree says what is true  *)
(* in between, and LocalsSound what the two threads' locals hold.          *)
(***************************************************************************)
EXTENDS Planner, SequenceTheorems, WellFoundedInduction, TLAPS

(***************************************************************************)
(* Facts about the lists of the planner, taken as sequences: what          *)
(* list_find, list_add, list_add_in_index and list_remove give, and which  *)
(* elements they keep.                                                     *)
(***************************************************************************)
\* A set of natural numbers that is not empty has a least element, and Min
\* is it: list_find answers a position.
LEMMA MinOfNats ==
  ASSUME NEW S \in SUBSET Nat, S # {}
  PROVE  Min(S) \in S /\ \A y \in S : Min(S) =< y
<1>1. \E x \in S : \A y \in S : ~(<<y, x>> \in OpToRel(<, Nat))
  BY NatLessThanWellFounded, WFMin, Zenon
<1>2. PICK x \in S : \A y \in S : ~(<<y, x>> \in OpToRel(<, Nat))
  BY <1>1
<1>3. \A y \in S : x =< y
  <2>1. SUFFICES ASSUME NEW y \in S PROVE x =< y
    OBVIOUS
  <2>2. ~(y < x)
    BY <1>2, <2>1 DEF OpToRel
  <2> QED BY <2>2, <2>1
<1> QED
  BY <1>3 DEF Min

\* What is left of a list when the element at a position is unlinked.
LEMMA RemoveAtProperties ==
  ASSUME NEW S, NEW s \in Seq(S), NEW i \in 1..Len(s)
  PROVE  /\ RemoveAt(s, i) \in Seq(S)
         /\ Len(RemoveAt(s, i)) = Len(s) - 1
         /\ \A j \in 1..(Len(s) - 1) :
              RemoveAt(s, i)[j] = IF j < i THEN s[j] ELSE s[j + 1]
<1> DEFINE before == SubSeq(s, 1, i - 1)
           after  == SubSeq(s, i + 1, Len(s))
<1>1. before \in Seq(S) /\ Len(before) = i - 1 /\ \A j \in 1..(i - 1) : before[j] = s[j]
  OBVIOUS
<1>2. /\ after \in Seq(S) /\ Len(after) = Len(s) - i
      /\ \A j \in 1..(Len(s) - i) : after[j] = s[i + j]
  OBVIOUS
<1> HIDE DEF before, after
<1>3. RemoveAt(s, i) = before \o after
  BY DEF RemoveAt, before, after
<1>4. /\ before \o after \in Seq(S)
      /\ Len(before \o after) = Len(before) + Len(after)
      /\ \A j \in 1..(Len(before) + Len(after)) :
           (before \o after)[j] = IF j <= Len(before) THEN before[j] ELSE after[j - Len(before)]
  BY <1>1, <1>2, ConcatProperties
<1>5. ASSUME NEW j \in 1..(Len(s) - 1)
      PROVE  RemoveAt(s, i)[j] = IF j < i THEN s[j] ELSE s[j + 1]
  <2>1. CASE j < i
    BY <2>1, <1>1, <1>2, <1>3, <1>4
  <2>2. CASE ~(j < i)
    <3>1. j - (i - 1) \in 1..(Len(s) - i) /\ i + (j - (i - 1)) = j + 1
      BY <2>2
    <3>2. RemoveAt(s, i)[j] = after[j - (i - 1)]
      BY <2>2, <1>1, <1>2, <1>3, <1>4
    <3> QED
      BY <3>1, <3>2, <2>2, <1>2
  <2> QED
    BY <2>1, <2>2
<1> QED
  BY <1>1, <1>2, <1>3, <1>4, <1>5

\* list_add_in_index at position 0.
LEMMA ConsProperties ==
  ASSUME NEW S, NEW s \in Seq(S), NEW e \in S
  PROVE  /\ <<e>> \o s \in Seq(S) /\ <<e>> \o s # <<>>
         /\ Len(<<e>> \o s) = Len(s) + 1
         /\ \A j \in 1..(Len(s) + 1) : (<<e>> \o s)[j] = IF j = 1 THEN e ELSE s[j - 1]
<1>1. <<e>> \in Seq(S) /\ Len(<<e>>) = 1 /\ <<e>>[1] = e
  OBVIOUS
<1>2. /\ <<e>> \o s \in Seq(S) /\ Len(<<e>> \o s) = 1 + Len(s)
      /\ \A j \in 1..(1 + Len(s)) :
           (<<e>> \o s)[j] = IF j <= 1 THEN <<e>>[j] ELSE s[j - 1]
  BY <1>1, ConcatProperties
<1>3. <<e>> \o s # <<>>
  BY <1>2, EmptySeq
<1>4. Len(s) \in Nat
  OBVIOUS
<1> QED
  BY <1>1, <1>2, <1>3, <1>4

-----------------------------------------------------------------------------
\* Search finds the first node of a key with a status, when there is one.
LEMMA SearchProperties ==
  ASSUME NEW S, NEW keys \in Seq(S), NEW key, NEW status
  PROVE  LET n == Search(keys, key, status)
         IN /\ HasNode(keys, key, status) =>
                 n \in 1..Len(keys) /\ keys[n].key = key /\ keys[n].status = status
            /\ ~HasNode(keys, key, status) => n = 0
<1> DEFINE I == {i \in 1..Len(keys) : keys[i].key = key /\ keys[i].status = status}
<1>1. Search(keys, key, status) = IF I # {} THEN Min(I) ELSE 0
  BY DEF Search, SelectInSeq
<1>2. I \in SUBSET Nat /\ (HasNode(keys, key, status) <=> I # {})
  BY DEF HasNode
<1>3. I # {} => Min(I) \in I
  BY <1>2, MinOfNats
<1> QED
  BY <1>1, <1>2, <1>3

\* list_remove_by_condition leaves a list of the same nodes.
LEMMA UnlinkType ==
  ASSUME NEW S, NEW keys \in Seq(S), NEW key, NEW status
  PROVE  Unlink(keys, key, status) \in Seq(S)
<1>1. CASE HasNode(keys, key, status)
  BY <1>1, SearchProperties, RemoveAtProperties DEF Unlink
<1>2. CASE ~HasNode(keys, key, status)
  BY <1>2 DEF Unlink
<1> QED
  BY <1>1, <1>2

\* A node that joins the list.
LEMMA AppendNode ==
  ASSUME NEW S, NEW keys \in Seq(S), NEW node \in S, NEW key, NEW status
  PROVE  HasNode(Append(keys, node), key, status) <=>
           HasNode(keys, key, status) \/ (node.key = key /\ node.status = status)
<1> DEFINE q == Append(keys, node)
<1>1. /\ Len(q) = Len(keys) + 1 /\ Len(keys) \in Nat
      /\ \A i \in 1..Len(keys) + 1 : q[i] = IF i = Len(keys) + 1 THEN node ELSE keys[i]
  BY AppendProperties
<1> HIDE DEF q
<1>2. ASSUME HasNode(keys, key, status) PROVE HasNode(q, key, status)
  BY <1>1, <1>2 DEF HasNode
<1>3. ASSUME node.key = key, node.status = status PROVE HasNode(q, key, status)
  <2>1. Len(keys) + 1 \in 1..Len(q) /\ q[Len(keys) + 1] = node
    BY <1>1
  <2> QED
    BY <2>1, <1>3 DEF HasNode
<1>4. ASSUME HasNode(q, key, status)
      PROVE  HasNode(keys, key, status) \/ (node.key = key /\ node.status = status)
  BY <1>1, <1>4 DEF HasNode
<1> QED
  BY <1>2, <1>3, <1>4 DEF q

\* Unlinking takes the node that was found, and keeps all others in order.
LEMMA UnlinkMembers ==
  ASSUME NEW S, NEW keys \in Seq(S), NEW key, NEW status, HasNode(keys, key, status)
  PROVE  LET n == Search(keys, key, status)
             q == Unlink(keys, key, status)
         IN /\ n \in 1..Len(keys) /\ keys[n].key = key /\ keys[n].status = status
            /\ Len(q) = Len(keys) - 1
            /\ \A j \in 1..Len(q) : q[j] = keys[IF j < n THEN j ELSE j + 1]
            /\ \A i \in 1..Len(keys) : i # n => \E j \in 1..Len(q) : q[j] = keys[i]
<1> DEFINE n == Search(keys, key, status)
           q == Unlink(keys, key, status)
<1>1. n \in 1..Len(keys) /\ keys[n].key = key /\ keys[n].status = status
  BY SearchProperties
<1>2. q = RemoveAt(keys, n)
  BY DEF Unlink
<1> HIDE DEF n, q
<1>3. /\ Len(q) = Len(keys) - 1 /\ Len(keys) \in Nat
      /\ \A j \in 1..(Len(keys) - 1) : q[j] = IF j < n THEN keys[j] ELSE keys[j + 1]
  <2>1. /\ Len(RemoveAt(keys, n)) = Len(keys) - 1
        /\ \A j \in 1..(Len(keys) - 1) :
             RemoveAt(keys, n)[j] = IF j < n THEN keys[j] ELSE keys[j + 1]
    BY <1>1, RemoveAtProperties
  <2> QED
    BY <1>2, <2>1
<1>4. ASSUME NEW i \in 1..Len(keys), i # n PROVE \E j \in 1..Len(q) : q[j] = keys[i]
  <2>1. CASE i < n
    BY <1>1, <1>3, <2>1
  <2>2. CASE n < i
    <3>1. i - 1 \in 1..Len(q) /\ ~(i - 1 < n) /\ (i - 1) + 1 = i
      BY <1>1, <1>3, <2>2
    <3> QED
      BY <1>3, <3>1
  <2> QED
    BY <1>1, <1>4, <2>1, <2>2
<1>5. \A j \in 1..Len(q) : q[j] = keys[IF j < n THEN j ELSE j + 1]
  BY <1>3
<1> QED
  BY <1>1, <1>3, <1>4, <1>5 DEF n, q

\* Unlinking a node adds none, and takes no node of another key or status.
LEMMA UnlinkNodes ==
  ASSUME NEW S, NEW keys \in Seq(S), NEW key, NEW status, NEW k, NEW st
  PROVE  /\ HasNode(Unlink(keys, key, status), k, st) => HasNode(keys, k, st)
         /\ HasNode(keys, k, st) /\ (k # key \/ st # status)
              => HasNode(Unlink(keys, key, status), k, st)
<1> DEFINE n == Search(keys, key, status)
           q == Unlink(keys, key, status)
<1>1. CASE ~HasNode(keys, key, status)
  BY <1>1 DEF Unlink
<1>2. CASE HasNode(keys, key, status)
  <2>1. /\ n \in 1..Len(keys) /\ keys[n].key = key /\ keys[n].status = status
        /\ Len(q) = Len(keys) - 1
        /\ \A j \in 1..Len(q) : q[j] = keys[IF j < n THEN j ELSE j + 1]
        /\ \A i \in 1..Len(keys) : i # n => \E j \in 1..Len(q) : q[j] = keys[i]
    BY <1>2, UnlinkMembers
  <2> HIDE DEF n, q
  <2>2. \A j \in 1..Len(q) : (IF j < n THEN j ELSE j + 1) \in 1..Len(keys)
    BY <2>1
  <2>3. ASSUME HasNode(q, k, st) PROVE HasNode(keys, k, st)
    <3>1. PICK j \in 1..Len(q) : q[j].key = k /\ q[j].status = st
      BY <2>3 DEF HasNode
    <3> QED
      BY <2>1, <2>2, <3>1 DEF HasNode
  <2>4. ASSUME HasNode(keys, k, st), k # key \/ st # status PROVE HasNode(q, k, st)
    <3>1. PICK i \in 1..Len(keys) : keys[i].key = k /\ keys[i].status = st
      BY <2>4 DEF HasNode
    <3>2. i # n
      BY <2>1, <2>4, <3>1
    <3>3. PICK j \in 1..Len(q) : q[j] = keys[i]
      BY <2>1, <3>1, <3>2
    <3> QED
      BY <3>1, <3>3 DEF HasNode
  <2> QED
    BY <2>3, <2>4 DEF q
<1> QED
  BY <1>1, <1>2

-----------------------------------------------------------------------------
\* The elements of a list, and that each is there once, in terms of Len.
LEMMA ElementsOfSeq ==
  ASSUME NEW S, NEW s \in Seq(S)
  PROVE  /\ ToSet(s) = {s[i] : i \in 1..Len(s)} /\ ToSet(s) \subseteq S
         /\ IsInjective(s) <=> \A i, j \in 1..Len(s) : s[i] = s[j] => i = j
<1>1. DOMAIN s = 1..Len(s) /\ \A i \in 1..Len(s) : s[i] \in S
  OBVIOUS
<1>2. ToSet(s) = {s[i] : i \in 1..Len(s)}
  BY <1>1 DEF ToSet
<1>3. ToSet(s) \subseteq S
  BY <1>1, <1>2
<1>4. IsInjective(s) <=> \A i, j \in 1..Len(s) : s[i] = s[j] => i = j
  BY <1>1 DEF IsInjective
<1> QED
  BY <1>2, <1>3, <1>4

\* list_add adds the element and no other.
LEMMA AppendElements ==
  ASSUME NEW S, NEW s \in Seq(S), NEW e \in S
  PROVE  /\ ToSet(Append(s, e)) = ToSet(s) \cup {e}
         /\ IsInjective(s) /\ e \notin ToSet(s) => IsInjective(Append(s, e))
<1> DEFINE q == Append(s, e)
<1>1. /\ q \in Seq(S) /\ Len(q) = Len(s) + 1
      /\ \A i \in 1..Len(s) + 1 : q[i] = IF i = Len(s) + 1 THEN e ELSE s[i]
  BY AppendProperties
<1>2. Len(s) \in Nat
  OBVIOUS
<1> HIDE DEF q
<1>3. ToSet(q) = {q[i] : i \in 1..Len(q)} /\ ToSet(s) = {s[i] : i \in 1..Len(s)}
  BY <1>1, ElementsOfSeq
<1>4. ToSet(q) = ToSet(s) \cup {e}
  <2>1. ASSUME NEW x \in ToSet(q) PROVE x \in ToSet(s) \cup {e}
    BY <2>1, <1>1, <1>2, <1>3
  <2>2. ASSUME NEW x \in ToSet(s) PROVE x \in ToSet(q)
    BY <2>2, <1>1, <1>2, <1>3
  <2>3. e \in ToSet(q)
    <3>1. Len(s) + 1 \in 1..Len(q) /\ q[Len(s) + 1] = e
      BY <1>1, <1>2
    <3> QED
      BY <3>1, <1>3
  <2> QED
    BY <2>1, <2>2, <2>3
<1>5. IsInjective(s) /\ e \notin ToSet(s) => IsInjective(q)
  BY <1>1, <1>2, <1>3, ElementsOfSeq
<1> QED
  BY <1>4, <1>5 DEF q

\* list_add_in_index at position 0 adds the element and no other.
LEMMA ConsElements ==
  ASSUME NEW S, NEW s \in Seq(S), NEW e \in S
  PROVE  /\ ToSet(<<e>> \o s) = ToSet(s) \cup {e}
         /\ IsInjective(s) /\ e \notin ToSet(s) => IsInjective(<<e>> \o s)
<1> DEFINE q == <<e>> \o s
<1>1. /\ q \in Seq(S) /\ Len(q) = Len(s) + 1
      /\ \A i \in 1..Len(s) + 1 : q[i] = IF i = 1 THEN e ELSE s[i - 1]
  BY ConsProperties
<1>2. Len(s) \in Nat
  OBVIOUS
<1> HIDE DEF q
<1>3. ToSet(q) = {q[i] : i \in 1..Len(q)} /\ ToSet(s) = {s[i] : i \in 1..Len(s)}
  BY <1>1, ElementsOfSeq
<1>4. ToSet(q) = ToSet(s) \cup {e}
  <2>1. ASSUME NEW x \in ToSet(q) PROVE x \in ToSet(s) \cup {e}
    BY <2>1, <1>1, <1>2, <1>3
  <2>2. ASSUME NEW x \in ToSet(s) PROVE x \in ToSet(q)
    <3>1. PICK i \in 1..Len(s) : x = s[i]
      BY <2>2, <1>3
    <3>2. i + 1 \in 1..Len(q) /\ q[i + 1] = x
      BY <3>1, <1>1, <1>2
    <3> QED
      BY <3>2, <1>3
  <2>3. e \in ToSet(q)
    <3>1. 1 \in 1..Len(q) /\ q[1] = e
      BY <1>1, <1>2
    <3> QED
      BY <3>1, <1>3
  <2> QED
    BY <2>1, <2>2, <2>3
<1>5. IsInjective(s) /\ e \notin ToSet(s) => IsInjective(q)
  <2> SUFFICES ASSUME IsInjective(s), e \notin ToSet(s),
                      NEW i \in 1..Len(q), NEW j \in 1..Len(q), q[i] = q[j]
               PROVE  i = j
    BY <1>1, ElementsOfSeq
  <2>1. \A k \in 1..Len(q) : k # 1 => k - 1 \in 1..Len(s) /\ q[k] = s[k - 1] /\ q[k] # e
    BY <1>1, <1>2, <1>3
  <2>2. q[1] = e
    BY <1>1, <1>2
  <2>3. CASE i = 1 \/ j = 1
    BY <2>1, <2>2, <2>3
  <2>4. CASE i # 1 /\ j # 1
    <3>1. /\ i - 1 \in 1..Len(s) /\ j - 1 \in 1..Len(s)
          /\ s[i - 1] = s[j - 1]
      BY <2>1, <2>4
    <3>2. i - 1 = j - 1
      BY <3>1, ElementsOfSeq
    <3> QED
      BY <3>2, <1>1, <1>2
  <2> QED
    BY <2>3, <2>4
<1> QED
  BY <1>4, <1>5 DEF q

\* list_remove takes away the element at its position and no other.
LEMMA RemoveAtElements ==
  ASSUME NEW S, NEW s \in Seq(S), NEW n \in 1..Len(s), IsInjective(s)
  PROVE  /\ ToSet(RemoveAt(s, n)) = ToSet(s) \ {s[n]}
         /\ IsInjective(RemoveAt(s, n))
<1> DEFINE q == RemoveAt(s, n)
<1>1. /\ q \in Seq(S) /\ Len(q) = Len(s) - 1
      /\ \A j \in 1..(Len(s) - 1) : q[j] = IF j < n THEN s[j] ELSE s[j + 1]
  BY RemoveAtProperties
<1>2. Len(s) \in Nat \ {0}
  OBVIOUS
<1> HIDE DEF q
<1>3. ToSet(q) = {q[i] : i \in 1..Len(q)} /\ ToSet(s) = {s[i] : i \in 1..Len(s)}
  BY <1>1, ElementsOfSeq
<1>4. \A i, j \in 1..Len(s) : s[i] = s[j] => i = j
  BY ElementsOfSeq
<1>5. ASSUME NEW x \in ToSet(q) PROVE x \in ToSet(s) \ {s[n]}
  <2>1. PICK j \in 1..(Len(s) - 1) : x = q[j]
    BY <1>1, <1>3, <1>5
  <2>2. CASE j < n
    BY <2>1, <2>2, <1>1, <1>2, <1>3, <1>4
  <2>3. CASE ~(j < n)
    <3>1. j + 1 \in 1..Len(s) /\ x = s[j + 1] /\ j + 1 # n
      BY <2>1, <2>3, <1>1, <1>2
    <3> QED
      BY <3>1, <1>3, <1>4
  <2> QED
    BY <2>2, <2>3
<1>6. ASSUME NEW x \in ToSet(s) \ {s[n]} PROVE x \in ToSet(q)
  <2>1. PICK j \in 1..Len(s) : x = s[j] /\ j # n
    BY <1>3, <1>6
  <2>2. CASE j < n
    BY <2>1, <2>2, <1>1, <1>2, <1>3
  <2>3. CASE ~(j < n)
    <3>1. j - 1 \in 1..Len(q) /\ q[j - 1] = x
      BY <2>1, <2>3, <1>1, <1>2
    <3> QED
      BY <3>1, <1>3
  <2> QED
    BY <2>2, <2>3
<1>7. IsInjective(q)
  <2> SUFFICES ASSUME NEW i \in 1..Len(q), NEW j \in 1..Len(q), q[i] = q[j]
               PROVE  i = j
    BY <1>1, ElementsOfSeq
  <2> QED
    BY <1>1, <1>2, <1>4
<1> QED
  BY <1>5, <1>6, <1>7 DEF q

\* Taking the head away.
LEMMA TailElements ==
  ASSUME NEW S, NEW s \in Seq(S), s # <<>>, IsInjective(s)
  PROVE  /\ ToSet(Tail(s)) = ToSet(s) \ {Head(s)} /\ Head(s) \in ToSet(s)
         /\ IsInjective(Tail(s))
<1>1. Len(s) \in Nat \ {0} /\ Head(s) = s[1] /\ 1 \in 1..Len(s)
  OBVIOUS
<1>2. Tail(s) = RemoveAt(s, 1)
  <2>1. /\ RemoveAt(s, 1) \in Seq(S) /\ Len(RemoveAt(s, 1)) = Len(s) - 1
        /\ \A j \in 1..(Len(s) - 1) : RemoveAt(s, 1)[j] = s[j + 1]
    BY <1>1, RemoveAtProperties
  <2>2. /\ Tail(s) \in Seq(S) /\ Len(Tail(s)) = Len(s) - 1
        /\ \A j \in 1..(Len(s) - 1) : Tail(s)[j] = s[j + 1]
    BY <1>1
  <2> HIDE DEF RemoveAt
  <2> QED
    BY <2>1, <2>2, <1>1, SeqEqual
<1>3. Head(s) \in ToSet(s)
  BY <1>1, ElementsOfSeq
<1> QED
  BY <1>1, <1>2, <1>3, RemoveAtElements

-----------------------------------------------------------------------------
(***************************************************************************)
(* The variables of the planner.                                           *)
(***************************************************************************)
\* FindEsi answers a position of the queue, or 0.
LEMMA FindEsiRange ==
  ASSUME NEW q \in Seq(ESI), NEW name
  PROVE  FindEsi(q, name) \in 0..Len(q)
<1> DEFINE I == {i \in 1..Len(q) : EsiName(esi[q[i]].id) = name}
<1>1. FindEsi(q, name) = IF I # {} THEN Min(I) ELSE 0
  BY DEF FindEsi, SelectInSeq
<1>2. I \in SUBSET Nat
  OBVIOUS
<1>3. I # {} => Min(I) \in I
  BY <1>2, MinOfNats
<1> QED
  BY <1>1, <1>3

\* An estimate stays a natural number: ALPHA is a percentage.
LEMMA EstimationType ==
  ASSUME NEW d \in Nat, NEW x \in Nat
  PROVE  estimation(d, x) \in Nat
<1>1. ALPHA \in Nat /\ 100 - ALPHA \in Nat
  BY ConfigAssumption
<1>2. ALPHA * d * EstimateUnit \in Nat /\ (100 - ALPHA) * x \in Nat
  BY <1>1 DEF EstimateUnit
<1> DEFINE n == ALPHA * d * EstimateUnit + (100 - ALPHA) * x
<1>3. n \in Nat
  BY <1>2
<1> HIDE DEF n
<1>4. n \div 100 \in Nat
  BY <1>3
<1> QED
  BY <1>4 DEF estimation, n

\* An ESI that starts or leaves the processor keeps its types.
LEMMA TurnType ==
  ASSUME NEW r \in ESIRecord
  PROVE  started(r) \in ESIRecord /\ estimated(r) \in ESIRecord
<1>1. "STATUS_RUNNING" \in ESIStatus
  BY DEF ESIStatus
<1>2. r.program_counter + 1 \in Nat
  BY DEF ESIRecord
<1>3. estimation(r.program_counter, r.last_estimate) \in Nat
  BY EstimationType DEF ESIRecord
<1>4. started(r) \in ESIRecord
  BY <1>1, <1>2 DEF started, ESIRecord
<1>5. estimated(r) \in ESIRecord
  BY <1>3 DEF estimated, ESIRecord
<1> QED
  BY <1>4, <1>5

\* What the planner reads from the coordinator's socket.
LEMMA FrameContent ==
  /\ \A f \in CoordinatorFrame :
       f.type \in {"CAN_ESI_GET_KEY", "CAN_ESI_SET_KEY", "CAN_ESI_STORE_KEY"} =>
         f.content.key \in Key /\ f.content.ESIName \in Name
  /\ \A f \in CoordinatorFrame :
       f.type = "RESOURCE_STATUS_CHANGE_TO_PLANNER" =>
         /\ f.content.key \in Key /\ f.content.ESIName \in Name
         /\ f.content.status \in {"BLOCKED", "RELEASED"}
  BY DEF CoordinatorFrame, Check, StatusChange

-----------------------------------------------------------------------------
\* The name that holds the keys of the configuration is a name.
LEMMA NoNameIsName == NoName \in Name
<1>1. "" \in {"ESI", "esi", "", "header bytes", "cut"}
  BY Zenon
<1>2. 0 \in Int
  OBVIOUS
<1> QED
  BY <1>1, <1>2, Zenon DEF NoName, Name

\* A node of taken_keys names an ESI and a key.
LEMMA NodeTypes ==
  ASSUME taken_keys \in Seq(KeyNode), NEW m \in 1..Len(taken_keys)
  PROVE  taken_keys[m].ESIName \in Name /\ taken_keys[m].key \in Key
<1>1. taken_keys[m] \in KeyNode
  BY ElementOfSeq
<1> QED
  BY <1>1 DEF KeyNode

\* A thread that releases no key.
LEMMA NoReleaseType == NoRelease \in ReleaseRecord
  BY NoNameIsName DEF NoRelease, ReleaseRecord, ReleaseStep

\* The steps of the release loop are steps.
LEMMA ReleaseSteps ==
  /\ "idle" \in ReleaseStep /\ "find" \in ReleaseStep /\ "unlink" \in ReleaseStep
  /\ "locate" \in ReleaseStep /\ "move" \in ReleaseStep
  BY DEF ReleaseStep

\* The names that the console and the handshake give are names.
LEMMA ConsoleNameIsName == ASSUME NEW n \in Nat PROVE ConsoleName(n) \in Name
<1>1. "esi" \in {"ESI", "esi", "", "header bytes", "cut"}
  BY Zenon
<1>2. n \in Int
  OBVIOUS
<1> QED
  BY <1>1, <1>2, Zenon DEF ConsoleName, Name

\* A thread that enters release_key.
LEMMA StartReleaseType ==
  ASSUME ThreadsTypeOK, NEW t \in Releaser, NEW key \in Key,
         release' = [release EXCEPT ![t] = [@ EXCEPT !.pc = "find", !.key = key]]
  PROVE  /\ release' \in [Releaser -> ReleaseRecord]
         /\ \A u \in Releaser : u # t => release'[u] = release[u]
         /\ release'[t].pc = "find" /\ release'[t].key = key
<1> DEFINE r == [release[t] EXCEPT !.pc = "find", !.key = key]
<1>1. release[t] \in ReleaseRecord
  BY DEF ThreadsTypeOK
<1>2. r \in ReleaseRecord /\ r.pc = "find" /\ r.key = key
  BY <1>1, ReleaseSteps DEF ReleaseRecord
<1>3. release' = [release EXCEPT ![t] = r]
  OBVIOUS
<1> HIDE DEF r
<1> QED
  BY <1>2, <1>3 DEF ThreadsTypeOK

\* The planner starts with empty queues and the keys of its configuration.
LEMMA InitPlannerInv == PlannerInit => PlannerInv
<1> SUFFICES ASSUME PlannerInit PROVE PlannerInv
  OBVIOUS
<1> USE ConfigAssumption DEF PlannerInit
<1>1. taken_keys \in Seq(KeyNode)
  <2>1. Len(BLOCKED_KEYS) \in Nat /\ \A i \in 1..Len(BLOCKED_KEYS) : BLOCKED_KEYS[i] \in Key
    OBVIOUS
  <2>2. <<"", 0>> \in Name
    BY NoNameIsName, Zenon DEF NoName
  <2>3. taken_keys \in [1..Len(BLOCKED_KEYS) -> KeyNode]
    BY <2>1, <2>2 DEF pload_Keys, Node, KeyNode
  <2> QED
    BY <2>1, <2>3, SeqDef
<1>2. NoName \in Name
  BY NoNameIsName
<1>3. esi \in [ESI -> ESIRecord]
  BY DEF Unregistered, ESIStatus, ESIRecord
<1>4. ListsTypeOK
  BY <1>1 DEF ListsTypeOK
<1>5. EsisTypeOK
  BY <1>3 DEF EsisTypeOK
<1>6. ThreadsTypeOK
  <2>1. NoRelease \in ReleaseRecord
    BY NoReleaseType
  <2> QED
    BY <1>2, <2>1 DEF ThreadsTypeOK, Listening
<1>7. ConsoleTypeOK
  <2>1. segfault \in BOOLEAN
    BY Zenon
  <2>2. FLAG_PLANIFICATION_RUNNING \in {0, 1} /\ commands \in 0..MaxCommands
    OBVIOUS
  <2>3. command_number \in {"none"} \cup CommandName
    BY Zenon
  <2> QED
    BY <2>1, <2>2, <2>3, Zenon DEF ConsoleTypeOK
<1>8. LocalsSound /\ ProcessorFree /\ SingleRunning
  BY DEF LocalsSound, ProcessorFree, SingleRunning, Listening, NoRelease, Releaser, Answering
<1> QED
  BY <1>4, <1>5, <1>6, <1>7, <1>8 DEF PlannerInv, PlannerTypeOK

\* A step that changes no variable of the planner.
LEMMA StutterPlannerInv == PlannerInv /\ UNCHANGED plannerVars => PlannerInv'
  BY DEF PlannerInv, PlannerTypeOK, ListsTypeOK, EsisTypeOK, ThreadsTypeOK, ConsoleTypeOK,
         LocalsSound, ProcessorFree, SingleRunning, plannerVars, queues, console

\* The running thread: it fills the processor only after it saw it free.
LEMMA RunPreserves == ASSUME PlannerInv, RunNext PROVE PlannerInv'
<1> USE DEF PlannerInv, PlannerTypeOK, queues, console
<1>1. CASE RunPoll
  BY <1>1 DEF RunPoll, CanDispatch, ListsTypeOK, EsisTypeOK, ThreadsTypeOK, ConsoleTypeOK,
              LocalsSound, ProcessorFree, SingleRunning
<1>2. CASE RunTake
  BY <1>2 DEF RunTake, ListsTypeOK, EsisTypeOK, ThreadsTypeOK, ConsoleTypeOK,
              LocalsSound, ProcessorFree, SingleRunning
<1>3. CASE RunPut
  <2>1. run.esi \in ESI /\ running_queue = <<>>
    BY <1>3 DEF RunPut, LocalsSound, ProcessorFree
  <2>2. running_queue' \in Seq(ESI) /\ Len(running_queue') = 1
    BY <1>3, <2>1, ConsProperties DEF RunPut, ListsTypeOK
  <2>3. ListsTypeOK' /\ EsisTypeOK' /\ ConsoleTypeOK'
    BY <1>3, <2>2 DEF RunPut, ListsTypeOK, EsisTypeOK, ConsoleTypeOK
  <2> QED
    BY <1>3, <2>1, <2>2, <2>3 DEF RunPut, ThreadsTypeOK, LocalsSound, ProcessorFree, SingleRunning
<1>4. CASE RunStart
  <2>1. ListsTypeOK' /\ ConsoleTypeOK'
    BY <1>4 DEF RunStart, ListsTypeOK, ConsoleTypeOK
  <2>2. EsisTypeOK'
    <3>1. run.esi \in ESI /\ esi[run.esi] \in ESIRecord
      BY <1>4 DEF RunStart, EsisTypeOK, LocalsSound
    <3>2. started(esi[run.esi]) \in ESIRecord
      BY <3>1, TurnType
    <3> QED
      BY <1>4, <3>1, <3>2 DEF RunStart, EsisTypeOK
  <2>3. ThreadsTypeOK'
    BY <1>4 DEF RunStart, ThreadsTypeOK
  <2>4. LocalsSound' /\ ProcessorFree' /\ SingleRunning'
    BY <1>4 DEF RunStart, ThreadsTypeOK, LocalsSound, ProcessorFree, SingleRunning
  <2> QED
    BY <2>1, <2>2, <2>3, <2>4
<1>5. CASE ClearRedo
  <2>1. ListsTypeOK' /\ ConsoleTypeOK'
    BY <1>5 DEF ClearRedo, ListsTypeOK, ConsoleTypeOK
  <2>2. EsisTypeOK'
    BY <1>5 DEF ClearRedo, EsisTypeOK, ESIRecord, LocalsSound
  <2>3. ThreadsTypeOK'
    BY <1>5 DEF ClearRedo, ThreadsTypeOK
  <2>4. LocalsSound' /\ ProcessorFree' /\ SingleRunning'
    BY <1>5 DEF ClearRedo, ThreadsTypeOK, LocalsSound, ProcessorFree, SingleRunning
  <2> QED
    BY <2>1, <2>2, <2>3, <2>4
<1> QED
  BY <1>1, <1>2, <1>3, <1>4, <1>5 DEF RunNext

\* The release loop: what it unlinks and moves was found in the lists.
LEMMA ReleasePreserves ==
  ASSUME PlannerInv, NEW t \in Releaser, ReleaseNext(t) PROVE PlannerInv'
<1> USE DEF PlannerInv, PlannerTypeOK, queues, console
<1>0. release[t] \in ReleaseRecord
  BY DEF ThreadsTypeOK
<1>1. CASE FindWaiting(t)
  <2> DEFINE n == Search(taken_keys, release[t].key, "WAITING")
  <2>1. ListsTypeOK' /\ EsisTypeOK' /\ ConsoleTypeOK'
    BY <1>1 DEF FindWaiting, ListsTypeOK, EsisTypeOK, ConsoleTypeOK
  <2>2. n # 0 => taken_keys[n].ESIName \in Name
    <3>1. n # 0 => n \in 1..Len(taken_keys)
      BY SearchProperties DEF ListsTypeOK
    <3>2. \A m \in 1..Len(taken_keys) : taken_keys[m].ESIName \in Name
      BY NodeTypes DEF ListsTypeOK
    <3> QED
      BY <3>1, <3>2
  <2> HIDE DEF n
  <2> DEFINE r == IF n = 0 THEN NoRelease
                  ELSE [release[t] EXCEPT !.pc = "unlink", !.name = taken_keys[n].ESIName]
  <2>3. release' = [release EXCEPT ![t] = r]
    BY <1>1 DEF FindWaiting, n
  <2>4. r \in ReleaseRecord
    BY <2>2, NoReleaseType, ReleaseSteps DEF ThreadsTypeOK, ReleaseRecord
  <2>5. UNCHANGED <<listen, run>> /\ release[t].pc = "find" /\ r.pc # "move"
        /\ (r.pc # "idle" => r.key = release[t].key)
    BY <1>1 DEF FindWaiting, NoRelease, ThreadsTypeOK, ReleaseRecord
  <2> HIDE DEF r
  <2>6. ThreadsTypeOK'
    BY <2>3, <2>4, <2>5 DEF ThreadsTypeOK
  <2>7. LocalsSound' /\ ProcessorFree' /\ SingleRunning'
    BY <1>1, <2>3, <2>4, <2>5 DEF FindWaiting, ThreadsTypeOK, LocalsSound, ProcessorFree, SingleRunning
  <2> QED
    BY <2>1, <2>6, <2>7
<1>2. CASE UnlinkWaiting(t)
  <2>1. taken_keys' \in Seq(KeyNode)
    BY <1>2, UnlinkType DEF UnlinkWaiting, ListsTypeOK
  <2>2. ListsTypeOK' /\ EsisTypeOK' /\ ConsoleTypeOK'
    BY <1>2, <2>1 DEF UnlinkWaiting, ListsTypeOK, EsisTypeOK, ConsoleTypeOK
  <2>3. ThreadsTypeOK'
    BY <1>2, <1>0, ReleaseSteps DEF UnlinkWaiting, ThreadsTypeOK, ReleaseRecord
  <2>4. LocalsSound' /\ ProcessorFree' /\ SingleRunning'
    BY <1>2 DEF UnlinkWaiting, ThreadsTypeOK, LocalsSound, ProcessorFree, SingleRunning
  <2> QED
    BY <2>2, <2>3, <2>4
<1>3. CASE LocateBlocked(t)
  <2> DEFINE n == FindEsi(blocked_queue, release[t].name)
  <2>1. ListsTypeOK' /\ EsisTypeOK' /\ ConsoleTypeOK'
    BY <1>3 DEF LocateBlocked, ListsTypeOK, EsisTypeOK, ConsoleTypeOK
  <2>2. n \in 1..Len(blocked_queue) /\ blocked_queue[n] \in ESI
    BY <1>3, FindEsiRange DEF LocateBlocked, ListsTypeOK
  <2> HIDE DEF n
  <2> DEFINE r == [release[t] EXCEPT !.pc = "move", !.at = n, !.esi = blocked_queue[n]]
  <2>3. /\ release[t].pc = "locate" /\ UNCHANGED <<listen, run, ready_queue, running_queue>>
        /\ release' = [release EXCEPT ![t] = r]
    BY <1>3 DEF LocateBlocked, n
  <2>4. /\ r \in ReleaseRecord /\ r.key = release[t].key /\ r.esi \in ESI /\ r.at # 0
    <3>1. n \in Nat \ {0}
      BY <2>2 DEF ListsTypeOK
    <3> QED
      BY <1>0, <2>2, <3>1, ReleaseSteps DEF ReleaseRecord
  <2> HIDE DEF r
  <2>5. ThreadsTypeOK'
    BY <2>3, <2>4 DEF ThreadsTypeOK
  <2>6. LocalsSound' /\ ProcessorFree' /\ SingleRunning'
    BY <2>2, <2>3, <2>4 DEF ThreadsTypeOK, LocalsSound, ProcessorFree, SingleRunning
  <2> QED
    BY <2>1, <2>5, <2>6
<1>4. CASE MoveToReady(t)
  <2>1. release[t].esi \in ESI /\ release[t].at \in Nat \ {0} /\ release[t].key \in Key
    BY <1>4, <1>0 DEF MoveToReady, LocalsSound, ReleaseRecord
  <2>2. list_remove(blocked_queue, release[t].at) \in Seq(ESI)
    BY <2>1, RemoveAtProperties DEF list_remove, ListsTypeOK
  <2>3. ListsTypeOK' /\ ready_queue' # <<>>
    BY <1>4, <2>1, <2>2 DEF MoveToReady, ListsTypeOK
  <2>4. EsisTypeOK' /\ ConsoleTypeOK'
    BY <1>4, <2>1 DEF MoveToReady, ToRepeat, EsisTypeOK, ConsoleTypeOK, ESIRecord
  <2>5. ThreadsTypeOK'
    <3>1. [NoRelease EXCEPT !.pc = "find", !.key = release[t].key] \in ReleaseRecord
      BY <2>1, NoReleaseType, ReleaseSteps DEF ReleaseRecord
    <3> QED
      BY <1>4, <3>1 DEF MoveToReady, NextWaiting, NoRelease, ThreadsTypeOK
  <2>6. LocalsSound' /\ ProcessorFree' /\ SingleRunning'
    BY <1>4, <2>1, <2>3 DEF MoveToReady, NextWaiting, NoRelease, ThreadsTypeOK, LocalsSound, ProcessorFree, SingleRunning
  <2> QED
    BY <2>3, <2>4, <2>5, <2>6
<1> QED
  BY <1>1, <1>2, <1>3, <1>4 DEF ReleaseNext

\* The console: it types on taken_keys and starts releases of its own.
LEMMA ConsolePreserves == ASSUME PlannerInv, ConsoleNext PROVE PlannerInv'
<1> USE DEF PlannerInv, PlannerTypeOK
<1>1. PICK c \in Commands : pause(c) \/ resume(c) \/ block(c) \/ unblock(c) \/ quit(c) \/ EndOfInput(c)
  BY DEF ConsoleNext
<1>2. c.name \in CommandName /\ (c.name \in {"bloquear", "desbloquear"} => ConsoleKey(c.key) \in Key)
      /\ (c.name = "bloquear" => c.id \in Nat) /\ MaxCommands \in Nat
  BY ConfigAssumption DEF ConsoleKey
<1>3. Command(c)
  BY <1>1 DEF pause, resume, block, unblock, quit, EndOfInput
<1>4. /\ UNCHANGED <<ready_queue, running_queue, blocked_queue, finished_queue,
                     esi_sockets_list, esi_id_counter, esi, listen, run>>
      /\ segfault' \in {segfault, TRUE}
      /\ commands' = (IF c.name = "salir" THEN MaxCommands ELSE commands + 1)
      /\ command_number' = c.name /\ commands < MaxCommands
      /\ release["console"].pc = "idle"
  BY <1>1, <1>3 DEF Command, queues, ConsoleFree, pause, resume, block, unblock, quit, EndOfInput
<1>5. /\ \/ taken_keys' = taken_keys
         \/ taken_keys' = load_key(taken_keys, ConsoleKey(c.key), ConsoleName(c.id))
              /\ c.name = "bloquear"
         \/ taken_keys' = Unlink(taken_keys, ConsoleKey(c.key), "BLOCKED")
      /\ \/ release' = release
         \/ /\ ConsoleKey(c.key) \in Key
            /\ release' = [release EXCEPT !["console"] =
                            [@ EXCEPT !.pc = "find", !.key = ConsoleKey(c.key)]]
      /\ FLAG_PLANIFICATION_RUNNING' \in {0, 1}
  BY <1>1, <1>2 DEF ConsoleTypeOK, pause, resume, block, unblock,
                    quit, EndOfInput, StartRelease
<1>6. taken_keys' \in Seq(KeyNode)
  <2>1. c.name = "bloquear" => Node(ConsoleName(c.id), ConsoleKey(c.key), "BLOCKED") \in KeyNode
    BY <1>2, ConsoleNameIsName DEF Node, KeyNode
  <2>2. c.name = "bloquear" => load_key(taken_keys, ConsoleKey(c.key), ConsoleName(c.id)) \in Seq(KeyNode)
    BY <2>1 DEF load_key, ListsTypeOK
  <2> QED
    BY <1>5, <2>2, UnlinkType DEF ListsTypeOK
<1>7. ListsTypeOK' /\ EsisTypeOK'
  BY <1>4, <1>6 DEF ListsTypeOK, EsisTypeOK
<1>8. \/ release' = release
      \/ /\ release' \in [Releaser -> ReleaseRecord]
         /\ \A u \in Releaser : u # "console" => release'[u] = release[u]
         /\ release'["console"].pc = "find" /\ release'["console"].key \in Key
  BY <1>5, StartReleaseType DEF Releaser
<1>9. ThreadsTypeOK'
  BY <1>4, <1>8 DEF ThreadsTypeOK
<1>10. ConsoleTypeOK'
  <2>1. segfault' \in BOOLEAN
    BY <1>4, Zenon DEF ConsoleTypeOK
  <2>2. command_number' \in {"none"} \cup CommandName
    BY <1>2, <1>4, Zenon
  <2>3. commands' \in 0..MaxCommands
    BY <1>2, <1>4 DEF ConsoleTypeOK
  <2> QED
    BY <1>5, <2>1, <2>2, <2>3, Zenon DEF ConsoleTypeOK
<1>11. LocalsSound'
  BY <1>4, <1>8 DEF LocalsSound
<1>12. ProcessorFree' /\ SingleRunning'
  BY <1>4 DEF ProcessorFree, SingleRunning
<1> QED
  BY <1>7, <1>9, <1>10, <1>11, <1>12

\* A NULL pointer ends the process and changes nothing else.
LEMMA SegfaultPreserves == ASSUME PlannerInv, Segfault PROVE PlannerInv'
<1>1. /\ segfault' \in BOOLEAN
      /\ UNCHANGED <<FLAG_PLANIFICATION_RUNNING, queues, esi_sockets_list, taken_keys,
                     esi_id_counter, esi, listen, run, release, console>>
  BY Zenon DEF Segfault
<1> QED
  BY <1>1 DEF PlannerInv, PlannerTypeOK, ListsTypeOK, EsisTypeOK, ThreadsTypeOK, ConsoleTypeOK,
              LocalsSound, ProcessorFree, SingleRunning, queues, console

-----------------------------------------------------------------------------
\* The listening thread, one lemma for each handler.  RegisterEsi, the three
\* steps of the answer, UNKNOWN_MSG_TYPE and the end of a socket.
LEMMA HandshakePreserves ==
  ASSUME PlannerInv,
         \/ \E e \in ESI : RegisterEsi(e) \/ Undecoded(e) \/ LostSocket(e)
         \/ HandshakeStatus \/ HandshakeHeader \/ HandshakeName
  PROVE  PlannerInv'
<1> USE DEF PlannerInv, PlannerTypeOK, queues, console
<1>1. ASSUME NEW e \in ESI, RegisterEsi(e) PROVE PlannerInv'
  <2>1. ready_queue' \in Seq(ESI) /\ ready_queue' # <<>>
    BY <1>1, ConsProperties DEF RegisterEsi, ListsTypeOK
  <2>2. register_esi(esi_id_counter) \in ESIRecord
    BY ConfigAssumption DEF register_esi, ESIRecord, ESIStatus, EsisTypeOK, EstimateUnit
  <2>3. ListsTypeOK' /\ EsisTypeOK' /\ ConsoleTypeOK'
    <3>1. /\ esi' = [esi EXCEPT ![e] = register_esi(esi_id_counter)]
          /\ esi_id_counter' = esi_id_counter + 1
          /\ esi_sockets_list' = Append(esi_sockets_list, e)
          /\ UNCHANGED <<FLAG_PLANIFICATION_RUNNING, running_queue, blocked_queue, finished_queue,
                         taken_keys, command_number, commands, segfault>>
      BY <1>1 DEF RegisterEsi
    <3>2. ListsTypeOK'
      BY <2>1, <3>1 DEF ListsTypeOK
    <3>3. ConsoleTypeOK'
      BY <3>1 DEF ConsoleTypeOK
    <3>4. EsisTypeOK'
      BY <2>2, <3>1 DEF EsisTypeOK
    <3> QED
      BY <3>2, <3>3, <3>4
  <2>4. ThreadsTypeOK' /\ LocalsSound' /\ ProcessorFree' /\ SingleRunning'
    BY <1>1, <2>1 DEF RegisterEsi, ThreadsTypeOK, LocalsSound, ProcessorFree, SingleRunning, Answering
  <2> QED
    BY <2>3, <2>4
<1>2. ASSUME NEW e \in ESI, Undecoded(e) \/ LostSocket(e) PROVE PlannerInv'
  BY <1>2, StutterPlannerInv DEF Undecoded, LostSocket
<1>3. CASE HandshakeStatus
  <2>1. listen.pc \in Answering /\ listen.esi \in ESI
    BY <1>3 DEF HandshakeStatus, LocalsSound, Answering
  <2>2. "STATUS_READY" \in ESIStatus
    BY DEF ESIStatus
  <2>3. EsisTypeOK'
    BY <1>3, <2>1, <2>2 DEF HandshakeStatus, EsisTypeOK, ESIRecord
  <2>4. ListsTypeOK' /\ ConsoleTypeOK'
    BY <1>3 DEF HandshakeStatus, ListsTypeOK, ConsoleTypeOK
  <2>5. ThreadsTypeOK' /\ LocalsSound' /\ ProcessorFree' /\ SingleRunning'
    BY <1>3, <2>1 DEF HandshakeStatus, ThreadsTypeOK, LocalsSound, ProcessorFree, SingleRunning, Answering
  <2> QED
    BY <2>3, <2>4, <2>5
<1>4. CASE HandshakeHeader
  <2>1. listen.esi \in ESI
    BY <1>4 DEF HandshakeHeader, LocalsSound, Answering
  <2>2. ListsTypeOK' /\ EsisTypeOK' /\ ConsoleTypeOK'
    BY <1>4 DEF HandshakeHeader, ListsTypeOK, EsisTypeOK, ConsoleTypeOK
  <2>3. ThreadsTypeOK' /\ LocalsSound' /\ ProcessorFree' /\ SingleRunning'
    BY <1>4, <2>1 DEF HandshakeHeader, ThreadsTypeOK, LocalsSound, ProcessorFree, SingleRunning, Answering
  <2> QED
    BY <2>2, <2>3
<1>5. CASE HandshakeName
  <2>1. ListsTypeOK' /\ EsisTypeOK' /\ ConsoleTypeOK'
    BY <1>5 DEF HandshakeName, ListsTypeOK, EsisTypeOK, ConsoleTypeOK
  <2>2. ThreadsTypeOK' /\ LocalsSound' /\ ProcessorFree' /\ SingleRunning'
    BY <1>5, NoNameIsName DEF HandshakeName, Listening, ThreadsTypeOK, LocalsSound,
       ProcessorFree, SingleRunning, Answering
  <2> QED
    BY <2>1, <2>2
<1> QED
  BY <1>1, <1>2, <1>3, <1>4, <1>5

\* ESI_EXECUTION_LINE_OK and ESI_EXECUTION_FINISHED act on whoever heads
\* running_queue.
LEMMA ExecutionPreserves ==
  ASSUME PlannerInv, LineOk \/ \E e \in ESI : EsiFinished(e)
  PROVE  PlannerInv'
<1> USE DEF PlannerInv, PlannerTypeOK, queues, console
<1>1. running_queue # <<>> => Head(running_queue) \in ESI
  BY DEF ListsTypeOK
<1>2. CASE LineOk
  <2>1. Head(running_queue) \in ESI
    BY <1>1, <1>2 DEF LineOk
  <2>2. EsisTypeOK'
    <3> DEFINE r == [esi[Head(running_queue)] EXCEPT !.program_counter = @ + 1]
    <3>1. r \in ESIRecord
      BY <2>1 DEF EsisTypeOK, ESIRecord
    <3>2. esi' = [esi EXCEPT ![Head(running_queue)] = r] /\ UNCHANGED esi_id_counter
      BY <1>2 DEF LineOk
    <3> HIDE DEF r
    <3> QED
      BY <2>1, <3>1, <3>2 DEF EsisTypeOK
  <2>3. ListsTypeOK' /\ ConsoleTypeOK'
    BY <1>2 DEF LineOk, ListsTypeOK, ConsoleTypeOK
  <2>4. ThreadsTypeOK' /\ LocalsSound' /\ ProcessorFree' /\ SingleRunning'
    BY <1>2 DEF LineOk, ThreadsTypeOK, LocalsSound, ProcessorFree, SingleRunning
  <2> QED
    BY <2>2, <2>3, <2>4
<1>3. ASSUME NEW e \in ESI, EsiFinished(e) PROVE PlannerInv'
  <2> DEFINE h == Head(running_queue)
  <2>1. h \in ESI /\ running_queue # <<>> /\ running_queue' = Tail(running_queue)
    BY <1>1, <1>3 DEF EsiFinished
  <2>2. "STATUS_FINISHED" \in ESIStatus
    BY DEF ESIStatus
  <2>3. estimated(esi[h]) \in ESIRecord
    BY <2>1, TurnType DEF EsisTypeOK
  <2>4. [estimated(esi[h]) EXCEPT !.status = "STATUS_FINISHED"] \in ESIRecord
    BY <2>2, <2>3 DEF ESIRecord
  <2>5. EsisTypeOK'
    BY <1>3, <2>1, <2>4 DEF EsiFinished, EsisTypeOK
  <2>6. running_queue' \in Seq(ESI) /\ Len(running_queue') = Len(running_queue) - 1
    BY <2>1, HeadTailProperties DEF ListsTypeOK
  <2>7. ListsTypeOK' /\ ConsoleTypeOK'
    BY <1>3, <2>1, <2>6 DEF EsiFinished, ListsTypeOK, ConsoleTypeOK
  <2>8. run.pc \notin {"take", "put"}
    BY <2>1 DEF ProcessorFree
  <2>9. ThreadsTypeOK' /\ LocalsSound' /\ ProcessorFree' /\ SingleRunning'
    BY <1>3, <2>6, <2>8 DEF EsiFinished, ThreadsTypeOK, LocalsSound, ProcessorFree,
                       SingleRunning, ListsTypeOK
  <2> QED
    BY <2>5, <2>7, <2>9
<1> QED
  BY <1>2, <1>3

\* RESOURCE_STATUS_CHANGE_TO_PLANNER.
LEMMA StatusPreserves == ASSUME PlannerInv, StatusChanged PROVE PlannerInv'
<1> USE DEF PlannerInv, PlannerTypeOK, queues, console
<1> DEFINE c == Head(coord_planner).content
<1>1. c.key \in Key /\ c.ESIName \in Name /\ c.status \in {"BLOCKED", "RELEASED"}
  BY FrameContent DEF StatusChanged, FromCoordinator, Arrives
<1> HIDE DEF c
<1>2. UNCHANGED <<FLAG_PLANIFICATION_RUNNING, ready_queue, running_queue, blocked_queue,
                  finished_queue, esi_sockets_list, esi_id_counter, esi, listen, run,
                  command_number, commands, segfault>>
  BY DEF StatusChanged
<1>3. \/ taken_keys' = load_key(taken_keys, c.key, c.ESIName) /\ UNCHANGED release
      \/ /\ taken_keys' = Unlink(taken_keys, c.key, "BLOCKED")
         /\ release' = [release EXCEPT !["listen"] = [@ EXCEPT !.pc = "find", !.key = c.key]]
  BY DEF StatusChanged, StartRelease, c
<1>4. taken_keys' \in Seq(KeyNode)
  <2>1. Node(c.ESIName, c.key, "BLOCKED") \in KeyNode
    BY <1>1 DEF Node, KeyNode
  <2>2. load_key(taken_keys, c.key, c.ESIName) \in Seq(KeyNode)
    BY <2>1 DEF load_key, ListsTypeOK
  <2> QED
    BY <1>3, <2>2, UnlinkType DEF ListsTypeOK
<1>5. ListsTypeOK' /\ EsisTypeOK' /\ ConsoleTypeOK'
  BY <1>2, <1>4 DEF ListsTypeOK, EsisTypeOK, ConsoleTypeOK
<1>6. \/ release' = release
      \/ /\ release' \in [Releaser -> ReleaseRecord]
         /\ \A u \in Releaser : u # "listen" => release'[u] = release[u]
         /\ release'["listen"].pc = "find" /\ release'["listen"].key \in Key
  BY <1>1, <1>3, StartReleaseType DEF Releaser
<1>7. ThreadsTypeOK' /\ LocalsSound' /\ ProcessorFree' /\ SingleRunning'
  BY <1>2, <1>6 DEF ThreadsTypeOK, LocalsSound, ProcessorFree, SingleRunning
<1> QED
  BY <1>5, <1>7

\* CAN_ESI_GET_KEY, with block_esi and the node that joins taken_keys, and
\* the checks of SET and STORE.
LEMMA GetPreserves ==
  ASSUME PlannerInv, GetAllowed \/ GetDenied \/ block_esi \/ WaitForKey \/ CheckOwner
  PROVE  PlannerInv'
<1> USE DEF PlannerInv, PlannerTypeOK, queues, console
<1>1. CASE GetAllowed \/ CheckOwner
  BY <1>1, StutterPlannerInv DEF GetAllowed, CheckOwner
<1>2. CASE GetDenied
  <2> DEFINE c == Head(coord_planner).content
  <2>1. c.key \in Key /\ c.ESIName \in Name
    BY <1>2, FrameContent DEF GetDenied, FromCoordinator, Arrives
  <2>2. listen' = [listen EXCEPT !.pc = "block", !.key = c.key, !.name = c.ESIName]
        /\ UNCHANGED <<run, release>>
    BY <1>2 DEF GetDenied
  <2>3. ListsTypeOK' /\ EsisTypeOK' /\ ConsoleTypeOK' /\ ProcessorFree' /\ SingleRunning'
    BY <1>2 DEF GetDenied, ListsTypeOK, EsisTypeOK, ConsoleTypeOK, ProcessorFree, SingleRunning
  <2>4. UNCHANGED ready_queue
    BY <1>2 DEF GetDenied
  <2> HIDE DEF c
  <2>5. ThreadsTypeOK' /\ LocalsSound'
    BY <2>1, <2>2, <2>4 DEF ThreadsTypeOK, LocalsSound, Answering
  <2> QED
    BY <2>3, <2>5
<1>3. CASE block_esi
  <2> DEFINE n == FindEsi(running_queue, listen.name)
             e == running_queue[n]
  <2>1. n \in 1..Len(running_queue) /\ e \in ESI
    BY <1>3, FindEsiRange DEF block_esi, ListsTypeOK
  <2>2. /\ running_queue' = RemoveAt(running_queue, n)
        /\ blocked_queue' = Append(blocked_queue, e)
        /\ esi' = [esi EXCEPT ![e] = estimated(esi[e])]
        /\ listen' = [listen EXCEPT !.pc = "wait"] /\ listen.pc = "block"
        /\ UNCHANGED <<FLAG_PLANIFICATION_RUNNING, ready_queue, finished_queue, esi_sockets_list,
                       taken_keys, esi_id_counter, run, release, command_number, commands, segfault>>
    BY <1>3 DEF block_esi
  <2> HIDE DEF n, e
  <2>3. running_queue' \in Seq(ESI) /\ Len(running_queue') = Len(running_queue) - 1
    BY <2>1, <2>2, RemoveAtProperties DEF ListsTypeOK
  <2>4. estimated(esi[e]) \in ESIRecord
    BY <2>1, TurnType DEF EsisTypeOK
  <2>5. ListsTypeOK' /\ EsisTypeOK' /\ ConsoleTypeOK'
    BY <2>1, <2>2, <2>3, <2>4 DEF ListsTypeOK, EsisTypeOK, ConsoleTypeOK
  <2>6. running_queue # <<>>
    BY <2>1
  <2>7. ThreadsTypeOK' /\ LocalsSound'
    BY <2>2 DEF ThreadsTypeOK, LocalsSound, Answering
  <2>8. ProcessorFree' /\ SingleRunning'
    BY <2>2, <2>3, <2>6 DEF ProcessorFree, SingleRunning, ListsTypeOK
  <2> QED
    BY <2>5, <2>7, <2>8
<1>4. CASE WaitForKey
  <2>1. listen.key \in Key /\ listen.name \in Name
    BY <1>4 DEF WaitForKey, LocalsSound, ThreadsTypeOK
  <2>2. Node(listen.name, listen.key, "WAITING") \in KeyNode
    BY <2>1 DEF Node, KeyNode
  <2>3. taken_keys' \in Seq(KeyNode)
    BY <1>4, <2>2 DEF WaitForKey, wait_for_key, ListsTypeOK
  <2>4. ListsTypeOK' /\ EsisTypeOK' /\ ConsoleTypeOK'
    BY <1>4, <2>3 DEF WaitForKey, ListsTypeOK, EsisTypeOK, ConsoleTypeOK
  <2>5. ThreadsTypeOK' /\ LocalsSound' /\ ProcessorFree' /\ SingleRunning'
    BY <1>4, NoNameIsName DEF WaitForKey, Listening, ThreadsTypeOK, LocalsSound,
       ProcessorFree, SingleRunning, Answering
  <2> QED
    BY <2>4, <2>5
<1> QED
  BY <1>1, <1>2, <1>3, <1>4

-----------------------------------------------------------------------------
\* Every step of the planner preserves the invariant.
LEMMA StepPlannerInv == PlannerInv /\ [PlannerNext]_plannerVars => PlannerInv'
<1> SUFFICES ASSUME PlannerInv, [PlannerNext]_plannerVars PROVE PlannerInv'
  OBVIOUS
<1>1. CASE ListenNext
  BY <1>1, HandshakePreserves, ExecutionPreserves, StatusPreserves, GetPreserves DEF ListenNext
<1>2. CASE RunNext
  BY <1>2, RunPreserves
<1>3. CASE ConsoleNext
  BY <1>3, ConsolePreserves
<1>4. CASE Segfault
  BY <1>4, SegfaultPreserves
<1>5. ASSUME NEW t \in Releaser, ReleaseNext(t) PROVE PlannerInv'
  BY <1>5, ReleasePreserves
<1>6. CASE UNCHANGED plannerVars
  BY <1>6, StutterPlannerInv
<1> QED
  BY <1>1, <1>2, <1>3, <1>4, <1>5, <1>6 DEF PlannerNext

\* The inductive invariant of the planner: the types, what the locals of the
\* three threads hold, and why the processor is free when it is filled.
THEOREM PlannerInvHolds == PlannerSpec => []PlannerInv
  BY InitPlannerInv, StepPlannerInv, PTL DEF PlannerSpec

\* The variables of the planner keep their types, whatever arrives on its
\* sockets (launcher.c:19-34, structures.h).
THEOREM PlannerTypes == PlannerSpec => []PlannerTypeOK
<1>1. PlannerInv => PlannerTypeOK
  BY DEF PlannerInv
<1> QED
  BY <1>1, PlannerInvHolds, PTL

\* The processor never has two ESIs, although no lock protects running_queue
\* (launcher.c:297-299, 187, 546): for every number of ESIs and keys, every
\* order of messages and every console command.
THEOREM ProcessorIsSingle == PlannerSpec => []SingleRunning
<1>1. PlannerInv => SingleRunning
  BY DEF PlannerInv
<1> QED
  BY <1>1, PlannerInvHolds, PTL

-----------------------------------------------------------------------------
(***************************************************************************)
(* No ESI is lost or duplicated on its way from queue to queue, provided   *)
(* that no release from the console overlaps a handler of the listening    *)
(* thread ("console" not in Windows): otherwise two threads release the    *)
(* same key and move an ESI by a position that no longer is its own.       *)
(*                                                                         *)
(* The inductive invariant is QueueInv.  Three lemmas carry it: one thread *)
(* at a time releases or handles (OneAtATime); hence a remembered position *)
(* stays right (PositionHeld); hence every move takes the ESI it means to. *)
(***************************************************************************)
\* A step of the release loop is a step of a thread that is in it, and it
\* leaves the locals of everybody else alone.
LEMMA ReleaseNextLocals ==
  ASSUME ThreadsTypeOK, NEW t \in Releaser, ReleaseNext(t)
  PROVE  /\ release[t].pc # "idle" /\ UNCHANGED <<listen, run, esi_sockets_list>>
         /\ \A u \in Releaser : u # t => release'[u] = release[u]
<1>1. CASE FindWaiting(t)
  BY <1>1 DEF FindWaiting, ThreadsTypeOK
<1>2. CASE UnlinkWaiting(t)
  BY <1>2 DEF UnlinkWaiting, ThreadsTypeOK
<1>3. CASE LocateBlocked(t)
  BY <1>3 DEF LocateBlocked, ThreadsTypeOK
<1>4. CASE MoveToReady(t)
  BY <1>4 DEF MoveToReady, ThreadsTypeOK
<1> QED
  BY <1>1, <1>2, <1>3, <1>4 DEF ReleaseNext

\* The listening thread and the console never overlap.
LEMMA StepOneAtATime ==
  ASSUME "console" \notin Windows, PlannerInv, OneAtATime, [PlannerNext]_plannerVars
  PROVE  OneAtATime'
<1> USE DEF PlannerInv, PlannerTypeOK
<1>0. "listen" \in Releaser /\ "console" \in Releaser
  BY DEF Releaser
<1>1. CASE ListenNext
  <2>1. \/ Select
        \/ listen.pc # "select" /\ UNCHANGED release
    BY <1>1 DEF ListenNext, RegisterEsi, EsiFinished, Undecoded, LostSocket, HandshakeStatus, HandshakeHeader,
                HandshakeName, LineOk, StatusChanged, GetAllowed, GetDenied, block_esi,
                WaitForKey, CheckOwner
  <2>2. CASE listen.pc # "select" /\ UNCHANGED release
    BY <2>2 DEF OneAtATime, ListenerFree
  <2>3. CASE Select
    <3>1. listen.pc = "select" /\ release["listen"].pc = "idle" /\ release["console"].pc = "idle"
      BY <2>3 DEF Select, ListenerFree, ConsoleFree
    <3>2. UNCHANGED release \/ StatusChanged
      BY <1>1, <3>1 DEF ListenNext, RegisterEsi, EsiFinished, Undecoded, LostSocket, HandshakeStatus,
           HandshakeHeader, HandshakeName, LineOk, GetAllowed, GetDenied, block_esi,
           WaitForKey, CheckOwner, plannerVars
    <3>3. CASE UNCHANGED release
      BY <3>1, <3>3 DEF OneAtATime, ListenerFree
    <3>4. CASE StatusChanged
      <4>1. UNCHANGED listen /\ release'["console"] = release["console"]
        BY <3>4, <1>0 DEF StatusChanged, StartRelease, ThreadsTypeOK
      <4> QED
        BY <3>1, <4>1 DEF OneAtATime, ListenerFree
    <3> QED
      BY <3>2, <3>3, <3>4
  <2> QED
    BY <2>1, <2>2, <2>3
<1>2. CASE RunNext
  BY <1>2 DEF RunNext, RunPoll, RunTake, RunPut, RunStart, ClearRedo, OneAtATime, ListenerFree
<1>3. CASE ConsoleNext
  <2>1. PICK c \in Commands : pause(c) \/ resume(c) \/ block(c) \/ unblock(c) \/ quit(c) \/ EndOfInput(c)
    BY <1>3 DEF ConsoleNext
  <2>2. UNCHANGED listen /\ (UNCHANGED release \/ StartRelease("console", ConsoleKey(c.key)))
    BY <2>1 DEF pause, resume, block, unblock, quit, EndOfInput, Command
  <2>3. CASE UNCHANGED release
    BY <2>2, <2>3 DEF OneAtATime, ListenerFree
  <2>4. CASE unblock(c)
    <3>1. ListenerFree /\ UNCHANGED listen /\ StartRelease("console", ConsoleKey(c.key))
      BY <2>2, <2>4 DEF unblock, Undisturbed
    <3>2. release'["listen"] = release["listen"]
      BY <3>1, <1>0 DEF StartRelease, ThreadsTypeOK
    <3> QED
      BY <3>1, <3>2 DEF OneAtATime, ListenerFree
  <2> QED
    BY <2>1, <2>3, <2>4 DEF pause, resume, block, quit, EndOfInput
<1>4. CASE Segfault
  BY <1>4 DEF Segfault, OneAtATime, ListenerFree
<1>5. ASSUME NEW t \in Releaser, ReleaseNext(t) PROVE OneAtATime'
  <2>1. /\ release[t].pc # "idle" /\ UNCHANGED listen
        /\ \A u \in Releaser : u # t => release'[u] = release[u]
    BY <1>5, ReleaseNextLocals
  <2> QED
    BY <2>1 DEF OneAtATime, ListenerFree, Releaser
<1>6. CASE UNCHANGED plannerVars
  BY <1>6 DEF plannerVars, OneAtATime, ListenerFree
<1> QED
  BY <1>1, <1>2, <1>3, <1>4, <1>5, <1>6 DEF PlannerNext

-----------------------------------------------------------------------------
\* A position stays right when blocked_queue only grows at its end and the
\* thread that remembers it does not move.
LEMMA PositionKept ==
  ASSUME ListsTypeOK, PositionHeld,
         blocked_queue' = blocked_queue
           \/ \E e \in ESI : blocked_queue' = Append(blocked_queue, e),
         \A t \in Releaser : release'[t].pc = "move" => release'[t] = release[t]
  PROVE  PositionHeld'
<1> SUFFICES ASSUME NEW t \in Releaser, release'[t].pc = "move"
             PROVE  /\ release'[t].at \in 1..Len(blocked_queue')
                    /\ blocked_queue'[release'[t].at] = release'[t].esi
  BY DEF PositionHeld
<1>1. /\ release'[t] = release[t] /\ release[t].at \in 1..Len(blocked_queue)
      /\ blocked_queue[release[t].at] = release[t].esi
  BY DEF PositionHeld
<1>2. CASE blocked_queue' = blocked_queue
  BY <1>1, <1>2
<1>3. ASSUME NEW e \in ESI, blocked_queue' = Append(blocked_queue, e)
      PROVE  /\ release'[t].at \in 1..Len(blocked_queue')
             /\ blocked_queue'[release'[t].at] = release'[t].esi
  BY <1>1, <1>3 DEF ListsTypeOK
<1> QED
  BY <1>2, <1>3

\* The position that LocateBlocked remembers is right until it is used.
LEMMA StepPositionHeld ==
  ASSUME PlannerInv, OneAtATime, PositionHeld, [PlannerNext]_plannerVars
  PROVE  PositionHeld'
<1> USE DEF PlannerInv, PlannerTypeOK
<1>0. "listen" \in Releaser /\ "console" \in Releaser
  BY DEF Releaser
<1>1. CASE ListenNext
  <2>1. blocked_queue' = blocked_queue \/ block_esi
    BY <1>1 DEF ListenNext, RegisterEsi, EsiFinished, Undecoded, LostSocket, HandshakeStatus, HandshakeHeader,
                HandshakeName, LineOk, StatusChanged, GetAllowed, GetDenied, WaitForKey, CheckOwner,
                plannerVars, queues
  <2>2. block_esi => \E e \in ESI : blocked_queue' = Append(blocked_queue, e)
    <3>1. FindEsi(running_queue, listen.name) # 0
            => running_queue[FindEsi(running_queue, listen.name)] \in ESI
      BY FindEsiRange DEF ListsTypeOK
    <3> QED
      BY <3>1 DEF block_esi
  <2>3. UNCHANGED release \/ StatusChanged
    BY <1>1 DEF ListenNext, RegisterEsi, EsiFinished, Undecoded, LostSocket, HandshakeStatus,
         HandshakeHeader, HandshakeName, LineOk, GetAllowed, GetDenied, block_esi,
         WaitForKey, CheckOwner, plannerVars
  <2>4. StatusChanged => UNCHANGED release \/ \E k \in Key : StartRelease("listen", k)
    BY FrameContent DEF StatusChanged, FromCoordinator, Arrives
  <2>5. \A t \in Releaser : release'[t].pc = "move" => release'[t] = release[t]
    BY <1>0, <2>3, <2>4, StartReleaseType DEF StartRelease
  <2> QED
    BY <2>1, <2>2, <2>5, PositionKept
<1>2. CASE RunNext
  <2>1. UNCHANGED <<blocked_queue, release>>
    BY <1>2 DEF RunNext, RunPoll, RunTake, RunPut, RunStart, ClearRedo, queues
  <2> QED
    BY <2>1 DEF PositionHeld
<1>3. CASE ConsoleNext
  <2>1. PICK c \in Commands : pause(c) \/ resume(c) \/ block(c) \/ unblock(c) \/ quit(c) \/ EndOfInput(c)
    BY <1>3 DEF ConsoleNext
  <2>2. UNCHANGED blocked_queue /\ (UNCHANGED release \/ StartRelease("console", ConsoleKey(c.key)))
    BY <2>1 DEF pause, resume, block, unblock, quit, EndOfInput, Command, queues
  <2>3. \A t \in Releaser : release'[t].pc = "move" => release'[t] = release[t]
    <3>1. unblock(c) => ConsoleKey(c.key) \in Key
      BY ConfigAssumption DEF unblock, ConsoleKey
    <3>2. UNCHANGED release \/ (ConsoleKey(c.key) \in Key /\ StartRelease("console", ConsoleKey(c.key)))
      BY <2>1, <3>1 DEF pause, resume, block, unblock, quit, EndOfInput
    <3> QED
      BY <1>0, <3>2, StartReleaseType DEF StartRelease
  <2> QED
    BY <2>2, <2>3, PositionKept
<1>4. CASE Segfault
  BY <1>4 DEF Segfault, queues, PositionHeld
<1>5. ASSUME NEW t \in Releaser, ReleaseNext(t) PROVE PositionHeld'
  <2>1. \A u \in Releaser : u # t => release'[u] = release[u]
    BY <1>5, ReleaseNextLocals
  <2>2. CASE FindWaiting(t) \/ UnlinkWaiting(t)
    <3>1. UNCHANGED blocked_queue /\ release'[t].pc # "move"
      <4>1. release[t] \in ReleaseRecord
        BY DEF ThreadsTypeOK
      <4>2. NoRelease.pc = "idle"
        BY DEF NoRelease
      <4>3. ASSUME NEW name PROVE [release[t] EXCEPT !.pc = "unlink", !.name = name].pc = "unlink"
        BY <4>1 DEF ReleaseRecord
      <4>4. CASE FindWaiting(t)
        BY <4>2, <4>3, <4>4 DEF FindWaiting, ThreadsTypeOK, queues
      <4>5. CASE UnlinkWaiting(t)
        BY <4>1, <4>5 DEF UnlinkWaiting, ThreadsTypeOK, ReleaseRecord, queues
      <4> QED
        BY <2>2, <4>4, <4>5
    <3> QED
      BY <2>1, <3>1, PositionKept
  <2>3. CASE LocateBlocked(t)
    <3> DEFINE n == FindEsi(blocked_queue, release[t].name)
    <3>1. n \in 1..Len(blocked_queue)
      BY <2>3, FindEsiRange DEF LocateBlocked, ListsTypeOK
    <3> HIDE DEF n
    <3>2. UNCHANGED blocked_queue /\ release'[t].at = n /\ release'[t].esi = blocked_queue[n]
      BY <2>3 DEF LocateBlocked, n, ThreadsTypeOK, ReleaseRecord, queues
    <3> QED
      BY <2>1, <3>1, <3>2 DEF PositionHeld
  <2>4. CASE MoveToReady(t)
    <3>1. release[t].pc # "idle" /\ release'[t].pc = "find"
      BY <2>4 DEF MoveToReady, NextWaiting, NoRelease, ThreadsTypeOK
    <3>2. \A u \in Releaser : u # t => release[u].pc = "idle"
      BY <3>1 DEF OneAtATime, ListenerFree, Releaser
    <3> QED
      BY <2>1, <3>1, <3>2 DEF PositionHeld
  <2> QED
    BY <1>5, <2>2, <2>3, <2>4 DEF ReleaseNext
<1>6. CASE UNCHANGED plannerVars
  BY <1>6 DEF plannerVars, queues, PositionHeld
<1> QED
  BY <1>1, <1>2, <1>3, <1>4, <1>5, <1>6 DEF PlannerNext

-----------------------------------------------------------------------------
\* QueuePartition, seen as a fact about the six sets of ESIs.
Partition(ready, running, blocked, finished, inHand, registered) ==
  /\ ready \cap running = {} /\ ready \cap blocked = {} /\ ready \cap finished = {}
  /\ ready \cap inHand = {} /\ running \cap blocked = {} /\ running \cap finished = {}
  /\ running \cap inHand = {} /\ blocked \cap finished = {} /\ blocked \cap inHand = {}
  /\ finished \cap inHand = {}
  /\ registered = ready \cup running \cup blocked \cup finished \cup inHand

LEMMA PartitionOfSets ==
  QueuePartition <=>
    /\ OnceInEach
    /\ Partition(ToSet(ready_queue), ToSet(running_queue), ToSet(blocked_queue),
                 ToSet(finished_queue), ToSet(hand), ToSet(esi_sockets_list))
  BY DEF QueuePartition, InOneOnly, NoneMissing, Apart, Partition

\* The same of the next state.
LEMMA PartitionOfSetsNext ==
  QueuePartition' <=>
    /\ OnceInEach'
    /\ Partition(ToSet(ready_queue'), ToSet(running_queue'), ToSet(blocked_queue'),
                 ToSet(finished_queue'), ToSet(hand'), ToSet(esi_sockets_list'))
  BY DEF QueuePartition, InOneOnly, NoneMissing, Apart, Partition

\* What the running thread has in hand, before and after a step.
LEMMA HandElements ==
  /\ ToSet(hand) = IF run.pc = "put" THEN {run.esi} ELSE {}
  /\ ToSet(hand') = IF run'.pc = "put" THEN {run'.esi} ELSE {}
<1>1. ASSUME NEW e PROVE ToSet(<<e>>) = {e}
  BY DEF ToSet
<1>2. ToSet(<<>>) = {}
  BY DEF ToSet
<1> QED
  BY <1>1, <1>2 DEF hand

\* A step that moves no ESI.
LEMMA PartitionKept ==
  ASSUME QueuePartition, run' = run \/ (run.pc # "put" /\ run'.pc # "put"),
         UNCHANGED <<ready_queue, running_queue, blocked_queue, finished_queue, esi_sockets_list>>
  PROVE  QueuePartition'
  BY PartitionOfSets, PartitionOfSetsNext, HandElements DEF OnceInEach

\* RegisterEsi: an ESI whose socket is new is in no queue.
LEMMA RegisterPartition ==
  ASSUME ListsTypeOK, QueuePartition, NEW e \in ESI, RegisterEsi(e)
  PROVE  /\ QueuePartition' /\ e \notin ToSet(esi_sockets_list)
         /\ ToSet(ready_queue') = ToSet(ready_queue) \cup {e}
<1>1. /\ ready_queue' = <<e>> \o ready_queue /\ esi_sockets_list' = Append(esi_sockets_list, e)
      /\ UNCHANGED <<running_queue, blocked_queue, finished_queue, run>>
      /\ \A i \in 1..Len(esi_sockets_list) : esi_sockets_list[i] # e
  BY DEF RegisterEsi
<1>2. e \notin ToSet(esi_sockets_list)
  <2>1. ToSet(esi_sockets_list) = {esi_sockets_list[i] : i \in 1..Len(esi_sockets_list)}
    BY ElementsOfSeq DEF ListsTypeOK
  <2> QED
    BY <1>1, <2>1
<1>3. ToSet(esi_sockets_list') = ToSet(esi_sockets_list) \cup {e}
  BY <1>1, AppendElements DEF ListsTypeOK
<1>4. e \notin ToSet(ready_queue)
  BY <1>2, PartitionOfSets DEF Partition
<1>5. ToSet(ready_queue') = ToSet(ready_queue) \cup {e} /\ IsInjective(ready_queue')
  BY <1>1, <1>4, PartitionOfSets, ConsElements DEF ListsTypeOK, OnceInEach
<1>6. ToSet(hand') = ToSet(hand)
  BY <1>1, HandElements
<1>7. OnceInEach'
  BY <1>1, <1>5, PartitionOfSets DEF OnceInEach
<1>8. QueuePartition'
  BY <1>1, <1>2, <1>3, <1>5, <1>6, <1>7, PartitionOfSets, PartitionOfSetsNext DEF Partition
<1> QED
  BY <1>8, <1>2, <1>5

\* EsiFinished: the head of running_queue goes to finished_queue.
LEMMA FinishPartition ==
  ASSUME ListsTypeOK, QueuePartition, NEW e \in ESI, EsiFinished(e)
  PROVE  /\ QueuePartition'
         /\ \E h \in ESI : /\ h \in ToSet(running_queue)
                           /\ ToSet(running_queue') = ToSet(running_queue) \ {h}
                           /\ ToSet(finished_queue') = ToSet(finished_queue) \cup {h}
<1> DEFINE h == Head(running_queue)
<1>1. /\ running_queue # <<>> /\ running_queue' = Tail(running_queue)
      /\ finished_queue' = Append(finished_queue, h)
      /\ UNCHANGED <<ready_queue, blocked_queue, esi_sockets_list, run>>
  BY DEF EsiFinished
<1>2. h \in ESI
  BY <1>1 DEF ListsTypeOK
<1>3. /\ ToSet(running_queue') = ToSet(running_queue) \ {h} /\ h \in ToSet(running_queue)
      /\ IsInjective(running_queue')
  BY <1>1, PartitionOfSets, TailElements DEF ListsTypeOK, OnceInEach
<1> HIDE DEF h
<1>4. h \notin ToSet(finished_queue)
  BY <1>3, PartitionOfSets DEF Partition
<1>5. ToSet(finished_queue') = ToSet(finished_queue) \cup {h} /\ IsInjective(finished_queue')
  BY <1>1, <1>2, <1>4, PartitionOfSets, AppendElements DEF ListsTypeOK, OnceInEach
<1>6. ToSet(hand') = ToSet(hand)
  BY <1>1, HandElements
<1>7. OnceInEach'
  BY <1>1, <1>3, <1>5, PartitionOfSets DEF OnceInEach
<1>8. QueuePartition'
  BY <1>1, <1>3, <1>5, <1>6, <1>7, PartitionOfSets, PartitionOfSetsNext DEF Partition
<1> QED
  BY <1>8, <1>2, <1>3, <1>5

\* block_esi: the ESI that was refused goes to blocked_queue.
LEMMA BlockPartition ==
  ASSUME ListsTypeOK, QueuePartition, block_esi
  PROVE  /\ QueuePartition'
         /\ \E e \in ESI : /\ e \in ToSet(running_queue)
                           /\ ToSet(running_queue') = ToSet(running_queue) \ {e}
                           /\ ToSet(blocked_queue') = ToSet(blocked_queue) \cup {e}
<1> DEFINE n == FindEsi(running_queue, listen.name)
           e == running_queue[n]
<1>1. /\ running_queue' = RemoveAt(running_queue, n)
      /\ blocked_queue' = Append(blocked_queue, e)
      /\ UNCHANGED <<ready_queue, finished_queue, esi_sockets_list, run>>
  BY DEF block_esi
<1>2. n \in 1..Len(running_queue) /\ e \in ESI
  BY FindEsiRange DEF block_esi, ListsTypeOK
<1> HIDE DEF n
<1>3. /\ ToSet(running_queue') = ToSet(running_queue) \ {e} /\ e \in ToSet(running_queue)
      /\ IsInjective(running_queue')
  BY <1>1, <1>2, PartitionOfSets, RemoveAtElements, ElementsOfSeq DEF ListsTypeOK, OnceInEach
<1> HIDE DEF e
<1>4. e \notin ToSet(blocked_queue)
  BY <1>3, PartitionOfSets DEF Partition
<1>5. ToSet(blocked_queue') = ToSet(blocked_queue) \cup {e} /\ IsInjective(blocked_queue')
  BY <1>1, <1>2, <1>4, PartitionOfSets, AppendElements DEF ListsTypeOK, OnceInEach
<1>6. ToSet(hand') = ToSet(hand)
  BY <1>1, HandElements
<1>7. OnceInEach'
  BY <1>1, <1>3, <1>5, PartitionOfSets DEF OnceInEach
<1>8. QueuePartition'
  BY <1>1, <1>3, <1>5, <1>6, <1>7, PartitionOfSets, PartitionOfSetsNext DEF Partition
<1> QED
  BY <1>8, <1>2, <1>3, <1>5

\* MoveToReady: the ESI that LocateBlocked found is still at its position.
LEMMA MovePartition ==
  ASSUME ListsTypeOK, PositionHeld, QueuePartition, NEW t \in Releaser, MoveToReady(t)
  PROVE  /\ QueuePartition'
         /\ \E e \in ESI : /\ e \in ToSet(blocked_queue)
                           /\ ToSet(blocked_queue') = ToSet(blocked_queue) \ {e}
                           /\ ToSet(ready_queue') = ToSet(ready_queue) \cup {e}
<1> DEFINE n == release[t].at
           e == release[t].esi
<1>1. n \in 1..Len(blocked_queue) /\ e = blocked_queue[n] /\ e \in ESI
  BY DEF MoveToReady, PositionHeld, ListsTypeOK
<1>2. /\ blocked_queue' = RemoveAt(blocked_queue, n) /\ ready_queue' = Append(ready_queue, e)
      /\ UNCHANGED <<running_queue, finished_queue, esi_sockets_list, run>>
  BY <1>1 DEF MoveToReady, list_remove, ListsTypeOK
<1> HIDE DEF n, e
<1>3. /\ ToSet(blocked_queue') = ToSet(blocked_queue) \ {e} /\ e \in ToSet(blocked_queue)
      /\ IsInjective(blocked_queue')
  <2>1. blocked_queue \in Seq(ESI) /\ IsInjective(blocked_queue)
    BY PartitionOfSets DEF ListsTypeOK, OnceInEach
  <2>2. e \in ToSet(blocked_queue)
    BY <1>1, <2>1, ElementsOfSeq
  <2> QED
    BY <1>1, <1>2, <2>1, <2>2, RemoveAtElements
<1>4. e \notin ToSet(ready_queue)
  BY <1>3, PartitionOfSets DEF Partition
<1>5. ToSet(ready_queue') = ToSet(ready_queue) \cup {e} /\ IsInjective(ready_queue')
  BY <1>1, <1>2, <1>4, PartitionOfSets, AppendElements DEF ListsTypeOK, OnceInEach
<1>6. ToSet(hand') = ToSet(hand)
  BY <1>2, HandElements
<1>7. OnceInEach'
  BY <1>2, <1>3, <1>5, PartitionOfSets DEF OnceInEach
<1>8. QueuePartition'
  BY <1>2, <1>3, <1>5, <1>6, <1>7, PartitionOfSets, PartitionOfSetsNext DEF Partition
<1> QED
  BY <1>8, <1>1, <1>3, <1>5

\* RunTake: the head of ready_queue goes to the hand of the running thread.
LEMMA TakePartition ==
  ASSUME ListsTypeOK, LocalsSound, QueuePartition, RunTake
  PROVE  /\ QueuePartition'
         /\ ToSet(ready_queue') \cup ToSet(hand') = ToSet(ready_queue) \cup ToSet(hand)
<1> DEFINE h == Head(ready_queue)
<1>1. /\ ready_queue # <<>> /\ ready_queue' = Tail(ready_queue)
      /\ run.pc = "take" /\ run'.pc = "put" /\ run'.esi = h
      /\ UNCHANGED <<running_queue, blocked_queue, finished_queue, esi_sockets_list>>
  BY DEF RunTake, LocalsSound
<1>2. /\ ToSet(ready_queue') = ToSet(ready_queue) \ {h} /\ h \in ToSet(ready_queue)
      /\ IsInjective(ready_queue')
  BY <1>1, PartitionOfSets, TailElements DEF ListsTypeOK, OnceInEach
<1> HIDE DEF h
<1>3. ToSet(hand) = {} /\ ToSet(hand') = {h}
  BY <1>1, HandElements
<1>4. OnceInEach'
  BY <1>1, <1>2, PartitionOfSets DEF OnceInEach
<1>5. QueuePartition'
  BY <1>1, <1>2, <1>3, <1>4, PartitionOfSets, PartitionOfSetsNext DEF Partition
<1> QED
  BY <1>5, <1>2, <1>3

\* RunPut: and from there to running_queue.
LEMMA PutPartition ==
  ASSUME ListsTypeOK, ThreadsTypeOK, LocalsSound, QueuePartition, RunPut
  PROVE  /\ QueuePartition'
         /\ run.esi \in ESI /\ ToSet(hand) = {run.esi} /\ ToSet(hand') = {}
         /\ ToSet(running_queue') = ToSet(running_queue) \cup {run.esi}
<1> DEFINE e == run.esi
<1>1. /\ e \in ESI /\ running_queue' = <<e>> \o running_queue
      /\ run.pc = "put" /\ run'.pc = "start"
      /\ UNCHANGED <<ready_queue, blocked_queue, finished_queue, esi_sockets_list>>
  BY DEF RunPut, LocalsSound, ThreadsTypeOK
<1>2. ToSet(hand) = {e} /\ ToSet(hand') = {}
  BY <1>1, HandElements
<1> HIDE DEF e
<1>3. e \notin ToSet(running_queue)
  BY <1>2, PartitionOfSets DEF Partition
<1>4. ToSet(running_queue') = ToSet(running_queue) \cup {e} /\ IsInjective(running_queue')
  BY <1>1, <1>3, PartitionOfSets, ConsElements DEF ListsTypeOK, OnceInEach
<1>5. OnceInEach'
  BY <1>1, <1>4, PartitionOfSets DEF OnceInEach
<1>6. QueuePartition'
  BY <1>1, <1>2, <1>4, <1>5, PartitionOfSets, PartitionOfSetsNext DEF Partition
<1> QED
  BY <1>6, <1>1, <1>2, <1>4 DEF e

-----------------------------------------------------------------------------
\* Every step of the planner keeps every registered ESI in one place.
LEMMA StepPartition ==
  ASSUME PlannerInv, OneAtATime, PositionHeld, QueuePartition, [PlannerNext]_plannerVars
  PROVE  QueuePartition'
<1> USE DEF PlannerInv, PlannerTypeOK
<1>1. CASE ListenNext
  <2>1. ASSUME NEW e \in ESI, RegisterEsi(e) PROVE QueuePartition'
    BY <2>1, RegisterPartition
  <2>2. ASSUME NEW e \in ESI, EsiFinished(e) PROVE QueuePartition'
    BY <2>2, FinishPartition
  <2>3. CASE block_esi
    BY <2>3, BlockPartition
  <2>4. ASSUME \/ \E e \in ESI : Undecoded(e) \/ LostSocket(e)
               \/ HandshakeStatus \/ HandshakeHeader \/ HandshakeName
               \/ LineOk \/ StatusChanged \/ GetAllowed \/ GetDenied \/ WaitForKey \/ CheckOwner
        PROVE  QueuePartition'
    <3>1. UNCHANGED <<ready_queue, running_queue, blocked_queue, finished_queue,
                      esi_sockets_list, run>>
      BY <2>4 DEF Undecoded, LostSocket, HandshakeStatus, HandshakeHeader, HandshakeName, LineOk, StatusChanged,
                  GetAllowed, GetDenied, WaitForKey, CheckOwner, plannerVars, queues
    <3> QED
      BY <3>1, PartitionKept
  <2> QED
    BY <1>1, <2>1, <2>2, <2>3, <2>4 DEF ListenNext
<1>2. CASE RunNext
  <2>1. CASE RunTake
    BY <2>1, TakePartition
  <2>2. CASE RunPut
    BY <2>2, PutPartition
  <2>3. CASE RunPoll \/ RunStart \/ ClearRedo
    <3>1. /\ UNCHANGED <<ready_queue, running_queue, blocked_queue, finished_queue,
                         esi_sockets_list>>
          /\ run.pc # "put" /\ run'.pc # "put"
      BY <2>3 DEF RunPoll, RunStart, ClearRedo, queues, ThreadsTypeOK
    <3> QED
      BY <3>1, PartitionKept
  <2> QED
    BY <1>2, <2>1, <2>2, <2>3 DEF RunNext
<1>3. CASE ConsoleNext \/ Segfault
  <2>1. UNCHANGED <<ready_queue, running_queue, blocked_queue, finished_queue,
                    esi_sockets_list, run>>
    BY <1>3 DEF ConsoleNext, pause, resume, block, unblock, quit, EndOfInput, Command, Segfault, queues
  <2> QED
    BY <2>1, PartitionKept
<1>4. ASSUME NEW t \in Releaser, ReleaseNext(t) PROVE QueuePartition'
  <2>1. CASE MoveToReady(t)
    BY <2>1, MovePartition
  <2>2. CASE FindWaiting(t) \/ UnlinkWaiting(t) \/ LocateBlocked(t)
    <3>1. UNCHANGED <<ready_queue, running_queue, blocked_queue, finished_queue,
                      esi_sockets_list, run>>
      BY <2>2 DEF FindWaiting, UnlinkWaiting, LocateBlocked, queues
    <3> QED
      BY <3>1, PartitionKept
  <2> QED
    BY <1>4, <2>1, <2>2 DEF ReleaseNext
<1>5. CASE UNCHANGED plannerVars
  <2>1. UNCHANGED <<ready_queue, running_queue, blocked_queue, finished_queue,
                    esi_sockets_list, run>>
    BY <1>5 DEF plannerVars, queues
  <2> QED
    BY <2>1, PartitionKept
<1> QED
  BY <1>1, <1>2, <1>3, <1>4, <1>5 DEF PlannerNext

\* The planner starts with nobody in its queues.
LEMMA InitQueueInv == PlannerInit => OneAtATime /\ PositionHeld /\ QueuePartition
<1> SUFFICES ASSUME PlannerInit PROVE OneAtATime /\ PositionHeld /\ QueuePartition
  OBVIOUS
<1>1. OneAtATime /\ PositionHeld
  BY DEF PlannerInit, OneAtATime, PositionHeld, NoRelease, Releaser, Listening, ListenerFree
<1>2. ToSet(<<>>) = {} /\ IsInjective(<<>>)
  BY DEF ToSet, IsInjective
<1>3. ToSet(hand) = {}
  BY HandElements DEF PlannerInit
<1>4. OnceInEach
  BY <1>2 DEF PlannerInit, OnceInEach
<1>5. Partition(ToSet(ready_queue), ToSet(running_queue), ToSet(blocked_queue),
                ToSet(finished_queue), ToSet(hand), ToSet(esi_sockets_list))
  BY <1>2, <1>3 DEF PlannerInit, Partition
<1> QED
  BY <1>1, <1>4, <1>5, PartitionOfSets

\* What keeps the queues a partition (types, the processor free until it is
\* filled, one thread at a time, the remembered position) is inductive, when
\* no release from the console overlaps a handler of the listening thread.
THEOREM QueueInvHolds ==
  ASSUME "console" \notin Windows
  PROVE  PlannerSpec => []QueueInv
<1>1. PlannerInit => QueueInv
  BY InitPlannerInv, InitQueueInv DEF QueueInv
<1>2. QueueInv /\ [PlannerNext]_plannerVars => QueueInv'
  BY StepPlannerInv, StepOneAtATime, StepPositionHeld, StepPartition DEF QueueInv
<1> QED
  BY <1>1, <1>2, PTL DEF PlannerSpec

\* No ESI is lost or duplicated on its way through the queues, which three
\* threads move by name and by position (launcher.c:156, 298, 187, 546, 595),
\* when no release from the console overlaps a handler of the listening thread.
THEOREM EveryEsiInOnePlace ==
  ASSUME "console" \notin Windows
  PROVE  PlannerSpec => []QueuePartition
<1>1. QueueInv => QueuePartition
  BY DEF QueueInv
<1> QED
  BY <1>1, QueueInvHolds, PTL

-----------------------------------------------------------------------------
(***************************************************************************)
(* The queues implement Lifecycle.  QueueInv says that the sets of ESIs in *)
(* the queues are disjoint, so the sets tell the state of an ESI; each     *)
(* action that touches a queue moves one ESI from one set to another (the  *)
(* lemmas above), and all the other actions are stutters.                  *)
(***************************************************************************)
\* The place of an ESI tells its state, and the state its place.
LEMMA PlaceOf ==
  ASSUME QueuePartition, NEW e \in ESI
  PROVE  /\ StateOf(e) = "running"  <=> e \in ToSet(running_queue)
         /\ StateOf(e) = "blocked"  <=> e \in ToSet(blocked_queue)
         /\ StateOf(e) = "finished" <=> e \in ToSet(finished_queue)
         /\ StateOf(e) = "ready"    <=> e \in ToSet(ready_queue) \cup ToSet(hand)
         /\ StateOf(e) = "new"      <=> e \notin ToSet(esi_sockets_list)
  BY PartitionOfSets DEF StateOf, Partition

\* The same of the next state.
LEMMA PlaceOfNext ==
  ASSUME QueuePartition', NEW e \in ESI
  PROVE  /\ StateOf(e)' = "running"  <=> e \in ToSet(running_queue')
         /\ StateOf(e)' = "blocked"  <=> e \in ToSet(blocked_queue')
         /\ StateOf(e)' = "finished" <=> e \in ToSet(finished_queue')
         /\ StateOf(e)' = "ready"    <=> e \in ToSet(ready_queue') \cup ToSet(hand')
         /\ StateOf(e)' = "new"      <=> e \notin ToSet(esi_sockets_list')
  BY PartitionOfSetsNext DEF StateOf, Partition

\* An ESI that keeps its place keeps its state.
LEMMA StateKept ==
  ASSUME NEW e \in ESI,
         e \in ToSet(running_queue') <=> e \in ToSet(running_queue),
         e \in ToSet(blocked_queue') <=> e \in ToSet(blocked_queue),
         e \in ToSet(finished_queue') <=> e \in ToSet(finished_queue),
         e \in ToSet(ready_queue') \cup ToSet(hand') <=> e \in ToSet(ready_queue) \cup ToSet(hand)
  PROVE  StateOf(e)' = StateOf(e)
  BY DEF StateOf

\* One ESI that changes state while the others keep theirs makes one move.
LEMMA OneMove ==
  ASSUME NEW e \in ESI, NEW from, NEW to, StateOf(e) = from, StateOf(e)' = to,
         \A other \in ESI : other # e => StateOf(other)' = StateOf(other)
  PROVE  Life!Move(e, from, to)
  BY DEF Life!Move

\* A step that leaves every ESI where it is.
LEMMA NoMove ==
  ASSUME run' = run \/ (run.pc # "put" /\ run'.pc # "put"),
         UNCHANGED <<ready_queue, running_queue, blocked_queue, finished_queue>>
  PROVE  UNCHANGED [e \in ESI |-> StateOf(e)]
<1>1. ToSet(hand') = ToSet(hand)
  BY HandElements
<1>2. ASSUME NEW e \in ESI PROVE StateOf(e)' = StateOf(e)
  BY <1>1, StateKept
<1> QED
  BY <1>2

-----------------------------------------------------------------------------
\* The listening thread: registration, the end of a script, and a refusal.
LEMMA ListenMoves ==
  ASSUME PlannerInv, QueuePartition, ListenNext
  PROVE  Life!Next \/ UNCHANGED [e \in ESI |-> StateOf(e)]
<1> USE DEF PlannerInv, PlannerTypeOK
<1>1. ASSUME NEW e \in ESI, RegisterEsi(e) PROVE Life!Next
  <2>1. /\ QueuePartition' /\ e \notin ToSet(esi_sockets_list)
        /\ ToSet(ready_queue') = ToSet(ready_queue) \cup {e}
    BY <1>1, RegisterPartition
  <2>2. UNCHANGED <<running_queue, blocked_queue, finished_queue, run>>
    BY <1>1 DEF RegisterEsi
  <2>3. ToSet(hand') = ToSet(hand)
    BY <2>2, HandElements
  <2>4. StateOf(e) = "new" /\ StateOf(e)' = "ready"
    BY <2>1, PlaceOf, PlaceOfNext
  <2>5. ASSUME NEW other \in ESI, other # e PROVE StateOf(other)' = StateOf(other)
    BY <2>1, <2>2, <2>3, <2>5, StateKept
  <2> QED
    BY <2>4, <2>5, OneMove DEF Life!Next, Life!Register
<1>2. ASSUME NEW socket \in ESI, EsiFinished(socket) PROVE Life!Next
  <2>1. PICK e \in ESI : /\ e \in ToSet(running_queue) /\ QueuePartition'
                         /\ ToSet(running_queue') = ToSet(running_queue) \ {e}
                         /\ ToSet(finished_queue') = ToSet(finished_queue) \cup {e}
    BY <1>2, FinishPartition
  <2>2. UNCHANGED <<ready_queue, blocked_queue, run>>
    BY <1>2 DEF EsiFinished
  <2>3. ToSet(hand') = ToSet(hand)
    BY <2>2, HandElements
  <2>4. StateOf(e) = "running" /\ StateOf(e)' = "finished"
    BY <2>1, PlaceOf, PlaceOfNext
  <2>5. ASSUME NEW other \in ESI, other # e PROVE StateOf(other)' = StateOf(other)
    BY <2>1, <2>2, <2>3, <2>5, StateKept
  <2> QED
    BY <2>4, <2>5, OneMove DEF Life!Next, Life!Finish
<1>3. ASSUME block_esi PROVE Life!Next
  <2>1. PICK e \in ESI : /\ e \in ToSet(running_queue) /\ QueuePartition'
                         /\ ToSet(running_queue') = ToSet(running_queue) \ {e}
                         /\ ToSet(blocked_queue') = ToSet(blocked_queue) \cup {e}
    BY <1>3, BlockPartition
  <2>2. UNCHANGED <<ready_queue, finished_queue, run>>
    BY <1>3 DEF block_esi
  <2>3. ToSet(hand') = ToSet(hand)
    BY <2>2, HandElements
  <2>4. StateOf(e) = "running" /\ StateOf(e)' = "blocked"
    BY <2>1, PlaceOf, PlaceOfNext
  <2>5. ASSUME NEW other \in ESI, other # e PROVE StateOf(other)' = StateOf(other)
    BY <2>1, <2>2, <2>3, <2>5, StateKept
  <2> QED
    BY <2>4, <2>5, OneMove DEF Life!Next, Life!Park
<1>4. ASSUME \/ \E e \in ESI : Undecoded(e) \/ LostSocket(e)
             \/ HandshakeStatus \/ HandshakeHeader \/ HandshakeName
             \/ LineOk \/ StatusChanged \/ GetAllowed \/ GetDenied \/ WaitForKey \/ CheckOwner
      PROVE  UNCHANGED [e \in ESI |-> StateOf(e)]
  <2>1. UNCHANGED <<ready_queue, running_queue, blocked_queue, finished_queue, run>>
    BY <1>4 DEF Undecoded, LostSocket, HandshakeStatus, HandshakeHeader, HandshakeName, LineOk,
                StatusChanged, GetAllowed, GetDenied, WaitForKey, CheckOwner, plannerVars, queues
  <2> QED
    BY <2>1, NoMove
<1> QED
  BY <1>1, <1>2, <1>3, <1>4 DEF ListenNext

\* The running thread: an ESI in its hand still is ready, and when it puts it
\* in running_queue nobody is there.
LEMMA RunMoves ==
  ASSUME PlannerInv, QueuePartition, RunNext
  PROVE  Life!Next \/ UNCHANGED [e \in ESI |-> StateOf(e)]
<1> USE DEF PlannerInv, PlannerTypeOK
<1>1. CASE RunTake
  <2>1. ToSet(ready_queue') \cup ToSet(hand') = ToSet(ready_queue) \cup ToSet(hand)
    BY <1>1, TakePartition
  <2>2. UNCHANGED <<running_queue, blocked_queue, finished_queue>>
    BY <1>1 DEF RunTake
  <2>3. ASSUME NEW e \in ESI PROVE StateOf(e)' = StateOf(e)
    BY <2>1, <2>2, StateKept
  <2> QED
    BY <2>3
<1>2. CASE RunPut
  <2>1. PICK e \in ESI : /\ QueuePartition' /\ ToSet(hand) = {e} /\ ToSet(hand') = {}
                         /\ ToSet(running_queue') = ToSet(running_queue) \cup {e}
    BY <1>2, PutPartition
  <2>2. run.pc = "put" /\ UNCHANGED <<ready_queue, blocked_queue, finished_queue>>
    BY <1>2 DEF RunPut
  <2>3. ToSet(running_queue) = {}
    BY <2>2 DEF ProcessorFree, ToSet
  <2>4. \A other \in ESI : StateOf(other) # "running"
    BY <2>3, PlaceOf
  <2>5. StateOf(e) = "ready" /\ StateOf(e)' = "running"
    BY <2>1, PlaceOf, PlaceOfNext
  <2>6. ASSUME NEW other \in ESI, other # e PROVE StateOf(other)' = StateOf(other)
    BY <2>1, <2>2, <2>6, StateKept
  <2>7. Life!Move(e, "ready", "running")
    BY <2>1, <2>5, <2>6, OneMove
  <2> QED
    BY <2>1, <2>4, <2>7 DEF Life!Next, Life!Dispatch
<1>3. CASE RunPoll \/ RunStart \/ ClearRedo
  <2>1. /\ UNCHANGED <<ready_queue, running_queue, blocked_queue, finished_queue>>
        /\ run.pc # "put" /\ run'.pc # "put"
    BY <1>3 DEF RunPoll, RunStart, ClearRedo, queues, ThreadsTypeOK
  <2> QED
    BY <2>1, NoMove
<1> QED
  BY <1>1, <1>2, <1>3 DEF RunNext

\* A release: the ESI that is moved is the one that was found.
LEMMA ReleaseMoves ==
  ASSUME PlannerInv, PositionHeld, QueuePartition, NEW t \in Releaser, ReleaseNext(t)
  PROVE  Life!Next \/ UNCHANGED [e \in ESI |-> StateOf(e)]
<1> USE DEF PlannerInv, PlannerTypeOK
<1>1. CASE MoveToReady(t)
  <2>1. PICK e \in ESI : /\ e \in ToSet(blocked_queue) /\ QueuePartition'
                         /\ ToSet(blocked_queue') = ToSet(blocked_queue) \ {e}
                         /\ ToSet(ready_queue') = ToSet(ready_queue) \cup {e}
    BY <1>1, MovePartition
  <2>2. UNCHANGED <<running_queue, finished_queue, run>>
    BY <1>1 DEF MoveToReady
  <2>3. ToSet(hand') = ToSet(hand)
    BY <2>2, HandElements
  <2>4. StateOf(e) = "blocked" /\ StateOf(e)' = "ready"
    BY <2>1, PlaceOf, PlaceOfNext
  <2>5. ASSUME NEW other \in ESI, other # e PROVE StateOf(other)' = StateOf(other)
    BY <2>1, <2>2, <2>3, <2>5, StateKept
  <2> QED
    BY <2>4, <2>5, OneMove DEF Life!Next, Life!Wake
<1>2. CASE FindWaiting(t) \/ UnlinkWaiting(t) \/ LocateBlocked(t)
  <2>1. UNCHANGED <<ready_queue, running_queue, blocked_queue, finished_queue, run>>
    BY <1>2 DEF FindWaiting, UnlinkWaiting, LocateBlocked, queues
  <2> QED
    BY <2>1, NoMove
<1> QED
  BY <1>1, <1>2 DEF ReleaseNext

\* Every step of the planner is a move of one ESI, or moves none.
LEMMA StepMoves ==
  QueueInv /\ [PlannerNext]_plannerVars => [Life!Next]_([e \in ESI |-> StateOf(e)])
<1> SUFFICES ASSUME QueueInv, [PlannerNext]_plannerVars
             PROVE  Life!Next \/ UNCHANGED [e \in ESI |-> StateOf(e)]
  OBVIOUS
<1> USE DEF QueueInv
<1>1. CASE ListenNext
  BY <1>1, ListenMoves
<1>2. CASE RunNext
  BY <1>2, RunMoves
<1>3. ASSUME NEW t \in Releaser, ReleaseNext(t)
      PROVE  Life!Next \/ UNCHANGED [e \in ESI |-> StateOf(e)]
  BY <1>3, ReleaseMoves
<1>4. CASE ConsoleNext \/ Segfault \/ UNCHANGED plannerVars
  <2>1. UNCHANGED <<ready_queue, running_queue, blocked_queue, finished_queue, run>>
    BY <1>4 DEF ConsoleNext, pause, resume, block, unblock, quit, EndOfInput, Command, Segfault, queues,
                plannerVars
  <2> QED
    BY <2>1, NoMove
<1> QED
  BY <1>1, <1>2, <1>3, <1>4 DEF PlannerNext

\* Before anybody registers, every ESI is new.
LEMMA InitMoves == PlannerInit => Life!Init
<1> SUFFICES ASSUME PlannerInit PROVE Life!Init
  OBVIOUS
<1>1. QueuePartition /\ ToSet(<<>>) = {}
  BY InitQueueInv DEF ToSet
<1>2. ASSUME NEW e \in ESI PROVE StateOf(e) = "new"
  BY <1>1, PlaceOf DEF PlannerInit
<1> QED
  BY <1>2 DEF Life!Init

\* Three threads move ESIs between five lists, by name and by position
\* (launcher.c:156, 298, 187, 546, 595); when no release from the console overlaps a
\* handler, every step of theirs is a step of the life of one ESI, and only
\* a free processor is given away.
THEOREM QueuesImplementLifecycle ==
  ASSUME "console" \notin Windows
  PROVE  PlannerSpec => ImplementsLifecycle
  BY QueueInvHolds, InitMoves, StepMoves, PTL
     DEF PlannerSpec, ImplementsLifecycle, Life!Spec
=============================================================================
