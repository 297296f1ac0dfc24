----------------------------- MODULE StoreProofs -----------------------------
(***************************************************************************)
(* What the Instances promise: the blocks they hand out in a circle keep   *)
(* the keys apart, as long as there are no more keys than blocks; and what *)
(* they report to the coordinator they have done.                          *)
(***************************************************************************)
EXTENDS OneLineProofs, FiniteSetTheorems

\* The invariant of one Instance, over the four tables it relates.
TableApart(d, blocks, last) ==
  /\ last = IF Len(d) = Q_ENTRIES THEN 0 ELSE Len(d)
  /\ \A n \in 1..Len(d) :
       /\ d[n].entry_number = Len(d) - n
       /\ blocks[d[n].entry_number] # NoData
       /\ \A m \in 1..Len(d) : d[m].key = d[n].key => m = n

LEMMA BlocksApartEach ==
  /\ BlocksApart <=> \A i \in Inst : TableApart(diccio_table[i], blocks_table[i], circular_alg_last_entry[i])
  /\ BlocksApart' <=> \A i \in Inst : TableApart(diccio_table'[i], blocks_table'[i], circular_alg_last_entry'[i])
BY DEF BlocksApart, TableApart

\* n is the place of the key in the dictionary d, 0 if it has none.
IsEntry(d, key, n) ==
  /\ n \in 0..Len(d)
  /\ n # 0 => d[n].key = key
  /\ n = 0 => \A m \in 1..Len(d) : d[m].key # key

LEMMA EntryIs ==
  ASSUME NEW S, NEW d \in Seq(S), NEW key, NEW n,
         LET I == {m \in 1..Len(d) : d[m].key = key} IN n = IF I # {} THEN Min(I) ELSE 0
  PROVE  IsEntry(d, key, n)
<1> DEFINE I == {m \in 1..Len(d) : d[m].key = key}
<1>1. I \in SUBSET Nat
  OBVIOUS
<1>2. I # {} => Min(I) \in I
  BY <1>1, MinOfNats
<1>3. \A m \in I : m \in 1..Len(d) /\ d[m].key = key /\ m # 0
  OBVIOUS
<1>4. I = {} => \A m \in 1..Len(d) : d[m].key # key
  OBVIOUS
<1>5. Len(d) \in Nat /\ n = IF I # {} THEN Min(I) ELSE 0
  OBVIOUS
<1> HIDE DEF I
<1> QED BY <1>2, <1>3, <1>4, <1>5 DEF IsEntry

\* EntryOf finds the place of a key, before and after a step.
LEMMA EntryOfIs ==
  ASSUME NEW i, NEW S, NEW key
  PROVE  /\ diccio_table[i] \in Seq(S) => IsEntry(diccio_table[i], key, EntryOf(i, key))
         /\ diccio_table'[i] \in Seq(S) => IsEntry(diccio_table'[i], key, EntryOf(i, key)')
<1>1. ASSUME diccio_table[i] \in Seq(S) PROVE IsEntry(diccio_table[i], key, EntryOf(i, key))
  BY <1>1, EntryIs DEF EntryOf, SelectInSeq
<1>2. ASSUME diccio_table'[i] \in Seq(S)
      PROVE  IsEntry(diccio_table'[i], key, EntryOf(i, key)')
  BY <1>2, EntryIs DEF EntryOf, SelectInSeq
<1> QED BY <1>1, <1>2

\* Where no key is there twice, a key has one place.
LEMMA OnePlace ==
  ASSUME NEW d, NEW blocks, NEW last, TableApart(d, blocks, last), Len(d) \in Nat,
         NEW key, NEW m, NEW n, IsEntry(d, key, m), IsEntry(d, key, n)
  PROVE  m = n
<1>1. CASE m = 0
  BY <1>1 DEF IsEntry
<1>2. CASE n = 0
  BY <1>2 DEF IsEntry
<1>3. CASE m # 0 /\ n # 0
  BY <1>3 DEF IsEntry, TableApart
<1> QED BY <1>1, <1>2, <1>3

\* A dictionary without one of the keys has room for it.
LEMMA Room ==
  ASSUME IsFiniteSet(Key), Cardinality(Key) <= Q_ENTRIES,
         NEW d \in Seq(DiccionaryEntry), NEW blocks, NEW last, TableApart(d, blocks, last),
         NEW key \in Key, IsEntry(d, key, 0)
  PROVE  Len(d) < Q_ENTRIES
<1> DEFINE f == [n \in 1..Len(d) |-> d[n].key]
           T == Key \ {key}
<1>1. \A n \in 1..Len(d) : d[n].key \in Key /\ d[n].key # key
  <2> TAKE n \in 1..Len(d)
  <2>1. d[n] \in DiccionaryEntry
    BY ElementOfSeq
  <2> QED BY <2>1 DEF DiccionaryEntry, IsEntry
<1>2. f \in Injection(1..Len(d), T)
  <2>1. f \in [1..Len(d) -> T]
    BY <1>1
  <2>2. \A m, n \in 1..Len(d) : f[m] = f[n] => m = n
    BY DEF TableApart
  <2> QED BY <2>1, <2>2 DEF Injection, IsInjective
<1>3. IsFiniteSet(T) /\ Cardinality(T) = Cardinality(Key) - 1
  BY FS_RemoveElement
<1>4. Len(d) \in Nat
  OBVIOUS
<1>5. Cardinality(1..Len(d)) = Len(d)
  <2>1. Cardinality(1..Len(d)) = IF 1 > Len(d) THEN 0 ELSE Len(d) - 1 + 1
    BY <1>4, FS_Interval
  <2> QED BY <2>1, <1>4
<1> HIDE DEF f, T
<1>6. Cardinality(1..Len(d)) <= Cardinality(T)
  BY <1>2, <1>3, FS_Injection
<1>7. Cardinality(Key) \in Nat
  BY FS_CardinalityType
<1> QED BY <1>3, <1>4, <1>5, <1>6, <1>7, EntriesAssumption

\* The value of the key whose place is n.
ValueAt(d, blocks, n) == IF n = 0 THEN NoData ELSE blocks[d[n].entry_number]

LEMMA ValueIs ==
  ASSUME NEW i \in Inst, NEW key, NEW n
  PROVE  /\ /\ diccio_table[i] \in Seq(DiccionaryEntry)
            /\ TableApart(diccio_table[i], blocks_table[i], circular_alg_last_entry[i])
            /\ IsEntry(diccio_table[i], key, n)
            => ValueOf(i, key) = ValueAt(diccio_table[i], blocks_table[i], n)
         /\ /\ diccio_table'[i] \in Seq(DiccionaryEntry)
            /\ TableApart(diccio_table'[i], blocks_table'[i], circular_alg_last_entry'[i])
            /\ IsEntry(diccio_table'[i], key, n)
            => ValueOf(i, key)' = ValueAt(diccio_table'[i], blocks_table'[i], n)
<1>1. ASSUME diccio_table[i] \in Seq(DiccionaryEntry),
             TableApart(diccio_table[i], blocks_table[i], circular_alg_last_entry[i]),
             IsEntry(diccio_table[i], key, n)
      PROVE  ValueOf(i, key) = ValueAt(diccio_table[i], blocks_table[i], n)
  <2>1. IsEntry(diccio_table[i], key, EntryOf(i, key)) /\ Len(diccio_table[i]) \in Nat
    BY <1>1, EntryOfIs
  <2>2. EntryOf(i, key) = n
    BY <1>1, <2>1, OnePlace
  <2> QED BY <2>2 DEF ValueOf, ValueAt
<1>2. ASSUME diccio_table'[i] \in Seq(DiccionaryEntry),
             TableApart(diccio_table'[i], blocks_table'[i], circular_alg_last_entry'[i]),
             IsEntry(diccio_table'[i], key, n)
      PROVE  ValueOf(i, key)' = ValueAt(diccio_table'[i], blocks_table'[i], n)
  <2>1. IsEntry(diccio_table'[i], key, EntryOf(i, key)')
    BY <1>2, EntryOfIs, Zenon
  <2>3. Len(diccio_table'[i]) \in Nat
    BY <1>2
  <2>2. EntryOf(i, key)' = n
    BY <1>2, <2>1, <2>3, OnePlace
  <2> QED BY <2>2 DEF ValueOf, ValueAt
<1> QED BY <1>1, <1>2

\* The other keys of d are one place further in d2, with the value they had.
OthersShifted(d, blocks, d2, blocks2, newKey) ==
  \A key, n : IsEntry(d, key, n) /\ key # newKey =>
    /\ IsEntry(d2, key, IF n = 0 THEN 0 ELSE n + 1)
    /\ ValueAt(d2, blocks2, IF n = 0 THEN 0 ELSE n + 1) = ValueAt(d, blocks, n)

\* A key that is new takes the block that the circle is at.
TakesBlock(d, blocks, last, entry, d2, blocks2) ==
  /\ d \in Seq(DiccionaryEntry) /\ blocks \in [Block -> Data] /\ last \in Block
  /\ TableApart(d, blocks, last) /\ Len(d) < Q_ENTRIES
  /\ entry \in DiccionaryEntry /\ entry.entry_number = last /\ IsEntry(d, entry.key, 0)
  /\ d2 = <<entry>> \o d /\ blocks2 = [blocks EXCEPT ![last] = Default]

\* That block is no other key's.
LEMMA NewEntry ==
  ASSUME NEW d, NEW blocks, NEW last, NEW entry, NEW d2, NEW blocks2,
         TakesBlock(d, blocks, last, entry, d2, blocks2)
  PROVE  /\ TableApart(d2, blocks2, NextInCircle(last))
         /\ IsEntry(d2, entry.key, 1) /\ ValueAt(d2, blocks2, 1) = Default
         /\ OthersShifted(d, blocks, d2, blocks2, entry.key)
<1>0. /\ d \in Seq(DiccionaryEntry) /\ blocks \in [Block -> Data] /\ last \in Block
      /\ TableApart(d, blocks, last) /\ Len(d) < Q_ENTRIES
      /\ entry \in DiccionaryEntry /\ entry.entry_number = last /\ IsEntry(d, entry.key, 0)
      /\ d2 = <<entry>> \o d /\ blocks2 = [blocks EXCEPT ![last] = Default]
  BY DEF TakesBlock
<1> USE <1>0
<1>1. /\ d2 \in Seq(DiccionaryEntry) /\ Len(d2) = Len(d) + 1
      /\ \A j \in 1..(Len(d) + 1) : d2[j] = IF j = 1 THEN entry ELSE d[j - 1]
  BY ConsProperties
<1>2. Len(d) \in Nat /\ last = Len(d) /\ Q_ENTRIES \in Nat
  BY EntriesAssumption DEF TableApart
<1>3. \A n \in 1..Len(d) : d[n].entry_number = Len(d) - n /\ d[n].key # entry.key
  BY DEF TableApart, IsEntry
<1>4. blocks2[last] = Default /\ Default # NoData
  BY DEF Default, NoData
<1>5. \A n \in 1..Len(d) : blocks2[d[n].entry_number] = blocks[d[n].entry_number]
                            /\ blocks2[d[n].entry_number] # NoData
  <2> TAKE n \in 1..Len(d)
  <2>1. d[n].entry_number # last /\ blocks[d[n].entry_number] # NoData
    BY <1>2, <1>3 DEF TableApart
  <2>2. d[n].entry_number \in Block
    <3>1. d[n] \in DiccionaryEntry
      BY ElementOfSeq
    <3> QED BY <3>1 DEF DiccionaryEntry
  <2> QED BY <2>1, <2>2
<1>6. \A m, n \in 1..Len(d) : d[m].key = d[n].key => m = n
  BY DEF TableApart
<1>7. TableApart(d2, blocks2, NextInCircle(last))
  <2>1. NextInCircle(last) = IF Len(d2) = Q_ENTRIES THEN 0 ELSE Len(d2)
    BY <1>1, <1>2 DEF NextInCircle
  <2>2. ASSUME NEW n \in 1..Len(d2)
        PROVE  d2[n].entry_number = Len(d2) - n /\ blocks2[d2[n].entry_number] # NoData
    <3>1. CASE n = 1
      BY <1>1, <1>2, <1>4, <3>1
    <3>2. CASE n # 1
      <4>1. n - 1 \in 1..Len(d) /\ d2[n] = d[n - 1]
        BY <1>1, <1>2, <3>2
      <4> QED BY <4>1, <1>1, <1>2, <1>3, <1>5
    <3> QED BY <3>1, <3>2
  <2>3. ASSUME NEW m \in 1..Len(d2), NEW n \in 1..Len(d2), d2[m].key = d2[n].key PROVE m = n
    <3>1. \A j \in 1..Len(d2) : j # 1 => j - 1 \in 1..Len(d) /\ d2[j] = d[j - 1]
      BY <1>1, <1>2
    <3>2. d2[1] = entry
      BY <1>1, <1>2
    <3>3. CASE m = 1 \/ n = 1
      BY <3>1, <3>2, <3>3, <2>3, <1>3
    <3>4. CASE m # 1 /\ n # 1
      <4>1. m - 1 = n - 1
        BY <3>1, <3>4, <2>3, <1>6
      <4> QED BY <4>1, <1>1, <1>2
    <3> QED BY <3>3, <3>4
  <2> QED BY <2>1, <2>2, <2>3 DEF TableApart
<1>8. IsEntry(d2, entry.key, 1) /\ ValueAt(d2, blocks2, 1) = Default
  BY <1>1, <1>2, <1>4 DEF IsEntry, ValueAt
<1>9. ASSUME NEW key, NEW n, IsEntry(d, key, n), key # entry.key
      PROVE  /\ IsEntry(d2, key, IF n = 0 THEN 0 ELSE n + 1)
             /\ ValueAt(d2, blocks2, IF n = 0 THEN 0 ELSE n + 1) = ValueAt(d, blocks, n)
  <2>1. CASE n = 0
    <3>1. \A m \in 1..Len(d2) : d2[m].key # key
      <4> TAKE m \in 1..Len(d2)
      <4>1. CASE m = 1
        BY <4>1, <1>1, <1>2, <1>9
      <4>2. CASE m # 1
        <5>1. m - 1 \in 1..Len(d) /\ d2[m] = d[m - 1]
          BY <4>2, <1>1, <1>2
        <5> QED BY <5>1, <2>1, <1>9 DEF IsEntry
      <4> QED BY <4>1, <4>2
    <3> QED BY <3>1, <2>1, <1>1, <1>2 DEF IsEntry, ValueAt
  <2>2. CASE n # 0
    <3>1. n \in 1..Len(d) /\ d[n].key = key
      BY <2>2, <1>9, <1>2 DEF IsEntry
    <3>2. n + 1 \in 1..Len(d2) /\ d2[n + 1] = d[n] /\ n + 1 # 0
      BY <3>1, <1>1, <1>2
    <3> QED BY <3>1, <3>2, <2>2, <1>5 DEF IsEntry, ValueAt
  <2> QED BY <2>1, <2>2
<1> QED BY <1>7, <1>8, <1>9 DEF OthersShifted

\* d2 has the keys and the blocks of d.
SamePlaces(d, d2) ==
  /\ Len(d2) = Len(d)
  /\ \A m \in 1..Len(d) : d2[m].key = d[m].key /\ d2[m].entry_number = d[m].entry_number

\* A GET of a known key and a STORE write the owner in the entry, no more.
LEMMA SameApart ==
  ASSUME NEW d, NEW d2, NEW blocks, NEW last, TableApart(d, blocks, last), SamePlaces(d, d2)
  PROVE  TableApart(d2, blocks, last)
BY DEF TableApart, SamePlaces

LEMMA SameValue ==
  ASSUME NEW d, NEW d2, NEW blocks, SamePlaces(d, d2), NEW key, NEW n, IsEntry(d, key, n)
  PROVE  IsEntry(d2, key, n) /\ ValueAt(d2, blocks, n) = ValueAt(d, blocks, n)
<1>1. CASE n = 0
  BY <1>1 DEF SamePlaces, IsEntry, ValueAt
<1>2. CASE n # 0
  <2>1. n \in 1..Len(d)
    BY <1>2 DEF IsEntry
  <2> QED BY <1>2, <2>1 DEF SamePlaces, IsEntry, ValueAt
<1> QED BY <1>1, <1>2

\* The other keys of d keep their values.
OthersKept(d, blocks, blocks2, key) ==
  \A k, m : IsEntry(d, k, m) /\ k # key => ValueAt(d, blocks2, m) = ValueAt(d, blocks, m)

\* A SET writes the block of its key, which is no other's.
LEMMA OwnBlock ==
  ASSUME NEW d \in Seq(DiccionaryEntry), NEW blocks \in [Block -> Data], NEW last,
         TableApart(d, blocks, last), NEW key, NEW n, IsEntry(d, key, n), n # 0, NEW value \in Text,
         NEW blocks2, blocks2 = [blocks EXCEPT ![d[n].entry_number] = value]
  PROVE  /\ TableApart(d, blocks2, last)
         /\ ValueAt(d, blocks2, n) = value
         /\ OthersKept(d, blocks, blocks2, key)
<1> DEFINE at == d[n].entry_number
<1>0. blocks2 = [blocks EXCEPT ![at] = value]
  OBVIOUS
<1>1. n \in 1..Len(d) /\ Len(d) \in Nat /\ d[n].key = key
  BY DEF IsEntry
<1>2. \A m \in 1..Len(d) : d[m].entry_number \in Block
  <2> TAKE m \in 1..Len(d)
  <2>1. d[m] \in DiccionaryEntry
    BY ElementOfSeq
  <2> QED BY <2>1 DEF DiccionaryEntry
<1>3. \A m \in 1..Len(d) : d[m].entry_number = Len(d) - m /\ blocks[d[m].entry_number] # NoData
  BY DEF TableApart
<1>4. \A m \in 1..Len(d) : d[m].entry_number = at => m = n
  BY <1>1, <1>3
<1>5. value # NoData
  BY DataAssumption
<1>6. \A m \in 1..Len(d) : blocks2[d[m].entry_number] =
                             IF m = n THEN value ELSE blocks[d[m].entry_number]
  <2> TAKE m \in 1..Len(d)
  <2>1. d[m].entry_number \in Block /\ (m # n => d[m].entry_number # at) /\ (m = n => d[m].entry_number = at)
    BY <1>2, <1>4
  <2> HIDE DEF at
  <2> QED BY <1>0, <2>1
<1> HIDE DEF at
<1>7. TableApart(d, blocks2, last)
  BY <1>3, <1>5, <1>6 DEF TableApart
<1>8. ValueAt(d, blocks2, n) = value
  BY <1>1, <1>6 DEF ValueAt
<1>9. ASSUME NEW k, NEW m, IsEntry(d, k, m), k # key
      PROVE  ValueAt(d, blocks2, m) = ValueAt(d, blocks, m)
  <2>1. CASE m = 0
    BY <2>1 DEF ValueAt
  <2>2. CASE m # 0
    <3>1. m \in 1..Len(d) /\ m # n
      BY <1>1, <1>9, <2>2 DEF IsEntry
    <3> QED BY <3>1, <2>2, <1>6 DEF ValueAt
  <2> QED BY <2>1, <2>2
<1> QED BY <1>7, <1>8, <1>9 DEF OthersKept

Content == [i \in Inst |-> [k \in Key |-> ValueOf(i, k)]]

LEMMA ContentSame ==
  ASSUME \A i \in Inst, k \in Key : ValueOf(i, k)' = ValueOf(i, k)
  PROVE  Content' = Content
BY DEF Content

LEMMA ContentChange ==
  ASSUME NEW i \in Inst, NEW k \in Key, NEW v,
         \A j \in Inst, l \in Key :
           ValueOf(j, l)' = IF j = i /\ l = k THEN v ELSE ValueOf(j, l)
  PROVE  Content' = [Content EXCEPT ![i][k] = v]
<1>1. \A j \in Inst : Content'[j] = [l \in Key |-> IF j = i /\ l = k THEN v ELSE ValueOf(j, l)]
  BY DEF Content
<1>2. \A j \in Inst : [Content EXCEPT ![i][k] = v][j] =
                        [l \in Key |-> IF j = i /\ l = k THEN v ELSE ValueOf(j, l)]
  BY DEF Content
<1>3. Content' = [j \in Inst |-> Content'[j]]
  BY DEF Content
<1>4. [Content EXCEPT ![i][k] = v] = [j \in Inst |-> [Content EXCEPT ![i][k] = v][j]]
  BY DEF Content
<1> HIDE DEF Content
<1> QED BY <1>1, <1>2, <1>3, <1>4

\* The value of a key changes only with the tables it is in.
LEMMA ValueSame ==
  ASSUME NEW i, NEW k, diccio_table'[i] = diccio_table[i], blocks_table'[i] = blocks_table[i]
  PROVE  ValueOf(i, k)' = ValueOf(i, k)
<1>1. EntryOf(i, k)' = EntryOf(i, k)
  BY DEF EntryOf, SelectInSeq
<1> QED BY <1>1 DEF ValueOf

\* What a step of one Instance leaves alone in the others.
LEMMA OthersSame ==
  ASSUME BlocksApart, NEW i \in Inst,
         \A j \in Inst : j # i =>
           /\ diccio_table'[j] = diccio_table[j] /\ blocks_table'[j] = blocks_table[j]
           /\ circular_alg_last_entry'[j] = circular_alg_last_entry[j],
         TableApart(diccio_table'[i], blocks_table'[i], circular_alg_last_entry'[i])
  PROVE  /\ BlocksApart'
         /\ \A j \in Inst : \A k : j # i => ValueOf(j, k)' = ValueOf(j, k)
<1>1. BlocksApart'
  BY BlocksApartEach
<1>2. ASSUME NEW j \in Inst, NEW k, j # i PROVE ValueOf(j, k)' = ValueOf(j, k)
  BY <1>2, ValueSame
<1> QED BY <1>1, <1>2

\* The tables that an Instance does not touch keep what they hold.
LEMMA TablesSame ==
  ASSUME BlocksApart, UNCHANGED tables
  PROVE  BlocksApart' /\ Content' = Content
<1>1. BlocksApart'
  BY DEF BlocksApart, tables
<1>2. \A i \in Inst, k \in Key : ValueOf(i, k)' = ValueOf(i, k)
  BY ValueSame DEF tables
<1> QED BY <1>1, <1>2, ContentSame

\* GET of a key that the Instance does not have.
LEMMA GetNewStep ==
  ASSUME IsFiniteSet(Key), Cardinality(Key) <= Q_ENTRIES, ChannelsTypeOK,
         InstanceTypeOK, InstanceTypeOK', BlocksApart, NEW i \in Inst, GetNew(i),
         NEW id \in ForwardedDetail, id = Received(i)
  PROVE  BlocksApart' /\ KS!Get(i, id.key)
<1> DEFINE d == diccio_table[i]
           at == circular_alg_last_entry[i]
           entry == [key |-> id.key, entry_number |-> at, blocked |-> TRUE, blockedBy |-> id.ESIName]
<1>1. id.key \in Key /\ id.ESIName \in Name
  BY DEF ForwardedDetail
<1>2. /\ diccio_table' = [diccio_table EXCEPT ![i] = <<entry>> \o @]
      /\ blocks_table' = [blocks_table EXCEPT ![i][at] = Default]
      /\ circular_alg_last_entry' = [circular_alg_last_entry EXCEPT ![i] = NextInCircle(@)]
      /\ mounting_point' = mounting_point /\ EntryOf(i, id.key) = 0
  BY DEF GetNew, get_index_to_replace
<1>3. /\ d \in Seq(DiccionaryEntry) /\ at \in Block /\ blocks_table[i] \in [Block -> Data]
      /\ diccio_table'[i] \in Seq(DiccionaryEntry)
  BY DEF InstanceTypeOK
<1>4. entry \in DiccionaryEntry /\ entry.key = id.key /\ entry.entry_number = at
  BY <1>1, <1>3 DEF DiccionaryEntry
<1>5. TableApart(d, blocks_table[i], at)
  BY BlocksApartEach
<1>6. IsEntry(d, id.key, 0)
  BY <1>2, <1>3, EntryOfIs
<1>7. Len(d) < Q_ENTRIES
  BY <1>1, <1>3, <1>5, <1>6, Room
<1>8. /\ diccio_table'[i] = <<entry>> \o d
      /\ blocks_table'[i] = [blocks_table[i] EXCEPT ![at] = Default]
      /\ circular_alg_last_entry'[i] = NextInCircle(at)
      /\ \A j \in Inst : j # i =>
           /\ diccio_table'[j] = diccio_table[j] /\ blocks_table'[j] = blocks_table[j]
           /\ circular_alg_last_entry'[j] = circular_alg_last_entry[j]
  BY <1>2 DEF InstanceTypeOK
<1> HIDE DEF entry
<1> DEFINE d2 == <<entry>> \o d
           blocks2 == [blocks_table[i] EXCEPT ![at] = Default]
           last == at
<1>9. /\ TableApart(d2, blocks2, NextInCircle(at))
      /\ IsEntry(d2, id.key, 1) /\ ValueAt(d2, blocks2, 1) = Default
      /\ OthersShifted(d, blocks_table[i], d2, blocks2, id.key)
  <2>1. TakesBlock(d, blocks_table[i], last, entry, d2, blocks2)
    BY <1>3, <1>4, <1>5, <1>6, <1>7 DEF TakesBlock
  <2>2. at = last /\ entry.key = id.key
    BY <1>4
  <2> HIDE DEF d, d2, blocks2, last
  <2> QED BY <2>1, <2>2, NewEntry
<1> HIDE DEF d2, blocks2
<1>10. /\ diccio_table'[i] = d2 /\ blocks_table'[i] = blocks2
       /\ TableApart(diccio_table'[i], blocks_table'[i], circular_alg_last_entry'[i])
  BY <1>8, <1>9 DEF d2, blocks2
<1>11. BlocksApart' /\ \A j \in Inst : \A k : j # i => ValueOf(j, k)' = ValueOf(j, k)
  BY <1>8, <1>10, OthersSame
<1>12. ValueOf(i, id.key) = NoData
  BY <1>3, <1>5, <1>6, ValueIs DEF ValueAt
<1>13. ValueOf(i, id.key)' = Default
  <2>1. IsEntry(diccio_table'[i], id.key, 1)
    BY <1>9, <1>10
  <2>2. ValueOf(i, id.key)' = ValueAt(diccio_table'[i], blocks_table'[i], 1)
    BY <2>1, <1>3, <1>10, ValueIs
  <2> QED BY <2>2, <1>9, <1>10
<1>14. ASSUME NEW k, k # id.key PROVE ValueOf(i, k)' = ValueOf(i, k)
  <2> DEFINE n == EntryOf(i, k)
  <2>1. IsEntry(d, k, n)
    BY <1>3, EntryOfIs
  <2> HIDE DEF n
  <2>2. ValueOf(i, k) = ValueAt(d, blocks_table[i], n)
    BY <2>1, <1>3, <1>5, ValueIs
  <2> DEFINE m == IF n = 0 THEN 0 ELSE n + 1
  <2>3. IsEntry(d2, k, m) /\ ValueAt(d2, blocks2, m) = ValueAt(d, blocks_table[i], n)
    BY <2>1, <1>9, <1>14 DEF OthersShifted
  <2> HIDE DEF m
  <2>4. ValueOf(i, k)' = ValueAt(d2, blocks2, m)
    BY <2>3, <1>3, <1>10, ValueIs
  <2> QED BY <2>2, <2>3, <2>4
<1>15. Content' = [Content EXCEPT ![i][id.key] = Default]
  <2> DEFINE key == id.key
  <2>1. key \in Key
    BY <1>1
  <2> HIDE DEF key
  <2>2. \A j \in Inst, l \in Key :
          ValueOf(j, l)' = IF j = i /\ l = key THEN Default ELSE ValueOf(j, l)
    BY <1>11, <1>13, <1>14 DEF key
  <2>3. Content' = [Content EXCEPT ![i][key] = Default]
    BY <2>1, <2>2, ContentChange
  <2> QED BY <2>3 DEF key
<1>16. Content[i][id.key] = NoData
  BY <1>1, <1>12 DEF Content
<1>17. KS!Get(i, id.key)
  BY <1>2, <1>15, <1>16 DEF KS!Get, KS!Known, Content
<1> QED BY <1>11, <1>17

\* The entries keep their keys and their blocks when an owner is written.
LEMMA OwnerWritten ==
  ASSUME InstanceTypeOK, InstanceTypeOK', BlocksApart, NEW i \in Inst,
         NEW n \in 1..Len(diccio_table[i]), NEW entry \in DiccionaryEntry,
         entry.key = diccio_table[i][n].key,
         entry.entry_number = diccio_table[i][n].entry_number,
         diccio_table' = [diccio_table EXCEPT ![i] = [@ EXCEPT ![n] = entry]],
         UNCHANGED <<blocks_table, circular_alg_last_entry>>
  PROVE  BlocksApart' /\ Content' = Content
<1> DEFINE d == diccio_table[i]
           d2 == diccio_table'[i]
<1>1. /\ d \in Seq(DiccionaryEntry) /\ d2 \in Seq(DiccionaryEntry)
      /\ TableApart(d, blocks_table[i], circular_alg_last_entry[i])
  BY BlocksApartEach DEF InstanceTypeOK
<1>2. d2 = [d EXCEPT ![n] = entry]
  BY DEF InstanceTypeOK
<1>3. SamePlaces(d, d2)
  <2>1. /\ Len([d EXCEPT ![n] = entry]) = Len(d)
        /\ \A m \in 1..Len(d) : [d EXCEPT ![n] = entry][m] = IF m = n THEN entry ELSE d[m]
    BY <1>1, ExceptSeq
  <2> QED BY <1>2, <2>1 DEF SamePlaces
<1>4. /\ \A j \in Inst : j # i =>
           /\ diccio_table'[j] = diccio_table[j] /\ blocks_table'[j] = blocks_table[j]
           /\ circular_alg_last_entry'[j] = circular_alg_last_entry[j]
      /\ blocks_table'[i] = blocks_table[i]
      /\ circular_alg_last_entry'[i] = circular_alg_last_entry[i]
  BY DEF InstanceTypeOK
<1> HIDE DEF d, d2
<1>5. TableApart(d2, blocks_table[i], circular_alg_last_entry[i])
  BY <1>1, <1>3, SameApart
<1>6. TableApart(diccio_table'[i], blocks_table'[i], circular_alg_last_entry'[i])
  BY <1>4, <1>5 DEF d2
<1>7. BlocksApart' /\ \A j \in Inst : \A k : j # i => ValueOf(j, k)' = ValueOf(j, k)
  BY <1>4, <1>6, OthersSame
<1>8. ASSUME NEW k PROVE ValueOf(i, k)' = ValueOf(i, k)
  <2> DEFINE m == EntryOf(i, k)
  <2>1. IsEntry(d, k, m)
    BY <1>1, EntryOfIs DEF d
  <2> HIDE DEF m
  <2>2. ValueOf(i, k) = ValueAt(d, blocks_table[i], m)
    BY <2>1, <1>1, ValueIs DEF d
  <2>3. IsEntry(d2, k, m) /\ ValueAt(d2, blocks_table[i], m) = ValueAt(d, blocks_table[i], m)
    BY <2>1, <1>3, SameValue
  <2>4. ValueOf(i, k)' = ValueAt(d2, blocks_table[i], m)
    <3>1. ValueOf(i, k)' = ValueAt(diccio_table'[i], blocks_table'[i], m)
      BY <2>3, <1>1, <1>6, ValueIs DEF d2
    <3> QED BY <3>1, <1>4 DEF d2
  <2> QED BY <2>2, <2>3, <2>4
<1>9. Content' = Content
  BY <1>7, <1>8, ContentSame
<1> QED BY <1>7, <1>9

\* GET of a key that the Instance has.
LEMMA GetKnownStep ==
  ASSUME ChannelsTypeOK, InstanceTypeOK, InstanceTypeOK', BlocksApart, NEW i \in Inst, GetKnown(i)
  PROVE  BlocksApart' /\ Content' = Content /\ mounting_point' = mounting_point
<1> DEFINE id == Received(i)
           n == EntryOf(i, id.key)
           d == diccio_table[i]
           entry == [d[n] EXCEPT !.blocked = TRUE, !.blockedBy = id.ESIName]
<1>1. d \in Seq(DiccionaryEntry)
  BY DEF InstanceTypeOK
<1>2. /\ n # 0 /\ UNCHANGED <<blocks_table, circular_alg_last_entry, mounting_point>>
      /\ diccio_table' = [diccio_table EXCEPT ![i][n].blocked = TRUE, ![i][n].blockedBy = id.ESIName]
  BY DEF GetKnown
<1>3. n \in 1..Len(d)
  BY <1>1, <1>2, EntryRange
<1>4. d[n] \in DiccionaryEntry
  BY <1>1, <1>3, ElementOfSeq
<1>7. id.ESIName \in Name
  BY ReceivedType DEF GetKnown, Process, ForwardedDetail
<1> HIDE DEF n, id
<1>5. /\ entry \in DiccionaryEntry
      /\ entry.key = d[n].key /\ entry.entry_number = d[n].entry_number
  BY <1>4, <1>7 DEF DiccionaryEntry
<1>6. diccio_table' = [diccio_table EXCEPT ![i] = [@ EXCEPT ![n] = entry]]
  BY <1>2
<1> HIDE DEF entry
<1>9. UNCHANGED <<blocks_table, circular_alg_last_entry>>
  BY <1>2
<1>10. entry \in DiccionaryEntry /\ n \in 1..Len(diccio_table[i])
  BY <1>3, <1>5
<1>8. BlocksApart' /\ Content' = Content
  BY <1>5, <1>6, <1>9, <1>10, OwnerWritten
<1> QED BY <1>2, <1>8

\* SET writes the value of its key, and of no other.
LEMMA SetStep ==
  ASSUME InstanceTypeOK, InstanceTypeOK', BlocksApart, NEW i \in Inst, Set(i),
         NEW id \in ForwardedDetail, id = Received(i)
  PROVE  BlocksApart' /\ KS!Set(i, id.key, id.value)
<1> DEFINE d == diccio_table[i]
           n == EntryOf(i, id.key)
           at == d[n].entry_number
<1>1. id.key \in Key /\ id.value \in Text
  BY DEF ForwardedDetail
<1>2. /\ blocks_table' = [blocks_table EXCEPT ![i][at] = id.value] /\ CanChange(i)
      /\ UNCHANGED <<diccio_table, circular_alg_last_entry, mounting_point>>
  BY DEF Set
<1>3. /\ d \in Seq(DiccionaryEntry) /\ blocks_table[i] \in [Block -> Data]
      /\ diccio_table'[i] = d /\ circular_alg_last_entry'[i] = circular_alg_last_entry[i]
  BY <1>2 DEF InstanceTypeOK
<1>4. n # 0 /\ IsEntry(d, id.key, n)
  BY <1>2, <1>3, EntryOfIs DEF CanChange
<1>5. TableApart(d, blocks_table[i], circular_alg_last_entry[i])
  BY BlocksApartEach
<1> HIDE DEF n
<1> DEFINE blocks2 == [blocks_table[i] EXCEPT ![at] = id.value]
<1>6. /\ TableApart(d, blocks2, circular_alg_last_entry[i])
      /\ ValueAt(d, blocks2, n) = id.value
      /\ OthersKept(d, blocks_table[i], blocks2, id.key)
  <2>1. blocks2 = [blocks_table[i] EXCEPT ![d[n].entry_number] = id.value]
    OBVIOUS
  <2> HIDE DEF d, blocks2
  <2> QED BY <2>1, <1>1, <1>3, <1>4, <1>5, OwnBlock
<1>7. blocks_table'[i] = blocks2
  BY <1>2 DEF InstanceTypeOK
<1>8. \A j \in Inst : j # i =>
        /\ diccio_table'[j] = diccio_table[j] /\ blocks_table'[j] = blocks_table[j]
        /\ circular_alg_last_entry'[j] = circular_alg_last_entry[j]
  BY <1>2 DEF InstanceTypeOK
<1> HIDE DEF blocks2, at
<1>9. TableApart(diccio_table'[i], blocks_table'[i], circular_alg_last_entry'[i])
  BY <1>3, <1>6, <1>7
<1>10. BlocksApart' /\ \A j \in Inst : \A k : j # i => ValueOf(j, k)' = ValueOf(j, k)
  BY <1>8, <1>9, OthersSame
<1>11. ASSUME NEW k, NEW m, IsEntry(d, k, m)
       PROVE  /\ ValueOf(i, k) = ValueAt(d, blocks_table[i], m)
              /\ ValueOf(i, k)' = ValueAt(d, blocks2, m)
  <2>1. ValueOf(i, k) = ValueAt(d, blocks_table[i], m)
    BY <1>3, <1>5, <1>11, ValueIs
  <2>2. ValueOf(i, k)' = ValueAt(diccio_table'[i], blocks_table'[i], m)
    BY <1>3, <1>9, <1>11, ValueIs
  <2> QED BY <2>1, <2>2, <1>3, <1>7
<1>12. ValueOf(i, id.key) # NoData /\ ValueOf(i, id.key)' = id.value
  <2>1. ValueOf(i, id.key) = ValueAt(d, blocks_table[i], n) /\ ValueOf(i, id.key)' = id.value
    BY <1>4, <1>6, <1>11
  <2>2. ValueAt(d, blocks_table[i], n) # NoData
    BY <1>4, <1>5 DEF ValueAt, TableApart, IsEntry
  <2> QED BY <2>1, <2>2
<1>13. ASSUME NEW k, k # id.key PROVE ValueOf(i, k)' = ValueOf(i, k)
  <2> DEFINE m == EntryOf(i, k)
  <2>1. IsEntry(d, k, m)
    BY <1>3, EntryOfIs
  <2> HIDE DEF m
  <2> QED BY <2>1, <1>6, <1>11, <1>13 DEF OthersKept
<1>14. Content' = [Content EXCEPT ![i][id.key] = id.value]
  <2> DEFINE key == id.key
             value == id.value
  <2>1. key \in Key
    BY <1>1
  <2> HIDE DEF key, value
  <2>2. \A j \in Inst, l \in Key :
          ValueOf(j, l)' = IF j = i /\ l = key THEN value ELSE ValueOf(j, l)
    BY <1>10, <1>12, <1>13 DEF key, value
  <2>3. Content' = [Content EXCEPT ![i][key] = value]
    BY <2>1, <2>2, ContentChange
  <2> QED BY <2>3 DEF key, value
<1>15. Content[i][id.key] # NoData
  BY <1>1, <1>12 DEF Content
<1>16. KS!Set(i, id.key, id.value)
  BY <1>2, <1>14, <1>15 DEF KS!Set, KS!Known, Content
<1> QED BY <1>10, <1>16

\* STORE writes the value of its key to its file.
LEMMA StoreStep ==
  ASSUME InstanceTypeOK, InstanceTypeOK', BlocksApart, NEW i \in Inst, Store(i),
         NEW id \in ForwardedDetail, id = Received(i)
  PROVE  BlocksApart' /\ KS!Store(i, id.key)
<1> DEFINE d == diccio_table[i]
           n == EntryOf(i, id.key)
           entry == [d[n] EXCEPT !.blocked = FALSE]
<1>1. id.key \in Key
  BY DEF ForwardedDetail
<1>2. /\ CanChange(i) /\ UNCHANGED <<blocks_table, circular_alg_last_entry>>
      /\ diccio_table' = [diccio_table EXCEPT ![i][n].blocked = FALSE]
      /\ mounting_point' = [mounting_point EXCEPT ![i][id.key] = blocks_table[i][d[n].entry_number]]
  BY DEF Store
<1>3. n # 0 /\ n \in 1..Len(d) /\ d[n] \in DiccionaryEntry
  BY <1>2, EntryFound DEF CanChange
<1>4. d \in Seq(DiccionaryEntry) /\ TableApart(d, blocks_table[i], circular_alg_last_entry[i])
  BY BlocksApartEach DEF InstanceTypeOK
<1>5. ValueOf(i, id.key) = blocks_table[i][d[n].entry_number]
  BY <1>3 DEF ValueOf
<1>6. blocks_table[i][d[n].entry_number] # NoData
  BY <1>3, <1>4 DEF TableApart
<1> HIDE DEF n
<1>7. /\ entry \in DiccionaryEntry
      /\ entry.key = d[n].key /\ entry.entry_number = d[n].entry_number
  BY <1>3 DEF DiccionaryEntry
<1>8. diccio_table' = [diccio_table EXCEPT ![i] = [@ EXCEPT ![n] = entry]]
  BY <1>2
<1> HIDE DEF entry
<1>9. BlocksApart' /\ Content' = Content
  BY <1>2, <1>3, <1>7, <1>8, OwnerWritten
<1>10. Content[i][id.key] = blocks_table[i][d[n].entry_number]
  BY <1>1, <1>5 DEF Content
<1>11. KS!Store(i, id.key)
  <2>1. /\ Content[i][id.key] # NoData /\ Content' = Content
        /\ mounting_point' = [mounting_point EXCEPT ![i][id.key] = Content[i][id.key]]
    BY <1>2, <1>6, <1>9, <1>10
  <2> QED BY <2>1 DEF KS!Store, KS!Known, Content
<1> QED BY <1>9, <1>11

\* An instruction is one operation of the abstract store, or none.
LEMMA InstructionStep ==
  ASSUME IsFiniteSet(Key), Cardinality(Key) <= Q_ENTRIES, ChannelsTypeOK,
         InstanceTypeOK, InstanceTypeOK', BlocksApart, NEW i \in Inst, InstanceStep(i)
  PROVE  /\ BlocksApart'
         /\ KS!Next \/ (Content' = Content /\ mounting_point' = mounting_point)
<1>1. CASE initialize_entry_table(i) \/ FollowNullTable(i) \/ Refuse(i)
  <2>1. UNCHANGED tables /\ mounting_point' = mounting_point
    BY <1>1 DEF initialize_entry_table, FollowNullTable, Refuse
  <2> QED BY <2>1, TablesSame
<1>2. CASE GetKnown(i)
  BY <1>2, GetKnownStep
<1>3. ASSUME NEW operation, Process(i, operation)
      PROVE  /\ Received(i) \in ForwardedDetail
             /\ Received(i).key \in Key /\ Received(i).value \in Text
  BY <1>3, ReceivedType DEF Process, ForwardedDetail
<1>4. PICK id : id = Received(i)
  OBVIOUS
<1>5. CASE GetNew(i)
  <2>1. id \in ForwardedDetail /\ id.key \in Key
    BY <1>3, <1>4, <1>5 DEF GetNew
  <2>2. BlocksApart' /\ KS!Get(i, id.key)
    BY <2>1, <1>4, <1>5, GetNewStep
  <2> QED BY <2>1, <2>2, Zenon DEF KS!Next
<1>6. CASE Set(i)
  <2>1. id \in ForwardedDetail /\ id.key \in Key /\ id.value \in Text
    BY <1>3, <1>4, <1>6 DEF Set
  <2>2. BlocksApart' /\ KS!Set(i, id.key, id.value)
    BY <2>1, <1>4, <1>6, SetStep
  <2> QED BY <2>1, <2>2, Zenon DEF KS!Next
<1>7. CASE Store(i)
  <2>1. id \in ForwardedDetail /\ id.key \in Key
    BY <1>3, <1>4, <1>7 DEF Store
  <2>2. BlocksApart' /\ KS!Store(i, id.key)
    BY <2>1, <1>4, <1>7, StoreStep
  <2> QED BY <2>1, <2>2, Zenon DEF KS!Next
<1> QED BY <1>1, <1>2, <1>5, <1>6, <1>7 DEF InstanceStep

\* A step of the system is one operation of the abstract store, or none.
LEMMA SystemStoreStep ==
  ASSUME IsFiniteSet(Key), Cardinality(Key) <= Q_ENTRIES, TypeOK, TypeOK', BlocksApart, [Next]_vars
  PROVE  /\ BlocksApart'
         /\ [KS!Next]_<<[i \in Inst |-> [k \in Key |-> ValueOf(i, k)]], mounting_point>>
<1> SUFFICES /\ BlocksApart'
             /\ KS!Next \/ (Content' = Content /\ mounting_point' = mounting_point)
  BY DEF Content
<1>1. CASE InstanceNext /\ OthersThanInstance
  <2>1. PICK i \in Inst : ConnectInstance(i) \/ InstanceStep(i) \/ DieInstance(i)
    BY <1>1 DEF InstanceNext
  <2>2. CASE InstanceStep(i)
    BY <2>2, InstructionStep DEF TypeOK
  <2>3. CASE ConnectInstance(i) \/ DieInstance(i)
    <3>1. UNCHANGED tables /\ mounting_point' = mounting_point
      BY <2>3 DEF ConnectInstance, DieInstance
    <3> QED BY <3>1, TablesSame
  <2> QED BY <2>1, <2>2, <2>3
<1>2. ASSUME \/ PlannerNext /\ OthersThanPlanner
             \/ (EsiNext \/ \E e \in ESI : Connect(e)) /\ OthersThanEsi
             \/ CoordinatorNext /\ OthersThanCoordinator
             \/ UNCHANGED vars
      PROVE  BlocksApart' /\ Content' = Content /\ mounting_point' = mounting_point
  <2>1. UNCHANGED tables /\ mounting_point' = mounting_point
    BY <1>2 DEF OthersThanPlanner, OthersThanEsi, OthersThanCoordinator, vars, instanceVars
  <2> QED BY <2>1, TablesSame
<1> QED BY <1>1, <1>2 DEF Next, Step, Terminated

\* Every Instance starts without keys.
LEMMA InitStore == Init => BlocksApart /\ KS!Init
<1> SUFFICES ASSUME Init PROVE BlocksApart /\ KS!Init
  OBVIOUS
<1>1. /\ diccio_table = [i \in Inst |-> <<>>] /\ circular_alg_last_entry = [i \in Inst |-> 0]
      /\ mounting_point = [i \in Inst |-> [k \in Key |-> NoData]]
  BY DEF Init, InstanceInit
<1>2. \A i \in Inst : diccio_table[i] = <<>> /\ Len(diccio_table[i]) = 0
  BY <1>1
<1>3. BlocksApart
  BY <1>1, <1>2, EntriesAssumption DEF BlocksApart
<1>4. \A i \in Inst, k \in Key : ValueOf(i, k) = NoData
  <2> TAKE i \in Inst, k \in Key
  <2>1. EntryOf(i, k) = 0
    <3>1. diccio_table[i] \in Seq(DiccionaryEntry)
      BY InitTypes DEF InstanceTypeOK
    <3>2. EntryOf(i, k) \in 0..Len(diccio_table[i])
      BY <3>1, EntryRange
    <3> QED BY <3>2, <1>2
  <2> QED BY <2>1 DEF ValueOf
<1> QED BY <1>1, <1>3, <1>4 DEF KS!Init

\* While there are no more keys than blocks, no entry names the block of
\* another and the circle never comes round to a block in use (instance
\* launcher.c:178-193, 268).
THEOREM BlocksAreApart ==
  ASSUME IsFiniteSet(Key), Cardinality(Key) <= Q_ENTRIES
  PROVE  Spec => []BlocksApart
<1>1. Init => BlocksApart
  BY InitStore
<1>2. TypeOK /\ TypeOK' /\ BlocksApart /\ [Next]_vars => BlocksApart'
  BY SystemStoreStep
<1> QED
  BY <1>1, <1>2, SystemTypeOK, PTL DEF Spec

\* While there are no more keys than blocks, the Instances keep for each key
\* a value and a file of its own: GET, SET and STORE of one key (instance
\* launcher.c:161-262) are no operation on another, whatever the timing, the
\* deaths and the names the instructions carry.
THEOREM InstancesImplementKeyStore ==
  ASSUME IsFiniteSet(Key), Cardinality(Key) <= Q_ENTRIES
  PROVE  Spec => ImplementsKeyStore
<1>1. Init => KS!Init
  BY InitStore
<1>2. /\ TypeOK /\ TypeOK' /\ BlocksApart /\ [Next]_vars
      => [KS!Next]_<<[i \in Inst |-> [k \in Key |-> ValueOf(i, k)]], mounting_point>>
  BY SystemStoreStep
<1> QED
  BY <1>1, <1>2, SystemTypeOK, BlocksAreApart, PTL DEF Spec, ImplementsKeyStore, KS!Spec
-----------------------------------------------------------------------------
(***************************************************************************)
(* What the planner is told of has happened: one thread of the coordinator *)
(* waits for an Instance at a time (OneLineProofs), so the report that it  *)
(* reads is of its own operation, and no other operation comes between.    *)
(***************************************************************************)
SameTables(i) ==
  /\ diccio_table'[i] = diccio_table[i] /\ blocks_table'[i] = blocks_table[i]
  /\ mounting_point'[i] = mounting_point[i]

\* A step that starts nothing at Instance i: it sends it no instruction and
\* no report, and leaves its tables and who waits for it.
Calm(i) ==
  /\ NoMore(instance_coord[i], instance_coord'[i], Reports)
  /\ NoMore(instance_coord[i], instance_coord'[i], Successes)
  /\ NoMore(coord_instance[i], coord_instance'[i], Instructions)
  /\ \A id : Brings(coord_instance[i], id) => Brings(coord_instance'[i], id)
  /\ Alive(i)' => Alive(i)
  /\ \A e \in ESI : WaitsFor(e, i) => WaitsFor(e, i)' /\ thread'[e].id = thread[e].id
  /\ SameTables(i)

LEMMA HappenedKept ==
  ASSUME NEW e \in ESI, NEW i \in Inst, thread'[e].id = thread[e].id, SameTables(i)
  PROVE  Happened(thread[e].id, i)' <=> Happened(thread[e].id, i)
<1>1. EntryOf(i, thread[e].id.key)' = EntryOf(i, thread[e].id.key)
  BY DEF EntryOf, SelectInSeq, SameTables
<1>2. ValueOf(i, thread[e].id.key)' = ValueOf(i, thread[e].id.key)
  BY <1>1 DEF ValueOf, SameTables
<1> QED BY <1>1, <1>2 DEF Happened, SameTables

LEMMA CalmKept ==
  ASSUME NEW i \in Inst, ReportedOnce(i), InstructedOnce(i), Calm(i)
  PROVE  ReportedOnce(i)' /\ InstructedOnce(i)'
<1>1. Once(instance_coord[i], Reports)'
  BY DEF ReportedOnce, Calm, NoMore
<1>2. Carries(instance_coord[i], Reports)' => \E e \in ESI : WaitsFor(e, i)'
  BY DEF ReportedOnce, Calm, NoMore
<1>3. ASSUME Carries(instance_coord[i], Successes)'
      PROVE  \E e \in ESI : WaitsFor(e, i)' /\ Happened(thread[e].id, i)'
  <2>1. PICK e \in ESI : WaitsFor(e, i) /\ Happened(thread[e].id, i)
    BY <1>3 DEF ReportedOnce, Calm, NoMore
  <2>2. WaitsFor(e, i)' /\ thread'[e].id = thread[e].id /\ SameTables(i)
    BY <2>1 DEF Calm
  <2>3. Happened(thread[e].id, i)'
    BY <2>1, <2>2, HappenedKept
  <2> QED BY <2>2, <2>3
<1>4. ASSUME Alive(i)'
      PROVE  /\ Once(coord_instance[i], Instructions)'
             /\ Carries(coord_instance[i], Instructions)' =>
                  /\ ~Carries(instance_coord[i], Reports)'
                  /\ \E e \in ESI : WaitsFor(e, i)' /\ Brings(coord_instance[i], thread[e].id)'
  <2>1. Alive(i) /\ Once(coord_instance[i], Instructions)'
    BY <1>4 DEF InstructedOnce, Calm, NoMore
  <2>2. ASSUME Carries(coord_instance[i], Instructions)'
        PROVE  /\ ~Carries(instance_coord[i], Reports)'
               /\ \E e \in ESI : WaitsFor(e, i)' /\ Brings(coord_instance[i], thread[e].id)'
    <3>1. PICK e \in ESI : WaitsFor(e, i) /\ Brings(coord_instance[i], thread[e].id)
      BY <2>1, <2>2 DEF InstructedOnce, Calm, NoMore
    <3>2. WaitsFor(e, i)' /\ thread'[e].id = thread[e].id
          /\ Brings(coord_instance'[i], thread[e].id)
      BY <3>1 DEF Calm
    <3>3. ~Carries(instance_coord[i], Reports)'
      BY <2>1, <2>2 DEF InstructedOnce, Calm, NoMore
    <3>4. Brings(coord_instance[i], thread[e].id)'
      BY <3>2
    <3> QED BY <3>2, <3>3, <3>4
  <2> QED BY <2>1, <2>2
<1> QED BY <1>1, <1>2, <1>3, <1>4 DEF ReportedOnce, InstructedOnce

\* Frames that are taken, and that are sent.
NothingAfter(q) == \A n \in 1..Len(q) : q[n].type \in Ends => n = Len(q)

LEMMA TakenFrame ==
  ASSUME NEW S, NEW q \in Seq(S), q # <<>>
  PROVE  /\ \A id : Brings(q, id) => Brings(Tail(q), id)
         /\ NothingAfter(q) => NothingAfter(Tail(q))
         /\ NothingAfter(q) /\ Head(q).type \in Ends => Len(q) = 1
<1> DEFINE r == Tail(q)
<1>1. /\ Len(q) \in Nat \ {0} /\ Head(q) = q[1] /\ Len(r) = Len(q) - 1
      /\ \A n \in 1..Len(r) : n + 1 \in 1..Len(q) /\ r[n] = q[n + 1]
  OBVIOUS
<1> HIDE DEF r
<1>2. \A id : Brings(q, id) => Brings(r, id)
  BY <1>1 DEF Brings
<1>3. NothingAfter(q) => NothingAfter(r)
  <2> SUFFICES ASSUME NothingAfter(q), NEW n \in 1..Len(r), r[n].type \in Ends
               PROVE  n = Len(r)
    BY DEF NothingAfter
  <2>1. n + 1 \in 1..Len(q) /\ q[n + 1].type \in Ends
    BY <1>1
  <2>2. n + 1 = Len(q)
    BY <2>1 DEF NothingAfter
  <2> QED BY <1>1, <2>2
<1>4. NothingAfter(q) /\ Head(q).type \in Ends => Len(q) = 1
  <2>1. 1 \in 1..Len(q)
    BY <1>1
  <2> QED BY <1>1, <2>1 DEF NothingAfter
<1> QED BY <1>2, <1>3, <1>4 DEF r

LEMMA SentFrame ==
  ASSUME NEW S, NEW q \in Seq(S), NEW frame
  PROVE  /\ frame.type \notin Instructions =>
              \A id : Brings(q, id) => Brings(Append(q, frame), id)
         /\ ~Carries(q, Instructions) =>
              \A id : frame.content \in Forwarded(id) => Brings(Append(q, frame), id)
         /\ ~Carries(q, Ends) => NothingAfter(Append(q, frame))
<1> DEFINE r == Append(q, frame)
<1>1. \A n \in 1..Len(r) : \/ n \in 1..Len(q) /\ r[n] = q[n]
                           \/ n = Len(r) /\ r[n] = frame
  <2>1. Len(r) = Len(q) + 1
    OBVIOUS
  <2> QED BY <2>1, AppendFrames
<1> HIDE DEF r
<1>2. frame.type \notin Instructions => \A id : Brings(q, id) => Brings(r, id)
  BY <1>1 DEF Brings
<1>3. ~Carries(q, Instructions) => \A id : frame.content \in Forwarded(id) => Brings(r, id)
  BY <1>1 DEF Brings, Carries
<1>4. ~Carries(q, Ends) => NothingAfter(r)
  BY <1>1 DEF NothingAfter, Carries
<1> QED BY <1>2, <1>3, <1>4 DEF r

\* The connection of Instance i after a step.
LEMMA EndsKept ==
  ASSUME NEW i \in Inst, EndsLast(i), instance_coord[i] \in Seq(InstanceToCoordinator),
         \/ instance_coord'[i] = instance_coord[i] /\ (Alive(i)' => Alive(i))
         \/ /\ instance_coord[i] # <<>> /\ instance_coord'[i] = Tail(instance_coord[i])
            /\ Alive(i)' => Alive(i)
         \/ /\ Alive(i)
            /\ \E frame : /\ instance_coord'[i] = Append(instance_coord[i], frame)
                          /\ frame.type \in Ends => ~Alive(i)'
  PROVE  EndsLast(i)'
<1> DEFINE q == instance_coord[i]
           r == instance_coord'[i]
<1>1. (Carries(q, Ends) => ~Alive(i)) /\ NothingAfter(q) /\ q \in Seq(InstanceToCoordinator)
  BY DEF EndsLast, NothingAfter
<1>2. (Carries(r, Ends) => ~Alive(i)') /\ NothingAfter(r)
  <2> HIDE DEF q, r
  <2>1. CASE r = q /\ (Alive(i)' => Alive(i))
    BY <1>1, <2>1
  <2>2. CASE q # <<>> /\ r = Tail(q) /\ (Alive(i)' => Alive(i))
    <3>1. NoMore(q, Tail(q), Ends) /\ NothingAfter(Tail(q))
      BY <1>1, <2>2, FrameReceived, TakenFrame
    <3> QED BY <1>1, <2>2, <3>1 DEF NoMore
  <2>3. ASSUME Alive(i), NEW frame, r = Append(q, frame), frame.type \in Ends => ~Alive(i)'
        PROVE  (Carries(r, Ends) => ~Alive(i)') /\ NothingAfter(r)
    <3>1. ~Carries(q, Ends)
      BY <1>1, <2>3
    <3>2. NothingAfter(Append(q, frame)) /\ (frame.type \notin Ends => NoMore(q, Append(q, frame), Ends))
      BY <1>1, <3>1, SentFrame, FrameSent
    <3> QED BY <2>3, <3>1, <3>2 DEF NoMore
  <2> QED BY <2>1, <2>2, <2>3 DEF q, r
<1> QED BY <1>2 DEF EndsLast, NothingAfter

\* Nothing was executed, and no thread got further with an operation.
LEMMA ToldKept ==
  ASSUME ToldWhatHappened, UNCHANGED <<diccio_table, blocks_table, mounting_point>>,
         \A e \in ESI : thread'[e].pc \in {"change", "line_ok"} =>
           /\ thread[e].pc \in {"change", "line_ok"}
           /\ thread'[e].id = thread[e].id /\ thread'[e].inst = thread[e].inst
  PROVE  ToldWhatHappened'
<1> SUFFICES ASSUME NEW e \in ESI, thread'[e].pc \in {"change", "line_ok"}
             PROVE  Happened(thread[e].id, thread[e].inst)'
  BY DEF ToldWhatHappened
<1>1. /\ Happened(thread[e].id, thread[e].inst)
      /\ thread'[e].id = thread[e].id /\ thread'[e].inst = thread[e].inst
  BY DEF ToldWhatHappened
<1>2. EntryOf(thread[e].inst, thread[e].id.key)' = EntryOf(thread[e].inst, thread[e].id.key)
  BY <1>1 DEF EntryOf, SelectInSeq
<1>3. ValueOf(thread[e].inst, thread[e].id.key)' = ValueOf(thread[e].inst, thread[e].id.key)
  BY <1>1, <1>2 DEF ValueOf
<1> QED BY <1>1, <1>2, <1>3 DEF Happened

\* One thread executes at a time, and none while another is permitted to.
LEMMA OneExecutes ==
  ASSUME OneLine
  PROVE  \A e, f \in ESI :
           /\ Executing(e) /\ Executing(f) => e = f
           /\ ~(Executing(e) /\ Asking(f) /\ Carries(planner_coord, Allowed))
BY DEF OneLine, InOnePlace, LineAt, Place

\* A step of the coordinator that goes to no Instance and hears from none.
Elsewhere ==
  /\ \A e \in ESI, i \in Inst :
       WaitsFor(e, i) => WaitsFor(e, i)' /\ thread'[e].id = thread[e].id
  /\ \A e \in ESI : thread'[e].pc \in {"change", "line_ok"} =>
       /\ thread[e].pc \in {"change", "line_ok"}
       /\ thread'[e].id = thread[e].id /\ thread'[e].inst = thread[e].inst

LEMMA OneElsewhere ==
  ASSUME NEW e \in ESI, thread[e].pc # "instance",
         \A f \in ESI : f # e => thread'[f] = thread[f],
         \/ thread'[e].pc \notin {"change", "line_ok"}
         \/ /\ thread[e].pc \in {"change", "line_ok"}
            /\ thread'[e].id = thread[e].id /\ thread'[e].inst = thread[e].inst
  PROVE  Elsewhere
<1>1. ASSUME NEW f \in ESI, NEW i \in Inst, WaitsFor(f, i)
      PROVE  WaitsFor(f, i)' /\ thread'[f].id = thread[f].id
  <2>1. f # e
    BY <1>1 DEF WaitsFor
  <2> QED BY <1>1, <2>1 DEF WaitsFor
<1>2. ASSUME NEW f \in ESI, thread'[f].pc \in {"change", "line_ok"}
      PROVE  /\ thread[f].pc \in {"change", "line_ok"}
             /\ thread'[f].id = thread[f].id /\ thread'[f].inst = thread[f].inst
  <2>1. CASE f = e
    BY <1>2, <2>1
  <2>2. CASE f # e
    BY <1>2, <2>2
  <2> QED BY <2>1, <2>2
<1> QED BY <1>1, <1>2 DEF Elsewhere

LEMMA InstanceSideKept ==
  ASSUME OthersThanCoordinator
  PROVE  /\ UNCHANGED <<diccio_table, blocks_table, mounting_point>>
         /\ \A i \in Inst : SameTables(i) /\ (Alive(i)' <=> Alive(i))
BY DEF OthersThanCoordinator, instanceVars, tables, SameTables, Alive

\* Channels that did not change.
LEMMA ChannelsCalm ==
  ASSUME NEW i \in Inst, SameTables(i), Alive(i)' => Alive(i),
         UNCHANGED <<instance_coord[i], coord_instance[i]>>,
         \A e \in ESI : WaitsFor(e, i) => WaitsFor(e, i)' /\ thread'[e].id = thread[e].id
  PROVE  Calm(i)
BY FrameKept DEF Calm

LEMMA ElsewhereTold ==
  ASSUME TypeOK, OthersThanCoordinator, "answers" \notin Windows,
         \E e \in ESI : \/ AcceptEsi(e) \/ ReceiveInstruction(e) \/ ReceiveFinished(e)
                        \/ OpFailed(e) \/ NotifyChange(e) \/ NotifyLineOk(e)
  PROVE  Elsewhere /\ UNCHANGED <<coord_instance, instance_coord>>
<1>1. PICK e \in ESI : \/ AcceptEsi(e) \/ ReceiveInstruction(e) \/ ReceiveFinished(e)
                       \/ OpFailed(e) \/ NotifyChange(e) \/ NotifyLineOk(e)
  OBVIOUS
<1>2. UNCHANGED <<coord_instance, instance_coord>> /\ thread[e].pc # "instance"
  BY <1>1 DEF AcceptEsi, ReceiveInstruction, ReceiveFinished, OpFailed, NotifyChange, NotifyLineOk
<1>3. CoordinatorTypeOK
  BY DEF TypeOK
<1>4. CASE AcceptEsi(e) \/ ReceiveFinished(e)
  <2>1. PICK pc : thread' = [thread EXCEPT ![e].pc = pc] /\ pc \in {"recv", "done"}
    BY <1>4 DEF AcceptEsi, ReceiveFinished
  <2>2. thread'[e].pc = pc /\ \A f \in ESI : f # e => thread'[f] = thread[f]
    BY <1>3, <2>1, ThreadPc
  <2> QED BY <1>2, <2>1, <2>2, OneElsewhere
<1>5. CASE ReceiveInstruction(e)
  <2> DEFINE received == Head(esi_coord[e]).content
  <2>1. PICK id : id = [received EXCEPT !.ESIName = NameKept(received)]
    OBVIOUS
  <2>2. /\ thread' = [thread EXCEPT ![e] = [@ EXCEPT !.pc = "permission", !.id = id]]
        /\ esi_coord[e] \in Seq(EsiToCoordinator) /\ esi_coord[e] # <<>>
        /\ Head(esi_coord[e]).type = "INSTRUCTION_DETAIL_TO_COODRINATOR"
    BY <1>5, <2>1 DEF ReceiveInstruction, Arrives, TypeOK, ChannelsTypeOK
  <2>3. Head(esi_coord[e]) \in EsiToCoordinator
    BY <2>2
  <2>4. Head(esi_coord[e]).content \in InstructionDetail
    BY <2>2, <2>3 DEF EsiToCoordinator
  <2>5. id \in InstructionDetail
    BY <2>1, <2>4, KeptTypes
  <2>6. thread'[e].pc = "permission" /\ \A f \in ESI : f # e => thread'[f] = thread[f]
    BY <1>3, <2>2, <2>5, ThreadAsked
  <2> QED BY <1>2, <2>6, OneElsewhere
<1>6. CASE OpFailed(e) \/ NotifyLineOk(e)
  <2>1. thread' = [thread EXCEPT ![e] = [NoThread EXCEPT !.pc = "recv"]]
    BY <1>6 DEF OpFailed, NotifyLineOk
  <2>2. thread'[e].pc = "recv" /\ \A f \in ESI : f # e => thread'[f] = thread[f]
    BY <1>3, <2>1, ThreadFree
  <2> QED BY <1>2, <2>2, OneElsewhere
<1>7. CASE NotifyChange(e)
  <2>1. thread' = [thread EXCEPT ![e].pc = "line_ok"] /\ thread[e].pc = "change"
    BY <1>7 DEF NotifyChange
  <2>2. /\ thread'[e].id = thread[e].id /\ thread'[e].inst = thread[e].inst
        /\ \A f \in ESI : f # e => thread'[f] = thread[f]
    BY <1>3, <2>1, ThreadPc
  <2> QED BY <1>2, <2>1, <2>2, OneElsewhere
<1> QED BY <1>1, <1>2, <1>4, <1>5, <1>6, <1>7

\* The coordinator, but for what it has to do with an instruction.
LEMMA QuietTold ==
  ASSUME TypeOK, ToldInv, OthersThanCoordinator, "answers" \notin Windows,
         \/ listening_thread \/ FollowNullInstance \/ BrokenPipe
         \/ \E e \in ESI : \/ ReceiveInstruction(e) \/ ReceiveFinished(e) \/ OpFailed(e)
                          \/ NotifyChange(e) \/ NotifyLineOk(e)
  PROVE  ToldInv'
<1>1. /\ instance_coord \in [Inst -> Seq(InstanceToCoordinator)]
      /\ coord_instance \in [Inst -> Seq(CoordinatorToInstance)]
      /\ registering \in Inst \cup {None}
  BY DEF TypeOK, ChannelsTypeOK, CoordinatorTypeOK
<1>2. ASSUME Elsewhere, \A i \in Inst : Calm(i) /\ EndsLast(i)'
      PROVE  ToldInv'
  <2>1. ToldWhatHappened'
    BY <1>2, ToldKept, InstanceSideKept DEF ToldInv, Elsewhere
  <2>2. \A i \in Inst : ReportedOnce(i)' /\ InstructedOnce(i)'
    BY <1>2, CalmKept DEF ToldInv
  <2> QED BY <1>2, <2>1, <2>2 DEF ToldInv
<1>3. ASSUME Elsewhere, UNCHANGED <<coord_instance, instance_coord>> PROVE ToldInv'
  <2>1. \A i \in Inst : Calm(i)
    BY <1>3, ChannelsCalm, InstanceSideKept DEF Elsewhere
  <2>2. \A i \in Inst : EndsLast(i)'
    BY <1>1, <1>3, EndsKept, InstanceSideKept DEF ToldInv
  <2> QED BY <1>2, <1>3, <2>1, <2>2
<1>4. CASE \E e \in ESI : \/ AcceptEsi(e) \/ ReceiveInstruction(e) \/ ReceiveFinished(e)
                          \/ OpFailed(e) \/ NotifyChange(e) \/ NotifyLineOk(e)
  BY <1>3, <1>4, ElsewhereTold
<1>5. ASSUME thread' = thread PROVE Elsewhere
  BY <1>5 DEF Elsewhere, WaitsFor
<1>6. CASE FollowNullInstance \/ BrokenPipe
  BY <1>3, <1>5, <1>6 DEF FollowNullInstance, BrokenPipe
<1>7. ASSUME NEW i \in Inst, AcceptInstance(i) PROVE ToldInv'
  <2>1. /\ thread' = thread /\ coord_instance' = coord_instance
        /\ instance_coord' = [instance_coord EXCEPT ![i] = Tail(@)] /\ instance_coord[i] # <<>>
    BY <1>7 DEF AcceptInstance, Receive, Arrives
  <2>2. \A j \in Inst : /\ NoMore(instance_coord[j], instance_coord'[j], Reports)
                        /\ NoMore(instance_coord[j], instance_coord'[j], Successes)
    BY <1>1, <2>1, FamilyFrames
  <2>3. \A j \in Inst : Calm(j)
    BY <1>5, <2>1, <2>2, FrameKept, InstanceSideKept DEF Calm, Elsewhere
  <2>4. ASSUME NEW j \in Inst PROVE EndsLast(j)'
    <3>1. \/ instance_coord'[j] = instance_coord[j]
          \/ instance_coord[j] # <<>> /\ instance_coord'[j] = Tail(instance_coord[j])
      BY <1>1, <2>1
    <3> QED BY <1>1, <3>1, EndsKept, InstanceSideKept DEF ToldInv
  <2> QED BY <1>2, <1>5, <2>1, <2>3, <2>4
<1>8. CASE SendInitConfig
  <2> DEFINE frame == Header("INSTANCE_COORD_HANDSHAKE_OK")
  <2>1. PICK i \in Inst : i = registering
    BY <1>1, <1>8 DEF SendInitConfig
  <2>2. /\ thread' = thread /\ instance_coord' = instance_coord
        /\ coord_instance' = [coord_instance EXCEPT ![i] = Append(@, frame)]
    BY <1>8, <2>1 DEF SendInitConfig, SendTo
  <2>3. frame.type \notin Instructions
    BY DEF Header, Instructions
  <2> HIDE DEF frame
  <2>4. \A j \in Inst : NoMore(coord_instance[j], coord_instance'[j], Instructions)
    BY <1>1, <2>2, <2>3, FamilyFrames
  <2>5. ASSUME NEW j \in Inst, NEW id, Brings(coord_instance[j], id)
        PROVE  Brings(coord_instance'[j], id)
    <3>1. CASE j = i
      <4>1. coord_instance'[i] = Append(coord_instance[i], frame)
            /\ coord_instance[i] \in Seq(CoordinatorToInstance)
        BY <1>1, <2>2
      <4> QED BY <2>3, <2>5, <3>1, <4>1, SentFrame
    <3>2. CASE j # i
      BY <1>1, <2>2, <2>5, <3>2
    <3> QED BY <3>1, <3>2
  <2>6. \A j \in Inst : Calm(j)
    BY <1>5, <2>2, <2>4, <2>5, FrameKept, InstanceSideKept DEF Calm, Elsewhere
  <2>7. \A j \in Inst : EndsLast(j)'
    BY <1>1, <2>2, EndsKept, InstanceSideKept DEF ToldInv
  <2> QED BY <1>2, <1>5, <2>2, <2>6, <2>7
<1> QED BY <1>4, <1>6, <1>7, <1>8 DEF listening_thread

\* The thread that executes is the only one that waits for an Instance.
LEMMA OnlyOneWaits ==
  ASSUME OneLine, NEW e \in ESI, NEW i \in Inst, WaitsFor(e, i)
  PROVE  /\ \A f \in ESI, j \in Inst : WaitsFor(f, j) => f = e /\ j = i
         /\ \A f \in ESI : thread[f].pc \notin {"change", "line_ok"}
<1>1. Executing(e) /\ thread[e].pc = "instance" /\ thread[e].inst = i
  BY DEF WaitsFor, Executing
<1>2. ASSUME NEW f \in ESI, Executing(f) PROVE f = e
  BY <1>1, <1>2, OneExecutes
<1> QED BY <1>1, <1>2 DEF WaitsFor, Executing

\* A report is read by the thread that it is for.
LEMMA ReportTaken ==
  ASSUME TypeOK, OneLine, ToldInv, OthersThanCoordinator, NEW e \in ESI,
         InstanceSucceeded(e) \/ InstanceFailed(e)
  PROVE  ToldInv'
<1>1. /\ instance_coord \in [Inst -> Seq(InstanceToCoordinator)]
      /\ CoordinatorTypeOK /\ thread[e].pc = "instance" /\ coord_instance' = coord_instance
  BY DEF TypeOK, ChannelsTypeOK, InstanceSucceeded, InstanceFailed
<1>2. PICK i \in Inst : i = thread[e].inst
  BY <1>1 DEF CoordinatorTypeOK
<1>3. /\ WaitsFor(e, i) /\ instance_coord[i] # <<>> /\ Head(instance_coord[i]).type \in Reports
      /\ instance_coord' = [instance_coord EXCEPT ![i] = Tail(@)]
  BY <1>1, <1>2 DEF WaitsFor, InstanceSucceeded, InstanceFailed, Arrives, Receive, Reports
<1>4. instance_coord[i] \in Seq(InstanceToCoordinator) /\ instance_coord'[i] = Tail(instance_coord[i])
  BY <1>1, <1>3
<1>5. /\ Carries(instance_coord[i], Reports) /\ ~Carries(instance_coord'[i], Reports)
      /\ NoMore(instance_coord[i], instance_coord'[i], Reports)
  BY <1>3, <1>4, FrameReceived DEF ToldInv, ReportedOnce
<1>6. ~Carries(instance_coord'[i], Successes)
  BY <1>5 DEF Carries, Reports, Successes
<1>7. \A f \in ESI : f # e => thread'[f] = thread[f]
  <2>1. CASE InstanceSucceeded(e)
    <3>1. PICK pc : thread' = [thread EXCEPT ![e].pc = pc]
      BY <2>1 DEF InstanceSucceeded
    <3> QED BY <1>1, <3>1, ThreadPc
  <2>2. CASE InstanceFailed(e)
    <3>1. thread' = [thread EXCEPT ![e] = [NoThread EXCEPT !.pc = "recv"]]
      BY <2>2 DEF InstanceFailed, OperationFailed
    <3> QED BY <1>1, <3>1, ThreadFree
  <2> QED BY <2>1, <2>2
<1>8. ReportedOnce(i)'
  BY <1>5, <1>6 DEF ReportedOnce, NoMore, ToldInv
<1>9. InstructedOnce(i)'
  <2>1. Alive(i)' => Alive(i)
    BY InstanceSideKept
  <2>2. Alive(i) => Once(coord_instance[i], Instructions) /\ ~Carries(coord_instance[i], Instructions)
    BY <1>5 DEF ToldInv, InstructedOnce
  <2> QED BY <1>1, <2>1, <2>2 DEF InstructedOnce
<1>10. \A j \in Inst : EndsLast(j)'
  <2> TAKE j \in Inst
  <2>1. \/ instance_coord'[j] = instance_coord[j]
        \/ instance_coord[j] # <<>> /\ instance_coord'[j] = Tail(instance_coord[j])
    BY <1>1, <1>3
  <2> QED BY <1>1, <2>1, EndsKept, InstanceSideKept DEF ToldInv
<1>11. ASSUME NEW j \in Inst, j # i PROVE ReportedOnce(j)' /\ InstructedOnce(j)'
  <2>1. \A f \in ESI : ~WaitsFor(f, j)
    BY <1>3, <1>11, OnlyOneWaits
  <2>2. UNCHANGED <<instance_coord[j], coord_instance[j]>>
    BY <1>1, <1>3, <1>11
  <2>3. Calm(j)
    BY <2>1, <2>2, ChannelsCalm, InstanceSideKept
  <2> QED BY <2>3, CalmKept DEF ToldInv
<1>12. ToldWhatHappened'
  <2>1. \A f \in ESI : f # e => thread'[f].pc \notin {"change", "line_ok"}
    BY <1>3, <1>7, OnlyOneWaits
  <2>2. ASSUME thread'[e].pc \in {"change", "line_ok"}
        PROVE  Happened(thread[e].id, thread[e].inst)'
    <3>1. CASE InstanceFailed(e)
      <4>1. thread' = [thread EXCEPT ![e] = [NoThread EXCEPT !.pc = "recv"]]
        BY <3>1 DEF InstanceFailed, OperationFailed
      <4>2. thread'[e].pc = "recv"
        BY <1>1, <4>1, ThreadFree
      <4> QED BY <2>2, <4>2
    <3>2. CASE InstanceSucceeded(e)
      <4>1. PICK pc : thread' = [thread EXCEPT ![e].pc = pc]
        BY <3>2 DEF InstanceSucceeded
      <4>2. thread'[e].id = thread[e].id /\ thread'[e].inst = thread[e].inst
        BY <1>1, <4>1, ThreadPc
      <4>3. Head(instance_coord[i]).type \in Successes
        BY <1>2, <3>2 DEF InstanceSucceeded, Arrives, Successes
      <4>4. Carries(instance_coord[i], Successes)
        BY <1>3, <1>4, <4>3, FrameReceived
      <4>5. Happened(thread[e].id, i)
        BY <1>3, <4>4, OnlyOneWaits DEF ToldInv, ReportedOnce
      <4>6. Happened(thread[e].id, i)'
        BY <4>2, <4>5, HappenedKept, InstanceSideKept
      <4>7. thread'[e].inst = i
        BY <1>2, <4>2
      <4> QED BY <4>6, <4>7 DEF Happened, EntryOf, ValueOf
    <3> QED BY <3>1, <3>2
  <2> QED BY <2>1, <2>2 DEF ToldWhatHappened
<1> QED
  <2>1. \A j \in Inst : ReportedOnce(j)' /\ InstructedOnce(j)'
    BY <1>8, <1>9, <1>11
  <2> QED BY <1>10, <1>12, <2>1 DEF ToldInv

\* The connection has ended: nothing was reported.
LEMMA GoneTold ==
  ASSUME TypeOK, OneLine, ToldInv, OthersThanCoordinator, NEW e \in ESI, InstanceGone(e)
  PROVE  ToldInv'
<1>1. /\ instance_coord \in [Inst -> Seq(InstanceToCoordinator)]
      /\ CoordinatorTypeOK /\ thread[e].pc = "instance"
      /\ UNCHANGED <<coord_instance, instance_coord>>
      /\ thread' = [thread EXCEPT ![e] = [NoThread EXCEPT !.pc = "recv"]]
  BY DEF TypeOK, ChannelsTypeOK, InstanceGone, OperationFailed
<1>2. PICK i \in Inst : i = thread[e].inst
  BY <1>1 DEF CoordinatorTypeOK
<1>3. /\ WaitsFor(e, i) /\ instance_coord[i] # <<>> /\ Head(instance_coord[i]).type = "closed"
      /\ instance_coord[i] \in Seq(InstanceToCoordinator)
  BY <1>1, <1>2 DEF WaitsFor, InstanceGone, Arrives
<1>4. thread'[e].pc = "recv" /\ \A f \in ESI : f # e => thread'[f] = thread[f]
  BY <1>1, ThreadFree
<1>5. Len(instance_coord[i]) = 1 /\ instance_coord[i][1].type = "closed" /\ ~Alive(i)
  <2>1. NothingAfter(instance_coord[i]) /\ (Carries(instance_coord[i], Ends) => ~Alive(i))
    BY DEF ToldInv, EndsLast, NothingAfter
  <2>2. Head(instance_coord[i]).type \in Ends
    BY <1>3 DEF Ends
  <2>3. Len(instance_coord[i]) = 1 /\ Carries(instance_coord[i], Ends)
    BY <1>3, <2>1, <2>2, TakenFrame, FrameReceived
  <2>4. Head(instance_coord[i]) = instance_coord[i][1]
    BY <1>3
  <2> QED BY <1>3, <2>1, <2>3, <2>4
<1>6. ~Carries(instance_coord[i], Reports) /\ ~Carries(instance_coord[i], Successes)
  BY <1>5 DEF Carries, Reports, Successes
<1>7. ReportedOnce(i)' /\ InstructedOnce(i)'
  BY <1>1, <1>5, <1>6, InstanceSideKept DEF ToldInv, ReportedOnce, InstructedOnce
<1>8. ASSUME NEW j \in Inst, j # i PROVE ReportedOnce(j)' /\ InstructedOnce(j)'
  <2>1. \A f \in ESI : ~WaitsFor(f, j)
    BY <1>3, <1>8, OnlyOneWaits
  <2>2. Calm(j)
    BY <1>1, <2>1, ChannelsCalm, InstanceSideKept
  <2> QED BY <2>2, CalmKept DEF ToldInv
<1>9. \A j \in Inst : EndsLast(j)'
  BY <1>1, EndsKept, InstanceSideKept DEF ToldInv
<1>10. ToldWhatHappened'
  <2>1. \A f \in ESI : thread'[f].pc \notin {"change", "line_ok"}
    BY <1>3, <1>4, OnlyOneWaits
  <2> QED BY <2>1 DEF ToldWhatHappened
<1>11. \A j \in Inst : ReportedOnce(j)' /\ InstructedOnce(j)'
  BY <1>7, <1>8
<1> QED BY <1>9, <1>10, <1>11 DEF ToldInv

\* A permitted instruction goes to an Instance that has no other.
LEMMA SentTold ==
  ASSUME TypeOK, OneLine, ToldInv, OthersThanCoordinator, NEW e \in ESI, OpOk(e)
  PROVE  ToldInv'
<1>1. /\ coord_instance \in [Inst -> Seq(CoordinatorToInstance)]
      /\ instance_coord \in [Inst -> Seq(InstanceToCoordinator)] /\ CoordinatorTypeOK
      /\ Asking(e) /\ planner_coord \in Seq(PlannerAnswer) /\ planner_coord # <<>>
      /\ Head(planner_coord).type \in Allowed /\ instance_coord' = instance_coord
  BY DEF TypeOK, ChannelsTypeOK, OpOk, Asking, Arrives, Allowed
<1>2. Carries(planner_coord, Allowed)
  BY <1>1, FrameReceived
<1>3. \A f \in ESI : ~Executing(f)
  BY <1>1, <1>2, OneExecutes
<1>4. \A f \in ESI, j \in Inst : ~WaitsFor(f, j)
  BY <1>3 DEF WaitsFor, Executing
<1> DEFINE id == thread[e].id
<1>5. PICK i \in Inst, sent \in Forwarded(id) :
        /\ thread' = [thread EXCEPT ![e] = [@ EXCEPT !.pc = "instance", !.inst = i]]
        /\ coord_instance' = [coord_instance EXCEPT ![i] =
             Append(@, WithContent("INSTRUCTION_DETAIL_TO_INSTANCE", sent))]
  BY OpOkTarget DEF SendTo
<1> DEFINE frame == WithContent("INSTRUCTION_DETAIL_TO_INSTANCE", sent)
<1>6. /\ thread'[e].pc = "instance" /\ thread'[e].id = id
      /\ \A f \in ESI : f # e => thread'[f] = thread[f]
  BY <1>1, <1>5, ThreadSent, ThreadSentTo
<1>7. thread'[e].inst = i
  <2>1. thread' = [thread EXCEPT ![e] = [pc |-> "instance", id |-> id, inst |-> i]]
    BY <1>1, <1>5, ThreadGoes
  <2> QED BY <1>1, <2>1 DEF CoordinatorTypeOK
<1>8. frame.type \in Instructions /\ frame.content \in Forwarded(id)
  BY DEF WithContent, Instructions
<1>9. coord_instance'[i] = Append(coord_instance[i], frame)
      /\ coord_instance[i] \in Seq(CoordinatorToInstance)
  BY <1>1, <1>5
<1> HIDE DEF frame
<1>10. \A j \in Inst : ~Carries(instance_coord[j], Reports) /\ ~Carries(instance_coord[j], Successes)
  BY <1>4 DEF ToldInv, ReportedOnce
<1>11. \A j \in Inst : ReportedOnce(j)'
  BY <1>1, <1>10 DEF ToldInv, ReportedOnce
<1>12. \A j \in Inst : Alive(j) => ~Carries(coord_instance[j], Instructions)
  BY <1>4 DEF ToldInv, InstructedOnce
<1>13. ASSUME NEW j \in Inst PROVE InstructedOnce(j)'
  <2> SUFFICES ASSUME Alive(j)'
               PROVE  /\ Once(coord_instance[j], Instructions)'
                      /\ Carries(coord_instance[j], Instructions)' =>
                           /\ ~Carries(instance_coord[j], Reports)'
                           /\ \E f \in ESI : WaitsFor(f, j)' /\ Brings(coord_instance[j], thread[f].id)'
    BY DEF InstructedOnce
  <2>1. ~Carries(coord_instance[j], Instructions)
    BY <1>12, InstanceSideKept
  <2>2. CASE j # i
    <3>1. ~Carries(coord_instance'[j], Instructions)
      BY <1>1, <1>5, <2>1, <2>2
    <3> QED BY <3>1 DEF Carries, Once
  <2>3. CASE j = i
    <3>1. Once(coord_instance'[i], Instructions) /\ Brings(coord_instance'[i], id)
      BY <1>8, <1>9, <2>1, <2>3, FrameSent, SentFrame
    <3>2. WaitsFor(e, i)' /\ Brings(coord_instance[i], thread[e].id)'
      BY <1>6, <1>7, <3>1 DEF WaitsFor
    <3>3. ~Carries(instance_coord[i], Reports)'
      BY <1>1, <1>10
    <3> QED BY <2>3, <3>1, <3>2, <3>3
  <2> QED BY <2>2, <2>3
<1>14. \A j \in Inst : EndsLast(j)'
  BY <1>1, EndsKept, InstanceSideKept DEF ToldInv
<1>15. ToldWhatHappened'
  <2>1. \A f \in ESI : thread'[f].pc \notin {"change", "line_ok"}
    BY <1>3, <1>6 DEF Executing
  <2> QED BY <2>1 DEF ToldWhatHappened
<1> QED BY <1>11, <1>13, <1>14, <1>15 DEF ToldInv
-----------------------------------------------------------------------------
\* A step of Instance i, for the others.
Untouched(j) ==
  /\ SameTables(j) /\ (Alive(j)' <=> Alive(j))
  /\ UNCHANGED <<coord_instance[j], instance_coord[j]>>

LEMMA UntouchedTold ==
  ASSUME TypeOK, ToldInv, thread' = thread, NEW j \in Inst, Untouched(j)
  PROVE  ReportedOnce(j)' /\ InstructedOnce(j)' /\ EndsLast(j)'
<1>1. \A e \in ESI : WaitsFor(e, j) => WaitsFor(e, j)' /\ thread'[e].id = thread[e].id
  BY DEF WaitsFor
<1>2. Calm(j)
  BY <1>1, ChannelsCalm DEF Untouched
<1>3. EndsLast(j)'
  BY EndsKept DEF Untouched, ToldInv, TypeOK, ChannelsTypeOK
<1> QED BY <1>2, <1>3, CalmKept DEF ToldInv

\* An Instance connects, is configured, crashes or is killed.
LEMMA ConnectionTold ==
  ASSUME TypeOK, ToldInv, OthersThanInstance, NEW i \in Inst,
         \/ ConnectInstance(i) \/ initialize_entry_table(i)
         \/ FollowNullTable(i) \/ DieInstance(i)
  PROVE  ToldInv'
<1>1. /\ instance_coord \in [Inst -> Seq(InstanceToCoordinator)]
      /\ coord_instance \in [Inst -> Seq(CoordinatorToInstance)]
      /\ thread' = thread /\ UNCHANGED <<diccio_table, blocks_table, mounting_point>>
  BY DEF TypeOK, ChannelsTypeOK, OthersThanInstance, coordinatorVars, tables,
         ConnectInstance, initialize_entry_table, FollowNullTable, DieInstance
<1>2. \A j \in Inst : /\ SameTables(j)
                      /\ \A e \in ESI : WaitsFor(e, j) => WaitsFor(e, j)' /\ thread'[e].id = thread[e].id
  BY <1>1 DEF SameTables, WaitsFor
<1>3. \A j \in Inst : Alive(j)' => Alive(j)
  BY DEF TypeOK, InstanceTypeOK, Alive,
         ConnectInstance, initialize_entry_table, FollowNullTable, DieInstance
<1>4. \/ coord_instance' = coord_instance
      \/ coord_instance[i] # <<>> /\ coord_instance' = [coord_instance EXCEPT ![i] = Tail(@)]
  BY DEF ConnectInstance, initialize_entry_table, FollowNullTable, DieInstance, Receive, Arrives
<1>5. \/ instance_coord' = instance_coord
      \/ /\ Alive(i)
         /\ \E type \in {"INSTANCE_COORD_HANDSHAKE", "closed"} :
              /\ instance_coord' = [instance_coord EXCEPT ![i] = Append(@, Header(type))]
              /\ type = "closed" => ~Alive(i)'
  BY DEF TypeOK, InstanceTypeOK, Alive, SendTo,
         ConnectInstance, initialize_entry_table, FollowNullTable, DieInstance
<1>6. \A j \in Inst : /\ NoMore(coord_instance[j], coord_instance'[j], Instructions)
                      /\ \A id : Brings(coord_instance[j], id) => Brings(coord_instance'[j], id)
  <2>1. CASE coord_instance' = coord_instance
    BY <2>1, FrameKept
  <2>2. CASE coord_instance[i] # <<>> /\ coord_instance' = [coord_instance EXCEPT ![i] = Tail(@)]
    <3>1. \A j \in Inst : NoMore(coord_instance[j], coord_instance'[j], Instructions)
      BY <1>1, <2>2, FamilyFrames
    <3>2. \A id : Brings(coord_instance[i], id) => Brings(Tail(coord_instance[i]), id)
      BY <1>1, <2>2, TakenFrame
    <3>3. \A j \in Inst : coord_instance'[j] = IF j = i THEN Tail(coord_instance[i]) ELSE coord_instance[j]
      BY <1>1, <2>2
    <3> QED BY <3>1, <3>2, <3>3
  <2> QED BY <1>4, <2>1, <2>2
<1>7. \A j \in Inst : /\ NoMore(instance_coord[j], instance_coord'[j], Reports)
                      /\ NoMore(instance_coord[j], instance_coord'[j], Successes)
  <2>1. CASE instance_coord' = instance_coord
    BY <2>1, FrameKept
  <2>2. ASSUME NEW type \in {"INSTANCE_COORD_HANDSHAKE", "closed"},
               instance_coord' = [instance_coord EXCEPT ![i] = Append(@, Header(type))]
        PROVE  \A j \in Inst : /\ NoMore(instance_coord[j], instance_coord'[j], Reports)
                               /\ NoMore(instance_coord[j], instance_coord'[j], Successes)
    <3>1. Header(type).type \notin Reports /\ Header(type).type \notin Successes
      BY DEF Header, Reports, Successes
    <3> QED BY <1>1, <2>2, <3>1, FamilyFrames
  <2> QED BY <1>5, <2>1, <2>2
<1>8. \A j \in Inst : ReportedOnce(j)' /\ InstructedOnce(j)'
  BY <1>2, <1>3, <1>6, <1>7, CalmKept DEF Calm, ToldInv
<1>9. \A j \in Inst : EndsLast(j)'
  <2> TAKE j \in Inst
  <2>1. EndsLast(j) /\ instance_coord[j] \in Seq(InstanceToCoordinator)
    BY <1>1 DEF ToldInv
  <2>2. CASE instance_coord'[j] = instance_coord[j]
    BY <1>3, <2>1, <2>2, EndsKept
  <2>3. CASE instance_coord'[j] # instance_coord[j]
    <3>1. PICK type \in {"INSTANCE_COORD_HANDSHAKE", "closed"} :
            /\ instance_coord' = [instance_coord EXCEPT ![i] = Append(@, Header(type))]
            /\ type = "closed" => ~Alive(i)'
      BY <1>5, <2>3
    <3>2. PICK frame : frame = Header(type)
      OBVIOUS
    <3>3. j = i /\ instance_coord'[j] = Append(instance_coord[j], frame) /\ Alive(i)
      BY <1>1, <1>5, <2>3, <3>1, <3>2
    <3>4. frame.type \in Ends => ~Alive(i)'
      BY <3>1, <3>2 DEF Header, Ends
    <3> QED BY <2>1, <3>3, <3>4, EndsKept
  <2> QED BY <2>2, <2>3
<1>10. ToldWhatHappened'
  <2>1. \A e \in ESI : thread'[e].pc \in {"change", "line_ok"} =>
          /\ thread[e].pc \in {"change", "line_ok"}
          /\ thread'[e].id = thread[e].id /\ thread'[e].inst = thread[e].inst
    BY <1>1
  <2> QED BY <1>1, <2>1, ToldKept DEF ToldInv
<1> QED BY <1>8, <1>9, <1>10 DEF ToldInv
\* What an Instance has done with the instruction that reached it.
Performed(sent, i) ==
  /\ EntryOf(i, sent.key) # 0
  /\ sent.operation = "SET_OP" => ValueOf(i, sent.key) = sent.value
  /\ sent.operation = "STORE_OP" => mounting_point[i][sent.key] = ValueOf(i, sent.key)

LEMMA PerformedHappened ==
  ASSUME NEW id \in InstructionDetail, NEW sent \in Forwarded(id), NEW i \in Inst,
         Performed(sent, i)', thread' = thread,
         NEW e \in ESI, thread[e].id = id
  PROVE  Happened(thread[e].id, i)'
<1>1. /\ sent.key = id.key /\ sent.operation = id.operation /\ BeginsWith(sent.value, id.value)
  BY ForwardedForm
<1>2. EntryOf(i, sent.key)' = EntryOf(i, id.key)' /\ ValueOf(i, sent.key)' = ValueOf(i, id.key)'
  BY <1>1
<1> QED BY <1>1, <1>2 DEF Performed, Happened

\* An Instance answers the thread that waits for it, which nothing else does.
LEMMA ReportedTold ==
  ASSUME TypeOK, OneLine, ToldInv, OthersThanInstance, NEW i \in Inst,
         NEW operation, Process(i, operation), NEW success, Report(i, success),
         \A j \in Inst : j # i => SameTables(j),
         NEW id, id = Received(i), success => Performed(id, i)'
  PROVE  ToldInv'
<1>1. /\ instance_coord \in [Inst -> Seq(InstanceToCoordinator)]
      /\ coord_instance \in [Inst -> Seq(CoordinatorToInstance)]
      /\ thread' = thread /\ instance_state' = instance_state
  BY DEF TypeOK, ChannelsTypeOK, OthersThanInstance, coordinatorVars, Process
<1>2. PICK frame : /\ frame.type \in Reports /\ (frame.type \in Successes => success)
                   /\ instance_coord' = [instance_coord EXCEPT ![i] = Append(@, frame)]
  <2>1. PICK frame : frame = Header(IF success THEN "INSTANCE_REPORTS_SUCCESSFUL_OP"
                                              ELSE "INSTANCE_REPORTS_FAILED_OP")
    OBVIOUS
  <2>2. frame.type \in Reports /\ (frame.type \in Successes => success)
    BY <2>1 DEF Header, Reports, Successes
  <2> QED BY <2>1, <2>2 DEF Report, SendTo
<1>3. /\ coord_instance[i] # <<>> /\ Head(coord_instance[i]).type \in Instructions
      /\ coord_instance' = [coord_instance EXCEPT ![i] = Tail(@)]
  BY DEF Process, Arrives, Receive, Instructions
<1>4. /\ Alive(i) /\ \A j \in Inst : Alive(j)' <=> Alive(j)
  BY <1>1 DEF Process, Alive
<1>5. /\ coord_instance[i] \in Seq(CoordinatorToInstance) /\ coord_instance'[i] = Tail(coord_instance[i])
      /\ instance_coord[i] \in Seq(InstanceToCoordinator)
      /\ instance_coord'[i] = Append(instance_coord[i], frame)
      /\ \A j \in Inst : j # i => UNCHANGED <<coord_instance[j], instance_coord[j]>>
  BY <1>1, <1>2, <1>3
<1>6. Carries(coord_instance[i], Instructions) /\ Once(coord_instance[i], Instructions)
  BY <1>3, <1>4, <1>5, FrameReceived DEF ToldInv, InstructedOnce
<1>7. ~Carries(coord_instance'[i], Instructions)
  BY <1>3, <1>5, <1>6, FrameReceived
<1>8. PICK e \in ESI : WaitsFor(e, i) /\ Brings(coord_instance[i], thread[e].id)
  BY <1>4, <1>6 DEF ToldInv, InstructedOnce
<1>9. id \in Forwarded(thread[e].id) /\ thread[e].id \in InstructionDetail
  <2>1. 1 \in 1..Len(coord_instance[i]) /\ Head(coord_instance[i]) = coord_instance[i][1]
    BY <1>3, <1>5
  <2>2. thread[e].id \in InstructionDetail
    BY <1>8 DEF WaitsFor, TypeOK, CoordinatorTypeOK
  <2> QED BY <1>3, <1>8, <2>1, <2>2 DEF Brings, Received
<1>10. ~Carries(instance_coord[i], Reports)
  BY <1>4, <1>6 DEF ToldInv, InstructedOnce
<1>11. WaitsFor(e, i)'
  BY <1>1, <1>8 DEF WaitsFor
<1>12. ReportedOnce(i)'
  <2>1. Once(instance_coord'[i], Reports)
    BY <1>5, <1>10, FrameSent
  <2>2. ~Carries(instance_coord[i], Successes)
    BY <1>10 DEF Carries, Reports, Successes
  <2>3. Carries(instance_coord'[i], Successes) => frame.type \in Successes
    BY <1>5, <2>2, FrameSent DEF NoMore
  <2>4. success => Happened(thread[e].id, i)'
    BY <1>1, <1>9, PerformedHappened
  <2> QED BY <1>2, <1>11, <2>1, <2>3, <2>4 DEF ReportedOnce
<1>13. InstructedOnce(i)'
  BY <1>7 DEF InstructedOnce, Carries, Once
<1>14. EndsLast(i)'
  <2>1. frame.type \notin Ends
    BY <1>2 DEF Reports, Ends
  <2> QED BY <1>4, <1>5, <2>1, EndsKept DEF ToldInv
<1>15. \A j \in Inst : j # i => ReportedOnce(j)' /\ InstructedOnce(j)' /\ EndsLast(j)'
  BY <1>1, <1>4, <1>5, UntouchedTold DEF Untouched
<1>16. ToldWhatHappened'
  <2>1. \A f \in ESI : thread'[f].pc \notin {"change", "line_ok"}
    BY <1>1, <1>8, OnlyOneWaits
  <2> QED BY <2>1 DEF ToldWhatHappened
<1> QED BY <1>12, <1>13, <1>14, <1>15, <1>16 DEF ToldInv

\* Entries that keep their keys keep their places.
LEMMA SameEntry ==
  ASSUME NEW i, NEW key, SamePlaces(diccio_table[i], diccio_table'[i])
  PROVE  EntryOf(i, key)' = EntryOf(i, key)
<1>1. {n \in 1..Len(diccio_table'[i]) : diccio_table'[i][n].key = key} =
        {n \in 1..Len(diccio_table[i]) : diccio_table[i][n].key = key}
  BY DEF SamePlaces
<1> QED BY <1>1 DEF EntryOf, SelectInSeq

\* An entry whose owner is written keeps its key and its block.
LEMMA SameOwnPlaces ==
  ASSUME NEW d \in Seq(DiccionaryEntry), NEW n \in 1..Len(d), NEW entry,
         entry.key = d[n].key, entry.entry_number = d[n].entry_number
  PROVE  SamePlaces(d, [d EXCEPT ![n] = entry])
<1>1. /\ Len([d EXCEPT ![n] = entry]) = Len(d)
      /\ \A m \in 1..Len(d) : [d EXCEPT ![n] = entry][m] = IF m = n THEN entry ELSE d[m]
  OBVIOUS
<1> HIDE DEF SamePlaces
<1> QED BY <1>1 DEF SamePlaces
\* What is reported as a success has been executed.
LEMMA GetPerformed ==
  ASSUME ChannelsTypeOK, InstanceTypeOK, InstanceTypeOK', NEW i \in Inst,
         GetNew(i) \/ GetKnown(i), NEW id, id = Received(i)
  PROVE  Performed(id, i)' /\ \A j \in Inst : j # i => SameTables(j)
<1>1. diccio_table[i] \in Seq(DiccionaryEntry) /\ diccio_table'[i] \in Seq(DiccionaryEntry)
  BY DEF InstanceTypeOK
<1>2. id.operation = "GET_OP"
  BY DEF GetNew, GetKnown, Process
<1>3. \A j \in Inst : j # i => SameTables(j)
  BY DEF GetNew, GetKnown, InstanceTypeOK, SameTables
<1>4. \E n \in 1..Len(diccio_table'[i]) : diccio_table'[i][n].key = id.key
  <2>1. CASE GetNew(i)
    <3>1. PICK entry : /\ entry.key = id.key
                       /\ diccio_table' = [diccio_table EXCEPT ![i] = <<entry>> \o @]
      BY <2>1 DEF GetNew
    <3>2. diccio_table'[i] = <<entry>> \o diccio_table[i]
      BY <3>1 DEF InstanceTypeOK
    <3>3. Len(diccio_table'[i]) = Len(diccio_table[i]) + 1 /\ diccio_table'[i][1] = entry
      BY <1>1, <3>2
    <3> QED BY <1>1, <3>1, <3>3
  <2>2. CASE GetKnown(i)
    <3> DEFINE n == EntryOf(i, id.key)
    <3>1. /\ n # 0
          /\ diccio_table' = [diccio_table EXCEPT ![i][n].blocked = TRUE, ![i][n].blockedBy = id.ESIName]
      BY <2>2 DEF GetKnown
    <3>2. n \in 1..Len(diccio_table[i]) /\ diccio_table[i][n].key = id.key
      BY <1>1, <3>1, EntryRange
    <3> HIDE DEF n
    <3>3. diccio_table[i][n] \in DiccionaryEntry
      BY <1>1, <3>2, ElementOfSeq
    <3>4. /\ Len(diccio_table'[i]) = Len(diccio_table[i])
          /\ diccio_table'[i][n].key = diccio_table[i][n].key
      BY <1>1, <3>1, <3>2, <3>3 DEF InstanceTypeOK, DiccionaryEntry
    <3> QED BY <3>2, <3>4
  <2> QED BY <2>1, <2>2
<1>5. EntryOf(i, id.key)' # 0
  <2>1. IsEntry(diccio_table'[i], id.key, EntryOf(i, id.key)')
    BY <1>1, EntryOfIs, Zenon
  <2> QED BY <2>1, <1>4 DEF IsEntry
<1>6. "GET_OP" # "SET_OP" /\ "GET_OP" # "STORE_OP"
  OBVIOUS
<1> QED BY <1>2, <1>3, <1>5, <1>6 DEF Performed

LEMMA SetPerformed ==
  ASSUME InstanceTypeOK, NEW i \in Inst, Set(i), NEW id, id = Received(i)
  PROVE  Performed(id, i)' /\ \A j \in Inst : j # i => SameTables(j)
<1> DEFINE n == EntryOf(i, id.key)
           at == diccio_table[i][n].entry_number
<1>1. /\ n # 0 /\ at \in Block /\ id.operation = "SET_OP"
      /\ diccio_table' = diccio_table /\ mounting_point' = mounting_point
      /\ blocks_table' = [blocks_table EXCEPT ![i][at] = id.value]
  BY EntryFound DEF Set, Process, CanChange
<1>2. EntryOf(i, id.key)' = n
  BY <1>1, SameEntry DEF SamePlaces
<1>3. blocks_table'[i][at] = id.value /\ \A j \in Inst : j # i => SameTables(j)
  BY <1>1 DEF InstanceTypeOK, SameTables
<1>4. ValueOf(i, id.key)' = id.value
  BY <1>1, <1>2, <1>3 DEF ValueOf
<1>5. "SET_OP" # "STORE_OP"
  OBVIOUS
<1> QED BY <1>1, <1>2, <1>3, <1>4, <1>5 DEF Performed

LEMMA StorePerformed ==
  ASSUME ChannelsTypeOK, InstanceTypeOK, NEW i \in Inst, Store(i), NEW id, id = Received(i)
  PROVE  Performed(id, i)' /\ \A j \in Inst : j # i => SameTables(j)
<1> DEFINE n == EntryOf(i, id.key)
           d == diccio_table[i]
           entry == [d[n] EXCEPT !.blocked = FALSE]
<1>1. /\ n # 0 /\ n \in 1..Len(d) /\ d[n] \in DiccionaryEntry /\ id.operation = "STORE_OP"
      /\ d \in Seq(DiccionaryEntry) /\ blocks_table' = blocks_table
      /\ diccio_table' = [diccio_table EXCEPT ![i][n].blocked = FALSE]
      /\ mounting_point' = [mounting_point EXCEPT ![i][id.key] = blocks_table[i][d[n].entry_number]]
  BY EntryFound DEF Store, Process, CanChange, InstanceTypeOK
<1>2. id.key \in Key
  BY ReceivedType DEF Store, Process, ForwardedDetail
<1>3. ValueOf(i, id.key) = blocks_table[i][d[n].entry_number]
  BY <1>1 DEF ValueOf
<1>4. mounting_point'[i][id.key] = ValueOf(i, id.key) /\ \A j \in Inst : j # i => SameTables(j)
  BY <1>1, <1>2, <1>3 DEF InstanceTypeOK, SameTables
<1> HIDE DEF n
<1>5. entry.key = d[n].key /\ entry.entry_number = d[n].entry_number
  BY <1>1 DEF DiccionaryEntry
<1>6. diccio_table'[i] = [d EXCEPT ![n] = entry]
  BY <1>1 DEF InstanceTypeOK
<1> HIDE DEF entry
<1>7. SamePlaces(diccio_table[i], diccio_table'[i])
  BY <1>1, <1>5, <1>6, SameOwnPlaces
<1>8. EntryOf(i, id.key)' = n
  BY <1>7, SameEntry DEF n
<1>9. ValueOf(i, id.key)' = ValueOf(i, id.key)
  <2>1. diccio_table'[i][n].entry_number = d[n].entry_number
    BY <1>1, <1>7 DEF SamePlaces
  <2>2. n = EntryOf(i, id.key)
    BY DEF n
  <2> QED BY <1>1, <1>8, <2>1, <2>2 DEF ValueOf
<1>10. "SET_OP" # "STORE_OP"
  OBVIOUS
<1> QED BY <1>1, <1>4, <1>8, <1>9, <1>10 DEF Performed

LEMMA ExecutedTold ==
  ASSUME TypeOK, InstanceTypeOK', OneLine, ToldInv, OthersThanInstance, NEW i \in Inst,
         GetNew(i) \/ GetKnown(i) \/ Set(i) \/ Store(i) \/ Refuse(i)
  PROVE  ToldInv'
<1>1. ChannelsTypeOK /\ InstanceTypeOK
  BY DEF TypeOK
<1>2. PICK id : id = Received(i)
  OBVIOUS
<1>3. CASE GetNew(i) \/ GetKnown(i)
  <2>1. Performed(id, i)' /\ \A j \in Inst : j # i => SameTables(j)
    BY <1>1, <1>2, <1>3, GetPerformed
  <2>2. Process(i, "GET_OP") /\ Report(i, TRUE)
    BY <1>3 DEF GetNew, GetKnown
  <2> QED BY <1>2, <2>1, <2>2, ReportedTold
<1>4. CASE Set(i)
  <2>1. Performed(id, i)' /\ \A j \in Inst : j # i => SameTables(j)
    BY <1>1, <1>2, <1>4, SetPerformed
  <2>2. Process(i, "SET_OP") /\ Report(i, TRUE)
    BY <1>4 DEF Set
  <2> QED BY <1>2, <2>1, <2>2, ReportedTold
<1>5. CASE Store(i)
  <2>1. Performed(id, i)' /\ \A j \in Inst : j # i => SameTables(j)
    BY <1>1, <1>2, <1>5, StorePerformed
  <2>2. Process(i, "STORE_OP") /\ Report(i, TRUE)
    BY <1>5 DEF Store
  <2> QED BY <1>2, <2>1, <2>2, ReportedTold
<1>6. CASE Refuse(i)
  <2>1. PICK operation : Process(i, operation)
    BY <1>6 DEF Refuse
  <2>2. Report(i, FALSE) /\ \A j \in Inst : j # i => SameTables(j)
    BY <1>6 DEF Refuse, tables, SameTables
  <2> QED BY <1>2, <2>1, <2>2, ReportedTold
<1> QED BY <1>3, <1>4, <1>5, <1>6
-----------------------------------------------------------------------------
LEMMA InstanceTold ==
  ASSUME TypeOK, InstanceTypeOK', OneLine, ToldInv, InstanceNext, OthersThanInstance
  PROVE  ToldInv'
<1>1. PICK i \in Inst : ConnectInstance(i) \/ InstanceStep(i) \/ DieInstance(i)
  BY DEF InstanceNext
<1> QED BY <1>1, ConnectionTold, ExecutedTold DEF InstanceStep

LEMMA CoordinatorTold ==
  ASSUME TypeOK, OneLine, ToldInv, "answers" \notin Windows, CoordinatorNext, OthersThanCoordinator
  PROVE  ToldInv'
<1>1. CASE listening_thread \/ FollowNullInstance \/ BrokenPipe
  BY <1>1, QuietTold
<1>2. ASSUME NEW e \in ESI, thread_listen_esi(e) PROVE ToldInv'
  <2>1. CASE \/ ReceiveInstruction(e) \/ ReceiveFinished(e) \/ OpFailed(e)
             \/ NotifyChange(e) \/ NotifyLineOk(e)
    BY <2>1, QuietTold
  <2>2. CASE InstanceSucceeded(e) \/ InstanceFailed(e)
    BY <2>2, ReportTaken
  <2>3. CASE InstanceGone(e)
    BY <2>3, GoneTold
  <2>4. CASE OpOk(e)
    BY <2>4, SentTold
  <2> QED BY <1>2, <2>1, <2>2, <2>3, <2>4 DEF thread_listen_esi
<1> QED BY <1>1, <1>2 DEF CoordinatorNext

\* The planner and the ESIs tell the Instances nothing, and hear nothing.
LEMMA AsideTold ==
  ASSUME ToldInv, UNCHANGED <<thread, instanceVars, coord_instance, instance_coord>>
  PROVE  ToldInv'
<1>1. UNCHANGED <<thread, instance_state, diccio_table, blocks_table, mounting_point,
                  coord_instance, instance_coord>>
  BY DEF instanceVars, tables
<1>2. \A i, key : /\ EntryOf(i, key)' = EntryOf(i, key)
                  /\ ValueOf(i, key)' = ValueOf(i, key)
  BY <1>1 DEF EntryOf, SelectInSeq, ValueOf
<1>3. \A e \in ESI, i \in Inst : /\ WaitsFor(e, i)' <=> WaitsFor(e, i)
                                 /\ Happened(thread[e].id, i)' <=> Happened(thread[e].id, i)
  BY <1>1, <1>2 DEF WaitsFor, Happened
<1>4. ToldWhatHappened'
  BY <1>1, ToldKept DEF ToldInv
<1>5. \A i \in Inst : (ReportedOnce(i) <=> ReportedOnce(i)')
  BY <1>1, <1>3 DEF ReportedOnce
<1>6. \A i \in Inst : InstructedOnce(i)' /\ EndsLast(i)'
  BY <1>1, <1>3 DEF ToldInv, InstructedOnce, EndsLast, Alive
<1> QED BY <1>4, <1>5, <1>6 DEF ToldInv

LEMMA ToldStep ==
  ASSUME "answers" \notin Windows, TypeOK, TypeOK', OneLine, ToldInv, [Next]_vars
  PROVE  ToldInv'
<1>1. CASE InstanceNext /\ OthersThanInstance
  BY <1>1, InstanceTold DEF TypeOK
<1>2. CASE CoordinatorNext /\ OthersThanCoordinator
  BY <1>2, CoordinatorTold
<1>3. CASE \/ PlannerNext /\ OthersThanPlanner
           \/ (EsiNext \/ \E e \in ESI : Connect(e)) /\ OthersThanEsi
           \/ UNCHANGED vars
  <2>1. UNCHANGED <<thread, instanceVars, coord_instance, instance_coord>>
    BY <1>3 DEF OthersThanPlanner, OthersThanEsi, vars, coordinatorVars, channels
  <2> QED BY <2>1, AsideTold
<1> QED BY <1>1, <1>2, <1>3 DEF Next, Step, Terminated

LEMMA InitTold == Init => ToldInv
<1> SUFFICES ASSUME Init PROVE ToldInv
  OBVIOUS
<1>1. /\ \A e \in ESI : thread[e].pc = "off"
      /\ \A i \in Inst : coord_instance[i] = <<>> /\ instance_coord[i] = <<>>
  BY DEF Init, CoordinatorInit, ChannelsInit, NoThread
<1>2. /\ \A types : ~Carries(<<>>, types) /\ Once(<<>>, types)
      /\ 1..Len(<<>>) = {}
  <2>1. Len(<<>>) = 0 /\ 1..0 = {}
    OBVIOUS
  <2> QED BY <2>1 DEF Carries, Once
<1>3. ToldWhatHappened
  BY <1>1 DEF ToldWhatHappened
<1>4. \A i \in Inst : ReportedOnce(i) /\ InstructedOnce(i) /\ EndsLast(i)
  BY <1>1, <1>2 DEF ReportedOnce, InstructedOnce, EndsLast
<1> QED BY <1>3, <1>4 DEF ToldInv

\* An Instance is instructed by the thread that waits for it, and answers it:
\* the report that is read is of the operation that was sent (coordinator
\* launcher.c:190-219, instance launcher.c:161-262), also when an Instance is
\* killed or crashes on the way.  An inductive invariant of the whole system.
THEOREM ToldInvHolds ==
  ASSUME "answers" \notin Windows, NoNewline = {}
  PROVE  Spec => []ToldInv
<1>1. TypeOK /\ TypeOK' /\ OneLine /\ ToldInv /\ [Next]_vars => ToldInv'
  BY ToldStep
<1> QED
  BY <1>1, InitTold, OneLineHolds, SystemTypeOK, PTL DEF Spec

\* When the planner is about to be told of a GET, a SET or a STORE, the
\* Instance has executed it, and what it wrote is still there (coordinator
\* launcher.c:200-234), whichever Instances die.
THEOREM WhatIsToldHappened ==
  ASSUME "answers" \notin Windows, NoNewline = {}
  PROVE  Spec => []ToldWhatHappened
<1>1. ToldInv => ToldWhatHappened
  BY DEF ToldInv
<1> QED
  BY <1>1, ToldInvHolds, PTL
=============================================================================
