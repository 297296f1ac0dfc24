--------------------------- MODULE InstanceStore ---------------------------
(***************************************************************************)
(* The Instances (instance/src/launcher.c).  An Instance keeps a           *)
(* dictionary of keys, newest first, and a fixed table of blocks; an entry *)
(* of the dictionary names its block.  A new key takes the next block of a *)
(* circular order, whoever has it; nothing is ever evicted.                *)
(***************************************************************************)
EXTENDS Libgrupo

CONSTANT Q_ENTRIES  \* blocks of an Instance, as the coordinator tells it

ASSUME EntriesAssumption == Q_ENTRIES \in Nat \ {0}

VARIABLES
  instance_state,           \* [Inst -> {"off", "connected", "ready", "crashed", "dead"}]
  diccio_table,             \* [Inst -> Seq(entry)]
  blocks_table,             \* [Inst -> [0..Q_ENTRIES - 1 -> Data]]
  circular_alg_last_entry,  \* [Inst -> 0..Q_ENTRIES - 1]
  mounting_point            \* [Inst -> [Key -> Data]]: the files written

tables == <<diccio_table, blocks_table, circular_alg_last_entry>>
instanceVars == <<instance_state, tables, mounting_point>>

\* What a block or a file holds: nothing, the filler of a GET, or the value
\* of a SET with what came along with it.
NoData  == <<"no data", "">>
Default == <<"Default", "">>
Data    == Text \cup {NoData, Default}

ASSUME DataAssumption == NoData \notin Text

CONFIG_IGNORE_INSTANCE_PERMISSIONS == TRUE

InstanceInit ==
  /\ instance_state = [i \in Inst |-> "off"]
  /\ diccio_table = [i \in Inst |-> <<>>]
  /\ blocks_table = [i \in Inst |-> [b \in 0..(Q_ENTRIES - 1) |-> NoData]]
  /\ circular_alg_last_entry = [i \in Inst |-> 0]
  /\ mounting_point = [i \in Inst |-> [k \in Key |-> NoData]]

-----------------------------------------------------------------------------
ConnectInstance(i) ==
  /\ instance_state[i] = "off"
  /\ instance_state' = [instance_state EXCEPT ![i] = "connected"]
  /\ SendTo(instance_coord, i, Header("INSTANCE_COORD_HANDSHAKE"))
  /\ UNCHANGED <<tables, mounting_point, coord_instance>>

\* The tables are empty until then: InstanceInit has them so.
initialize_entry_table(i) ==
  /\ instance_state[i] = "connected"
  /\ Arrives(coord_instance[i], "INSTANCE_COORD_HANDSHAKE_OK")
  /\ Receive(coord_instance, i)
  /\ instance_state' = [instance_state EXCEPT ![i] = "ready"]
  /\ UNCHANGED <<tables, mounting_point, instance_coord>>

-----------------------------------------------------------------------------
(***************************************************************************)
(* process_instruction: one action for each operation and outcome.         *)
(***************************************************************************)
Received(i) == Head(coord_instance[i]).content

\* The position of the entry of the key, 0 if the dictionary has none.
EntryOf(i, key) == SelectInSeq(diccio_table[i], LAMBDA entry : entry.key = key)

Process(i, operation) ==
  /\ instance_state[i] = "ready"
  /\ Arrives(coord_instance[i], "INSTRUCTION_DETAIL_TO_INSTANCE")
  /\ Received(i).operation = operation
  /\ Receive(coord_instance, i)
  /\ UNCHANGED instance_state

Report(i, success) ==
  SendTo(instance_coord, i, Header(IF success THEN "INSTANCE_REPORTS_SUCCESSFUL_OP"
                                               ELSE "INSTANCE_REPORTS_FAILED_OP"))

get_index_to_replace(i) == circular_alg_last_entry[i]
\* Mutants: the circle does not advance, or has no end.
StuckCircle(n)  == n
EndlessLine(n)  == n + 1
NextInCircle(n) == IF n + 1 = Q_ENTRIES THEN 0 ELSE n + 1

GetNew(i) ==
  LET id == Received(i)
      at == get_index_to_replace(i)
  IN /\ Process(i, "GET_OP") /\ EntryOf(i, id.key) = 0
     /\ diccio_table' = [diccio_table EXCEPT ![i] =
          <<[key |-> id.key, entry_number |-> at,
             blocked |-> TRUE, blockedBy |-> id.ESIName]>> \o @]
     /\ blocks_table' = [blocks_table EXCEPT ![i][at] = Default]
     /\ circular_alg_last_entry' = [circular_alg_last_entry EXCEPT ![i] = NextInCircle(@)]
     /\ Report(i, TRUE)
     /\ UNCHANGED mounting_point

GetKnown(i) ==
  LET id == Received(i)
      n  == EntryOf(i, id.key)
  IN /\ Process(i, "GET_OP") /\ n # 0
     /\ diccio_table' = [diccio_table EXCEPT ![i][n].blocked = TRUE,
                                             ![i][n].blockedBy = id.ESIName]
     /\ Report(i, TRUE)
     /\ UNCHANGED <<blocks_table, circular_alg_last_entry, mounting_point>>

\* The comparison of names is the wrong way round; the flag hides it.
Permitted(entry, name) ==
  (entry.blocked /\ entry.blockedBy # name) \/ CONFIG_IGNORE_INSTANCE_PERMISSIONS

CanChange(i) ==
  LET n == EntryOf(i, Received(i).key)
  IN n # 0 /\ Permitted(diccio_table[i][n], Received(i).ESIName)

Set(i) ==
  LET id == Received(i)
  IN /\ Process(i, "SET_OP") /\ CanChange(i)
     /\ blocks_table' = [blocks_table EXCEPT
          ![i][diccio_table[i][EntryOf(i, id.key)].entry_number] = id.value]
     /\ Report(i, TRUE)
     /\ UNCHANGED <<diccio_table, circular_alg_last_entry, mounting_point>>

\* dump_diccio_entry writes the block, as it is, to the file of the key.
Store(i) ==
  LET id == Received(i)
      n  == EntryOf(i, id.key)
  IN /\ Process(i, "STORE_OP") /\ CanChange(i)
     /\ diccio_table' = [diccio_table EXCEPT ![i][n].blocked = FALSE]
     /\ mounting_point' = [mounting_point EXCEPT ![i][id.key] =
                             blocks_table[i][diccio_table[i][n].entry_number]]
     /\ Report(i, TRUE)
     /\ UNCHANGED <<blocks_table, circular_alg_last_entry>>

Refuse(i) ==
  /\ Process(i, "SET_OP") \/ Process(i, "STORE_OP")
  /\ ~CanChange(i)
  /\ Report(i, FALSE)
  /\ UNCHANGED <<tables, mounting_point>>

\* diccio_table is NULL until the configuration arrives.
FollowNullTable(i) ==
  /\ instance_state[i] = "connected"
  /\ Arrives(coord_instance[i], "INSTRUCTION_DETAIL_TO_INSTANCE")
  /\ instance_state' = [instance_state EXCEPT ![i] = "crashed"]
  /\ SendTo(instance_coord, i, Header("closed"))
  /\ UNCHANGED <<tables, mounting_point, coord_instance>>

\* An Instance is killed: what it held in memory is gone, its files are not.
\* To the coordinator a connection that is reset looks like one closed.
DieInstance(i) ==
  /\ i \in Mortal /\ instance_state[i] = "ready"
  /\ instance_state' = [instance_state EXCEPT ![i] = "dead"]
  /\ SendTo(instance_coord, i, Header("closed"))
  /\ UNCHANGED <<tables, mounting_point, coord_instance>>

InstanceStep(i) ==
  \/ initialize_entry_table(i) \/ FollowNullTable(i)
  \/ GetNew(i) \/ GetKnown(i) \/ Set(i) \/ Store(i) \/ Refuse(i)

InstanceNext ==
  \E i \in Inst : ConnectInstance(i) \/ InstanceStep(i) \/ DieInstance(i)

-----------------------------------------------------------------------------
Block == 0..(Q_ENTRIES - 1)
DiccionaryEntry ==
  [key : Key, entry_number : Block, blocked : BOOLEAN, blockedBy : Name]

\* The variables of the Instances: every entry names a block of the table.
InstanceTypeOK ==
  /\ instance_state \in [Inst -> {"off", "connected", "ready", "crashed", "dead"}]
  /\ diccio_table \in [Inst -> Seq(DiccionaryEntry)]
  /\ blocks_table \in [Inst -> [Block -> Data]]
  /\ circular_alg_last_entry \in [Inst -> Block]
  /\ mounting_point \in [Inst -> [Key -> Data]]

\* Two numbers that nothing compares place an entry: how many keys came
\* after it (launcher.c:187) and the block the
\* circle was at (launcher.c:190, 269).  While there are no more keys than
\* blocks they agree: the entries count the blocks down to 0, no key is there
\* twice, and the circle is at a block that no entry names, or at its start.
BlocksApart ==
  \A i \in Inst :
    LET d == diccio_table[i]
    IN /\ circular_alg_last_entry[i] = IF Len(d) = Q_ENTRIES THEN 0 ELSE Len(d)
       /\ \A n \in 1..Len(d) :
            /\ d[n].entry_number = Len(d) - n
            /\ blocks_table[i][d[n].entry_number] # NoData
            /\ \A m \in 1..Len(d) : d[m].key = d[n].key => m = n

\* The value of a key is the block its entry names.
ValueOf(i, k) == IF EntryOf(i, k) = 0 THEN NoData
                 ELSE blocks_table[i][diccio_table[i][EntryOf(i, k)].entry_number]

KS == INSTANCE KeyStore WITH
        Value   <- Text,
        content <- [i \in Inst |-> [k \in Key |-> ValueOf(i, k)]],
        file    <- mounting_point

\* An Instance keeps one value for each key, although blocks are handed out
\* in a circle and never taken back (launcher.c:178-193, 268): no key reads
\* or writes the block of another.
ImplementsKeyStore == KS!Spec
=============================================================================
