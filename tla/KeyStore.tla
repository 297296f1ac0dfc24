------------------------------ MODULE KeyStore ------------------------------
(***************************************************************************)
(* What an Instance promises: each key it was ever asked for has a value   *)
(* of its own, the filler Default until it is set, and STORE writes the    *)
(* value of the key to the file of the key.                                *)
(***************************************************************************)
CONSTANTS Inst, Key, Value, Default, NoData

VARIABLES
  content,  \* [Inst -> [Key -> Value, Default or NoData]]
  file      \* the same, on disk

Init ==
  /\ content = [i \in Inst |-> [k \in Key |-> NoData]]
  /\ file = [i \in Inst |-> [k \in Key |-> NoData]]

Known(i, k) == content[i][k] # NoData

Get(i, k) ==
  /\ ~Known(i, k)
  /\ content' = [content EXCEPT ![i][k] = Default]
  /\ UNCHANGED file

Set(i, k, v) ==
  /\ Known(i, k)
  /\ content' = [content EXCEPT ![i][k] = v]
  /\ UNCHANGED file

Store(i, k) ==
  /\ Known(i, k)
  /\ file' = [file EXCEPT ![i][k] = content[i][k]]
  /\ UNCHANGED content

Next == \E i \in Inst, k \in Key :
          Get(i, k) \/ Store(i, k) \/ \E v \in Value : Set(i, k, v)

Spec == Init /\ [][Next]_<<content, file>>
=============================================================================
