----------------------------- MODULE TakenKeys -----------------------------
(***************************************************************************)
(* The planner's taken_keys list: one ResourceAllocation node for each     *)
(* holder of a key (BLOCKED) and for each ESI that waits for one           *)
(* (WAITING).  Nothing stops two BLOCKED nodes from naming the same key:   *)
(* the searches below stop at the first node that matches.                 *)
(***************************************************************************)
EXTENDS Integers, SequencesExt

Node(name, key, status) == [ESIName |-> name, key |-> key, status |-> status]

\* The position of the first node of the key with that status, 0 if none
\* (list_find with the closure key_search).
Search(keys, key, status) ==
  SelectInSeq(keys, LAMBDA node : node.key = key /\ node.status = status)

HasNode(keys, key, status) ==
  \E i \in 1..Len(keys) : keys[i].key = key /\ keys[i].status = status

\* list_remove_by_condition removes the first match, or nothing.
Unlink(keys, key, status) ==
  IF HasNode(keys, key, status)
    THEN RemoveAt(keys, Search(keys, key, status))
    ELSE keys

load_key(keys, key, name)     == Append(keys, Node(name, key, "BLOCKED"))

\* Mutant: who waits is taken for a holder.
wait_as_holder(keys, key, name) == Append(keys, Node(name, key, "BLOCKED"))
wait_for_key(keys, key, name)   == Append(keys, Node(name, key, "WAITING"))

\* Mutant: the wrong status is looked for.
check_Key_wanted(keys, key) == HasNode(keys, key, "WAITING")

\* Despite its name it answers TRUE when somebody holds the key.
check_Key_availability(keys, key) == HasNode(keys, key, "BLOCKED")

\* TRUE when the first holder of the key is somebody else.  The caller has
\* no answer when nobody holds the key: the C code follows a NULL pointer.
check_Key_taken(keys, key, name) ==
  keys[Search(keys, key, "BLOCKED")].ESIName # name

\* pload_Keys: the keys of the configuration, held by the empty name.
pload_Keys(blocked_keys) ==
  [i \in 1..Len(blocked_keys) |-> Node(<<"", 0>>, blocked_keys[i], "BLOCKED")]
=============================================================================
