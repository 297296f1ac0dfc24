---------------------------- MODULE LockService ----------------------------
(***************************************************************************)
(* What the planner promises of its locks: one waits only for a key that   *)
(* is held, and a release dismisses all who wait for the key, at once.     *)
(* The operator may add a holder to a key that has one (bloquear): it then *)
(* takes more than one release to free it.  (planner commands.c:50 says of *)
(* "desbloquear" that it wakes only the first who waits; the code wakes    *)
(* all.)                                                                   *)
(***************************************************************************)
CONSTANT Key

VARIABLES
  held,    \* the keys that somebody holds
  waiters  \* for each key, the set of those who wait for it

Init == held \subseteq Key /\ waiters = [k \in Key |-> {}]

Hold(k) ==
  /\ k \notin held /\ held' = held \cup {k}
  /\ UNCHANGED waiters

\* Whoever it is that waits: any name at all.
Wait(k) ==
  /\ k \in held
  /\ \E name \in waiters'[k] : waiters' = [waiters EXCEPT ![k] = @ \cup {name}]
  /\ UNCHANGED held

Release(k) ==
  /\ held' \in {held, held \ {k}}
  /\ waiters' = [waiters EXCEPT ![k] = {}]

Next == \E k \in Key : Hold(k) \/ Wait(k) \/ Release(k)

Spec == Init /\ [][Next]_<<held, waiters>>
=============================================================================
