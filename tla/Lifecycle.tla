----------------------------- MODULE Lifecycle -----------------------------
(***************************************************************************)
(* What the planner promises of an ESI: it is new until it registers, and  *)
(* then moves between four states, one move at a time; one ESI at most has *)
(* the processor.                                                          *)
(***************************************************************************)
CONSTANT ESI

VARIABLE state  \* [ESI -> {"new", "ready", "running", "blocked", "finished"}]

Init == state = [e \in ESI |-> "new"]

Move(e, from, to) == state[e] = from /\ state' = [state EXCEPT ![e] = to]

Register(e) == Move(e, "new", "ready")
Dispatch(e) == (\A other \in ESI : state[other] # "running") /\ Move(e, "ready", "running")
Park(e)     == Move(e, "running", "blocked")
Wake(e)     == Move(e, "blocked", "ready")
Finish(e)   == Move(e, "running", "finished")

Next == \E e \in ESI : Register(e) \/ Dispatch(e) \/ Park(e) \/ Wake(e) \/ Finish(e)

Spec == Init /\ [][Next]_state
=============================================================================
