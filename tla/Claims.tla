------------------------------- MODULE Claims -------------------------------
(***************************************************************************)
(* What the texts of the repository say of the program and the program     *)
(* does not do.  Each is the property of a run that TLC refutes.           *)
(***************************************************************************)
EXTENDS System

Grows(channel, channel_, type) ==
  channel_ = Append(channel, Header(type))

\* commands.c:46: a paused planner gives no ESI a new order.  (The order that
\* the running thread had decided on before the pause is left out.)
PausedGivesNoOrders ==
  [][FLAG_PLANIFICATION_RUNNING = 0 /\ run.pc = "poll" =>
       \A e \in ESI : ~Grows(planner_esi[e], planner_esi'[e], "PLANNER_ESI_RUN")]_vars


\* launcher.c:304-306: an ESI that was refused a line, and woken, is dispatched
\* to repeat that line.
RefusedLineRepeated ==
  [][\A e \in ESI :
       run.pc = "start" /\ run.esi = e /\ run'.pc = "redo" /\ fp[e] > 0
         => Grows(planner_esi[e], planner_esi'[e], "PLANNER_ESI_RUN_LAST_OPERATION")]_vars

\* esi/src/launcher.c:181: an ESI that is told of an error terminates its
\* execution: the processor does not stay with it.
ErrorEndsExecution ==
  \A e \in ESI : Arrives(coord_esi[e], "OPERATION_ERROR")
                   ~> e \notin ToSet(running_queue)

\* coordinator/src/launcher.c:237: an operation the planner did not authorize
\* stops there.  No Instance executes for an ESI that was refused and parked.
RefusedNotExecuted ==
  \A e \in ESI : thread[e].pc = "instance" => e \notin ToSet(blocked_queue)

\* esi/src/launcher.c:222: the name an ESI logs as its registered name is the
\* one the planner gave it.
NameAgreed == \A e \in ESI : esi_name[e] \in {NoName, EsiName(esi[e].id)}
=============================================================================
