-------------------------------- MODULE Esi --------------------------------
(***************************************************************************)
(* The ESI processes (esi/src/launcher.c).  Each one walks through a       *)
(* script, one line for each order of the planner.  Two threads: the one   *)
(* that listens to the planner also parses and sends, the other listens to *)
(* the coordinator.                                                        *)
(***************************************************************************)
EXTENDS Libgrupo

CONSTANTS
  Script,    \* [ESI -> Seq(Line)]
  NoNewline  \* the ESIs whose script does not end in a newline

Line == [operation : Operation \cup {"invalid"}, key : Key, value : Value]

ASSUME ScriptAssumption == Script \in [ESI -> Seq(Line)] /\ NoNewline \subseteq ESI

VARIABLES
  process,         \* [ESI -> {"off", "on", "exited", "killed"}]
  esi_name,        \* [ESI -> Name]: zeroed until the planner answers
  fp,              \* [ESI -> Nat]: lines read so far
  fp_beginning_li  \* [ESI -> Nat]: where the last line read begins

esiVars == <<process, esi_name, fp, fp_beginning_li>>
esiSockets == <<esi_planner, planner_esi, esi_coord, coord_esi>>

EsiInit ==
  /\ process = [e \in ESI |-> "off"]
  /\ esi_name = [e \in ESI |-> NoName]
  /\ fp = [e \in ESI |-> 0]
  /\ fp_beginning_li = [e \in ESI |-> 0]

-----------------------------------------------------------------------------
\* main connects to the coordinator and then to the planner, and greets both.
Connect(e) ==
  /\ process[e] = "off"
  /\ process' = [process EXCEPT ![e] = "on"]
  /\ SendTo(esi_coord, e, Header("ESI_COORD_HANDSHAKE"))
  /\ SendTo(esi_planner, e, Header("ESI_PLANNER_HANDSHAKE"))
  /\ UNCHANGED <<esi_name, fp, fp_beginning_li, planner_esi, coord_esi>>

(***************************************************************************)
(* ESI_PLANNER_HANDSHAKE_OK.  The second recv takes four bytes of whatever *)
(* comes next.  If that is the header of an order, its type becomes the    *)
(* name and the order is lost; the rest of it, and the name, are then read *)
(* as a header of no known type.                                           *)
(***************************************************************************)
HandshakeOk(e) ==
  LET next == planner_esi[e][2]
  IN /\ process[e] = "on"
     /\ Arrives(planner_esi[e], "ESI_PLANNER_HANDSHAKE_OK") /\ Len(planner_esi[e]) > 1
     /\ planner_esi' = [planner_esi EXCEPT ![e] = Tail(Tail(@))]
     /\ esi_name' = [esi_name EXCEPT ![e] =
                       IF next.type = "name bytes" THEN next.content ELSE TornName]
     /\ UNCHANGED <<process, fp, fp_beginning_li, esi_planner, esi_coord, coord_esi>>

UnknownFromPlanner(e) ==
  /\ process[e] = "on" /\ Arrives(planner_esi[e], "name bytes")
  /\ Receive(planner_esi, e)
  /\ SendTo(esi_planner, e, Header("UNKNOWN_MSG_TYPE"))
  /\ UNCHANGED <<esiVars, esi_coord, coord_esi>>

-----------------------------------------------------------------------------
(***************************************************************************)
(* PLANNER_ESI_RUN reads the next line, PLANNER_ESI_RUN_LAST_OPERATION the *)
(* last one again; both call parser.                                       *)
(***************************************************************************)
\* Mutant: the file is not rewound.
NextLine(e) == fp[e]
LineToRun(e) == IF Head(planner_esi[e]).type = "PLANNER_ESI_RUN"
                  THEN fp[e] ELSE fp_beginning_li[e]

Ordered(e) ==
  /\ process[e] = "on"
  /\ \/ Arrives(planner_esi[e], "PLANNER_ESI_RUN")
     \/ Arrives(planner_esi[e], "PLANNER_ESI_RUN_LAST_OPERATION")
  /\ Receive(planner_esi, e)
  /\ fp_beginning_li' = [fp_beginning_li EXCEPT ![e] = LineToRun(e)]
  /\ UNCHANGED <<esi_name, coord_esi>>

AtEnd(e) == LineToRun(e) = Len(Script[e])
LineRead(e) == Script[e][LineToRun(e) + 1]
\* getline reaches the end of the file with this line: feof is true after it.
FeofAfter(e) == e \in NoNewline /\ LineToRun(e) + 1 = Len(Script[e])

Instruction(e) ==
  WithContent("INSTRUCTION_DETAIL_TO_COODRINATOR",
              [ESIName |-> esi_name[e], key |-> LineRead(e).key,
               operation |-> LineRead(e).operation, value |-> LineRead(e).value])
Finished == Header("ESI_EXECUTION_FINISHED")

SendLine(e) ==
  /\ Ordered(e) /\ ~AtEnd(e) /\ LineRead(e).operation \in Operation
  /\ ~FeofAfter(e)
  /\ fp' = [fp EXCEPT ![e] = LineToRun(e) + 1]
  /\ SendTo(esi_coord, e, Instruction(e))
  /\ UNCHANGED <<process, esi_planner>>

\* The last line of a script without a final newline is sent, and then the
\* ESI finishes without waiting for its outcome.
SendLastLineAndExit(e) ==
  /\ Ordered(e) /\ ~AtEnd(e) /\ LineRead(e).operation \in Operation
  /\ FeofAfter(e)
  /\ fp' = [fp EXCEPT ![e] = LineToRun(e) + 1]
  /\ esi_coord' = [esi_coord EXCEPT ![e] = @ \o <<Instruction(e), Finished>>]
  /\ SendTo(esi_planner, e, Finished)
  /\ process' = [process EXCEPT ![e] = "exited"]

\* Only the planner hears of an ESI that gives up on a line.
AbortOnLine(e) ==
  /\ Ordered(e) /\ ~AtEnd(e) /\ LineRead(e).operation \notin Operation
  /\ fp' = [fp EXCEPT ![e] = LineToRun(e) + 1]
  /\ SendTo(esi_planner, e, Finished)
  /\ process' = [process EXCEPT ![e] = "exited"]
  /\ UNCHANGED esi_coord

Eof(e) ==
  /\ Ordered(e) /\ AtEnd(e)
  /\ SendTo(esi_planner, e, Finished)
  /\ SendTo(esi_coord, e, Finished)
  /\ process' = [process EXCEPT ![e] = "exited"]
  /\ UNCHANGED fp

parser(e) == SendLine(e) \/ SendLastLineAndExit(e) \/ AbortOnLine(e) \/ Eof(e)

-----------------------------------------------------------------------------
CoordHandshakeOk(e) ==
  /\ process[e] = "on" /\ Arrives(coord_esi[e], "ESI_COORD_HANDSHAKE_OK")
  /\ Receive(coord_esi, e)
  /\ UNCHANGED <<esiVars, esi_planner, planner_esi, esi_coord>>

\* OPERATION_ERROR: the coordinator is told, the planner is not, and the
\* process goes on.
OperationError(e) ==
  /\ process[e] = "on" /\ Arrives(coord_esi[e], "OPERATION_ERROR")
  /\ Receive(coord_esi, e)
  /\ SendTo(esi_coord, e, Finished)
  /\ UNCHANGED <<esiVars, esi_planner, planner_esi>>

\* The coordinator closed the socket.  recv fills no header and the loop
\* acts on what malloc returned: if it answers, SIGPIPE ends the process.
CoordinatorHungUp(e) ==
  /\ process[e] = "on" /\ Arrives(coord_esi[e], "closed")
  /\ Receive(coord_esi, e)
  /\ process' = [process EXCEPT ![e] = "exited"]
  /\ SendTo(esi_planner, e, EndOf(planner_esi[e]))
  /\ UNCHANGED <<esi_name, fp, fp_beginning_li, planner_esi, esi_coord>>

(***************************************************************************)
(* An ESI is killed, once the planner has answered its handshake.  The     *)
(* planner finds out on its socket; the coordinator's thread receives      *)
(* nothing for ever, which changes nothing.                                *)
(***************************************************************************)
Die(e) ==
  /\ e \in Mortal /\ process[e] = "on" /\ esi_name[e] # NoName
  /\ process' = [process EXCEPT ![e] = "killed"]
  /\ SendTo(esi_planner, e, EndOf(planner_esi[e]))
  /\ UNCHANGED <<esi_name, fp, fp_beginning_li, planner_esi, esi_coord, coord_esi>>

FromPlannerNext(e) == HandshakeOk(e) \/ UnknownFromPlanner(e) \/ parser(e)
FromCoordinatorNext(e) == CoordHandshakeOk(e) \/ OperationError(e)

EsiNext ==
  \E e \in ESI : FromPlannerNext(e) \/ FromCoordinatorNext(e)
                  \/ CoordinatorHungUp(e) \/ Die(e)

-----------------------------------------------------------------------------
\* The variables of the ESIs; both file positions stay within the script.
EsiTypeOK ==
  /\ process \in [ESI -> {"off", "on", "exited", "killed"}]
  /\ esi_name \in [ESI -> Name]
  /\ fp \in [ESI -> Nat] /\ fp_beginning_li \in [ESI -> Nat]
  /\ \A e \in ESI : fp[e] <= Len(Script[e]) /\ fp_beginning_li[e] <= Len(Script[e])
=============================================================================
