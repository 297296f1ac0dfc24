------------------------------ MODULE Libgrupo ------------------------------
(***************************************************************************)
(* libgrupo: the structures every process shares (structures.h) and the    *)
(* sockets they talk over (sockets.h, sockets.c).  A connection is two     *)
(* FIFO channels, one for each direction; a frame is a message header with *)
(* the content that follows it.  TCP neither loses nor reorders.  The end  *)
(* of a connection is the last frame of a channel: "closed", to which recv *)
(* answers 0 from then on, or "reset", to which it first answers -1 and    *)
(* which the kernel sends for a process that left something unread.        *)
(***************************************************************************)
EXTENDS Integers, SequencesExt

CONSTANTS
  ESI,         \* the ESI processes that may connect, one socket pair each
  Inst,       \* the Instance processes
  Key,         \* resource keys
  Value,       \* values that SET writes
  ShortValue,  \* the values shorter than a name on the wire (NameBytes)
  None,        \* a NULL pointer, or a local that holds nothing
  Mortal,      \* the ESIs and Instances that may be killed from outside
  Windows      \* the timing windows left open, a subset of AllWindows

ASSUME NoneAssumption == None \notin ESI \cup Key \cup Inst
ASSUME MortalAssumption == Mortal \subseteq ESI \cup Inst
ASSUME ShortValueAssumption == ShortValue \subseteq Value

(***************************************************************************)
(* No thread of the system holds a lock.  Each window below is an overlap  *)
(* that nothing rules out and that good timing avoids:                     *)
(*   startup    an ESI connects before every Instance is ready;            *)
(*   handshake  the planner's running thread dispatches an ESI before its  *)
(*              listening thread has finished answering the handshake;     *)
(*   console    "desbloquear" releases a key while the listening thread    *)
(*              of the planner handles a message or releases one itself;   *)
(*   redo       "desbloquear" wakes an ESI while the running thread is     *)
(*              held between sending an order and clearing                 *)
(*              redo_last_operation;                                       *)
(*   answers    a thread of the coordinator asks the planner while another *)
(*              one has yet to read its answer from the same socket.       *)
(* Windows = AllWindows is the code as it is.  A smaller set assumes the   *)
(* timing, by delaying one step; it never adds a behaviour.                *)
(***************************************************************************)
AllWindows == {"startup", "handshake", "console", "redo", "answers"}

ASSUME WindowsAssumption == Windows \subseteq AllWindows

-----------------------------------------------------------------------------
(***************************************************************************)
(* Names.  char id[ESI_NAME_MAX_SIZE] is a prefix and a number: the        *)
(* planner names an ESI "ESI<n>", its console lower-cases whatever the     *)
(* operator types, and an empty string is the holder of a preloaded key.   *)
(***************************************************************************)
EsiName(n)     == <<"ESI", n>>
ConsoleName(n) == <<"esi", n>>
NoName         == <<"", 0>>
TornName       == <<"header bytes", 0>>
CutName        == <<"cut", 0>>
Name           == {"ESI", "esi", "", "header bytes", "cut"} \X Int

(***************************************************************************)
(* The handshake carries sizeof(ESI_NAME_MAX_SIZE), that is sizeof(int),   *)
(* bytes of the name: "ESI" and one digit.  What follows them in the       *)
(* receiver's buffer is taken to be the zero bytes of a fresh stack.       *)
(***************************************************************************)
NameBytes == 4
FirstDigit[n \in Nat] == IF n < 10 THEN n ELSE FirstDigit[n \div 10]
NameOnWire(n) == EsiName(FirstDigit[n])

-----------------------------------------------------------------------------
(***************************************************************************)
(* Frames.                                                                 *)
(***************************************************************************)
Operation == {"GET_OP", "SET_OP", "STORE_OP"}
ResourceAllocationStatus == {"BLOCKED", "WAITING", "RELEASED"}
ResourceAllocation ==
  [ESIName : Name, key : Key, status : ResourceAllocationStatus]
InstructionDetail ==
  [ESIName : Name, key : Key, operation : Operation, value : Value]

\* What reaches an Instance as the value of a SET: the value, and whatever the
\* coordinator had in its heap behind it, up to the first zero byte.
Text == Value \X {"", "stray bytes"}
BeginsWith(text, value) == text[1] = value
ForwardedDetail ==
  [ESIName : Name, key : Key, operation : Operation, value : Text]

Header(type) == [type |-> type]
WithContent(type, content) == [type |-> type, content |-> content]

Check ==
  [type : {"CAN_ESI_GET_KEY", "CAN_ESI_SET_KEY", "CAN_ESI_STORE_KEY"},
   content : [ESIName : Name, key : Key]]
StatusChange ==
  [type : {"RESOURCE_STATUS_CHANGE_TO_PLANNER"},
   content : [ESIName : Name, key : Key, status : {"BLOCKED", "RELEASED"}]]
CoordinatorFrame == Check \cup StatusChange \cup [type : {"ESI_EXECUTION_LINE_OK"}]

PlannerToEsi ==
  [type : {"ESI_PLANNER_HANDSHAKE_OK", "PLANNER_ESI_RUN", "PLANNER_ESI_RUN_LAST_OPERATION"}]
  \cup [type : {"name bytes"}, content : Name]
EsiToPlanner ==
  [type : {"ESI_PLANNER_HANDSHAKE", "ESI_EXECUTION_FINISHED", "UNKNOWN_MSG_TYPE",
           "closed", "reset"}]
EsiToCoordinator ==
  [type : {"ESI_COORD_HANDSHAKE", "ESI_EXECUTION_FINISHED"}]
  \cup [type : {"INSTRUCTION_DETAIL_TO_COODRINATOR"}, content : InstructionDetail]
CoordinatorToEsi == [type : {"ESI_COORD_HANDSHAKE_OK", "OPERATION_ERROR", "closed"}]
PlannerAnswer == [type : {"PLANNER_COORDINATOR_OP_OK", "PLANNER_COORDINATOR_OP_FAILED"}]
CoordinatorToInstance ==
  [type : {"INSTANCE_COORD_HANDSHAKE_OK"}]
  \cup [type : {"INSTRUCTION_DETAIL_TO_INSTANCE"}, content : ForwardedDetail]
InstanceToCoordinator ==
  [type : {"INSTANCE_COORD_HANDSHAKE", "INSTANCE_REPORTS_SUCCESSFUL_OP",
           "INSTANCE_REPORTS_FAILED_OP", "closed"}]

VARIABLES
  esi_planner,     \* [ESI -> Seq]: ESI to planner
  planner_esi,     \* [ESI -> Seq]: planner to ESI
  esi_coord,       \* [ESI -> Seq]: ESI to coordinator
  coord_esi,       \* [ESI -> Seq]: coordinator to ESI
  planner_coord,   \* Seq: planner to coordinator
  coord_planner,   \* Seq: coordinator to planner
  coord_instance,  \* [Inst -> Seq]: coordinator to Instance
  instance_coord   \* [Inst -> Seq]: Instance to coordinator

channels == <<esi_planner, planner_esi, esi_coord, coord_esi,
              planner_coord, coord_planner, coord_instance, instance_coord>>

ChannelsInit ==
  /\ esi_planner    = [e \in ESI |-> <<>>]
  /\ planner_esi    = [e \in ESI |-> <<>>]
  /\ esi_coord      = [e \in ESI |-> <<>>]
  /\ coord_esi      = [e \in ESI |-> <<>>]
  /\ planner_coord  = <<>>
  /\ coord_planner  = <<>>
  /\ coord_instance = [i \in Inst |-> <<>>]
  /\ instance_coord = [i \in Inst |-> <<>>]

(***************************************************************************)
(* send_only_header and send_content_with_header append to a channel;      *)
(* recv of a header takes the frame at its head.                           *)
(***************************************************************************)
Arrives(channel, type) == channel # <<>> /\ Head(channel).type = type
SendTo(channel, p, frame) == channel' = [channel EXCEPT ![p] = Append(@, frame)]
Receive(channel, p) == channel' = [channel EXCEPT ![p] = Tail(@)]

\* How a connection ends for the peer of a process that had this left to read.
EndOf(unread) == Header(IF unread = <<>> THEN "closed" ELSE "reset")

\* Each channel carries the frames of its two ends.
ChannelsTypeOK ==
  /\ esi_planner \in [ESI -> Seq(EsiToPlanner)] /\ planner_esi \in [ESI -> Seq(PlannerToEsi)]
  /\ esi_coord \in [ESI -> Seq(EsiToCoordinator)]
  /\ coord_esi \in [ESI -> Seq(CoordinatorToEsi)]
  /\ planner_coord \in Seq(PlannerAnswer) /\ coord_planner \in Seq(CoordinatorFrame)
  /\ coord_instance \in [Inst -> Seq(CoordinatorToInstance)]
  /\ instance_coord \in [Inst -> Seq(InstanceToCoordinator)]
=============================================================================
