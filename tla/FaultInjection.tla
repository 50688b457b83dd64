--------------------------- MODULE FaultInjection ---------------------------
(***************************************************************************)
(* The fault-injection path of one vehicle, end to end: inject_fault and   *)
(* clear_fault of the two backends, the HIL_ACTUATOR_CONTROLS message they *)
(* send without an acknowledgement, the MavlinkReceiver that routes it to  *)
(* one of four uORB topics, and the consumers in the modified firmware     *)
(* that copy the rfly_ctrl topic each time they publish.                   *)
(*                                                                         *)
(* A topic keeps its last message only.  A message is its mode and flag;   *)
(* its controls are taken to select at least one axis or channel, so that  *)
(* a flag the consumer knows has its effect, and flags below 2^32, which   *)
(* rfly_ctrl_s.flags holds exactly.  A reading is "true", one of the four  *)
(* injected kinds, or "other": any other untrue value.                     *)
(***************************************************************************)
EXTENDS Naturals, Sequences

CONSTANTS Backends,      \* backends considered, a subset of {"real", "dt"}
          Modes,         \* modes a timeline may use
          Flags,         \* flags a timeline may use
          DefaultModes,  \* values of the default_fault_mode parameter
          MaxCommands    \* bound on fault commands of a session

Byte == 0..255        \* the mode field of the MAVLink message is a uint8

ASSUME FaultAssumption ==
  /\ Backends \subseteq {"real", "dt"}
  /\ Modes \subseteq Byte /\ DefaultModes \subseteq Byte /\ 0 \in Byte
  /\ Flags \subseteq Nat
  /\ MaxCommands \in Nat

Topics    == {"rfly_ctrl", "rfly_ctrl1", "rfly_ctrl2", "rfly_ext"}
Consumers == {"accel", "gyro", "motors", "imu"}
Kinds     == <<"replaced", "biased", "noisy", "scaled">>
Undefined == {"true", "other"}                 \* an uninitialized field
Readings  == Undefined \cup {Kinds[k] : k \in 1..4}

Message == [mode : Byte, flag : Nat]
Unpublished == [mode |-> 256, flag |-> 0]      \* no message yet

VARIABLES
  backend,          \* which backend class drives the vehicle
  last_fault_mode,  \* attribute of the real backend
  net,              \* messages on their way, in order
  lost,             \* the link has dropped one
  topic,            \* topic[t]: the last message published on t
  output,           \* output[c]: what consumer c published last
  fresh,            \* consumers that have published since the last delivery
  cmd,              \* the last command: its name, and whether it named a mode
  commands

faultVars ==
  <<backend, last_fault_mode, net, lost, topic, output, fresh, cmd, commands>>

-----------------------------------------------------------------------------
(* The backends.                                                           *)

Send(m, f) == net' = Append(net, [mode |-> m, flag |-> f])

InjectFault(m, f) ==
  /\ commands < MaxCommands
  /\ commands' = commands + 1
  /\ last_fault_mode' = IF backend = "real" THEN m ELSE last_fault_mode
  /\ Send(m, f)
  /\ cmd' = [op |-> "inject", mode |-> m, flag |-> f, default |-> FALSE]
  /\ UNCHANGED <<backend, lost, topic, output, fresh>>

\* The send raises: the real backend has stored the mode already.
InjectFaultRaises(m) ==
  /\ commands < MaxCommands
  /\ commands' = commands + 1
  /\ last_fault_mode' = IF backend = "real" THEN m ELSE last_fault_mode
  /\ UNCHANGED <<backend, net, lost, topic, output, fresh, cmd>>

\* Mutant: the DT clears with a mode that does not fit into the message.
ClearModeTooWide == IF backend = "real" THEN last_fault_mode ELSE 256

\* Mutant: the DT clears the mode of its last injection as well.
ClearModeOfLast ==
  IF backend = "real" \/ cmd.op = "none" THEN last_fault_mode ELSE cmd.mode

\* The mode a clear_fault without arguments sends.
ClearMode == IF backend = "real" THEN last_fault_mode ELSE 0

ClearFault(m, default) ==
  /\ commands < MaxCommands
  /\ commands' = commands + 1
  /\ Send(m, 0)
  /\ cmd' = [op |-> "clear", mode |-> m, flag |-> 0, default |-> default]
  /\ UNCHANGED <<backend, last_fault_mode, lost, topic, output, fresh>>

-----------------------------------------------------------------------------
(* The link and MavlinkReceiver::handle_message.                           *)

Route(m) ==
  IF m = 255 THEN "rfly_ext"
  ELSE IF m >= 200 THEN "rfly_ctrl2"
  ELSE IF m >= 100 THEN "rfly_ctrl1" ELSE "rfly_ctrl"

\* Mutant: the newest message overtakes the others.
DeliverNewestFirst ==
  /\ net # <<>>
  /\ LET msg == net[Len(net)] IN
       topic' = [topic EXCEPT ![Route(msg.mode)] =
                   IF msg.mode = 255 THEN [mode |-> 1, flag |-> 0]
                   ELSE [mode |-> msg.mode, flag |-> msg.flag]]
  /\ net' = SubSeq(net, 1, Len(net) - 1)
  /\ fresh' = {}
  /\ UNCHANGED <<backend, last_fault_mode, lost, output, cmd, commands>>

\* rfly_ext carries the constant mode 1 and no flag.
Deliver ==
  /\ net # <<>>
  /\ LET msg == Head(net) IN
       topic' = [topic EXCEPT ![Route(msg.mode)] =
                   IF msg.mode = 255 THEN [mode |-> 1, flag |-> 0]
                   ELSE [mode |-> msg.mode, flag |-> msg.flag]]
  /\ net' = Tail(net)
  /\ fresh' = {}
  /\ UNCHANGED <<backend, last_fault_mode, lost, output, cmd, commands>>

\* A datagram is lost: nobody resends it.
Lose ==
  /\ net # <<>>
  /\ net' = Tail(net)
  /\ lost' = TRUE
  /\ UNCHANGED <<backend, last_fault_mode, topic, output, fresh, cmd,
                 commands>>

-----------------------------------------------------------------------------
(* The consumers.  Each copies rfly_ctrl into a member that nothing         *)
(* initializes: before the first message its mode and flag are whatever    *)
(* the memory held.                                                        *)

Ctrl == topic["rfly_ctrl"]

\* PX4Accelerometer and PX4Gyroscope: a flag they do not know leaves the
\* fields of the report they publish uninitialized.
ImuDriverReads(m) ==
  IF Ctrl = Unpublished THEN Undefined
  ELSE IF Ctrl.mode # m THEN {"true"}
  ELSE IF Ctrl.flag \in 1..4 THEN {Kinds[Ctrl.flag]}
  ELSE Undefined

\* PWMOut on the real vehicle leaves the outputs as they were; the simulator
\* sends zero instead.
MotorsDriven ==
  IF Ctrl = Unpublished THEN Undefined
  ELSE IF Ctrl.mode # 11 THEN {"true"}
  ELSE IF Ctrl.flag \in 1..4 THEN {Kinds[Ctrl.flag]}
  ELSE IF backend = "real" THEN {output["motors"]} ELSE {"other"}

\* VotedSensorsUpdate::imuPoll
ImuPolled ==
  IF Ctrl = Unpublished THEN Undefined
  ELSE IF Ctrl.mode \in {15, 16} /\ Ctrl.flag = 1 THEN {"replaced"} ELSE {"true"}

Reads(c) ==
  IF c = "accel" THEN ImuDriverReads(12)
  ELSE IF c = "gyro" THEN ImuDriverReads(13)
  ELSE IF c = "motors" THEN MotorsDriven
  ELSE ImuPolled

Publish(c) ==
  /\ \E r \in Reads(c) : output' = [output EXCEPT ![c] = r]
  /\ fresh' = fresh \cup {c}
  /\ UNCHANGED <<backend, last_fault_mode, net, lost, topic, cmd,
                 commands>>

-----------------------------------------------------------------------------
FaultInit ==
  /\ backend \in Backends
  /\ last_fault_mode \in DefaultModes
  /\ net = <<>> /\ lost = FALSE
  /\ topic = [t \in Topics |-> Unpublished]
  /\ output = [c \in Consumers |-> "true"]
  /\ fresh = {}
  /\ cmd = [op |-> "none", mode |-> 0, flag |-> 0, default |-> FALSE]
  /\ commands = 0

FaultNext ==
  \/ \E m \in Modes, f \in Flags : InjectFault(m, f)
  \/ \E m \in Modes : InjectFaultRaises(m)
  \/ ClearFault(ClearMode, TRUE)
  \/ \E m \in Modes : ClearFault(m, FALSE)
  \/ Deliver
  \/ Lose
  \/ \E c \in Consumers : Publish(c)

FaultSpec == FaultInit /\ [][FaultNext]_faultVars

-----------------------------------------------------------------------------
(* Properties.                                                             *)

\* The values the state ranges over; a mode never leaves its byte.
FaultTypeOK ==
  /\ backend \in Backends
  /\ last_fault_mode \in Byte
  /\ net \in Seq(Message)
  /\ lost \in BOOLEAN
  /\ topic \in [Topics -> Message \cup {Unpublished}]
  /\ output \in [Consumers -> Readings]
  /\ fresh \subseteq Consumers
  /\ cmd.op \in {"none", "inject", "clear"} /\ cmd.mode \in Byte
  /\ commands \in 0..MaxCommands

\* Everything sent has arrived.
Arrived == net = <<>> /\ ~lost
Faulty(c) == output[c] # "true"

\* The DT's clear_fault, which falls back to mode 0, ends whatever fault was
\* in force: once it has arrived, what each consumer publishes next is true.
DTClearRestores ==
  backend = "dt" /\ Arrived /\ cmd.op = "clear" /\ cmd.default =>
    \A c \in fresh : ~Faulty(c)

\* An injection with a known flag is what the addressed driver publishes once
\* it has arrived.
InjectionShows ==
  Arrived /\ cmd.op = "inject" /\ cmd.flag \in 1..4 =>
    /\ cmd.mode = 12 /\ "accel" \in fresh => output["accel"] = Kinds[cmd.flag]
    /\ cmd.mode = 13 /\ "gyro" \in fresh => output["gyro"] = Kinds[cmd.flag]
    /\ cmd.mode = 11 /\ "motors" \in fresh => output["motors"] = Kinds[cmd.flag]

\* "Clear the real-aircraft fault-injection flag and zero all controls.": once
\* a real vehicle's clear_fault has arrived, its drivers publish true values.
RealClearRestores ==
  backend = "real" /\ Arrived /\ cmd.op = "clear" /\ cmd.default =>
    \A c \in fresh : ~Faulty(c)

=============================================================================
