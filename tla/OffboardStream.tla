--------------------------- MODULE OffboardStream ---------------------------
(***************************************************************************)
(* The setpoint of one PX4MavCtrler: the scenario's worker thread assigns  *)
(* its fields one by one (SendPosNED, SendVelNED), the thread t2 reads     *)
(* them one by one and sends them as one frame (OffboardSendMode,          *)
(* sendMavOffboardAPI), and endOffboard stops t2.  There is no lock.       *)
(*                                                                         *)
(* A field's value is abstracted to the number of the command that wrote   *)
(* it; 0 is initOffboard, which sets a velocity setpoint of zero.  The     *)
(* coordinate frame, the acceleration and offMode are the same in every    *)
(* command the backends give and are left out.                             *)
(***************************************************************************)
EXTENDS Naturals, Sequences

CONSTANT MaxCommands   \* bound on the setpoint commands of a scenario

ASSUME StreamAssumption == MaxCommands \in Nat

Kinds  == {"pos", "vel"}
Fields == {"mask", "pos", "vel", "yaw", "yawrate"}

VARIABLES
    field,         \* the fields of the controller
    cmd,           \* number of the last command given
    kinds,         \* kind of each command given
    wi,            \* next field the command writes, 6 when it has returned
    isInOffboard,  \* isInOffboard
    ended,         \* has endOffboard returned?
    t2,            \* control point of t2
    ri,            \* next field t2 reads
    frame,         \* what t2 has read
    sent,          \* the last frame sent
    steady,        \* history: no command was writing since t2 began to read
    readFor,       \* history: the last command given when t2 began to read
    sentSteady,    \* history: steady and readFor of the last frame sent
    sentFor

writer  == <<field, cmd, kinds, wi>>
reader  == <<t2, ri, frame, sent>>
history == <<steady, readFor, sentSteady, sentFor>>
vars    == <<writer, isInOffboard, ended, reader, history>>

(* The order of the assignments in SendPosNED and SendVelNED, and that of  *)
(* the arguments in OffboardSendMode's call.                               *)
WriteOrder(kind) ==
    IF kind = "pos" THEN <<"mask", "pos", "vel", "yawrate", "yaw">>
                    ELSE <<"mask", "pos", "vel", "yaw", "yawrate">>

ReadOrder == <<"mask", "pos", "vel", "yaw", "yawrate">>
-----------------------------------------------------------------------------
(* A goto, takeoff, hover or velocity step calls SendPosNED or SendVelNED. *)
Command(kind) ==
    /\ isInOffboard
    /\ wi = 6
    /\ cmd < MaxCommands
    /\ cmd' = cmd + 1
    /\ kinds' = [kinds EXCEPT ![cmd'] = kind]
    /\ wi' = 1
    /\ UNCHANGED <<field, isInOffboard, ended, reader, history>>

(* Mutant: the last field is reset to initOffboard's value.                *)
WriteFieldResets ==
    /\ wi <= 5
    /\ field' = [field EXCEPT ![WriteOrder(kinds[cmd])[wi]] = IF wi = 5 THEN 0 ELSE cmd]
    /\ wi' = wi + 1
    /\ steady' = FALSE
    /\ UNCHANGED <<cmd, kinds, isInOffboard, ended, reader, readFor, sentSteady,
                   sentFor>>

WriteField ==
    /\ wi <= 5
    /\ field' = [field EXCEPT ![WriteOrder(kinds[cmd])[wi]] = cmd]
    /\ wi' = wi + 1
    /\ steady' = FALSE
    /\ UNCHANGED <<cmd, kinds, isInOffboard, ended, reader, readFor, sentSteady,
                   sentFor>>

(* endOffboard, after the worker has returned: drop the flag ...           *)
EndOffboard ==
    /\ isInOffboard
    /\ wi = 6
    /\ isInOffboard' = FALSE
    /\ UNCHANGED <<writer, ended, reader, history>>

(* Mutant: t2 is not joined.                                               *)
JoinSkipped ==
    /\ ~isInOffboard /\ ~ended
    /\ ended' = TRUE
    /\ UNCHANGED <<writer, isInOffboard, reader, history>>

(* ... and join t2.                                                        *)
Join ==
    /\ ~isInOffboard /\ ~ended
    /\ t2 = "ended"
    /\ ended' = TRUE
    /\ UNCHANGED <<writer, isInOffboard, reader, history>>
-----------------------------------------------------------------------------
(* The loop of t2: test the flag, sleep to the next period, test it again, *)
(* read the fields, send.                                                  *)
LoopTest ==
    /\ t2 = "test"
    /\ t2' = IF isInOffboard THEN "sleep" ELSE "ended"
    /\ UNCHANGED <<writer, isInOffboard, ended, ri, frame, sent, history>>

(* Mutant: after the sleep the loop starts over.                           *)
WakeStartsOver ==
    /\ t2 = "sleep"
    /\ t2' = "test"
    /\ UNCHANGED <<writer, isInOffboard, ended, ri, frame, sent, history>>

Wake ==
    /\ t2 = "sleep"
    /\ t2' = IF isInOffboard THEN "read" ELSE "test"
    /\ UNCHANGED <<writer, isInOffboard, ended, ri, frame, sent, history>>

(* Mutant: the index is not reset for the next frame.                      *)
ReadFieldNoReset ==
    /\ t2 = "read"
    /\ frame' = [frame EXCEPT ![ReadOrder[ri]] = field[ReadOrder[ri]]]
    /\ steady' = IF ri = 1 THEN wi = 6 ELSE steady
    /\ readFor' = IF ri = 1 THEN cmd ELSE readFor
    /\ ri' = ri + 1
    /\ t2' = IF ri = 5 THEN "send" ELSE "read"
    /\ UNCHANGED <<writer, isInOffboard, ended, sent, sentSteady, sentFor>>

ReadField ==
    /\ t2 = "read"
    /\ frame' = [frame EXCEPT ![ReadOrder[ri]] = field[ReadOrder[ri]]]
    /\ steady' = IF ri = 1 THEN wi = 6 ELSE steady
    /\ readFor' = IF ri = 1 THEN cmd ELSE readFor
    /\ ri' = IF ri = 5 THEN 1 ELSE ri + 1
    /\ t2' = IF ri = 5 THEN "send" ELSE "read"
    /\ UNCHANGED <<writer, isInOffboard, ended, sent, sentSteady, sentFor>>

SendFrame ==
    /\ t2 = "send"
    /\ sent' = frame
    /\ sentSteady' = steady
    /\ sentFor' = readFor
    /\ t2' = "test"
    /\ UNCHANGED <<writer, isInOffboard, ended, ri, frame, steady, readFor>>

Finished == ended /\ UNCHANGED vars
-----------------------------------------------------------------------------
(* initOffboard has set the fields and started t2.                         *)
Init ==
    /\ field = [f \in Fields |-> 0]
    /\ cmd = 0
    /\ kinds = [n \in 0..MaxCommands |-> "vel"]
    /\ wi = 6
    /\ isInOffboard = TRUE /\ ended = FALSE
    /\ t2 = "test" /\ ri = 1
    /\ frame = [f \in Fields |-> 0]
    /\ sent = [f \in Fields |-> 0]
    /\ steady = TRUE /\ readFor = 0
    /\ sentSteady = TRUE /\ sentFor = 0

Stream == LoopTest \/ Wake \/ ReadField \/ SendFrame

Next ==
    \/ \E kind \in Kinds : Command(kind)
    \/ WriteField
    \/ EndOffboard \/ Join
    \/ Stream
    \/ Finished

(* Python's threads all get to run; the scenario may end at any time, but  *)
(* need not.                                                               *)
Spec     == Init /\ [][Next]_vars
FairSpec == Spec /\ WF_vars(WriteField) /\ WF_vars(Join) /\ WF_vars(Stream)
-----------------------------------------------------------------------------
Stamps == [Fields -> 0..MaxCommands]

(* The type invariant.                                                     *)
TypeOK ==
    /\ field \in Stamps /\ frame \in Stamps /\ sent \in Stamps
    /\ cmd \in 0..MaxCommands
    /\ kinds \in [0..MaxCommands -> Kinds]
    /\ wi \in 1..6 /\ ri \in 1..5
    /\ t2 \in {"test", "sleep", "read", "send", "ended"}
    /\ isInOffboard \in BOOLEAN /\ ended \in BOOLEAN
    /\ steady \in BOOLEAN /\ sentSteady \in BOOLEAN
    /\ readFor \in 0..MaxCommands /\ sentFor \in 0..MaxCommands

(* No field of a frame is older than that field was in an earlier frame:   *)
(* the vehicle is never sent back to a superseded setpoint, however the    *)
(* reads of t2 fall between the writes of the commands.                    *)
FramesNeverGoBack == [][\A f \in Fields : sent'[f] >= sent[f]]_vars

(* A frame t2 began to read between two commands, with no write until it   *)
(* was sent, is the earlier of them in every field.                        *)
SteadyFrameIsWhole == sentSteady => sent = [f \in Fields |-> sentFor]

(* Nothing is sent once endOffboard has returned, though t2 may be asleep  *)
(* between its tests or half-way through a frame when the flag drops.      *)
QuietAfterEndOffboard == [][ended => sent' = sent]_vars

(* The last command of a scenario reaches the vehicle as one whole frame,  *)
(* unless offboard is left first.                                          *)
LastCommandIsStreamed ==
    [](cmd = MaxCommands /\ wi = 6
        => <>(sent = [f \in Fields |-> MaxCommands] \/ ~isInOffboard))

=============================================================================
