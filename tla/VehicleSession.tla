--------------------------- MODULE VehicleSession ---------------------------
(***************************************************************************)
(* One vehicle backend (RealVehicleBackend or RflySimDTBackend) and the    *)
(* PX4MavCtrler it owns, from initialize() to shutdown(), in the MAVLink   *)
(* modes (UDPMode 2, the default of both backends):                        *)
(*                                                                         *)
(*   the initializer   the worker thread that runs initialize();           *)
(*   the stopper       the worker thread that runs shutdown();             *)
(*   t1                getMavMsg, the receive loop;                        *)
(*   t2                OffboardSendMode, the setpoint stream;              *)
(*   the true-data     getTrueDataMsg and getPX4DataMsg (a DT only), one   *)
(*   loop              loop here since they start together;                *)
(*   the pose thread   update_pose (a real vehicle with mocap);            *)
(*   the vehicle       PX4 and the UDP link to it (external).              *)
(*                                                                         *)
(* The runners start shutdown() after initialize() has returned or raised, *)
(* unless a KeyboardInterrupt made main leave the join of the initialize   *)
(* call: then the two run side by side.                                    *)
(*                                                                         *)
(* Abstracted: time (a sleep is a point where the others may step), all    *)
(* messages but arm, disarm and heartbeats, the values of the yaws, and    *)
(* hasSendDisableRTLRC, which only gates parameter messages.  The link is  *)
(* first-in first-out and may lose a command or go silent for good.        *)
(***************************************************************************)
EXTENDS Naturals, Sequences

CONSTANTS
    Configs,        \* the backends considered, a subset of Config
    Interruptible,  \* the backends whose initialize may be interrupted
    MaxCommands     \* bound on the arm and disarm steps of the scenario

(* What initialize() reads of a vehicle spec.                              *)
Config ==
    {c \in [real: BOOLEAN, mocap: BOOLEAN, trueData: BOOLEAN, offboard: BOOLEAN] :
        IF c.real THEN c.offboard /\ ~c.trueData ELSE ~c.mocap}

ASSUME SessionAssumption ==
    /\ Configs \subseteq Config
    /\ Interruptible \subseteq Configs
    /\ MaxCommands \in Nat

VARIABLES
    config,        \* the backend under consideration
    interrupted,   \* did main leave the join of initialize?
    ipc,           \* control point of the initializer
    spc,           \* control point of the stopper
    mav,           \* has self.mav been assigned?
    conn,          \* the_connection: "none", "open" or "closed"
    t1, t2,        \* the receive loop and the setpoint stream
    trueLoop,      \* the true-data loop
    stopFlag,      \* stopFlag
    isInOffboard,  \* isInOffboard
    isArmed,       \* isArmed, from the last heartbeat handled
    stopEvent,     \* _stop_event
    pose,          \* the pose thread
    offset,        \* offset_yaw: "unset" or "set"
    iniYaw,        \* ini_yaw_success
    vision,        \* the offset the last vision message was turned by
    armed,         \* the vehicle's own arming state
    uplink,        \* commands on their way to the vehicle
    downlink,      \* telemetry on its way to the_connection
    silent,        \* the vehicle sends nothing any more
    lost,          \* history: a command was lost or refused
    toldAtStop,    \* history: the last vehicle heartbeat before stopRun read isArmed
    told,          \* history: arming state in the last vehicle heartbeat handled
    commands       \* scenario commands so far

session == <<config, mav, conn, stopFlag, isInOffboard, isArmed>>
threads == <<t1, t2, trueLoop>>
mocap   == <<stopEvent, pose, offset, iniYaw, vision>>
link    == <<armed, uplink, downlink, silent, lost>>
history == <<interrupted, toldAtStop, told, commands>>
vars    == <<ipc, spc, session, threads, mocap, link, history>>

Telemetry == {"armed", "disarmed", "gcs"}

(***************************************************************************)
(* SendMavCmdLong(ARM_DISARM).  A real vehicle is reached through          *)
(* the_connection, whose write drops the message once it is closed; a DT   *)
(* through udp_socket, which nothing ever closes.                          *)
(***************************************************************************)
Send(command) ==
    uplink' = IF config.real /\ conn # "open" THEN uplink
                                              ELSE Append(uplink, command)
-----------------------------------------------------------------------------
(***************************************************************************)
(* initialize()                                                            *)
(***************************************************************************)
Goto(pc) == ipc' = pc

(* Imports, ROS set-up and the controller's constructor.                   *)
Construct ==
    /\ ipc = "new"
    /\ \/ Goto("raised") /\ UNCHANGED mav
       \/ Goto("check") /\ mav' = TRUE
    /\ UNCHANGED <<spc, config, conn, stopFlag, isInOffboard, isArmed,
                   threads, mocap, link, history>>

(* check_status and _start_mocap_threads.  Clearing _stop_event here would *)
(* undo the stopper's set.                                                 *)
StartMocap ==
    /\ ipc = "check"
    /\ IF config.mocap
       THEN \/ Goto("raised") /\ UNCHANGED <<stopEvent, pose>>
            \/ Goto("connect") /\ stopEvent' = FALSE /\ pose' = "wait"
       ELSE Goto("connect") /\ UNCHANGED <<stopEvent, pose>>
    /\ UNCHANGED <<spc, session, threads, offset, iniYaw,
                   vision, link, history>>

(* InitMavLoop opens the connection; the address may be in use.            *)
Connect ==
    /\ ipc = "connect"
    /\ \/ Goto("raised") /\ UNCHANGED conn
       \/ /\ Goto(IF config.real THEN "wait_heartbeat" ELSE "receive")
          /\ conn' = "open"
    /\ UNCHANGED <<spc, config, mav, stopFlag, isInOffboard, isArmed,
                   threads, mocap, link, history>>

(* wait_heartbeat blocks, without a timeout, for any heartbeat.            *)
WaitHeartbeat ==
    /\ ipc = "wait_heartbeat"
    /\ downlink # << >>
    /\ downlink' = Tail(downlink)
    /\ Goto("receive")
    /\ UNCHANGED <<spc, session, threads, mocap, armed, uplink, silent,
                   lost, history>>

AfterReceive ==
    IF config.trueData THEN "true_data"
    ELSE IF config.mocap THEN "yaw"
    ELSE IF config.offboard THEN "offboard" ELSE "ready"

(* Mutant: starting the loop resets stopFlag.                              *)
StartReceiverResetsFlag ==
    /\ ipc = "receive"
    /\ t1' = "check" /\ t2' = "created"
    /\ stopFlag' = FALSE
    /\ Send("disarm")
    /\ Goto(AfterReceive)
    /\ UNCHANGED <<spc, config, mav, conn, isInOffboard, isArmed,
                   trueLoop, mocap, armed, downlink,
                   silent, lost, history>>

(* t1 is started, t2 is created, and the vehicle is told to disarm.        *)
StartReceiver ==
    /\ ipc = "receive"
    /\ t1' = "check" /\ t2' = "created"
    /\ Send("disarm")
    /\ Goto(AfterReceive)
    /\ UNCHANGED <<spc, session, trueLoop, mocap, armed, downlink,
                   silent, lost, history>>

InitTrueDataLoop ==
    /\ ipc = "true_data"
    /\ \/ Goto("raised") /\ UNCHANGED trueLoop
       \/ /\ Goto(IF config.offboard THEN "offboard" ELSE "ready")
          /\ trueLoop' = "run"
    /\ UNCHANGED <<spc, session, t1, t2, mocap, link, history>>

(* Mutant: init_yaw does not assign the offset.                            *)
YawOffsetForgotten ==
    /\ ipc = "yaw"
    /\ Goto("yaw_done")
    /\ UNCHANGED <<spc, session, threads, stopEvent, pose,
                   offset, iniYaw, vision, link, history>>

(* init_yaw: the offset first, then the flag the pose thread tests.        *)
YawOffset ==
    /\ ipc = "yaw"
    /\ offset' = "set"
    /\ Goto("yaw_done")
    /\ UNCHANGED <<spc, session, threads, stopEvent, pose,
                   iniYaw, vision, link, history>>

YawDone ==
    /\ ipc = "yaw_done"
    /\ iniYaw' = TRUE
    /\ Goto("offboard")
    /\ UNCHANGED <<spc, session, threads, stopEvent, pose,
                   offset, vision, link, history>>

(* initOffboard: the flag, half a second later the stream, then arming.    *)
EnterOffboard ==
    /\ ipc = "offboard"
    /\ isInOffboard' = TRUE
    /\ Goto("stream")
    /\ UNCHANGED <<spc, config, mav, conn, stopFlag, isArmed, threads,
                   mocap, link, history>>

StartStream ==
    /\ ipc = "stream"
    /\ t2' = "check"
    /\ Goto("arm")
    /\ UNCHANGED <<spc, session, t1, trueLoop, mocap, link, history>>

ArmIfDisarmed ==
    /\ ipc = "arm"
    /\ IF isArmed THEN UNCHANGED uplink ELSE Send("arm")
    /\ Goto("ready")
    /\ UNCHANGED <<spc, session, threads, mocap, armed, downlink,
                   silent, lost, history>>

(* The scenario's arm and disarm steps.                                    *)
Command ==
    /\ ipc = "ready" /\ spc = "idle"
    /\ commands < MaxCommands
    /\ commands' = commands + 1
    /\ \E command \in {"arm", "disarm"} : Send(command)
    /\ UNCHANGED <<ipc, spc, session, threads, mocap, armed, downlink,
                   silent, lost, interrupted, toldAtStop, told>>
-----------------------------------------------------------------------------
(***************************************************************************)
(* shutdown()                                                              *)
(***************************************************************************)

(* A KeyboardInterrupt in main while it joins the initialize workers.      *)
Interrupt ==
    /\ config \in Interruptible
    /\ spc = "idle" /\ ~interrupted
    /\ ipc \notin {"ready", "raised"}
    /\ interrupted' = TRUE
    /\ UNCHANGED <<ipc, spc, session, threads, mocap, link, toldAtStop, told,
                   commands>>

StopBegin ==
    /\ spc = "idle"
    /\ ipc \in {"ready", "raised"} \/ interrupted
    /\ stopEvent' = TRUE
    /\ spc' = "join_pose"
    /\ UNCHANGED <<ipc, session, threads, pose, offset,
                   iniYaw, vision, link, history>>

(* join(timeout=1.0) returns whether the thread has ended or not.          *)
JoinPose ==
    /\ spc = "join_pose"
    /\ spc' = IF mav THEN "disarm" ELSE "stopped"
    /\ UNCHANGED <<ipc, session, threads, mocap, link, history>>

(* Mutant: repeat the disarm until a heartbeat confirms it.                *)
StopDisarmRetries ==
    /\ spc = "disarm"
    /\ IF isArmed THEN Send("disarm") ELSE UNCHANGED uplink
    /\ toldAtStop' = told
    /\ spc' = IF isArmed THEN "disarm" ELSE "flag"
    /\ UNCHANGED <<ipc, session, threads, mocap, armed, downlink,
                   silent, lost, interrupted, told, commands>>

(* stopRun: disarm if the last heartbeat said armed ...                    *)
StopDisarm ==
    /\ spc = "disarm"
    /\ IF isArmed THEN Send("disarm") ELSE UNCHANGED uplink
    /\ toldAtStop' = told
    /\ spc' = "flag"
    /\ UNCHANGED <<ipc, session, threads, mocap, armed, downlink,
                   silent, lost, interrupted, told, commands>>

SetStopFlag ==
    /\ spc = "flag"
    /\ stopFlag' = TRUE
    /\ spc' = "join_t1"
    /\ UNCHANGED <<ipc, config, mav, conn, isInOffboard, isArmed,
                   threads, mocap, link, history>>

(* Mutant: the join of t1 has a timeout.                                   *)
JoinReceiverTimesOut ==
    /\ spc = "join_t1"
    /\ spc' = "offboard"
    /\ UNCHANGED <<ipc, session, threads, mocap, link, history>>

(* ... join the receive loop, without a timeout, if there is one ...       *)
JoinReceiver ==
    /\ spc = "join_t1"
    /\ t1 \in {"none", "ended"}
    /\ spc' = "offboard"
    /\ UNCHANGED <<ipc, session, threads, mocap, link, history>>

(* Mutant: isInOffboard is not reset.                                      *)
EndOffboardForgetsFlag ==
    /\ spc = "offboard"
    /\ UNCHANGED isInOffboard
    /\ spc' = IF isInOffboard THEN "join_t2" ELSE "close"
    /\ UNCHANGED <<ipc, config, mav, conn, stopFlag, isArmed, threads,
                   mocap, link, history>>

(* ... endOffboard if offboard was entered ...                             *)
EndOffboard ==
    /\ spc = "offboard"
    /\ isInOffboard' = FALSE
    /\ spc' = IF isInOffboard THEN "join_t2" ELSE "close"
    /\ UNCHANGED <<ipc, config, mav, conn, stopFlag, isArmed, threads,
                   mocap, link, history>>

(* Joining a thread that was never started raises RuntimeError.            *)
JoinStream ==
    /\ spc = "join_t2"
    /\ \/ t2 = "created" /\ spc' = "raised"
       \/ t2 = "ended" /\ spc' = "close"
    /\ UNCHANGED <<ipc, session, threads, mocap, link, history>>

(* ... and close; without a connection that is an AttributeError.          *)
Close ==
    /\ spc = "close"
    /\ IF conn = "none" THEN spc' = "raised" /\ UNCHANGED conn
                        ELSE spc' = "stopped" /\ conn' = "closed"
    /\ UNCHANGED <<ipc, config, mav, stopFlag, isInOffboard, isArmed,
                   threads, mocap, link, history>>
-----------------------------------------------------------------------------
(***************************************************************************)
(* The background loops                                                    *)
(***************************************************************************)
ReceiverChecks ==
    /\ t1 = "check"
    /\ t1' = IF stopFlag THEN "ended" ELSE "receive"
    /\ UNCHANGED <<ipc, spc, session, t2, trueLoop, mocap, link, history>>

(* Mutant: a ground station's heartbeat is not skipped.                    *)
ReceiverHandlesGCS ==
    /\ t1 = "receive"
    /\ downlink # << >>
    /\ LET msg == Head(downlink)
           heartbeat == msg \in {"armed", "disarmed"}
       IN  /\ isArmed' = IF heartbeat \/ msg = "gcs" THEN msg = "armed" ELSE isArmed
           /\ told'    = IF heartbeat THEN msg = "armed" ELSE told
    /\ downlink' = Tail(downlink)
    /\ t1' = "check"
    /\ UNCHANGED <<ipc, spc, config, mav, conn, stopFlag, isInOffboard, t2,
                   trueLoop, mocap, armed, uplink, silent, lost, interrupted,
                   toldAtStop, commands>>

(* recv_match blocks, without a timeout, for any message.  A heartbeat     *)
(* whose custom_mode is 0 (a ground station's) is skipped.                 *)
ReceiverHandles ==
    /\ t1 = "receive"
    /\ downlink # << >>
    /\ LET msg == Head(downlink)
           heartbeat == msg \in {"armed", "disarmed"}
       IN  /\ isArmed' = IF heartbeat THEN msg = "armed" ELSE isArmed
           /\ told'    = IF heartbeat THEN msg = "armed" ELSE told
    /\ downlink' = Tail(downlink)
    /\ t1' = "check"
    /\ UNCHANGED <<ipc, spc, config, mav, conn, stopFlag, isInOffboard, t2,
                   trueLoop, mocap, armed, uplink, silent, lost, interrupted,
                   toldAtStop, commands>>

(* Test isInOffboard, sleep, test again, send: the sleep is the hazard.    *)
StreamLoops ==
    /\ t2 \in {"check", "sleep"}
    /\ t2' = IF t2 = "sleep" THEN "check"
             ELSE IF isInOffboard THEN "sleep" ELSE "ended"
    /\ UNCHANGED <<ipc, spc, session, t1, trueLoop, mocap, link, history>>

(* A packet that cannot be read ends the true-data loop.                   *)
TrueDataError ==
    /\ trueLoop = "run"
    /\ trueLoop' = "ended"
    /\ UNCHANGED <<ipc, spc, session, t1, t2, mocap, link, history>>

PoseWaits ==
    /\ pose = "wait"
    /\ pose' = IF stopEvent THEN "ended" ELSE "vision"
    /\ UNCHANGED <<ipc, spc, session, threads, stopEvent, offset,
                   iniYaw, vision, link, history>>

(* send_vision_capture.                                                    *)
PoseForwards ==
    /\ pose = "vision"
    /\ vision' = IF iniYaw THEN offset ELSE vision
    /\ pose' = "wait"
    /\ UNCHANGED <<ipc, spc, session, threads, stopEvent,
                   offset, iniYaw, link, history>>
-----------------------------------------------------------------------------
(***************************************************************************)
(* The vehicle and the link (external).  A preflight check may refuse to   *)
(* arm; a disarm carries 21196 and is always obeyed.                       *)
(***************************************************************************)
VehicleObeys ==
    /\ uplink # << >>
    /\ uplink' = Tail(uplink)
    /\ armed' \in IF Head(uplink) = "arm" THEN {TRUE, armed} ELSE {FALSE}
    /\ UNCHANGED <<ipc, spc, session, threads, mocap, downlink, silent,
                   lost, history>>

LinkLoses ==
    /\ uplink # << >>
    /\ uplink' = Tail(uplink)
    /\ lost' = TRUE
    /\ UNCHANGED <<ipc, spc, session, threads, mocap, armed, downlink,
                   silent, history>>

VehicleReports(msg) ==
    /\ ~silent /\ downlink = << >>
    /\ conn = "open"
    /\ msg \in {"armed", "disarmed"} => msg = IF armed THEN "armed" ELSE "disarmed"
    /\ downlink' = <<msg>>
    /\ UNCHANGED <<ipc, spc, session, threads, mocap, armed, uplink,
                   silent, lost, history>>

LinkSilent ==
    /\ ~silent
    /\ silent' = TRUE
    /\ UNCHANGED <<ipc, spc, session, threads, mocap, armed, uplink,
                   downlink, lost, history>>

(* Nothing left to do: shutdown is over, or a call or loop waits for ever  *)
(* for a message of a silent vehicle.                                      *)
Over ==
    /\ \/ spc \in {"stopped", "raised"}
       \/ silent /\ downlink = << >> /\ (ipc = "wait_heartbeat" \/ t1 = "receive")
    /\ UNCHANGED vars
-----------------------------------------------------------------------------
Init ==
    /\ config \in Configs
    /\ ipc = "new" /\ spc = "idle" /\ interrupted = FALSE
    /\ mav = FALSE /\ conn = "none"
    /\ t1 = "none" /\ t2 = "none" /\ trueLoop = "none"
    /\ stopFlag = FALSE /\ isInOffboard = FALSE /\ isArmed = FALSE
    /\ stopEvent = FALSE /\ pose = "none"
    /\ offset = "unset" /\ iniYaw = FALSE /\ vision = "none"
    /\ armed \in BOOLEAN
    /\ uplink = << >> /\ downlink = << >>
    /\ silent = FALSE /\ lost = FALSE
    /\ toldAtStop = FALSE /\ told = FALSE
    /\ commands = 0

Initializer ==
    \/ Construct \/ StartMocap \/ Connect \/ WaitHeartbeat \/ StartReceiver
    \/ InitTrueDataLoop \/ YawOffset \/ YawDone
    \/ EnterOffboard \/ StartStream \/ ArmIfDisarmed

Stopper ==
    \/ JoinPose \/ StopDisarm \/ SetStopFlag \/ JoinReceiver
    \/ EndOffboard \/ JoinStream \/ Close

Next ==
    \/ Initializer \/ Command
    \/ Interrupt \/ StopBegin \/ Stopper
    \/ ReceiverChecks \/ ReceiverHandles
    \/ StreamLoops \/ TrueDataError
    \/ PoseWaits \/ PoseForwards
    \/ VehicleObeys \/ LinkLoses \/ LinkSilent
    \/ \E msg \in Telemetry : VehicleReports(msg)
    \/ Over

(***************************************************************************)
(* Every thread keeps running, the scenario ends and the clean-up calls    *)
(* shutdown, and a vehicle that is not silent keeps sending heartbeats.    *)
(***************************************************************************)
Fairness ==
    /\ WF_vars(Initializer)
    /\ WF_vars(StopBegin) /\ WF_vars(Stopper)
    /\ WF_vars(ReceiverChecks) /\ WF_vars(ReceiverHandles)
    /\ WF_vars(StreamLoops)
    /\ WF_vars(PoseWaits) /\ WF_vars(PoseForwards)
    /\ WF_vars(VehicleObeys)
    /\ WF_vars(VehicleReports("armed") \/ VehicleReports("disarmed"))

Spec     == Init /\ [][Next]_vars
FairSpec == Spec /\ Fairness
-----------------------------------------------------------------------------
(* The type invariant.                                                     *)
TypeOK ==
    /\ config \in Configs
    /\ ipc \in {"new", "check", "connect", "wait_heartbeat", "receive",
                "true_data", "yaw", "yaw_done", "offboard", "stream", "arm",
                "ready", "raised"}
    /\ spc \in {"idle", "join_pose", "disarm", "flag", "join_t1", "offboard",
                "join_t2", "close", "stopped", "raised"}
    /\ conn \in {"none", "open", "closed"}
    /\ t1 \in {"none", "check", "receive", "ended"}
    /\ t2 \in {"none", "created", "check", "sleep", "ended"}
    /\ trueLoop \in {"none", "run", "ended"}
    /\ pose \in {"none", "wait", "vision", "ended"}
    /\ offset \in {"unset", "set"}
    /\ vision \in {"none", "unset", "set"}
    /\ mav \in BOOLEAN /\ stopFlag \in BOOLEAN /\ isInOffboard \in BOOLEAN
    /\ isArmed \in BOOLEAN /\ stopEvent \in BOOLEAN /\ iniYaw \in BOOLEAN
    /\ armed \in BOOLEAN /\ silent \in BOOLEAN /\ lost \in BOOLEAN
    /\ interrupted \in BOOLEAN /\ toldAtStop \in BOOLEAN /\ told \in BOOLEAN
    /\ uplink \in Seq({"arm", "disarm"}) /\ Len(uplink) <= MaxCommands + 3
    /\ downlink \in Seq(Telemetry) /\ Len(downlink) <= 1
    /\ commands \in 0..MaxCommands

(* A shutdown that is over, by a return or by an exception of its own, and *)
(* did not overtake initialize, leaves neither MAVLink loop running and no *)
(* connection open, however far initialize came: stopRun's order of flag,  *)
(* joins and close, none of which may fail once there is a connection.     *)
MavLoopsStopped ==
    spc \in {"stopped", "raised"} /\ ~interrupted =>
        /\ t1 \in {"none", "ended"}
        /\ t2 \in {"none", "created", "ended"}
        /\ conn # "open"

(* A vehicle whose last heartbeat before stopRun's test said armed is not  *)
(* left armed once its commands have arrived: the disarm is the last one.  *)
KnownArmedIsDisarmed ==
    /\ spc = "stopped" /\ ~interrupted
    /\ toldAtStop /\ ~lost /\ uplink = << >>
    => ~armed

(* No vision message is turned by an offset_yaw init_yaw has not set yet,  *)
(* although the pose thread runs from before the connection is opened.     *)
VisionIsAligned == vision # "unset"

(* A shutdown ends, unless the vehicle fell silent: then t1 may sit in     *)
(* recv_match, and the join of t1, for ever.                               *)
StopEnds == spc # "idle" ~> (spc \in {"stopped", "raised"} \/ silent)

(* The control points of stopRun behind its assignment to stopFlag.        *)
PastStopFlag ==
    \/ spc \in {"join_t1", "offboard", "join_t2", "close", "raised"}
    \/ spc = "stopped" /\ conn = "closed"

(* Once stopRun is past its assignment to stopFlag the receive loop ends,  *)
(* even one that an initialize still running starts later, when stopRun    *)
(* may have returned: nothing takes the stop request back.                 *)
ReceiverEnds == PastStopFlag ~> (t1 \in {"none", "ended"} \/ silent)

=============================================================================
