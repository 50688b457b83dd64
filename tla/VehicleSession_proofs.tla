------------------------ MODULE VehicleSession_proofs ------------------------
(***************************************************************************)
(* The safety properties of VehicleSession, for every set of backends, any *)
(* of which may be interrupted, and any number of commands.                *)
(*                                                                         *)
(* That a shutdown leaves nothing running depends on how far initialize    *)
(* came before it (ProgressInv) and on the order of stopRun (StopInv);     *)
(* that a vehicle known to be armed is disarmed on the disarm being the    *)
(* last command of the link (DisarmInv); the bound on the link in TypeOK   *)
(* on how many commands each call sends (LinkInv).                         *)
(***************************************************************************)
EXTENDS VehicleSession, SequenceTheorems, TLAPS

Connecting == {"new", "check", "connect"}
Receiving  == {"true_data", "yaw", "yaw_done", "offboard", "stream", "arm", "ready"}

(* stopRun has not reset isInOffboard yet, and has not tested isArmed yet. *)
BeforeEndOffboard == {"idle", "join_pose", "disarm", "flag", "join_t1", "offboard"}
BeforeDisarm      == {"idle", "join_pose", "disarm"}

(* How far initialize has come, and what there is to stop.                 *)
ProgressInv ==
    /\ ~mav => ipc \in {"new", "raised"}
    /\ ~mav \/ ipc \in Connecting => conn = "none"
    /\ ipc \in Receiving \cup {"wait_heartbeat", "receive"} => conn # "none"
    /\ conn = "none" => t1 = "none"
    /\ conn = "closed" => spc = "stopped"
    /\ t1 = "none" <=> t2 = "none"
    /\ ipc \in Connecting \cup {"wait_heartbeat", "receive"} => t1 = "none"
    /\ ipc \in Receiving => t1 # "none"
    /\ isInOffboard => ipc \in {"stream", "arm", "ready"}
    /\ isInOffboard /\ ipc \in {"arm", "ready"} => t2 \notin {"none", "created"}
    /\ ipc = "stream" /\ spc \in BeforeEndOffboard => isInOffboard
    /\ ~isInOffboard /\ spc \in BeforeEndOffboard => t2 \in {"none", "created"}

(* A shutdown that does not overtake initialize joins the loops in turn.   *)
StopInv ==
    ~interrupted =>
        /\ spc # "idle" => ipc \in {"ready", "raised"}
        /\ spc \in {"offboard", "join_t2", "close"} => t1 \in {"none", "ended"}
        /\ spc = "join_t2" => t2 \notin {"none", "created"}
        /\ spc = "close" => t2 \in {"none", "created", "ended"}

(* The controller knows what the vehicle told; once stopRun has disarmed,  *)
(* the disarm is the last command on the link, or has been obeyed.         *)
DisarmInv ==
    /\ told <=> isArmed
    /\ told => conn # "none"
    /\ spc \in BeforeDisarm => ~toldAtStop
    /\ ~interrupted /\ toldAtStop /\ ~lost =>
          IF uplink = << >> THEN ~armed ELSE uplink[Len(uplink)] = "disarm"

(* How many commands can be on the link.                                   *)
LinkInv ==
    Len(uplink) <= commands + (IF t1 = "none" THEN 0 ELSE 1)
                            + (IF ipc = "ready" THEN 1 ELSE 0)
                            + (IF spc \in BeforeDisarm THEN 0 ELSE 1)

(* The offset is assigned before the flag that lets it be used.            *)
YawInv ==
    /\ iniYaw \/ ipc = "yaw_done" => offset = "set"
    /\ VisionIsAligned

IInv == TypeOK /\ ProgressInv /\ StopInv /\ MavLoopsStopped /\ DisarmInv /\ LinkInv /\ YawInv
-----------------------------------------------------------------------------
LEMMA InitHolds == Init => IInv
<1> SUFFICES ASSUME Init PROVE IInv
  OBVIOUS
<1>1. TypeOK
  <2>1. /\ config \in Configs /\ commands \in 0..MaxCommands
        /\ uplink \in Seq({"arm", "disarm"}) /\ Len(uplink) = 0
        /\ downlink \in Seq(Telemetry) /\ Len(downlink) = 0
    BY SessionAssumption DEF Init
  <2>2. /\ mav \in BOOLEAN /\ stopFlag \in BOOLEAN /\ isInOffboard \in BOOLEAN
        /\ isArmed \in BOOLEAN /\ stopEvent \in BOOLEAN /\ iniYaw \in BOOLEAN
        /\ armed \in BOOLEAN /\ silent \in BOOLEAN /\ lost \in BOOLEAN
        /\ interrupted \in BOOLEAN /\ toldAtStop \in BOOLEAN /\ told \in BOOLEAN
    BY DEF Init
  <2>3. /\ ipc = "new" /\ spc = "idle" /\ conn = "none" /\ t1 = "none" /\ t2 = "none"
        /\ trueLoop = "none" /\ pose = "none" /\ offset = "unset" /\ vision = "none"
    BY DEF Init
  <2> QED BY <2>1, <2>2, <2>3, SessionAssumption DEF TypeOK
<1>2. ProgressInv /\ StopInv /\ MavLoopsStopped /\ YawInv
  BY DEF Init, ProgressInv, StopInv, MavLoopsStopped, YawInv, VisionIsAligned, Connecting, Receiving
<1>3. DisarmInv /\ LinkInv
  BY DEF Init, DisarmInv, LinkInv, BeforeDisarm
<1> QED BY <1>1, <1>2, <1>3 DEF IInv

(* What a command does to the link.                                        *)
LEMMA SendFacts ==
    ASSUME TypeOK, NEW c \in {"arm", "disarm"}, Send(c)
    PROVE  /\ uplink' \in Seq({"arm", "disarm"})
           /\ Len(uplink) \in Nat /\ Len(uplink') \in Nat
           /\ Len(uplink') <= Len(uplink) + 1
           /\ ~config.real \/ conn = "open" =>
                 uplink' # << >> /\ uplink'[Len(uplink')] = c
<1>1. uplink \in Seq({"arm", "disarm"}) /\ Len(uplink) \in Nat
  BY LenProperties DEF TypeOK
<1>2. LET s == Append(uplink, c)
      IN  /\ s \in Seq({"arm", "disarm"}) /\ s # << >>
          /\ Len(s) = Len(uplink) + 1 /\ s[Len(uplink) + 1] = c
  BY <1>1, AppendProperties
<1> QED BY <1>1, <1>2 DEF Send

(* What taking the first command off the link does to it.                  *)
LEMMA TailFacts ==
    ASSUME TypeOK, uplink # << >>, uplink' = Tail(uplink)
    PROVE  /\ uplink' \in Seq({"arm", "disarm"})
           /\ Len(uplink) \in Nat /\ Len(uplink') = Len(uplink) - 1
           /\ Head(uplink) = uplink[1]
           /\ uplink' = << >> => Len(uplink) = 1
           /\ uplink' # << >> => uplink'[Len(uplink')] = uplink[Len(uplink)]
<1>1. uplink \in Seq({"arm", "disarm"}) /\ Len(uplink) \in Nat
  BY LenProperties DEF TypeOK
<1>2. /\ Tail(uplink) \in Seq({"arm", "disarm"}) /\ Len(Tail(uplink)) = Len(uplink) - 1
      /\ \A k \in 1..Len(Tail(uplink)) : Tail(uplink)[k] = uplink[k + 1]
  BY <1>1, HeadTailProperties
<1>3. Tail(uplink) # << >> => Len(Tail(uplink)) \in 1..Len(Tail(uplink))
  BY <1>1, <1>2, EmptySeq, LenProperties
<1>4. Head(uplink) = uplink[1]
  OBVIOUS
<1>5. Tail(uplink) = << >> => Len(uplink) = 1
  BY <1>1, <1>2, EmptySeq
<1>6. Tail(uplink) # << >> => Tail(uplink)[Len(Tail(uplink))] = uplink[Len(uplink)]
  BY <1>1, <1>2, <1>3
<1> QED BY <1>1, <1>2, <1>4, <1>5, <1>6

(* LinkInv is the bound of TypeOK.                                         *)
LEMMA LinkBound ==
    ASSUME LinkInv, commands \in 0..MaxCommands, Len(uplink) \in Nat
    PROVE  Len(uplink) <= MaxCommands + 3
BY SessionAssumption DEF LinkInv

LEMMA ConstructKeeps == ASSUME IInv, Construct PROVE IInv'
<1> USE DEF IInv, Construct, Goto, session, threads, mocap, link, history
<1>1. TypeOK'
  <2>1. mav' \in BOOLEAN
    BY DEF TypeOK
  <2>2. ipc' \in {"raised", "check"}
    OBVIOUS
  <2> QED BY <2>1, <2>2 DEF TypeOK
<1>2. ProgressInv' /\ StopInv' /\ MavLoopsStopped'
  BY DEF TypeOK, ProgressInv, StopInv, MavLoopsStopped, Connecting, Receiving,
         BeforeEndOffboard
<1>3. DisarmInv' /\ LinkInv' /\ YawInv'
  BY DEF TypeOK, StopInv, DisarmInv, LinkInv, YawInv, VisionIsAligned, BeforeDisarm
<1> QED BY <1>1, <1>2, <1>3

LEMMA StartMocapKeeps == ASSUME IInv, StartMocap PROVE IInv'
<1> USE DEF IInv, StartMocap, Goto, session, threads, mocap, link, history
<1>1. TypeOK'
  <2>1. stopEvent' \in BOOLEAN
    BY DEF TypeOK
  <2>2. ipc' \in {"raised", "connect"} /\ pose' \in {pose, "wait"}
    OBVIOUS
  <2> QED BY <2>1, <2>2 DEF TypeOK
<1>2. ProgressInv' /\ StopInv' /\ MavLoopsStopped'
  BY DEF TypeOK, ProgressInv, StopInv, MavLoopsStopped, Connecting, Receiving,
         BeforeEndOffboard
<1>3. DisarmInv' /\ LinkInv' /\ YawInv'
  BY DEF TypeOK, StopInv, DisarmInv, LinkInv, YawInv, VisionIsAligned, BeforeDisarm
<1> QED BY <1>1, <1>2, <1>3

LEMMA ConnectKeeps == ASSUME IInv, Connect PROVE IInv'
<1> USE DEF IInv, Connect, Goto, session, threads, mocap, link, history
<1>1. TypeOK'
  BY DEF TypeOK
<1>2. ProgressInv' /\ StopInv' /\ MavLoopsStopped'
  BY DEF TypeOK, ProgressInv, StopInv, MavLoopsStopped, Connecting, Receiving,
         BeforeEndOffboard
<1>3. DisarmInv' /\ LinkInv' /\ YawInv'
  BY DEF TypeOK, StopInv, DisarmInv, LinkInv, YawInv, VisionIsAligned, BeforeDisarm
<1> QED BY <1>1, <1>2, <1>3

LEMMA WaitHeartbeatKeeps == ASSUME IInv, WaitHeartbeat PROVE IInv'
<1> USE DEF IInv, WaitHeartbeat, Goto, session, threads, mocap, link, history
<1>1. TypeOK'
  BY DEF TypeOK
<1>2. ProgressInv' /\ StopInv' /\ MavLoopsStopped'
  BY DEF TypeOK, ProgressInv, StopInv, MavLoopsStopped, Connecting, Receiving,
         BeforeEndOffboard
<1>3. DisarmInv' /\ LinkInv' /\ YawInv'
  BY DEF TypeOK, StopInv, DisarmInv, LinkInv, YawInv, VisionIsAligned, BeforeDisarm
<1> QED BY <1>1, <1>2, <1>3

LEMMA StartReceiverKeeps == ASSUME IInv, StartReceiver PROVE IInv'
<1> USE DEF IInv, StartReceiver, Goto, AfterReceive, session, threads, mocap, link, history
<1>0. /\ uplink' \in Seq({"arm", "disarm"}) /\ Len(uplink) \in Nat
      /\ Len(uplink') \in Nat /\ Len(uplink') <= Len(uplink) + 1
  BY SendFacts
<1>2. ProgressInv'
  <2>1. ipc' \in {"true_data", "yaw", "offboard", "ready"}
    OBVIOUS
  <2>2. ~isInOffboard /\ t1 = "none" /\ mav /\ conn # "none"
    BY DEF ProgressInv
  <2> QED BY <2>1, <2>2 DEF ProgressInv, Connecting, Receiving, BeforeEndOffboard
<1>3. StopInv' /\ MavLoopsStopped'
  BY DEF TypeOK, ProgressInv, StopInv, MavLoopsStopped, Connecting, Receiving,
         BeforeEndOffboard
<1>4. DisarmInv'
  BY DEF TypeOK, DisarmInv, StopInv, BeforeDisarm
<1>5. LinkInv'
  BY <1>0 DEF TypeOK, LinkInv, ProgressInv, BeforeDisarm
<1>6. YawInv'
  BY DEF TypeOK, YawInv, VisionIsAligned
<1>7. TypeOK'
  <2>1. commands' \in 0..MaxCommands
    BY SessionAssumption DEF TypeOK
  <2>2. Len(uplink') <= MaxCommands + 3
    BY <1>0, <1>5, <2>1, SessionAssumption DEF LinkInv
  <2> QED BY <1>0, <2>1, <2>2 DEF TypeOK
<1> QED BY <1>2, <1>3, <1>4, <1>5, <1>6, <1>7

LEMMA InitTrueDataLoopKeeps == ASSUME IInv, InitTrueDataLoop PROVE IInv'
<1> USE DEF IInv, InitTrueDataLoop, Goto, session, threads, mocap, link, history
<1>1. TypeOK'
  BY DEF TypeOK
<1>2. ProgressInv' /\ StopInv' /\ MavLoopsStopped'
  BY DEF TypeOK, ProgressInv, StopInv, MavLoopsStopped, Connecting, Receiving,
         BeforeEndOffboard
<1>3. DisarmInv' /\ LinkInv' /\ YawInv'
  BY DEF TypeOK, StopInv, DisarmInv, LinkInv, YawInv, VisionIsAligned, BeforeDisarm
<1> QED BY <1>1, <1>2, <1>3

LEMMA YawOffsetKeeps == ASSUME IInv, YawOffset PROVE IInv'
<1> USE DEF IInv, YawOffset, Goto, session, threads, mocap, link, history
<1>1. TypeOK'
  BY DEF TypeOK
<1>2. ProgressInv' /\ StopInv' /\ MavLoopsStopped'
  BY DEF TypeOK, ProgressInv, StopInv, MavLoopsStopped, Connecting, Receiving,
         BeforeEndOffboard
<1>3. DisarmInv' /\ LinkInv' /\ YawInv'
  BY DEF TypeOK, StopInv, DisarmInv, LinkInv, YawInv, VisionIsAligned, BeforeDisarm
<1> QED BY <1>1, <1>2, <1>3

LEMMA YawDoneKeeps == ASSUME IInv, YawDone PROVE IInv'
<1> USE DEF IInv, YawDone, Goto, session, threads, mocap, link, history
<1>1. TypeOK'
  BY DEF TypeOK
<1>2. ProgressInv' /\ StopInv' /\ MavLoopsStopped'
  BY DEF TypeOK, ProgressInv, StopInv, MavLoopsStopped, Connecting, Receiving,
         BeforeEndOffboard
<1>3. DisarmInv' /\ LinkInv' /\ YawInv'
  BY DEF TypeOK, StopInv, DisarmInv, LinkInv, YawInv, VisionIsAligned, BeforeDisarm
<1> QED BY <1>1, <1>2, <1>3

LEMMA EnterOffboardKeeps == ASSUME IInv, EnterOffboard PROVE IInv'
<1> USE DEF IInv, EnterOffboard, Goto, session, threads, mocap, link, history
<1>1. TypeOK'
  BY DEF TypeOK
<1>2. ProgressInv' /\ StopInv' /\ MavLoopsStopped'
  BY DEF TypeOK, ProgressInv, StopInv, MavLoopsStopped, Connecting, Receiving,
         BeforeEndOffboard
<1>3. DisarmInv' /\ LinkInv' /\ YawInv'
  BY DEF TypeOK, StopInv, DisarmInv, LinkInv, YawInv, VisionIsAligned, BeforeDisarm
<1> QED BY <1>1, <1>2, <1>3

LEMMA StartStreamKeeps == ASSUME IInv, StartStream PROVE IInv'
<1> USE DEF IInv, StartStream, Goto, session, threads, mocap, link, history
<1>1. TypeOK'
  BY DEF TypeOK
<1>2. ProgressInv' /\ StopInv' /\ MavLoopsStopped'
  BY DEF TypeOK, ProgressInv, StopInv, MavLoopsStopped, Connecting, Receiving,
         BeforeEndOffboard
<1>3. DisarmInv' /\ LinkInv' /\ YawInv'
  BY DEF TypeOK, StopInv, DisarmInv, LinkInv, YawInv, VisionIsAligned, BeforeDisarm
<1> QED BY <1>1, <1>2, <1>3

LEMMA ArmIfDisarmedKeeps == ASSUME IInv, ArmIfDisarmed PROVE IInv'
<1> USE DEF IInv, ArmIfDisarmed, Goto, session, threads, mocap, link, history
<1>0. /\ uplink' \in Seq({"arm", "disarm"}) /\ Len(uplink) \in Nat
      /\ Len(uplink') \in Nat /\ Len(uplink') <= Len(uplink) + 1
  BY SendFacts, LenProperties DEF TypeOK
<1>2. ProgressInv'
  BY DEF TypeOK, ProgressInv, StopInv, Connecting, Receiving, BeforeEndOffboard
<1>3. StopInv' /\ MavLoopsStopped'
  BY DEF TypeOK, ProgressInv, StopInv, MavLoopsStopped, Connecting, Receiving,
         BeforeEndOffboard
<1>4. DisarmInv'
  BY DEF TypeOK, DisarmInv, StopInv, BeforeDisarm
<1>5. LinkInv'
  BY <1>0 DEF TypeOK, LinkInv, ProgressInv, BeforeDisarm
<1>6. YawInv'
  BY DEF TypeOK, YawInv, VisionIsAligned
<1>7. TypeOK'
  <2>1. commands' \in 0..MaxCommands
    BY SessionAssumption DEF TypeOK
  <2>2. Len(uplink') <= MaxCommands + 3
    BY <1>0, <1>5, <2>1, SessionAssumption DEF LinkInv
  <2> QED BY <1>0, <2>1, <2>2 DEF TypeOK
<1> QED BY <1>2, <1>3, <1>4, <1>5, <1>6, <1>7

LEMMA CommandKeeps == ASSUME IInv, Command PROVE IInv'
<1> USE DEF IInv, Command, session, threads, mocap, link, history
<1>0. /\ uplink' \in Seq({"arm", "disarm"}) /\ Len(uplink) \in Nat
      /\ Len(uplink') \in Nat /\ Len(uplink') <= Len(uplink) + 1
  BY SendFacts
<1>2. ProgressInv'
  BY DEF TypeOK, ProgressInv, StopInv, Connecting, Receiving, BeforeEndOffboard
<1>3. StopInv' /\ MavLoopsStopped'
  BY DEF TypeOK, ProgressInv, StopInv, MavLoopsStopped, Connecting, Receiving,
         BeforeEndOffboard
<1>4. DisarmInv'
  BY DEF TypeOK, DisarmInv, StopInv, BeforeDisarm
<1>5. LinkInv'
  BY <1>0 DEF TypeOK, LinkInv, ProgressInv, BeforeDisarm
<1>6. YawInv'
  BY DEF TypeOK, YawInv, VisionIsAligned
<1>7. TypeOK'
  <2>1. commands' \in 0..MaxCommands
    BY SessionAssumption DEF TypeOK
  <2>2. Len(uplink') <= MaxCommands + 3
    BY <1>0, <1>5, <2>1, SessionAssumption DEF LinkInv
  <2> QED BY <1>0, <2>1, <2>2 DEF TypeOK
<1> QED BY <1>2, <1>3, <1>4, <1>5, <1>6, <1>7

LEMMA InterruptKeeps == ASSUME IInv, Interrupt PROVE IInv'
<1> USE DEF IInv, Interrupt, session, threads, mocap, link, history
<1>1. TypeOK'
  BY DEF TypeOK
<1>2. ProgressInv' /\ StopInv' /\ MavLoopsStopped'
  BY DEF TypeOK, ProgressInv, StopInv, MavLoopsStopped, Connecting, Receiving,
         BeforeEndOffboard
<1>3. DisarmInv' /\ LinkInv' /\ YawInv'
  BY DEF TypeOK, StopInv, DisarmInv, LinkInv, YawInv, VisionIsAligned, BeforeDisarm
<1> QED BY <1>1, <1>2, <1>3

LEMMA StopBeginKeeps == ASSUME IInv, StopBegin PROVE IInv'
<1> USE DEF IInv, StopBegin, session, threads, mocap, link, history
<1>1. TypeOK'
  BY DEF TypeOK
<1>2. ProgressInv' /\ StopInv' /\ MavLoopsStopped'
  BY DEF TypeOK, ProgressInv, StopInv, MavLoopsStopped, Connecting, Receiving,
         BeforeEndOffboard
<1>3. DisarmInv' /\ LinkInv' /\ YawInv'
  BY DEF TypeOK, StopInv, DisarmInv, LinkInv, YawInv, VisionIsAligned, BeforeDisarm
<1> QED BY <1>1, <1>2, <1>3

LEMMA JoinPoseKeeps == ASSUME IInv, JoinPose PROVE IInv'
<1> USE DEF IInv, JoinPose, session, threads, mocap, link, history
<1>1. TypeOK'
  BY DEF TypeOK
<1>2. ProgressInv' /\ StopInv' /\ MavLoopsStopped'
  BY DEF TypeOK, ProgressInv, StopInv, MavLoopsStopped, Connecting, Receiving,
         BeforeEndOffboard
<1>3. DisarmInv' /\ LinkInv' /\ YawInv'
  BY DEF TypeOK, StopInv, DisarmInv, LinkInv, YawInv, VisionIsAligned, BeforeDisarm
<1> QED BY <1>1, <1>2, <1>3

LEMMA StopDisarmKeeps == ASSUME IInv, StopDisarm PROVE IInv'
<1> USE DEF IInv, StopDisarm, session, threads, mocap, link, history
<1>0. /\ uplink' \in Seq({"arm", "disarm"}) /\ Len(uplink) \in Nat
      /\ Len(uplink') \in Nat /\ Len(uplink') <= Len(uplink) + 1
      /\ isArmed /\ conn = "open" => uplink' # << >> /\ uplink'[Len(uplink')] = "disarm"
  BY SendFacts, LenProperties DEF TypeOK
<1>2. ProgressInv'
  BY DEF TypeOK, ProgressInv, StopInv, Connecting, Receiving, BeforeEndOffboard
<1>3. StopInv' /\ MavLoopsStopped'
  BY DEF TypeOK, ProgressInv, StopInv, MavLoopsStopped, Connecting, Receiving,
         BeforeEndOffboard
<1>4. DisarmInv'
  <2>1. told => conn = "open"
    BY DEF TypeOK, ProgressInv, DisarmInv
  <2> QED BY <1>0, <2>1 DEF TypeOK, DisarmInv, BeforeDisarm
<1>5. LinkInv'
  BY <1>0 DEF TypeOK, LinkInv, ProgressInv, BeforeDisarm
<1>6. YawInv'
  BY DEF TypeOK, YawInv, VisionIsAligned
<1>7. TypeOK'
  <2>1. commands' \in 0..MaxCommands
    BY SessionAssumption DEF TypeOK
  <2>2. Len(uplink') <= MaxCommands + 3
    BY <1>0, <1>5, <2>1, SessionAssumption DEF LinkInv
  <2> QED BY <1>0, <2>1, <2>2 DEF TypeOK
<1> QED BY <1>2, <1>3, <1>4, <1>5, <1>6, <1>7

LEMMA SetStopFlagKeeps == ASSUME IInv, SetStopFlag PROVE IInv'
<1> USE DEF IInv, SetStopFlag, session, threads, mocap, link, history
<1>1. TypeOK'
  BY DEF TypeOK
<1>2. ProgressInv' /\ StopInv' /\ MavLoopsStopped'
  BY DEF TypeOK, ProgressInv, StopInv, MavLoopsStopped, Connecting, Receiving,
         BeforeEndOffboard
<1>3. DisarmInv' /\ LinkInv' /\ YawInv'
  BY DEF TypeOK, StopInv, DisarmInv, LinkInv, YawInv, VisionIsAligned, BeforeDisarm
<1> QED BY <1>1, <1>2, <1>3

LEMMA JoinReceiverKeeps == ASSUME IInv, JoinReceiver PROVE IInv'
<1> USE DEF IInv, JoinReceiver, session, threads, mocap, link, history
<1>1. TypeOK'
  BY DEF TypeOK
<1>2. ProgressInv' /\ StopInv' /\ MavLoopsStopped'
  BY DEF TypeOK, ProgressInv, StopInv, MavLoopsStopped, Connecting, Receiving,
         BeforeEndOffboard
<1>3. DisarmInv' /\ LinkInv' /\ YawInv'
  BY DEF TypeOK, StopInv, DisarmInv, LinkInv, YawInv, VisionIsAligned, BeforeDisarm
<1> QED BY <1>1, <1>2, <1>3

LEMMA EndOffboardKeeps == ASSUME IInv, EndOffboard PROVE IInv'
<1> USE DEF IInv, EndOffboard, session, threads, mocap, link, history
<1>1. TypeOK'
  <2>1. isInOffboard' \in BOOLEAN
    OBVIOUS
  <2>2. spc' \in {"join_t2", "close"}
    OBVIOUS
  <2> QED BY <2>1, <2>2 DEF TypeOK
<1>2. ProgressInv' /\ StopInv' /\ MavLoopsStopped'
  BY DEF TypeOK, ProgressInv, StopInv, MavLoopsStopped, Connecting, Receiving,
         BeforeEndOffboard
<1>3. DisarmInv' /\ LinkInv' /\ YawInv'
  BY DEF TypeOK, StopInv, DisarmInv, LinkInv, YawInv, VisionIsAligned, BeforeDisarm
<1> QED BY <1>1, <1>2, <1>3

LEMMA JoinStreamKeeps == ASSUME IInv, JoinStream PROVE IInv'
<1> USE DEF IInv, JoinStream, session, threads, mocap, link, history
<1>1. TypeOK'
  BY DEF TypeOK
<1>2. ProgressInv' /\ StopInv' /\ MavLoopsStopped'
  BY DEF TypeOK, ProgressInv, StopInv, MavLoopsStopped, Connecting, Receiving,
         BeforeEndOffboard
<1>3. DisarmInv' /\ LinkInv' /\ YawInv'
  BY DEF TypeOK, StopInv, DisarmInv, LinkInv, YawInv, VisionIsAligned, BeforeDisarm
<1> QED BY <1>1, <1>2, <1>3

LEMMA CloseKeeps == ASSUME IInv, Close PROVE IInv'
<1> USE DEF IInv, Close, session, threads, mocap, link, history
<1>1. TypeOK'
  BY DEF TypeOK
<1>2. ProgressInv' /\ StopInv' /\ MavLoopsStopped'
  BY DEF TypeOK, ProgressInv, StopInv, MavLoopsStopped, Connecting, Receiving,
         BeforeEndOffboard
<1>3. DisarmInv' /\ LinkInv' /\ YawInv'
  BY DEF TypeOK, StopInv, DisarmInv, LinkInv, YawInv, VisionIsAligned, BeforeDisarm
<1> QED BY <1>1, <1>2, <1>3

LEMMA ReceiverChecksKeeps == ASSUME IInv, ReceiverChecks PROVE IInv'
<1> USE DEF IInv, ReceiverChecks, session, threads, mocap, link, history
<1>1. TypeOK'
  BY DEF TypeOK
<1>2. ProgressInv' /\ StopInv' /\ MavLoopsStopped'
  BY DEF TypeOK, ProgressInv, StopInv, MavLoopsStopped, Connecting, Receiving,
         BeforeEndOffboard
<1>3. DisarmInv' /\ LinkInv' /\ YawInv'
  BY DEF TypeOK, StopInv, DisarmInv, LinkInv, YawInv, VisionIsAligned, BeforeDisarm
<1> QED BY <1>1, <1>2, <1>3

LEMMA ReceiverHandlesKeeps == ASSUME IInv, ReceiverHandles PROVE IInv'
<1> USE DEF IInv, ReceiverHandles, session, threads, mocap, link, history
<1>0. downlink' \in Seq(Telemetry) /\ Len(downlink') <= 1
  BY HeadTailProperties, LenProperties DEF TypeOK
<1>1. TypeOK'
  <2>1. isArmed' \in BOOLEAN /\ told' \in BOOLEAN
    BY DEF TypeOK
  <2> QED BY <1>0, <2>1 DEF TypeOK
<1>2. ProgressInv'
  BY DEF TypeOK, ProgressInv, StopInv, Connecting, Receiving, BeforeEndOffboard
<1>3. StopInv' /\ MavLoopsStopped'
  BY DEF TypeOK, ProgressInv, StopInv, MavLoopsStopped, Connecting, Receiving,
         BeforeEndOffboard
<1>4. DisarmInv'
  <2>1. told' <=> isArmed'
    BY DEF TypeOK, DisarmInv
  <2>2. conn # "none"
    BY DEF ProgressInv
  <2> QED BY <2>1, <2>2 DEF DisarmInv
<1>5. LinkInv'
  BY DEF TypeOK, LinkInv, ProgressInv, BeforeDisarm
<1>6. YawInv'
  BY DEF TypeOK, YawInv, VisionIsAligned
<1> QED BY <1>1, <1>2, <1>3, <1>4, <1>5, <1>6

LEMMA StreamLoopsKeeps == ASSUME IInv, StreamLoops PROVE IInv'
<1> USE DEF IInv, StreamLoops, session, threads, mocap, link, history
<1>1. TypeOK'
  BY DEF TypeOK
<1>2. ProgressInv' /\ StopInv' /\ MavLoopsStopped'
  BY DEF TypeOK, ProgressInv, StopInv, MavLoopsStopped, Connecting, Receiving,
         BeforeEndOffboard
<1>3. DisarmInv' /\ LinkInv' /\ YawInv'
  BY DEF TypeOK, StopInv, DisarmInv, LinkInv, YawInv, VisionIsAligned, BeforeDisarm
<1> QED BY <1>1, <1>2, <1>3

LEMMA TrueDataErrorKeeps == ASSUME IInv, TrueDataError PROVE IInv'
<1> USE DEF IInv, TrueDataError, session, threads, mocap, link, history
<1>1. TypeOK'
  BY DEF TypeOK
<1>2. ProgressInv' /\ StopInv' /\ MavLoopsStopped'
  BY DEF TypeOK, ProgressInv, StopInv, MavLoopsStopped, Connecting, Receiving,
         BeforeEndOffboard
<1>3. DisarmInv' /\ LinkInv' /\ YawInv'
  BY DEF TypeOK, StopInv, DisarmInv, LinkInv, YawInv, VisionIsAligned, BeforeDisarm
<1> QED BY <1>1, <1>2, <1>3

LEMMA PoseWaitsKeeps == ASSUME IInv, PoseWaits PROVE IInv'
<1> USE DEF IInv, PoseWaits, session, threads, mocap, link, history
<1>1. TypeOK'
  BY DEF TypeOK
<1>2. ProgressInv' /\ StopInv' /\ MavLoopsStopped'
  BY DEF TypeOK, ProgressInv, StopInv, MavLoopsStopped, Connecting, Receiving,
         BeforeEndOffboard
<1>3. DisarmInv' /\ LinkInv' /\ YawInv'
  BY DEF TypeOK, StopInv, DisarmInv, LinkInv, YawInv, VisionIsAligned, BeforeDisarm
<1> QED BY <1>1, <1>2, <1>3

LEMMA PoseForwardsKeeps == ASSUME IInv, PoseForwards PROVE IInv'
<1> USE DEF IInv, PoseForwards, session, threads, mocap, link, history
<1>1. TypeOK'
  BY DEF TypeOK
<1>2. ProgressInv' /\ StopInv' /\ MavLoopsStopped'
  BY DEF TypeOK, ProgressInv, StopInv, MavLoopsStopped, Connecting, Receiving,
         BeforeEndOffboard
<1>3. DisarmInv' /\ LinkInv' /\ YawInv'
  BY DEF TypeOK, StopInv, DisarmInv, LinkInv, YawInv, VisionIsAligned, BeforeDisarm
<1> QED BY <1>1, <1>2, <1>3

LEMMA VehicleObeysKeeps == ASSUME IInv, VehicleObeys PROVE IInv'
<1> USE DEF IInv, VehicleObeys, session, threads, mocap, link, history
<1>0. /\ uplink' \in Seq({"arm", "disarm"})
      /\ Len(uplink) \in Nat /\ Len(uplink') = Len(uplink) - 1
      /\ Head(uplink) = uplink[1]
      /\ uplink' = << >> => Len(uplink) = 1
      /\ uplink' # << >> => uplink'[Len(uplink')] = uplink[Len(uplink)]
  BY TailFacts
<1>1. TypeOK'
  <2>1. armed' \in BOOLEAN /\ lost' \in BOOLEAN
    BY DEF TypeOK
  <2> QED BY <1>0, <2>1, SessionAssumption DEF TypeOK
<1>2. ProgressInv'
  BY DEF TypeOK, ProgressInv, StopInv, Connecting, Receiving, BeforeEndOffboard
<1>3. StopInv' /\ MavLoopsStopped'
  BY DEF TypeOK, ProgressInv, StopInv, MavLoopsStopped, Connecting, Receiving,
         BeforeEndOffboard
<1>4. DisarmInv'
  <2>1. CASE uplink' = << >>
    BY <1>0, <2>1 DEF TypeOK, DisarmInv
  <2>2. CASE uplink' # << >>
    BY <1>0, <2>2 DEF TypeOK, DisarmInv
  <2> QED BY <2>1, <2>2
<1>5. LinkInv'
  BY <1>0 DEF TypeOK, LinkInv, ProgressInv, BeforeDisarm
<1>6. YawInv'
  BY DEF TypeOK, YawInv, VisionIsAligned
<1> QED BY <1>1, <1>2, <1>3, <1>4, <1>5, <1>6

LEMMA LinkLosesKeeps == ASSUME IInv, LinkLoses PROVE IInv'
<1> USE DEF IInv, LinkLoses, session, threads, mocap, link, history
<1>0. /\ uplink' \in Seq({"arm", "disarm"})
      /\ Len(uplink) \in Nat /\ Len(uplink') = Len(uplink) - 1
      /\ Head(uplink) = uplink[1]
      /\ uplink' = << >> => Len(uplink) = 1
      /\ uplink' # << >> => uplink'[Len(uplink')] = uplink[Len(uplink)]
  BY TailFacts
<1>1. TypeOK'
  <2>1. armed' \in BOOLEAN /\ lost' \in BOOLEAN
    BY DEF TypeOK
  <2> QED BY <1>0, <2>1, SessionAssumption DEF TypeOK
<1>2. ProgressInv'
  BY DEF TypeOK, ProgressInv, StopInv, Connecting, Receiving, BeforeEndOffboard
<1>3. StopInv' /\ MavLoopsStopped'
  BY DEF TypeOK, ProgressInv, StopInv, MavLoopsStopped, Connecting, Receiving,
         BeforeEndOffboard
<1>4. DisarmInv'
  BY DEF TypeOK, DisarmInv, StopInv, BeforeDisarm
<1>5. LinkInv'
  BY <1>0 DEF TypeOK, LinkInv, ProgressInv, BeforeDisarm
<1>6. YawInv'
  BY DEF TypeOK, YawInv, VisionIsAligned
<1> QED BY <1>1, <1>2, <1>3, <1>4, <1>5, <1>6

LEMMA LinkSilentKeeps == ASSUME IInv, LinkSilent PROVE IInv'
<1> USE DEF IInv, LinkSilent, session, threads, mocap, link, history
<1>1. TypeOK'
  BY DEF TypeOK
<1>2. ProgressInv' /\ StopInv' /\ MavLoopsStopped'
  BY DEF TypeOK, ProgressInv, StopInv, MavLoopsStopped, Connecting, Receiving,
         BeforeEndOffboard
<1>3. DisarmInv' /\ LinkInv' /\ YawInv'
  BY DEF TypeOK, StopInv, DisarmInv, LinkInv, YawInv, VisionIsAligned, BeforeDisarm
<1> QED BY <1>1, <1>2, <1>3

LEMMA VehicleReportsKeeps == ASSUME IInv, NEW msg \in Telemetry, VehicleReports(msg) PROVE IInv'
<1> USE DEF IInv, VehicleReports, Telemetry, session, threads, mocap, link, history
<1>1. TypeOK'
  BY DEF TypeOK
<1>2. ProgressInv' /\ StopInv' /\ MavLoopsStopped'
  BY DEF TypeOK, ProgressInv, StopInv, MavLoopsStopped, Connecting, Receiving,
         BeforeEndOffboard
<1>3. DisarmInv' /\ LinkInv' /\ YawInv'
  BY DEF TypeOK, StopInv, DisarmInv, LinkInv, YawInv, VisionIsAligned, BeforeDisarm
<1> QED BY <1>1, <1>2, <1>3
-----------------------------------------------------------------------------
LEMMA StutterKeeps == ASSUME IInv, UNCHANGED vars PROVE IInv'
BY DEF vars, session, threads, mocap, link, history, IInv, TypeOK, ProgressInv, StopInv,
       MavLoopsStopped, DisarmInv, LinkInv, YawInv, VisionIsAligned

LEMMA NextKeeps == ASSUME IInv, [Next]_vars PROVE IInv'
<1>1. CASE Initializer
  BY <1>1, ConstructKeeps, StartMocapKeeps, ConnectKeeps, WaitHeartbeatKeeps,
     StartReceiverKeeps, InitTrueDataLoopKeeps, YawOffsetKeeps, YawDoneKeeps,
     EnterOffboardKeeps, StartStreamKeeps, ArmIfDisarmedKeeps DEF Initializer
<1>2. CASE Command \/ Interrupt \/ StopBegin
  BY <1>2, CommandKeeps, InterruptKeeps, StopBeginKeeps
<1>3. CASE Stopper
  BY <1>3, JoinPoseKeeps, StopDisarmKeeps, SetStopFlagKeeps, JoinReceiverKeeps,
     EndOffboardKeeps, JoinStreamKeeps, CloseKeeps DEF Stopper
<1>4. CASE \/ ReceiverChecks \/ ReceiverHandles \/ StreamLoops \/ TrueDataError
           \/ PoseWaits \/ PoseForwards
  BY <1>4, ReceiverChecksKeeps, ReceiverHandlesKeeps, StreamLoopsKeeps,
     TrueDataErrorKeeps, PoseWaitsKeeps, PoseForwardsKeeps
<1>5. CASE VehicleObeys \/ LinkLoses \/ LinkSilent
  BY <1>5, VehicleObeysKeeps, LinkLosesKeeps, LinkSilentKeeps
<1>6. CASE \E msg \in Telemetry : VehicleReports(msg)
  BY <1>6, VehicleReportsKeeps
<1>7. CASE Over \/ UNCHANGED vars
  BY <1>7, StutterKeeps DEF Over
<1> QED BY <1>1, <1>2, <1>3, <1>4, <1>5, <1>6, <1>7 DEF Next

(* Every reachable state satisfies the inductive invariant.                *)
LEMMA Invariance == Spec => []IInv
<1>1. Init => IInv
  BY InitHolds
<1>2. IInv /\ [Next]_vars => IInv'
  BY NextKeeps
<1> QED BY <1>1, <1>2, PTL DEF Spec

(* Type correctness: whichever of initialize, the scenario and stopRun is  *)
(* at work, at most MaxCommands + 3 commands are on the link.              *)
THEOREM TypeCorrect == Spec => []TypeOK
<1>1. IInv => TypeOK
  BY DEF IInv
<1> QED BY <1>1, Invariance, PTL

(* Whether it returns or raises, a shutdown that did not overtake          *)
(* initialize has ended getMavMsg and OffboardSendMode and left no         *)
(* connection open, however far initialize came.                           *)
THEOREM LoopsStopped == Spec => []MavLoopsStopped
<1>1. IInv => MavLoopsStopped
  BY DEF IInv
<1> QED BY <1>1, Invariance, PTL

(* A vehicle that stopRun knows to be armed is disarmed by the time its    *)
(* commands have arrived, unless one was lost.                             *)
THEOREM KnownArmedDisarmed == Spec => []KnownArmedIsDisarmed
<1>1. IInv => KnownArmedIsDisarmed
  BY DEF IInv, DisarmInv, KnownArmedIsDisarmed
<1> QED BY <1>1, Invariance, PTL

(* send_vision_capture never turns a pose by an offset that init_yaw has   *)
(* not assigned.                                                           *)
THEOREM VisionAligned == Spec => []VisionIsAligned
<1>1. IInv => VisionIsAligned
  BY DEF IInv, YawInv
<1> QED BY <1>1, Invariance, PTL
=============================================================================
