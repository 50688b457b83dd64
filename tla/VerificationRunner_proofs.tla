---------------------- MODULE VerificationRunner_proofs ----------------------
(***************************************************************************)
(* The safety properties of VerificationRunner, for every set of configs   *)
(* and scenarios of any length, and any number of interrupts.              *)
(*                                                                         *)
(* What a report says is settled stage by stage: the events recorded so    *)
(* far (CountInv), the recorder and its workbook (RecordInv), the vehicles *)
(* still connected (OpenInv), the toolchain (ToolInv).  All of that can    *)
(* only be disturbed by a worker that outlived its call, and only an       *)
(* interrupt leaves one behind (RunInv).                                   *)
(***************************************************************************)
EXTENDS VerificationRunner, SequenceTheorems, TLAPS

(* The stages of run before the scenario, and those after it.              *)
Early == {"build", "toolchain_start", "initialize", "start_recording"}
Late  == {"stop_recording", "shutdown", "collect", "toolchain_stop", "report", "done"}

Recorded == IF pc = "join" /\ site = "step" THEN step - 1 ELSE step

(* As long as nothing raised, every step begun has its event, except the   *)
(* one in progress.                                                        *)
CountInv ==
    /\ pc = "join" /\ site = "step" => step >= 1
    /\ failed = {} =>
          /\ Len(events) = Recorded
          /\ \A i \in 1..Recorded : events[i] = i
          /\ Here \in Early => step = 0
          /\ Here \in Late => step = Len(config.steps)

(* As long as nothing raised, the recorder follows the config.             *)
RecordInv ==
    /\ Here \in Early \cup {"step", "stop_recording"} => ~data_log
    /\ failed = {} /\ Here \in {"step", "stop_recording"} =>
          recorder = IF config.recording THEN "sampling" ELSE "disabled"
    /\ failed = {} /\ Here \in Late \ {"stop_recording"} => (data_log <=> config.recording)

(* A worker outlives its _parallel_call only if main was interrupted.      *)
RunInv ==
    /\ failed = {} => interrupts = 0
    /\ \A v \in Vehicles : <<v, "initialize">> \in running => v \in config.vehicles
    /\ interrupts = 0 =>
          \A v \in Vehicles, s \in Sites : <<v, s>> \in running => pc = "join" /\ s = site

(* Vehicles connect in initialize and disconnect in shutdown, if nothing   *)
(* interrupts either.                                                      *)
OpenInv ==
    /\ opened \subseteq config.vehicles
    /\ interrupts = 0 =>
          /\ pc \in {"build", "toolchain_start", "initialize"} => opened = {}
          /\ pc = "join" /\ site = "shutdown" =>
                \A v \in opened : v \in errors \/ <<v, "shutdown">> \in running
          /\ pc \in {"collect", "toolchain_stop", "report"} => opened \subseteq errors

ToolInv ==
    /\ pc \in {"build", "toolchain_start"} => toolchain = "none"
    /\ pc = "report" /\ config.stop_on_exit => toolchain # "running"

ReportInv ==
    /\ pc = "report" \/ report => failed = {}
    /\ report => pc = "done"
    /\ ReportIsTruthful
    /\ CleanupFailsAlone

IInv == TypeOK /\ CountInv /\ RecordInv /\ RunInv /\ OpenInv /\ ToolInv /\ ReportInv
-----------------------------------------------------------------------------
(* What the program is given.                                              *)
LEMMA ConfigFacts ==
    ASSUME config \in Scenarios
    PROVE  /\ config.vehicles \subseteq Vehicles
           /\ config.steps \in Seq(Step) /\ Len(config.steps) \in Nat
           /\ config.recording \in BOOLEAN
BY VerificationAssumption, LenProperties DEF Scenario

(* What recording the event of step k does to the events.                  *)
LEMMA RecordFacts ==
    ASSUME TypeOK, NEW k \in 1..Len(config.steps), RecordEvent(k)
    PROVE  /\ events' \in Seq(1..Len(config.steps))
           /\ Len(events) \in Nat /\ Len(events') = Len(events) + 1
           /\ \A i \in 1..Len(events) : events'[i] = events[i]
           /\ events'[Len(events) + 1] = k
<1>1. events \in Seq(1..Len(config.steps)) /\ Len(events) \in Nat
  BY LenProperties DEF TypeOK
<1> QED BY <1>1, AppendProperties DEF RecordEvent

LEMMA InitHolds == Init => IInv
<1> SUFFICES ASSUME Init PROVE IInv
  OBVIOUS
<1> USE VerificationAssumption DEF Init
<1>0. Len(config.steps) \in Nat
  BY ConfigFacts
<1>1. TypeOK
  <2>1. data_log \in BOOLEAN /\ report \in BOOLEAN
    OBVIOUS
  <2>2. events \in Seq(1..Len(config.steps))
    BY <1>0
  <2>3. pc \in Points /\ site \in Sites
    BY DEF Points, Sites
  <2> QED BY <1>0, <2>1, <2>2, <2>3 DEF TypeOK
<1>2. CountInv
  <2>1. Recorded = 0 /\ Len(events) = 0
    BY DEF Recorded
  <2> QED BY <2>1 DEF CountInv, Here, Early, Late
<1>3. RecordInv /\ RunInv /\ OpenInv /\ ToolInv
  BY DEF RecordInv, Here, Early, Late, RunInv, OpenInv, ToolInv
<1>4. ReportInv
  BY DEF ReportInv, ReportIsTruthful, CleanupFailsAlone
<1> QED BY <1>1, <1>2, <1>3, <1>4 DEF IInv
-----------------------------------------------------------------------------
LEMMA BuildVehiclesKeeps == IInv /\ BuildVehicles => IInv'
<1> SUFFICES ASSUME IInv, BuildVehicles PROVE IInv'
  OBVIOUS
<1> USE VerificationAssumption DEF IInv, BuildVehicles, Raise, Handler,
        Here, Points, Sites, Early, Late
<1>0. Len(config.steps) \in Nat /\ config.vehicles \subseteq Vehicles
  BY ConfigFacts DEF TypeOK
<1>1. TypeOK'
  BY <1>0 DEF TypeOK
<1>2. CountInv'
  BY <1>0 DEF TypeOK, CountInv, Recorded
<1>3. RecordInv'
  BY <1>0 DEF TypeOK, RecordInv, Here
<1>4. RunInv'
  BY <1>0 DEF TypeOK, RunInv
<1>5. OpenInv'
  BY <1>0 DEF TypeOK, OpenInv, RunInv
<1>6. ToolInv'
  BY <1>0 DEF TypeOK, ToolInv
<1>7. ReportInv'
  BY <1>0 DEF TypeOK, ReportInv, ReportIsTruthful, CleanupFailsAlone, RunInv, ToolInv, OpenInv
<1> QED BY <1>1, <1>2, <1>3, <1>4, <1>5, <1>6, <1>7

LEMMA ToolchainStartKeeps == IInv /\ ToolchainStart => IInv'
<1> SUFFICES ASSUME IInv, ToolchainStart PROVE IInv'
  OBVIOUS
<1> USE VerificationAssumption DEF IInv, ToolchainStart, Raise, Handler,
        Here, Points, Sites, Early, Late
<1>0. Len(config.steps) \in Nat /\ config.vehicles \subseteq Vehicles
  BY ConfigFacts DEF TypeOK
<1>1. TypeOK'
  BY <1>0 DEF TypeOK
<1>2. CountInv'
  BY <1>0 DEF TypeOK, CountInv, Recorded
<1>3. RecordInv'
  BY <1>0 DEF TypeOK, RecordInv, Here
<1>4. RunInv'
  BY <1>0 DEF TypeOK, RunInv
<1>5. OpenInv'
  BY <1>0 DEF TypeOK, OpenInv, RunInv
<1>6. ToolInv'
  BY <1>0 DEF TypeOK, ToolInv
<1>7. ReportInv'
  BY <1>0 DEF TypeOK, ReportInv, ReportIsTruthful, CleanupFailsAlone, RunInv, ToolInv, OpenInv
<1> QED BY <1>1, <1>2, <1>3, <1>4, <1>5, <1>6, <1>7

LEMMA InitializeVehiclesKeeps == IInv /\ InitializeVehicles => IInv'
<1> SUFFICES ASSUME IInv, InitializeVehicles PROVE IInv'
  OBVIOUS
<1> USE VerificationAssumption DEF IInv, InitializeVehicles, StartCall,
        Here, Points, Sites, Early, Late
<1>0. Len(config.steps) \in Nat /\ config.vehicles \subseteq Vehicles
  BY ConfigFacts DEF TypeOK
<1>1. TypeOK'
  BY <1>0 DEF TypeOK
<1>2. CountInv'
  BY <1>0 DEF TypeOK, CountInv, Recorded
<1>3. RecordInv'
  BY <1>0 DEF TypeOK, RecordInv, Here
<1>4. RunInv'
  BY <1>0 DEF TypeOK, RunInv
<1>5. OpenInv'
  BY <1>0 DEF TypeOK, OpenInv, RunInv
<1>6. ToolInv'
  BY <1>0 DEF TypeOK, ToolInv
<1>7. ReportInv'
  BY <1>0 DEF TypeOK, ReportInv, ReportIsTruthful, CleanupFailsAlone, RunInv, ToolInv, OpenInv
<1> QED BY <1>1, <1>2, <1>3, <1>4, <1>5, <1>6, <1>7

LEMMA StartRecordingKeeps == IInv /\ StartRecording => IInv'
<1> SUFFICES ASSUME IInv, StartRecording PROVE IInv'
  OBVIOUS
<1> USE VerificationAssumption DEF IInv, StartRecording, Raise, Handler,
        Here, Points, Sites, Early, Late
<1>0. Len(config.steps) \in Nat /\ config.vehicles \subseteq Vehicles
  BY ConfigFacts DEF TypeOK
<1>1. TypeOK'
  BY <1>0 DEF TypeOK
<1>2. CountInv'
  BY <1>0 DEF TypeOK, CountInv, Recorded
<1>3. RecordInv'
  BY <1>0 DEF TypeOK, RecordInv, Here
<1>4. RunInv'
  BY <1>0 DEF TypeOK, RunInv
<1>5. OpenInv'
  BY <1>0 DEF TypeOK, OpenInv, RunInv
<1>6. ToolInv'
  BY <1>0 DEF TypeOK, ToolInv
<1>7. ReportInv'
  BY <1>0 DEF TypeOK, ReportInv, ReportIsTruthful, CleanupFailsAlone, RunInv, ToolInv, OpenInv
<1> QED BY <1>1, <1>2, <1>3, <1>4, <1>5, <1>6, <1>7

LEMMA ExecuteStepKeeps == IInv /\ ExecuteStep => IInv'
<1> SUFFICES ASSUME IInv, ExecuteStep PROVE IInv'
  OBVIOUS
<1> USE VerificationAssumption DEF IInv, ExecuteStep, Raise, StartCall, RecordEvent, Handler,
        Here, Points, Sites, Early, Late
<1>0. Len(config.steps) \in Nat /\ config.vehicles \subseteq Vehicles
  BY ConfigFacts DEF TypeOK
<1>8. step + 1 \in 1..Len(config.steps) /\ config.steps[step + 1].targets \subseteq Vehicles
  <2>1. step + 1 \in 1..Len(config.steps)
    BY <1>0 DEF TypeOK
  <2>2. config.steps \in Seq(Step)
    BY ConfigFacts DEF TypeOK
  <2>3. config.steps[step + 1] \in Step
    BY <2>1, <2>2, ElementOfSeq
  <2> QED BY <2>1, <2>3 DEF Step
<1>9. ASSUME config.steps[step + 1].kind = "wait" PROVE TypeOK' /\ CountInv'
  <2>1. /\ events' \in Seq(1..Len(config.steps))
        /\ Len(events) \in Nat /\ Len(events') = Len(events) + 1
        /\ \A i \in 1..Len(events) : events'[i] = events[i]
        /\ events'[Len(events) + 1] = step + 1
    <3>1. RecordEvent(step + 1)
      BY <1>9
    <3> QED BY <1>8, <3>1, RecordFacts
  <2>2. /\ pc = "step" /\ pc' = "step" /\ step' = step + 1 /\ config' = config
        /\ UNCHANGED <<failed, site, running, errors>>
    BY <1>9
  <2>3. TypeOK'
    BY <1>0, <1>8, <2>1, <2>2 DEF TypeOK
  <2>4. CountInv'
    <3>1. Recorded = step /\ Recorded' = step + 1 /\ step \in Nat
      BY <1>0, <2>2 DEF Recorded, TypeOK
    <3>2. failed = {} => Len(events') = Recorded' /\ \A i \in 1..Recorded' : events'[i] = i
      BY <2>1, <3>1 DEF CountInv
    <3> QED BY ONLY <2>2, <3>2 DEF CountInv, Here, Early, Late
  <2> QED BY <2>3, <2>4
<1>10. ASSUME config.steps[step + 1].kind # "wait" PROVE TypeOK' /\ CountInv'
  <2>1. /\ pc = "step" /\ step' = step + 1 /\ config' = config /\ events' = events
        /\ \/ /\ pc' = "stop_recording" /\ failed' = failed \cup {"step"}
              /\ UNCHANGED <<site, running, errors>>
           \/ /\ pc' = "join" /\ site' = "step" /\ failed' = failed /\ errors' = {}
              /\ running' = running \cup (config.steps[step + 1].targets \X {"step"})
    BY <1>10
  <2>2. TypeOK'
    <3>1. running' \subseteq Vehicles \X Sites /\ errors' \subseteq Vehicles
      BY <1>8, <2>1 DEF TypeOK
    <3>2. pc' \in Points /\ site' \in Sites /\ failed' \subseteq Points
      BY <2>1 DEF TypeOK
    <3>3. step' \in 0..Len(config'.steps) /\ events' \in Seq(1..Len(config'.steps))
      BY <1>0, <1>8, <2>1 DEF TypeOK
    <3> QED BY <2>1, <3>1, <3>2, <3>3 DEF TypeOK
  <2>3. CountInv'
    BY <1>0, <1>8, <2>1 DEF TypeOK, CountInv, Recorded
  <2> QED BY <2>2, <2>3
<1>11. TypeOK' /\ CountInv'
  BY <1>9, <1>10
<1>3. RecordInv'
  BY <1>0 DEF TypeOK, RecordInv, Here
<1>4. RunInv'
  BY <1>0 DEF TypeOK, RunInv
<1>5. OpenInv'
  BY <1>0 DEF TypeOK, OpenInv, RunInv
<1>6. ToolInv'
  BY <1>0 DEF TypeOK, ToolInv
<1>7. ReportInv'
  BY <1>0 DEF TypeOK, ReportInv, ReportIsTruthful, CleanupFailsAlone, RunInv, ToolInv, OpenInv
<1> QED BY <1>11, <1>3, <1>4, <1>5, <1>6, <1>7

LEMMA ScenarioEndsKeeps == IInv /\ ScenarioEnds => IInv'
<1> SUFFICES ASSUME IInv, ScenarioEnds PROVE IInv'
  OBVIOUS
<1> USE VerificationAssumption DEF IInv, ScenarioEnds,
        Here, Points, Sites, Early, Late
<1>0. Len(config.steps) \in Nat /\ config.vehicles \subseteq Vehicles
  BY ConfigFacts DEF TypeOK
<1>1. TypeOK'
  BY <1>0 DEF TypeOK
<1>2. CountInv'
  BY <1>0 DEF TypeOK, CountInv, Recorded
<1>3. RecordInv'
  BY <1>0 DEF TypeOK, RecordInv, Here
<1>4. RunInv'
  BY <1>0 DEF TypeOK, RunInv
<1>5. OpenInv'
  BY <1>0 DEF TypeOK, OpenInv, RunInv
<1>6. ToolInv'
  BY <1>0 DEF TypeOK, ToolInv
<1>7. ReportInv'
  BY <1>0 DEF TypeOK, ReportInv, ReportIsTruthful, CleanupFailsAlone, RunInv, ToolInv, OpenInv
<1> QED BY <1>1, <1>2, <1>3, <1>4, <1>5, <1>6, <1>7

LEMMA StopRecordingKeeps == IInv /\ StopRecording => IInv'
<1> SUFFICES ASSUME IInv, StopRecording PROVE IInv'
  OBVIOUS
<1> USE VerificationAssumption DEF IInv, StopRecording, Raise, Handler,
        Here, Points, Sites, Early, Late
<1>0. Len(config.steps) \in Nat /\ config.vehicles \subseteq Vehicles
  BY ConfigFacts DEF TypeOK
<1>1. TypeOK'
  BY <1>0 DEF TypeOK
<1>2. CountInv'
  BY <1>0 DEF TypeOK, CountInv, Recorded
<1>3. RecordInv'
  BY <1>0 DEF TypeOK, RecordInv, Here
<1>4. RunInv'
  BY <1>0 DEF TypeOK, RunInv
<1>5. OpenInv'
  BY <1>0 DEF TypeOK, OpenInv, RunInv
<1>6. ToolInv'
  BY <1>0 DEF TypeOK, ToolInv
<1>7. ReportInv'
  BY <1>0 DEF TypeOK, ReportInv, ReportIsTruthful, CleanupFailsAlone, RunInv, ToolInv, OpenInv
<1> QED BY <1>1, <1>2, <1>3, <1>4, <1>5, <1>6, <1>7

LEMMA ShutdownVehiclesKeeps == IInv /\ ShutdownVehicles => IInv'
<1> SUFFICES ASSUME IInv, ShutdownVehicles PROVE IInv'
  OBVIOUS
<1> USE VerificationAssumption DEF IInv, ShutdownVehicles, StartCall,
        Here, Points, Sites, Early, Late
<1>0. Len(config.steps) \in Nat /\ config.vehicles \subseteq Vehicles
  BY ConfigFacts DEF TypeOK
<1>1. TypeOK'
  BY <1>0 DEF TypeOK
<1>2. CountInv'
  BY <1>0 DEF TypeOK, CountInv, Recorded
<1>3. RecordInv'
  BY <1>0 DEF TypeOK, RecordInv, Here
<1>4. RunInv'
  BY <1>0 DEF TypeOK, RunInv
<1>5. OpenInv'
  BY <1>0 DEF TypeOK, OpenInv, RunInv
<1>6. ToolInv'
  BY <1>0 DEF TypeOK, ToolInv
<1>7. ReportInv'
  BY <1>0 DEF TypeOK, ReportInv, ReportIsTruthful, CleanupFailsAlone, RunInv, ToolInv, OpenInv
<1> QED BY <1>1, <1>2, <1>3, <1>4, <1>5, <1>6, <1>7

LEMMA CollectOfflineLogsKeeps == IInv /\ CollectOfflineLogs => IInv'
<1> SUFFICES ASSUME IInv, CollectOfflineLogs PROVE IInv'
  OBVIOUS
<1> USE VerificationAssumption DEF IInv, CollectOfflineLogs, Raise, Handler,
        Here, Points, Sites, Early, Late
<1>0. Len(config.steps) \in Nat /\ config.vehicles \subseteq Vehicles
  BY ConfigFacts DEF TypeOK
<1>1. TypeOK'
  BY <1>0 DEF TypeOK
<1>2. CountInv'
  BY <1>0 DEF TypeOK, CountInv, Recorded
<1>3. RecordInv'
  BY <1>0 DEF TypeOK, RecordInv, Here
<1>4. RunInv'
  BY <1>0 DEF TypeOK, RunInv
<1>5. OpenInv'
  BY <1>0 DEF TypeOK, OpenInv, RunInv
<1>6. ToolInv'
  BY <1>0 DEF TypeOK, ToolInv
<1>7. ReportInv'
  BY <1>0 DEF TypeOK, ReportInv, ReportIsTruthful, CleanupFailsAlone, RunInv, ToolInv, OpenInv
<1> QED BY <1>1, <1>2, <1>3, <1>4, <1>5, <1>6, <1>7

LEMMA ToolchainStopKeeps == IInv /\ ToolchainStop => IInv'
<1> SUFFICES ASSUME IInv, ToolchainStop PROVE IInv'
  OBVIOUS
<1> USE VerificationAssumption DEF IInv, ToolchainStop, Leave,
        Here, Points, Sites, Early, Late
<1>0. Len(config.steps) \in Nat /\ config.vehicles \subseteq Vehicles
  BY ConfigFacts DEF TypeOK
<1>1. TypeOK'
  BY <1>0 DEF TypeOK
<1>2. CountInv'
  BY <1>0 DEF TypeOK, CountInv, Recorded
<1>3. RecordInv'
  BY <1>0 DEF TypeOK, RecordInv, Here
<1>4. RunInv'
  BY <1>0 DEF TypeOK, RunInv
<1>5. OpenInv'
  BY <1>0 DEF TypeOK, OpenInv, RunInv
<1>6. ToolInv'
  BY <1>0 DEF TypeOK, ToolInv
<1>7. ReportInv'
  BY <1>0 DEF TypeOK, ReportInv, ReportIsTruthful, CleanupFailsAlone, RunInv, ToolInv, OpenInv
<1> QED BY <1>1, <1>2, <1>3, <1>4, <1>5, <1>6, <1>7

LEMMA WriteReportKeeps == IInv /\ WriteReport => IInv'
<1> SUFFICES ASSUME IInv, WriteReport PROVE IInv'
  OBVIOUS
<1> USE VerificationAssumption DEF IInv, WriteReport, Raise, Handler,
        Here, Points, Sites, Early, Late
<1>0. Len(config.steps) \in Nat /\ config.vehicles \subseteq Vehicles
  BY ConfigFacts DEF TypeOK
<1>1. TypeOK'
  BY <1>0 DEF TypeOK
<1>2. CountInv'
  BY <1>0 DEF TypeOK, CountInv, Recorded
<1>3. RecordInv'
  BY <1>0 DEF TypeOK, RecordInv, Here
<1>4. RunInv'
  BY <1>0 DEF TypeOK, RunInv
<1>5. OpenInv'
  BY <1>0 DEF TypeOK, OpenInv, RunInv
<1>6. ToolInv'
  BY <1>0 DEF TypeOK, ToolInv
<1>7. ReportInv'
  <2>1. CASE report'
    <3>1. pc = "report" /\ failed = {} /\ interrupts = 0 /\ pc' = "done" /\ failed' = failed
      BY <2>1 DEF TypeOK, ReportInv, RunInv
    <3>2. events = [i \in 1..Len(config.steps) |-> i]
      <4>1. Len(events) = Len(config.steps) /\ \A i \in 1..Len(config.steps) : events[i] = i
        BY <3>1 DEF CountInv, Recorded
      <4>2. events \in [1..Len(events) -> 1..Len(config.steps)]
        BY LenProperties DEF TypeOK
      <4> QED BY <4>1, <4>2
    <3>3. data_log = config.recording
      <4>1. data_log \in BOOLEAN /\ config.recording \in BOOLEAN
        BY ConfigFacts DEF TypeOK
      <4>2. data_log <=> config.recording
        BY <3>1 DEF RecordInv
      <4> QED BY ONLY <4>1, <4>2
    <3>4. opened \subseteq errors /\ running = {}
      <4>1. opened \subseteq errors
        BY <3>1 DEF OpenInv
      <4>2. \A v \in Vehicles, s \in Sites : <<v, s>> \notin running
        BY <3>1 DEF RunInv
      <4>3. running \subseteq Vehicles \X Sites
        BY DEF TypeOK
      <4>4. ASSUME NEW w \in running PROVE FALSE
        <5>1. PICK v \in Vehicles, s \in Sites : w = <<v, s>>
          BY <4>3, <4>4
        <5> QED BY <4>2, <5>1
      <4> QED BY <4>1, <4>4
    <3>5. config.stop_on_exit => toolchain # "running"
      BY <3>1 DEF ToolInv
    <3> QED BY <3>1, <3>2, <3>3, <3>4, <3>5 DEF ReportInv, ReportIsTruthful, CleanupFailsAlone
  <2>2. CASE ~report'
    BY <2>2 DEF TypeOK, ReportInv, ReportIsTruthful, CleanupFailsAlone, OpenInv, ToolInv
  <2> QED BY <2>1, <2>2
<1> QED BY <1>1, <1>2, <1>3, <1>4, <1>5, <1>6, <1>7

LEMMA JoinReturnsKeeps == IInv /\ JoinReturns => IInv'
<1> SUFFICES ASSUME IInv, JoinReturns PROVE IInv'
  OBVIOUS
<1> USE VerificationAssumption DEF IInv, JoinReturns, Raise, After, RecordEvent, Handler,
        Here, Points, Sites, Early, Late
<1>0. Len(config.steps) \in Nat /\ config.vehicles \subseteq Vehicles
  BY ConfigFacts DEF TypeOK
<1>8. ASSUME site = "step" /\ errors = {} PROVE TypeOK' /\ CountInv'
  <2>1. step \in 1..Len(config.steps)
    BY <1>0, <1>8 DEF TypeOK, CountInv
  <2>2. /\ events' \in Seq(1..Len(config.steps))
        /\ Len(events) \in Nat /\ Len(events') = Len(events) + 1
        /\ \A i \in 1..Len(events) : events'[i] = events[i]
        /\ events'[Len(events) + 1] = step
    <3>1. RecordEvent(step)
      BY <1>8
    <3> QED BY <2>1, <3>1, RecordFacts
  <2>3. pc = "join" /\ pc' = "step" /\ UNCHANGED <<config, site, failed, step>>
    BY <1>8
  <2>4. TypeOK'
    BY <1>0, <2>2, <2>3 DEF TypeOK
  <2>5. CountInv'
    <3>1. Recorded = step - 1 /\ Recorded' = step /\ step \in Nat
      BY <1>8, <2>1, <2>3 DEF Recorded
    <3>2. failed = {} => Len(events') = Recorded' /\ \A i \in 1..Recorded' : events'[i] = i
      BY <2>2, <3>1 DEF CountInv
    <3> QED BY <2>3, <3>2 DEF CountInv
  <2> QED BY <2>4, <2>5
<1>9. ASSUME site # "step" \/ errors # {} PROVE TypeOK' /\ CountInv'
  <2>1. events' = events
    BY <1>9 DEF TypeOK
  <2>2. TypeOK'
    BY <1>0, <1>9, <2>1 DEF TypeOK
  <2>3. CountInv'
    BY <1>0, <1>9, <2>1 DEF TypeOK, CountInv, Recorded
  <2> QED BY <2>2, <2>3
<1>11. TypeOK' /\ CountInv'
  BY <1>8, <1>9
<1>3. RecordInv'
  BY <1>0 DEF TypeOK, RecordInv, Here
<1>4. RunInv'
  BY <1>0 DEF TypeOK, RunInv
<1>5. OpenInv'
  BY <1>0 DEF TypeOK, OpenInv, RunInv
<1>6. ToolInv'
  BY <1>0 DEF TypeOK, ToolInv
<1>7. ReportInv'
  BY <1>0 DEF TypeOK, ReportInv, ReportIsTruthful, CleanupFailsAlone, RunInv, ToolInv, OpenInv
<1> QED BY <1>11, <1>3, <1>4, <1>5, <1>6, <1>7

LEMMA ToolchainExitsKeeps == IInv /\ ToolchainExits => IInv'
<1> SUFFICES ASSUME IInv, ToolchainExits PROVE IInv'
  OBVIOUS
<1> USE VerificationAssumption DEF IInv, ToolchainExits,
        Here, Points, Sites, Early, Late
<1>0. Len(config.steps) \in Nat /\ config.vehicles \subseteq Vehicles
  BY ConfigFacts DEF TypeOK
<1>1. TypeOK'
  BY <1>0 DEF TypeOK
<1>2. CountInv'
  BY <1>0 DEF TypeOK, CountInv, Recorded
<1>3. RecordInv'
  BY <1>0 DEF TypeOK, RecordInv, Here
<1>4. RunInv'
  BY <1>0 DEF TypeOK, RunInv
<1>5. OpenInv'
  BY <1>0 DEF TypeOK, OpenInv, RunInv
<1>6. ToolInv'
  BY <1>0 DEF TypeOK, ToolInv
<1>7. ReportInv'
  BY <1>0 DEF TypeOK, ReportInv, ReportIsTruthful, CleanupFailsAlone, RunInv, ToolInv, OpenInv
<1> QED BY <1>1, <1>2, <1>3, <1>4, <1>5, <1>6, <1>7

LEMMA InterruptKeeps == IInv /\ Interrupt => IInv'
<1> SUFFICES ASSUME IInv, Interrupt PROVE IInv'
  OBVIOUS
<1> USE VerificationAssumption DEF IInv, Interrupt, Raise, Handler,
        Here, Points, Sites, Early, Late
<1>0. Len(config.steps) \in Nat /\ config.vehicles \subseteq Vehicles
  BY ConfigFacts DEF TypeOK
<1>1. TypeOK'
  BY <1>0 DEF TypeOK
<1>2. CountInv'
  BY <1>0 DEF TypeOK, CountInv, Recorded
<1>3. RecordInv'
  BY <1>0 DEF TypeOK, RecordInv, Here
<1>4. RunInv'
  BY <1>0 DEF TypeOK, RunInv
<1>5. OpenInv'
  BY <1>0 DEF TypeOK, OpenInv, RunInv
<1>6. ToolInv'
  BY <1>0 DEF TypeOK, ToolInv
<1>7. ReportInv'
  BY <1>0 DEF TypeOK, ReportInv, ReportIsTruthful, CleanupFailsAlone, RunInv, ToolInv, OpenInv
<1> QED BY <1>1, <1>2, <1>3, <1>4, <1>5, <1>6, <1>7

LEMMA WorkerReturnsKeeps ==
    ASSUME IInv, NEW v \in Vehicles, NEW s \in Sites, WorkerReturns(v, s)
    PROVE  IInv'
<1> USE VerificationAssumption DEF IInv, WorkerReturns, Effect, Sites, Here
<1>0. Len(config.steps) \in Nat /\ config.vehicles \subseteq Vehicles
  BY ConfigFacts DEF TypeOK
<1>1. TypeOK'
  BY <1>0 DEF TypeOK
<1>2. CountInv'
  BY <1>0 DEF TypeOK, CountInv, Recorded
<1>3. RecordInv'
  BY <1>0 DEF TypeOK, RecordInv, Here
<1>4. RunInv'
  BY <1>0 DEF TypeOK, RunInv
<1>5. OpenInv'
  BY <1>0 DEF TypeOK, OpenInv, RunInv
<1>6. ToolInv'
  BY <1>0 DEF TypeOK, ToolInv
<1>7. ReportInv'
  BY <1>0 DEF TypeOK, ReportInv, ReportIsTruthful, CleanupFailsAlone, RunInv, ToolInv, OpenInv
<1> QED BY <1>1, <1>2, <1>3, <1>4, <1>5, <1>6, <1>7

LEMMA WorkerRaisesKeeps ==
    ASSUME IInv, NEW v \in Vehicles, NEW s \in Sites, WorkerRaises(v, s)
    PROVE  IInv'
<1> USE VerificationAssumption DEF IInv, WorkerRaises, Effect, Sites, Here
<1>0. Len(config.steps) \in Nat /\ config.vehicles \subseteq Vehicles
  BY ConfigFacts DEF TypeOK
<1>1. TypeOK'
  BY <1>0 DEF TypeOK
<1>2. CountInv'
  BY <1>0 DEF TypeOK, CountInv, Recorded
<1>3. RecordInv'
  BY <1>0 DEF TypeOK, RecordInv, Here
<1>4. RunInv'
  BY <1>0 DEF TypeOK, RunInv
<1>5. OpenInv'
  BY <1>0 DEF TypeOK, OpenInv, RunInv
<1>6. ToolInv'
  BY <1>0 DEF TypeOK, ToolInv
<1>7. ReportInv'
  BY <1>0 DEF TypeOK, ReportInv, ReportIsTruthful, CleanupFailsAlone, RunInv, ToolInv, OpenInv
<1> QED BY <1>1, <1>2, <1>3, <1>4, <1>5, <1>6, <1>7

LEMMA NextKeeps == IInv /\ [Next]_vars => IInv'
<1> SUFFICES ASSUME IInv, [Next]_vars PROVE IInv'
  OBVIOUS
<1>1. CASE UNCHANGED vars \/ Finished
  BY <1>1 DEF Finished, vars, Here, IInv, TypeOK, CountInv, Recorded, RecordInv, RunInv, OpenInv,
              ToolInv, ReportInv, ReportIsTruthful, CleanupFailsAlone
<1>2. CASE Main
  BY <1>2, BuildVehiclesKeeps, ToolchainStartKeeps, InitializeVehiclesKeeps,
     StartRecordingKeeps, ExecuteStepKeeps, ScenarioEndsKeeps, StopRecordingKeeps,
     ShutdownVehiclesKeeps, CollectOfflineLogsKeeps, ToolchainStopKeeps, WriteReportKeeps,
     JoinReturnsKeeps DEF Main
<1>3. CASE \E v \in Vehicles, s \in Sites : Worker(v, s)
  BY <1>3, WorkerReturnsKeeps, WorkerRaisesKeeps DEF Worker
<1>4. CASE ToolchainExits \/ Interrupt
  BY <1>4, ToolchainExitsKeeps, InterruptKeeps
<1> QED BY <1>1, <1>2, <1>3, <1>4 DEF Next

(* Whatever fails or is interrupted, IInv holds.                           *)
LEMMA Invariance == Spec => []IInv
BY InitHolds, NextKeeps, PTL DEF Spec
-----------------------------------------------------------------------------
(* Every attribute keeps its type: events are recorded for steps of the    *)
(* scenario only, and main raises at known control points.                 *)
THEOREM TypeCorrect == Spec => []TypeOK
<1>1. IInv => TypeOK
  BY DEF IInv
<1> QED BY <1>1, Invariance, PTL

(* The JSON report exists only after a run in which every step of the      *)
(* scenario has its event, the workbook was written if recording is on,    *)
(* every vehicle is disconnected unless its own shutdown raised, no worker *)
(* is left and no toolchain that was to be stopped: whatever the scenario, *)
(* the fleet, and the moments of interrupts.                               *)
THEOREM ReportTruthful == Spec => []ReportIsTruthful
<1>1. IInv => ReportIsTruthful
  BY DEF IInv, ReportInv
<1> QED BY <1>1, Invariance, PTL

(* A run that was not interrupted leaves a vehicle connected only if the   *)
(* workbook could not be written, and a toolchain only if that or the log  *)
(* collection failed; no step of any scenario makes it so.                 *)
THEOREM CleanupComplete == Spec => []CleanupFailsAlone
<1>1. IInv => CleanupFailsAlone
  BY DEF IInv, ReportInv
<1> QED BY <1>1, Invariance, PTL
=============================================================================
