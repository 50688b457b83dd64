----------------------- MODULE CollectionRunner_proofs -----------------------
(***************************************************************************)
(* Theorems about CollectionRunner, for every fleet, every set of configs  *)
(* and any number of interrupts.                                           *)
(***************************************************************************)
EXTENDS CollectionRunner, TLAPS

(* The inductive invariants behind the theorems.  Each is implied by no     *)
(* single action: they relate pc, the live workers and what main has done.  *)

SettingUp == Here \in {"build", "toolchain_start", "initialize"}
Flying    == Here \in {"step", "record"}
Cleaning  == Here \in {"stop_recording", "clear", "collect"}

\* An exception is pending after an interrupt, and never while vehicles are
\* set up or a round is in the air; workers are joined before main moves on.
ControlInv ==
  /\ interrupts # 0 => raised
  /\ SettingUp \/ pc = "round_start" \/ Flying => ~raised
  /\ WorkersAreJoined

\* The indices of the current round and step are in range while they are in
\* use.
RangeInv ==
  /\ round \in 0..Rounds
  /\ Flying \/ Cleaning => round >= 1 /\ step \in 0..Len(Steps)
  /\ pc = "record" \/ (pc = "join" /\ site = "step") => step >= 1

\* Every live worker belongs to a vehicle its call was made for; a step's
\* worker belongs to the current step, whose phase is the current label.
WorkerInv ==
  /\ \A v \in Vehicles, s \in Sites : <<v, s>> \in running => v \in config.vehicles
  /\ \A v \in Vehicles : <<v, "step">> \in running =>
       round >= 1 /\ step \in 1..Len(Steps) /\ v \in Targets(CurStep)

\* Which real vehicles may still be under a fault at each point of the
\* clean-up: those the clear worker has not reached yet, or failed on.
FaultInv ==
  /\ SettingUp => faulted = {}
  /\ interrupts = 0 /\ pc = "join" /\ site = "clear" =>
       \A v \in faulted \cap RealVehicles(config) :
         v \in errors \/ <<v, "clear">> \in running
  /\ interrupts = 0 /\ pc = "collect" => faulted \cap RealVehicles(config) \subseteq errors
  /\ RoundStartsFaultFree

\* The same for connections during the shutdown.
OpenInv ==
  /\ opened \subseteq config.vehicles
  /\ pc \in {"build", "toolchain_start", "initialize"} => opened = {}
  /\ interrupts = 0 /\ pc = "join" /\ site = "shutdown" =>
       \A v \in opened : v \in errors \/ <<v, "shutdown">> \in running
  /\ interrupts = 0 /\ pc = "toolchain_stop" => opened \subseteq errors
  /\ interrupts = 0 /\ pc = "done" => NothingLeftOpen

\* self.recorder is None whenever no round is in the air or being closed.
RecorderInv ==
  SettingUp \/ Here \in {"round_start", "clear", "collect"} => recorder = "none"

\* No toolchain process exists before it is started, and none that must be
\* stopped is left at the end.
ToolchainInv ==
  /\ interrupts = 0 /\ pc \in {"build", "toolchain_start"} => toolchain = "none"
  /\ interrupts = 0 /\ pc = "done" => ToolchainStopped

\* Every workbook belongs to a round already flown; the current round's is
\* written only by its own clean-up.
LogInv ==
  /\ \A i \in DOMAIN data_logs : \E r \in 1..round :
       /\ data_logs[i][1] = config.timelines[r].case
       /\ Flying \/ pc = "stop_recording" => r < round
  /\ DistinctCasesKeepTheirLogs

\* How many steps of the round have been executed and recorded after, how many
\* rounds have closed their recorder, and how many their clean-up.
Executed  == IF pc = "record" \/ (pc = "join" /\ site = "step") THEN step - 1 ELSE step
Closed    == IF Flying \/ pc = "stop_recording" THEN round - 1 ELSE round
Collected == IF Flying \/ Cleaning THEN round - 1 ELSE round

\* As long as nothing has raised, no timeline has been passed over, ...
TimelineInv ==
  /\ SettingUp => round = 0
  /\ ~raised /\ pc = "stop_recording" => step = Len(Steps)
  /\ ~raised /\ Here \in {"shutdown", "toolchain_stop", "done"} => round = Rounds

\* ... the recorder samples since the first arm of the round, ...
SamplingInv ==
  ~raised /\ (Flying \/ pc = "stop_recording") =>
    recorder = IF \A i \in 1..Executed : Steps[i].action # "arm" THEN "none"
               ELSE IF config.recording THEN "sampling" ELSE "disabled"

\* ... and the logs of the rounds closed so far are there.
ReturnInv ==
  ~raised =>
    /\ LogsOfRounds(Closed)
    /\ offline = IF Collects(config) THEN [r \in 1..Collected |-> r] ELSE <<>>

-----------------------------------------------------------------------------
\* What the assumption says about the one config of a run.
LEMMA ConfigFacts ==
  ASSUME NEW c \in Configs
  PROVE  /\ c \in Config
         /\ c.vehicles \subseteq Vehicles
         /\ c.timelines \in Seq(Timeline)
         /\ Len(c.timelines) \in Nat
         /\ \A r \in 1..Len(c.timelines) :
              /\ c.timelines[r] \in Timeline
              /\ c.timelines[r].case \in Cases
              /\ c.timelines[r].steps \in Seq(Step)
              /\ Len(c.timelines[r].steps) \in Nat
              /\ \A i \in 1..Len(c.timelines[r].steps) : c.timelines[r].steps[i] \in Step
         /\ RealVehicles(c) \subseteq c.vehicles
<1>1. c \in Config BY ConstantsAssumption
<1>2. c.timelines \in Seq(Timeline) /\ c.vehicles \subseteq Vehicles
  BY <1>1 DEF Config
<1>3. ASSUME NEW r \in 1..Len(c.timelines)
      PROVE  /\ c.timelines[r] \in Timeline
             /\ c.timelines[r].case \in Cases
             /\ c.timelines[r].steps \in Seq(Step)
             /\ Len(c.timelines[r].steps) \in Nat
             /\ \A i \in 1..Len(c.timelines[r].steps) : c.timelines[r].steps[i] \in Step
  <2>1. c.timelines[r] \in Timeline BY <1>2
  <2>2. c.timelines[r].case \in Cases /\ c.timelines[r].steps \in Seq(Step)
    BY <2>1 DEF Timeline
  <2>. QED BY <2>1, <2>2
<1>4. Len(c.timelines) \in Nat BY <1>2
<1>. QED BY <1>1, <1>2, <1>3, <1>4 DEF RealVehicles

-----------------------------------------------------------------------------
\* The invariants of the type and of the indices are inductive together: the
\* type of a phase label rests on the indices being in range.
LEMMA TypeInductive ==
  TypeOK /\ RangeInv /\ [Next]_vars => (TypeOK /\ RangeInv)'
<1> SUFFICES ASSUME TypeOK, RangeInv, [Next]_vars
             PROVE  (TypeOK /\ RangeInv)'
  OBVIOUS
<1>1. TypeOK'
  <2> USE ConfigFacts, ConstantsAssumption DEF TypeOK, callVars, roundVars, logVars, vehVars, Points, Sites, Here
  <2>1. CASE BuildVehicles
      BY <2>1
      DEF BuildVehicles, Raise, Here, Handler
  <2>2. CASE ToolchainStart
      BY <2>2
      DEF ToolchainStart, Raise, Here, Handler
  <2>3. CASE InitializeVehicles
      BY <2>3
      DEF InitializeVehicles, StartCall
  <2>4. CASE RoundStart
      BY <2>4
      DEF RoundStart, SetPhase
  <2>5. CASE ExecuteStep
    <3> DEFINE st == Steps[step + 1]
    <3>0. round \in 1..Rounds /\ step + 1 \in 1..Len(Steps)
      BY <2>5 DEF ExecuteStep, RangeInv, Flying, Steps, Rounds
    <3>8. st \in Step
      BY <3>0, ConfigFacts DEF Steps, Rounds
    <3>1. st \in Step /\ st.action \in Actions /\ st.names \subseteq Names
      BY <3>8 DEF Step
    <3>2. phase' = [round |-> round, index |-> step + 1, action |-> st.action]
      BY <2>5 DEF ExecuteStep, SetPhase
    <3>3. phase' \in [round : Nat, index : Nat, action : Actions \cup {"none", "not_started"}]
      BY <3>1, <3>2
    <3>4. ~RaisesEarly(st) /\ st.action # "wait" => Targets(st) \subseteq Vehicles
      BY <3>1 DEF RaisesEarly, Targets, RealVehicles
    <3>5. pc' \in Points /\ site' \in Sites /\ raised' \in BOOLEAN
      BY <2>5 DEF ExecuteStep, Raise, Handler, StartCall
    <3>6. running' \subseteq Vehicles \X Sites /\ errors' \subseteq Vehicles
      BY <2>5, <3>4 DEF ExecuteStep, StartCall
    <3>7. step' \in Nat
      BY <2>5 DEF ExecuteStep
    <3>. QED BY <2>5, <3>3, <3>5, <3>6, <3>7 DEF ExecuteStep
  <2>6. CASE TimelineEnds
      BY <2>6
      DEF TimelineEnds
  <2>7. CASE StartRecording
      BY <2>7
      DEF StartRecording, Raise, Here, Handler
  <2>8. CASE StopRecording
    <3>0. round \in 1..Rounds
      BY <2>8 DEF StopRecording, RangeInv, Cleaning, Rounds
    <3>1. Workbook \in Cases \X Nat
      BY <3>0 DEF Workbook, Rounds
    <3>2. Append(data_logs, Workbook) \in Seq(Cases \X Nat)
      BY <3>1
    <3>3. files' \subseteq Cases \X Nat /\ data_logs' \in Seq(Cases \X Nat)
      BY <2>8, <3>1, <3>2 DEF StopRecording
    <3>. QED BY <2>8, <3>3 DEF StopRecording, Raise, Handler
  <2>9. CASE ClearRealFaults
      BY <2>9
      DEF ClearRealFaults, StartCall, RealVehicles
  <2>10. CASE CollectOfflineLogs
    <3>1. Append(offline, round) \in Seq(Nat)
      OBVIOUS
    <3>2. offline' \in Seq(Nat)
      BY <2>10, <3>1 DEF CollectOfflineLogs
    <3>. QED BY <2>10, <3>2 DEF CollectOfflineLogs, Raise, Handler
  <2>11. CASE ShutdownVehicles
      BY <2>11
      DEF ShutdownVehicles, StartCall
  <2>12. CASE ToolchainStop
      BY <2>12
      DEF ToolchainStop
  <2>13. CASE JoinReturns
      BY <2>13
      DEF JoinReturns, Raise, Here, Handler, After
  <2>14. ASSUME NEW v \in Vehicles, NEW s \in Sites, WorkerReturns(v, s)
         PROVE  TypeOK'
      BY <2>14
      DEF WorkerReturns, Effect
  <2>15. ASSUME NEW v \in Vehicles, NEW s \in Sites, WorkerRaises(v, s)
         PROVE  TypeOK'
      BY <2>15
      DEF WorkerRaises, Effect
  <2>16. CASE ToolchainExits
      BY <2>16
      DEF ToolchainExits
  <2>17. CASE Interrupt
      BY <2>17
      DEF Interrupt, Raise, Here, Handler
  <2>18. CASE UNCHANGED vars
      BY <2>18
      DEF vars
  <2>. QED BY <2>1, <2>2, <2>3, <2>4, <2>5, <2>6, <2>7, <2>8, <2>9, <2>10, <2>11, <2>12, <2>13, <2>14, <2>15, <2>16, <2>17, <2>18 DEF Next, Main, Worker, Finished
<1>2. RangeInv'
  <2> USE ConfigFacts DEF TypeOK, RangeInv, callVars, roundVars, logVars, vehVars, Flying, Cleaning, Here, Rounds, Steps
  <2>1. CASE BuildVehicles
      BY <2>1
      DEF BuildVehicles, Raise, Here, Handler
  <2>2. CASE ToolchainStart
      BY <2>2
      DEF ToolchainStart, Raise, Here, Handler
  <2>3. CASE InitializeVehicles
      BY <2>3
      DEF InitializeVehicles, StartCall
  <2>4. CASE RoundStart
    <3>1. CASE round < Rounds
      <4>0. round + 1 \in 1..Len(config.timelines)
        BY <3>1
      <4>1. Len(config.timelines[round + 1].steps) \in Nat
        BY <4>0, ConfigFacts
      <4>. QED BY <2>4, <3>1, <4>1 DEF RoundStart
    <3>2. CASE ~(round < Rounds)
      BY <2>4, <3>2 DEF RoundStart
    <3>. QED BY <3>1, <3>2
  <2>5. CASE ExecuteStep
      BY <2>5
      DEF ExecuteStep, SetPhase, Raise, Here, Handler, StartCall
  <2>6. CASE TimelineEnds
      BY <2>6
      DEF TimelineEnds
  <2>7. CASE StartRecording
      BY <2>7
      DEF StartRecording, Raise, Here, Handler
  <2>8. CASE StopRecording
      BY <2>8
      DEF StopRecording, Raise, Here, Handler, Workbook
  <2>9. CASE ClearRealFaults
      BY <2>9
      DEF ClearRealFaults, StartCall
  <2>10. CASE CollectOfflineLogs
      BY <2>10
      DEF CollectOfflineLogs, Raise, Here, Handler
  <2>11. CASE ShutdownVehicles
      BY <2>11
      DEF ShutdownVehicles, StartCall
  <2>12. CASE ToolchainStop
      BY <2>12
      DEF ToolchainStop
  <2>13. CASE JoinReturns
      BY <2>13
      DEF JoinReturns, Raise, Here, Handler, After
  <2>14. ASSUME NEW v \in Vehicles, NEW s \in Sites, WorkerReturns(v, s)
         PROVE  RangeInv'
      BY <2>14
      DEF WorkerReturns, Effect
  <2>15. ASSUME NEW v \in Vehicles, NEW s \in Sites, WorkerRaises(v, s)
         PROVE  RangeInv'
      BY <2>15
      DEF WorkerRaises, Effect
  <2>16. CASE ToolchainExits
      BY <2>16
      DEF ToolchainExits
  <2>17. CASE Interrupt
      BY <2>17
      DEF Interrupt, Raise, Here, Handler
  <2>18. CASE UNCHANGED vars
      BY <2>18
      DEF vars
  <2>. QED BY <2>1, <2>2, <2>3, <2>4, <2>5, <2>6, <2>7, <2>8, <2>9, <2>10, <2>11, <2>12, <2>13, <2>14, <2>15, <2>16, <2>17, <2>18 DEF Next, Main, Worker, Finished
<1>. QED BY <1>1, <1>2

\* Type correctness: every variable of the runner keeps its type.
THEOREM TypeCorrect == Spec => [](TypeOK /\ RangeInv)
<1>1. Init => TypeOK
  <2> SUFFICES ASSUME Init PROVE TypeOK
    OBVIOUS
  <2>1. phase \in [round : Nat, index : Nat, action : Actions \cup {"none", "not_started"}]
    BY DEF Init
  <2>2. data_logs \in Seq(Cases \X Nat) /\ offline \in Seq(Nat)
    BY DEF Init
  <2>. QED BY <2>1, <2>2 DEF Init, TypeOK, Points, Sites
<1>2. Init => RangeInv
  BY ConfigFacts DEF Init, RangeInv, Flying, Cleaning, Here, Rounds
<1>. QED BY <1>1, <1>2, TypeInductive, PTL DEF Spec

-----------------------------------------------------------------------------
\* Workers are joined before main moves on, and an exception never pends
\* outside a finally block.
LEMMA ControlInductive ==
  TypeOK /\ ControlInv /\ [Next]_vars => ControlInv'
<1> SUFFICES ASSUME TypeOK, ControlInv, [Next]_vars
             PROVE  ControlInv'
  OBVIOUS
<1> USE DEF TypeOK, ControlInv, WorkersAreJoined, SettingUp, Flying, Here, Sites, Points, callVars, roundVars, logVars, vehVars
<1>1. CASE BuildVehicles
    BY <1>1
    DEF BuildVehicles, Raise, Here, Handler
<1>2. CASE ToolchainStart
    BY <1>2
    DEF ToolchainStart, Raise, Here, Handler
<1>3. CASE InitializeVehicles
    BY <1>3
    DEF InitializeVehicles, StartCall
<1>4. CASE RoundStart
    BY <1>4
    DEF RoundStart, SetPhase
<1>5. CASE ExecuteStep
    BY <1>5
    DEF ExecuteStep, SetPhase, Raise, Here, Handler, StartCall
<1>6. CASE TimelineEnds
    BY <1>6
    DEF TimelineEnds
<1>7. CASE StartRecording
    BY <1>7
    DEF StartRecording, Raise, Here, Handler
<1>8. CASE StopRecording
    BY <1>8
    DEF StopRecording, Raise, Here, Handler, Workbook
<1>9. CASE ClearRealFaults
    BY <1>9
    DEF ClearRealFaults, StartCall
<1>10. CASE CollectOfflineLogs
    BY <1>10
    DEF CollectOfflineLogs, Raise, Here, Handler
<1>11. CASE ShutdownVehicles
    BY <1>11
    DEF ShutdownVehicles, StartCall
<1>12. CASE ToolchainStop
    BY <1>12
    DEF ToolchainStop
<1>13. CASE JoinReturns
    BY <1>13
    DEF JoinReturns, Raise, Here, Handler, After
<1>14. ASSUME NEW v \in Vehicles, NEW s \in Sites, WorkerReturns(v, s)
       PROVE  ControlInv'
    BY <1>14
    DEF WorkerReturns, Effect
<1>15. ASSUME NEW v \in Vehicles, NEW s \in Sites, WorkerRaises(v, s)
       PROVE  ControlInv'
    BY <1>15
    DEF WorkerRaises, Effect
<1>16. CASE ToolchainExits
    BY <1>16
    DEF ToolchainExits
<1>17. CASE Interrupt
    BY <1>17
    DEF Interrupt, Raise, Here, Handler
<1>18. CASE UNCHANGED vars
    BY <1>18
    DEF vars
<1>. QED BY <1>1, <1>2, <1>3, <1>4, <1>5, <1>6, <1>7, <1>8, <1>9, <1>10, <1>11, <1>12, <1>13, <1>14, <1>15, <1>16, <1>17, <1>18 DEF Next, Main, Worker, Finished

\* _parallel_call joins what it starts: without an interrupt no backend call is
\* live outside the join of its own call.
THEOREM WorkersJoined == Spec => [](ControlInv /\ WorkersAreJoined)
<1>1. Init => ControlInv
  BY DEF Init, ControlInv, WorkersAreJoined
<1>2. ControlInv => WorkersAreJoined BY DEF ControlInv
<1>. QED BY <1>1, <1>2, ControlInductive, TypeCorrect, PTL DEF Spec

-----------------------------------------------------------------------------
\* A live worker belongs to a vehicle its call was made for.
LEMMA WorkerInductive ==
  TypeOK /\ RangeInv /\ ControlInv /\ WorkerInv /\ [Next]_vars => WorkerInv'
<1> SUFFICES ASSUME TypeOK, RangeInv, ControlInv, WorkerInv, [Next]_vars
             PROVE  WorkerInv'
  OBVIOUS
<1> USE ConfigFacts DEF TypeOK, ControlInv, WorkersAreJoined, WorkerInv, RangeInv, SettingUp, Flying, Cleaning, Here, Sites, Points, Steps, CurStep, Rounds, Targets, callVars, roundVars, logVars, vehVars
<1>1. CASE BuildVehicles
    BY <1>1
    DEF BuildVehicles, Raise, Here, Handler
<1>2. CASE ToolchainStart
    BY <1>2
    DEF ToolchainStart, Raise, Here, Handler
<1>3. CASE InitializeVehicles
    BY <1>3
    DEF InitializeVehicles, StartCall
<1>4. CASE RoundStart
    BY <1>4
    DEF RoundStart, SetPhase
<1>5. CASE ExecuteStep
  <2> DEFINE st == Steps[step + 1]
  <2>1. running = {} /\ UNCHANGED <<config, round>> /\ step' = step + 1
    BY <1>5 DEF ExecuteStep
  <2>2. round >= 1 /\ step + 1 \in 1..Len(Steps)
    BY <1>5 DEF ExecuteStep
  <2>3. running' = {} \/ (~RaisesEarly(st) /\ st.action # "wait" /\ running' = Targets(st) \X {"step"})
    BY <1>5, <2>1 DEF ExecuteStep, StartCall
  <2>4. ~RaisesEarly(st) /\ st.action # "wait" => Targets(st) \subseteq config.vehicles
    BY DEF RaisesEarly
  <2>5. CurStep' = st /\ Len(Steps)' = Len(Steps)
    BY <2>1
  <2>6. Targets(CurStep)' = Targets(st)
    BY <2>1, <2>5
  <2>. QED BY <2>1, <2>2, <2>3, <2>4, <2>5, <2>6
<1>6. CASE TimelineEnds
    BY <1>6
    DEF TimelineEnds
<1>7. CASE StartRecording
    BY <1>7
    DEF StartRecording, Raise, Here, Handler
<1>8. CASE StopRecording
    BY <1>8
    DEF StopRecording, Raise, Here, Handler, Workbook
<1>9. CASE ClearRealFaults
    BY <1>9
    DEF ClearRealFaults, StartCall
<1>10. CASE CollectOfflineLogs
    BY <1>10
    DEF CollectOfflineLogs, Raise, Here, Handler
<1>11. CASE ShutdownVehicles
    BY <1>11
    DEF ShutdownVehicles, StartCall
<1>12. CASE ToolchainStop
    BY <1>12
    DEF ToolchainStop
<1>13. CASE JoinReturns
    BY <1>13
    DEF JoinReturns, Raise, Here, Handler, After
<1>14. ASSUME NEW v \in Vehicles, NEW s \in Sites, WorkerReturns(v, s)
       PROVE  WorkerInv'
    BY <1>14
    DEF WorkerReturns, Effect
<1>15. ASSUME NEW v \in Vehicles, NEW s \in Sites, WorkerRaises(v, s)
       PROVE  WorkerInv'
    BY <1>15
    DEF WorkerRaises, Effect
<1>16. CASE ToolchainExits
    BY <1>16
    DEF ToolchainExits
<1>17. CASE Interrupt
    BY <1>17
    DEF Interrupt, Raise, Here, Handler
<1>18. CASE UNCHANGED vars
    BY <1>18
    DEF vars
<1>. QED BY <1>1, <1>2, <1>3, <1>4, <1>5, <1>6, <1>7, <1>8, <1>9, <1>10, <1>11, <1>12, <1>13, <1>14, <1>15, <1>16, <1>17, <1>18 DEF Next, Main, Worker, Finished

-----------------------------------------------------------------------------
\* Faults that survive the clean-up are those whose clear raised.
LEMMA FaultInductive ==
  TypeOK /\ ControlInv /\ FaultInv /\ [Next]_vars => FaultInv'
<1> SUFFICES ASSUME TypeOK, ControlInv, FaultInv, [Next]_vars
             PROVE  FaultInv'
  OBVIOUS
<1> USE ConfigFacts DEF TypeOK, ControlInv, WorkersAreJoined, FaultInv, RoundStartsFaultFree, SettingUp, Flying, Here, Sites, Points, callVars, roundVars, logVars, vehVars
<1>1. CASE BuildVehicles
    BY <1>1
    DEF BuildVehicles, Raise, Here, Handler
<1>2. CASE ToolchainStart
    BY <1>2
    DEF ToolchainStart, Raise, Here, Handler
<1>3. CASE InitializeVehicles
    BY <1>3
    DEF InitializeVehicles, StartCall
<1>4. CASE RoundStart
    BY <1>4
    DEF RoundStart, SetPhase
<1>5. CASE ExecuteStep
    BY <1>5
    DEF ExecuteStep, SetPhase, Raise, Here, Handler, StartCall
<1>6. CASE TimelineEnds
    BY <1>6
    DEF TimelineEnds
<1>7. CASE StartRecording
    BY <1>7
    DEF StartRecording, Raise, Here, Handler
<1>8. CASE StopRecording
    BY <1>8
    DEF StopRecording, Raise, Here, Handler, Workbook
<1>9. CASE ClearRealFaults
    BY <1>9
    DEF ClearRealFaults, StartCall
<1>10. CASE CollectOfflineLogs
    BY <1>10
    DEF CollectOfflineLogs, Raise, Here, Handler
<1>11. CASE ShutdownVehicles
    BY <1>11
    DEF ShutdownVehicles, StartCall
<1>12. CASE ToolchainStop
    BY <1>12
    DEF ToolchainStop
<1>13. CASE JoinReturns
    BY <1>13
    DEF JoinReturns, Raise, Here, Handler, After
<1>14. ASSUME NEW v \in Vehicles, NEW s \in Sites, WorkerReturns(v, s)
       PROVE  FaultInv'
    BY <1>14
    DEF WorkerReturns, Effect, IsInject, IsClear
<1>15. ASSUME NEW v \in Vehicles, NEW s \in Sites, WorkerRaises(v, s)
       PROVE  FaultInv'
    BY <1>15
    DEF WorkerRaises, Effect, IsInject, IsClear
<1>16. CASE ToolchainExits
    BY <1>16
    DEF ToolchainExits
<1>17. CASE Interrupt
    BY <1>17
    DEF Interrupt, Raise, Here, Handler
<1>18. CASE UNCHANGED vars
    BY <1>18
    DEF vars
<1>. QED BY <1>1, <1>2, <1>3, <1>4, <1>5, <1>6, <1>7, <1>8, <1>9, <1>10, <1>11, <1>12, <1>13, <1>14, <1>15, <1>16, <1>17, <1>18 DEF Next, Main, Worker, Finished

-----------------------------------------------------------------------------
\* Connections that survive the shutdown are those whose shutdown raised.
LEMMA OpenInductive ==
  TypeOK /\ ControlInv /\ WorkerInv /\ OpenInv /\ [Next]_vars => OpenInv'
<1> SUFFICES ASSUME TypeOK, ControlInv, WorkerInv, OpenInv, [Next]_vars
             PROVE  OpenInv'
  OBVIOUS
<1> USE ConfigFacts DEF TypeOK, ControlInv, WorkersAreJoined, WorkerInv, OpenInv, NothingLeftOpen, SettingUp, Flying, Here, Sites, Points, callVars, roundVars, logVars, vehVars
<1>1. CASE BuildVehicles
    BY <1>1
    DEF BuildVehicles, Raise, Here, Handler
<1>2. CASE ToolchainStart
    BY <1>2
    DEF ToolchainStart, Raise, Here, Handler
<1>3. CASE InitializeVehicles
    BY <1>3
    DEF InitializeVehicles, StartCall
<1>4. CASE RoundStart
    BY <1>4
    DEF RoundStart, SetPhase
<1>5. CASE ExecuteStep
    BY <1>5
    DEF ExecuteStep, SetPhase, Raise, Here, Handler, StartCall
<1>6. CASE TimelineEnds
    BY <1>6
    DEF TimelineEnds
<1>7. CASE StartRecording
    BY <1>7
    DEF StartRecording, Raise, Here, Handler
<1>8. CASE StopRecording
    BY <1>8
    DEF StopRecording, Raise, Here, Handler, Workbook
<1>9. CASE ClearRealFaults
    BY <1>9
    DEF ClearRealFaults, StartCall
<1>10. CASE CollectOfflineLogs
    BY <1>10
    DEF CollectOfflineLogs, Raise, Here, Handler
<1>11. CASE ShutdownVehicles
    BY <1>11
    DEF ShutdownVehicles, StartCall
<1>12. CASE ToolchainStop
    BY <1>12
    DEF ToolchainStop
<1>13. CASE JoinReturns
    BY <1>13
    DEF JoinReturns, Raise, Here, Handler, After
<1>14. ASSUME NEW v \in Vehicles, NEW s \in Sites, WorkerReturns(v, s)
       PROVE  OpenInv'
    BY <1>14
    DEF WorkerReturns, Effect
<1>15. ASSUME NEW v \in Vehicles, NEW s \in Sites, WorkerRaises(v, s)
       PROVE  OpenInv'
    BY <1>15
    DEF WorkerRaises, Effect
<1>16. CASE ToolchainExits
    BY <1>16
    DEF ToolchainExits
<1>17. CASE Interrupt
    BY <1>17
    DEF Interrupt, Raise, Here, Handler
<1>18. CASE UNCHANGED vars
    BY <1>18
    DEF vars
<1>. QED BY <1>1, <1>2, <1>3, <1>4, <1>5, <1>6, <1>7, <1>8, <1>9, <1>10, <1>11, <1>12, <1>13, <1>14, <1>15, <1>16, <1>17, <1>18 DEF Next, Main, Worker, Finished

-----------------------------------------------------------------------------
\* The recorder attribute is None outside a round.
LEMMA RecorderInductive ==
  TypeOK /\ RecorderInv /\ [Next]_vars => RecorderInv'
<1> SUFFICES ASSUME TypeOK, RecorderInv, [Next]_vars
             PROVE  RecorderInv'
  OBVIOUS
<1> USE DEF TypeOK, RecorderInv, SettingUp, Here, Sites, Points, callVars, roundVars, logVars, vehVars
<1>1. CASE BuildVehicles
    BY <1>1
    DEF BuildVehicles, Raise, Here, Handler
<1>2. CASE ToolchainStart
    BY <1>2
    DEF ToolchainStart, Raise, Here, Handler
<1>3. CASE InitializeVehicles
    BY <1>3
    DEF InitializeVehicles, StartCall
<1>4. CASE RoundStart
    BY <1>4
    DEF RoundStart, SetPhase
<1>5. CASE ExecuteStep
    BY <1>5
    DEF ExecuteStep, SetPhase, Raise, Here, Handler, StartCall
<1>6. CASE TimelineEnds
    BY <1>6
    DEF TimelineEnds
<1>7. CASE StartRecording
    BY <1>7
    DEF StartRecording, Raise, Here, Handler
<1>8. CASE StopRecording
    BY <1>8
    DEF StopRecording, Raise, Here, Handler, Workbook
<1>9. CASE ClearRealFaults
    BY <1>9
    DEF ClearRealFaults, StartCall
<1>10. CASE CollectOfflineLogs
    BY <1>10
    DEF CollectOfflineLogs, Raise, Here, Handler
<1>11. CASE ShutdownVehicles
    BY <1>11
    DEF ShutdownVehicles, StartCall
<1>12. CASE ToolchainStop
    BY <1>12
    DEF ToolchainStop
<1>13. CASE JoinReturns
    BY <1>13
    DEF JoinReturns, Raise, Here, Handler, After
<1>14. ASSUME NEW v \in Vehicles, NEW s \in Sites, WorkerReturns(v, s)
       PROVE  RecorderInv'
    BY <1>14
    DEF WorkerReturns, Effect
<1>15. ASSUME NEW v \in Vehicles, NEW s \in Sites, WorkerRaises(v, s)
       PROVE  RecorderInv'
    BY <1>15
    DEF WorkerRaises, Effect
<1>16. CASE ToolchainExits
    BY <1>16
    DEF ToolchainExits
<1>17. CASE Interrupt
    BY <1>17
    DEF Interrupt, Raise, Here, Handler
<1>18. CASE UNCHANGED vars
    BY <1>18
    DEF vars
<1>. QED BY <1>1, <1>2, <1>3, <1>4, <1>5, <1>6, <1>7, <1>8, <1>9, <1>10, <1>11, <1>12, <1>13, <1>14, <1>15, <1>16, <1>17, <1>18 DEF Next, Main, Worker, Finished

-----------------------------------------------------------------------------
\* The toolchain process is stopped when it must be.
LEMMA ToolchainInductive ==
  TypeOK /\ ControlInv /\ ToolchainInv /\ [Next]_vars => ToolchainInv'
<1> SUFFICES ASSUME TypeOK, ControlInv, ToolchainInv, [Next]_vars
             PROVE  ToolchainInv'
  OBVIOUS
<1> USE DEF TypeOK, ControlInv, ToolchainInv, ToolchainStopped, SettingUp, Here, Sites, Points, callVars, roundVars, logVars, vehVars
<1>1. CASE BuildVehicles
    BY <1>1
    DEF BuildVehicles, Raise, Here, Handler
<1>2. CASE ToolchainStart
    BY <1>2
    DEF ToolchainStart, Raise, Here, Handler
<1>3. CASE InitializeVehicles
    BY <1>3
    DEF InitializeVehicles, StartCall
<1>4. CASE RoundStart
    BY <1>4
    DEF RoundStart, SetPhase
<1>5. CASE ExecuteStep
    BY <1>5
    DEF ExecuteStep, SetPhase, Raise, Here, Handler, StartCall
<1>6. CASE TimelineEnds
    BY <1>6
    DEF TimelineEnds
<1>7. CASE StartRecording
    BY <1>7
    DEF StartRecording, Raise, Here, Handler
<1>8. CASE StopRecording
    BY <1>8
    DEF StopRecording, Raise, Here, Handler, Workbook
<1>9. CASE ClearRealFaults
    BY <1>9
    DEF ClearRealFaults, StartCall
<1>10. CASE CollectOfflineLogs
    BY <1>10
    DEF CollectOfflineLogs, Raise, Here, Handler
<1>11. CASE ShutdownVehicles
    BY <1>11
    DEF ShutdownVehicles, StartCall
<1>12. CASE ToolchainStop
    BY <1>12
    DEF ToolchainStop
<1>13. CASE JoinReturns
    BY <1>13
    DEF JoinReturns, Tolerated, Raise, Here, Handler, After
<1>14. ASSUME NEW v \in Vehicles, NEW s \in Sites, WorkerReturns(v, s)
       PROVE  ToolchainInv'
    BY <1>14
    DEF WorkerReturns, Effect
<1>15. ASSUME NEW v \in Vehicles, NEW s \in Sites, WorkerRaises(v, s)
       PROVE  ToolchainInv'
    BY <1>15
    DEF WorkerRaises, Effect
<1>16. CASE ToolchainExits
    BY <1>16
    DEF ToolchainExits
<1>17. CASE Interrupt
    BY <1>17
    DEF Interrupt, Raise, Here, Handler
<1>18. CASE UNCHANGED vars
    BY <1>18
    DEF vars
<1>. QED BY <1>1, <1>2, <1>3, <1>4, <1>5, <1>6, <1>7, <1>8, <1>9, <1>10, <1>11, <1>12, <1>13, <1>14, <1>15, <1>16, <1>17, <1>18 DEF Next, Main, Worker, Finished

-----------------------------------------------------------------------------
\* A DT vehicle is faulted only by a step that names it.
LEMMA BaselineInductive ==
  TypeOK /\ RangeInv /\ WorkerInv /\ DTIsHealthyBaseline /\ [Next]_vars
    => DTIsHealthyBaseline'
<1> SUFFICES ASSUME TypeOK, RangeInv, WorkerInv, DTIsHealthyBaseline, [Next]_vars
             PROVE  DTIsHealthyBaseline'
  OBVIOUS
<1> USE DEF callVars, roundVars, logVars, vehVars
<1>1. config' = config
  BY DEF Next, Main, Worker, Finished, vars, BuildVehicles, ToolchainStart,
         InitializeVehicles, RoundStart, ExecuteStep, TimelineEnds, StartRecording,
         StopRecording, ClearRealFaults, CollectOfflineLogs, ShutdownVehicles,
         ToolchainStop, JoinReturns, WorkerReturns, WorkerRaises, ToolchainExits,
         Interrupt
<1>2. round' = round \/ round' = round + 1
  BY DEF Next, Main, Worker, Finished, vars, BuildVehicles, ToolchainStart,
         InitializeVehicles, RoundStart, ExecuteStep, TimelineEnds, StartRecording,
         StopRecording, ClearRealFaults, CollectOfflineLogs, ShutdownVehicles,
         ToolchainStop, JoinReturns, WorkerReturns, WorkerRaises, ToolchainExits,
         Interrupt
<1>3. faulted' \subseteq faulted \/
      \E v \in Vehicles : /\ <<v, "step">> \in running
                          /\ CurStep.action = "inject_fault"
                          /\ faulted' = faulted \cup {v}
                          /\ round' = round
  <2>1. ASSUME NEW v \in Vehicles, NEW s \in Sites, Worker(v, s)
        PROVE  \/ faulted' \subseteq faulted
               \/ /\ <<v, "step">> \in running
                  /\ CurStep.action = "inject_fault"
                  /\ faulted' = faulted \cup {v}
                  /\ round' = round
    BY <2>1 DEF Worker, WorkerReturns, WorkerRaises, Effect, IsInject, IsClear
  <2>2. CASE Main
    BY <2>2 DEF Main, BuildVehicles, ToolchainStart,
         InitializeVehicles, RoundStart, ExecuteStep, TimelineEnds, StartRecording,
         StopRecording, ClearRealFaults, CollectOfflineLogs, ShutdownVehicles,
         ToolchainStop, JoinReturns
  <2>. QED BY <2>1, <2>2 DEF Next, ToolchainExits, Interrupt, Finished, vars
<1>4. ASSUME NEW v, Explicit(v)
      PROVE  Explicit(v)'
  <2>1. PICK r \in 1..round : \E i \in DOMAIN config.timelines[r].steps :
          LET s == config.timelines[r].steps[i] IN
            s.action = "inject_fault" /\ s.select # "default" /\ v \in Targets(s)
    BY <1>4 DEF Explicit
  <2>2. r \in 1..round'
    BY <1>2 DEF TypeOK
  <2>3. PICK i \in DOMAIN config.timelines[r].steps :
          LET s == config.timelines[r].steps[i] IN
            s.action = "inject_fault" /\ s.select # "default" /\ v \in Targets(s)
    BY <2>1
  <2>4. i \in DOMAIN config'.timelines[r].steps
    BY <1>1
  <2>. QED BY <1>1, <2>2, <2>3, <2>4 DEF Explicit, Targets, RealVehicles
<1>5. ASSUME NEW v \in Vehicles, <<v, "step">> \in running,
             CurStep.action = "inject_fault", Backend[v] = "dt",
             RealVehicles(config) # {}
      PROVE  Explicit(v)
  <2>1. round \in 1..round /\ step \in 1..Len(Steps) /\ v \in Targets(CurStep)
    BY <1>5 DEF WorkerInv, TypeOK
  <2>2. CurStep.select # "default"
    BY <1>5, <2>1 DEF Targets, RealVehicles
  <2>6. round \in 1..Len(config.timelines) /\ config \in Configs
    BY <2>1 DEF TypeOK, RangeInv, Rounds
  <2>3. config.timelines[round].steps \in Seq(Step)
    BY <2>6, ConfigFacts
  <2>4. DOMAIN config.timelines[round].steps = 1..Len(config.timelines[round].steps)
    BY <2>3
  <2>5. step \in DOMAIN config.timelines[round].steps
    BY <2>1, <2>4 DEF Steps
  <2>. QED BY <1>5, <2>1, <2>2, <2>5 DEF Explicit, CurStep, Steps
<1>6. RealVehicles(config)' = RealVehicles(config)
  BY <1>1 DEF RealVehicles
<1>. QED BY <1>3, <1>4, <1>5, <1>6 DEF DTIsHealthyBaseline

-----------------------------------------------------------------------------
\* Appending a name that is not in a list of distinct names.
LEMMA AppendFresh ==
  ASSUME NEW S, NEW q \in Seq(S), NEW e \in S, IsInjective(q),
         \A i \in DOMAIN q : q[i] # e
  PROVE  IsInjective(Append(q, e))
<1>1. /\ Len(q) \in Nat
      /\ DOMAIN q = 1..Len(q)
      /\ DOMAIN Append(q, e) = 1..(Len(q) + 1)
      /\ Append(q, e)[Len(q) + 1] = e
      /\ \A i \in 1..Len(q) : Append(q, e)[i] = q[i]
  OBVIOUS
<1>. QED BY <1>1 DEF IsInjective

\* Workbooks of timelines with distinct case ids have distinct names.
LEMMA LogInductive ==
  TypeOK /\ RangeInv /\ LogInv /\ [Next]_vars => LogInv'
<1> SUFFICES ASSUME TypeOK, RangeInv, LogInv, [Next]_vars
             PROVE  LogInv'
  OBVIOUS
<1> USE ConfigFacts DEF TypeOK, RangeInv, LogInv, DistinctCasesKeepTheirLogs, IsInjective, DistinctCases, Flying, Cleaning, Here, Rounds, Sites, Points, callVars, roundVars, logVars, vehVars
<1>1. CASE BuildVehicles
    BY <1>1
    DEF BuildVehicles, Raise, Here, Handler
<1>2. CASE ToolchainStart
    BY <1>2
    DEF ToolchainStart, Raise, Here, Handler
<1>3. CASE InitializeVehicles
    BY <1>3
    DEF InitializeVehicles, StartCall
<1>4. CASE RoundStart
  <2>1. UNCHANGED <<config, data_logs>> /\ round' \in {round, round + 1}
    BY <1>4 DEF RoundStart
  <2>2. round' = round + 1 \/ (pc' = "shutdown" /\ round' = round)
    BY <1>4 DEF RoundStart
  <2>3. ASSUME NEW i \in DOMAIN data_logs
        PROVE  \E r \in 1..round' : /\ data_logs[i][1] = config.timelines[r].case
                                    /\ (Flying \/ pc = "stop_recording")' => r < round'
    <3>1. PICK r \in 1..round : data_logs[i][1] = config.timelines[r].case
      OBVIOUS
    <3>2. r \in 1..round' /\ ((Flying \/ pc = "stop_recording")' => r < round')
      BY <2>1, <2>2
    <3>. QED BY <3>1, <3>2
  <2>. QED BY <2>1, <2>3
<1>5. CASE ExecuteStep
    BY <1>5
    DEF ExecuteStep, SetPhase, Raise, Here, Handler, StartCall
<1>6. CASE TimelineEnds
    BY <1>6
    DEF TimelineEnds
<1>7. CASE StartRecording
    BY <1>7
    DEF StartRecording, Raise, Here, Handler
<1>8. CASE StopRecording
  <2>1. UNCHANGED <<config, round>> /\ pc' # "stop_recording" /\ ~Flying'
    BY <1>8 DEF StopRecording, Raise, Handler
  <2>2. CASE UNCHANGED data_logs
    BY <2>1, <2>2
  <2>3. CASE data_logs' = Append(data_logs, Workbook)
    <3> DEFINE n == Len(data_logs)
    <3>1. /\ n \in Nat
          /\ DOMAIN data_logs = 1..n
          /\ DOMAIN data_logs' = 1..(n + 1)
          /\ data_logs'[n + 1] = Workbook
          /\ \A i \in 1..n : data_logs'[i] = data_logs[i]
      BY <2>3
    <3>2. round \in 1..round /\ Workbook[1] = config.timelines[round].case
      BY <1>8 DEF StopRecording, Workbook
    <3>3. \A i \in 1..n : \E r \in 1..round : data_logs[i][1] = config.timelines[r].case /\ r < round
      BY <1>8, <3>1 DEF StopRecording
    <3>12. round \in 1..Len(config.timelines) /\ config \in Configs /\ stamp \in Nat
      BY <1>8 DEF StopRecording
    <3>4. /\ DOMAIN config.timelines = 1..Rounds /\ round \in 1..Rounds
          /\ data_logs \in Seq(Cases \X Nat) /\ Workbook \in Cases \X Nat
      <4>1. config.timelines \in Seq(Timeline) /\ config.timelines[round].case \in Cases
        BY <3>12, ConfigFacts
      <4>2. Workbook \in Cases \X Nat
        BY <3>12, <4>1 DEF Workbook
      <4>3. DOMAIN config.timelines = 1..Rounds
        BY <4>1
      <4>. QED BY <3>12, <4>2, <4>3
    <3>5. DistinctCases => IsInjective(data_logs)
      OBVIOUS
    <3>6. UNCHANGED <<config, round, config.timelines>>
      BY <2>1
    <3> HIDE ConfigFacts DEF TypeOK, RangeInv, LogInv, DistinctCasesKeepTheirLogs, IsInjective,
             DistinctCases, Rounds, Flying, Here, n
    <3>7. \A i \in DOMAIN data_logs' : \E r \in 1..round : data_logs'[i][1] = config.timelines[r].case
      <4> SUFFICES ASSUME NEW i \in DOMAIN data_logs'
                   PROVE  \E r \in 1..round : data_logs'[i][1] = config.timelines[r].case
        OBVIOUS
      <4>1. CASE i = n + 1
        BY <3>1, <3>2, <4>1
      <4>2. CASE i \in 1..n
        BY <3>1, <3>3, <4>2
      <4>. QED BY <3>1, <4>1, <4>2
    <3>8. ASSUME DistinctCases, NEW i \in 1..n
          PROVE  data_logs[i] # Workbook
      <4>1. PICK r \in 1..round : data_logs[i][1] = config.timelines[r].case /\ r < round
        BY <3>3
      <4>2. r \in DOMAIN config.timelines /\ round \in DOMAIN config.timelines /\ r # round
        BY <3>4, <4>1 DEF Rounds
      <4>3. config.timelines[r].case # config.timelines[round].case
        BY <3>8, <4>2 DEF DistinctCases
      <4>. QED BY <3>2, <4>1, <4>3
    <3>9. DistinctCases => IsInjective(Append(data_logs, Workbook))
      BY <3>1, <3>4, <3>5, <3>8, AppendFresh
    <3>10. DistinctCases' <=> DistinctCases
      BY <3>6 DEF DistinctCases
    <3>11. DistinctCasesKeepTheirLogs'
      BY <2>3, <3>9, <3>10 DEF DistinctCasesKeepTheirLogs, IsInjective
    <3>. QED BY <2>1, <3>7, <3>11 DEF LogInv
  <2>. QED BY <1>8, <2>2, <2>3 DEF StopRecording
<1>9. CASE ClearRealFaults
    BY <1>9
    DEF ClearRealFaults, StartCall
<1>10. CASE CollectOfflineLogs
    BY <1>10
    DEF CollectOfflineLogs, Raise, Here, Handler
<1>11. CASE ShutdownVehicles
    BY <1>11
    DEF ShutdownVehicles, StartCall
<1>12. CASE ToolchainStop
    BY <1>12
    DEF ToolchainStop
<1>13. CASE JoinReturns
    BY <1>13
    DEF JoinReturns, Raise, Here, Handler, After
<1>14. ASSUME NEW v \in Vehicles, NEW s \in Sites, WorkerReturns(v, s)
       PROVE  LogInv'
    BY <1>14
    DEF WorkerReturns, Effect
<1>15. ASSUME NEW v \in Vehicles, NEW s \in Sites, WorkerRaises(v, s)
       PROVE  LogInv'
    BY <1>15
    DEF WorkerRaises, Effect
<1>16. CASE ToolchainExits
    BY <1>16
    DEF ToolchainExits
<1>17. CASE Interrupt
    BY <1>17
    DEF Interrupt, Raise, Here, Handler
<1>18. CASE UNCHANGED vars
    BY <1>18
    DEF vars
<1>. QED BY <1>1, <1>2, <1>3, <1>4, <1>5, <1>6, <1>7, <1>8, <1>9, <1>10, <1>11, <1>12, <1>13, <1>14, <1>15, <1>16, <1>17, <1>18 DEF Next, Main, Worker, Finished

-----------------------------------------------------------------------------
\* As long as nothing has raised, main takes the timelines one after another
\* and each to its last step.
LEMMA TimelineInductive ==
  TypeOK /\ RangeInv /\ ControlInv /\ TimelineInv /\ [Next]_vars => TimelineInv'
<1> SUFFICES ASSUME TypeOK, RangeInv, ControlInv, TimelineInv, [Next]_vars
             PROVE  TimelineInv'
  OBVIOUS
<1> USE DEF TypeOK, RangeInv, ControlInv, TimelineInv, SettingUp, Flying, Cleaning, Here,
            Rounds, Steps, Sites, Points, callVars, roundVars, logVars, vehVars
<1>1. CASE BuildVehicles
    BY <1>1
    DEF BuildVehicles, Raise, Handler
<1>2. CASE ToolchainStart
    BY <1>2
    DEF ToolchainStart, Raise, Handler
<1>3. CASE InitializeVehicles
    BY <1>3
    DEF InitializeVehicles, StartCall
<1>4. CASE RoundStart
    BY <1>4
    DEF RoundStart
<1>5. CASE ExecuteStep
    BY <1>5
    DEF ExecuteStep, Raise, Handler, StartCall
<1>6. CASE TimelineEnds
    BY <1>6
    DEF TimelineEnds
<1>7. CASE StartRecording
    BY <1>7
    DEF StartRecording, Raise, Handler
<1>8. CASE StopRecording
    BY <1>8
    DEF StopRecording, Raise, Handler
<1>9. CASE ClearRealFaults
    BY <1>9
    DEF ClearRealFaults, StartCall
<1>10. CASE CollectOfflineLogs
    BY <1>10
    DEF CollectOfflineLogs, Raise, Handler
<1>11. CASE ShutdownVehicles
    BY <1>11
    DEF ShutdownVehicles, StartCall
<1>12. CASE ToolchainStop
    BY <1>12
    DEF ToolchainStop
<1>13. CASE JoinReturns
    BY <1>13
    DEF JoinReturns, Raise, Handler, After
<1>14. ASSUME NEW v \in Vehicles, NEW s \in Sites, Worker(v, s)
       PROVE  TimelineInv'
    BY <1>14
    DEF Worker, WorkerReturns, WorkerRaises
<1>15. CASE ToolchainExits
    BY <1>15
    DEF ToolchainExits
<1>16. CASE Interrupt
    BY <1>16
    DEF Interrupt, Raise, Handler
<1>17. CASE UNCHANGED vars
    BY <1>17
    DEF vars
<1>. QED BY <1>1, <1>2, <1>3, <1>4, <1>5, <1>6, <1>7, <1>8, <1>9, <1>10, <1>11, <1>12,
            <1>13, <1>14, <1>15, <1>16, <1>17 DEF Next, Main, Finished

\* No arm among the first n steps, and the next is none either.
LEMMA OneMoreStep ==
  ASSUME NEW s, NEW n \in Nat
  PROVE  (\A k \in 1..(n + 1) : s[k].action # "arm")
           <=> s[n + 1].action # "arm" /\ \A k \in 1..n : s[k].action # "arm"
<1>1. \A k : k \in 1..(n + 1) <=> k = n + 1 \/ k \in 1..n
  OBVIOUS
<1> QED BY <1>1

\* What a round has sampled so far follows from the steps executed.
LEMMA SamplingInductive ==
  TypeOK /\ RangeInv /\ ControlInv /\ SamplingInv /\ [Next]_vars => SamplingInv'
<1> SUFFICES ASSUME TypeOK, RangeInv, ControlInv, SamplingInv, [Next]_vars
             PROVE  SamplingInv'
  OBVIOUS
<1> USE DEF TypeOK, RangeInv, ControlInv, SamplingInv, SettingUp, Flying, Cleaning, Here,
            Executed, Steps, Sites, Points, callVars, roundVars, logVars, vehVars
<1>1. CASE BuildVehicles
    BY <1>1
    DEF BuildVehicles, Raise, Handler
<1>2. CASE ToolchainStart
    BY <1>2
    DEF ToolchainStart, Raise, Handler
<1>3. CASE InitializeVehicles
    BY <1>3
    DEF InitializeVehicles, StartCall
<1>4. CASE RoundStart
    BY <1>4
    DEF RoundStart
<1>5. CASE ExecuteStep
  <2>1. /\ pc = "step" /\ step \in Nat /\ step' = step + 1 /\ ~raised
        /\ UNCHANGED <<config, round, recorder>> /\ Steps' = Steps
    BY <1>5 DEF ExecuteStep
  <2>2. Executed = step
    BY <2>1
  <2>3. CASE raised'
    BY <2>3
  <2>4. CASE ~raised' /\ pc' = "join" /\ site' = "step"
    BY <2>1, <2>2, <2>4
  <2>5. CASE ~raised' /\ pc' = "step" /\ Steps[step + 1].action = "wait"
    <3>1. Executed' = step + 1
      BY <2>1, <2>5
    <3>2. (\A k \in 1..(step + 1) : Steps[k].action # "arm")
            <=> \A k \in 1..step : Steps[k].action # "arm"
      <4> HIDE DEF Steps
      <4> QED BY <2>1, <2>5, OneMoreStep
    <3>3. SamplingInv
      OBVIOUS
    <3> HIDE DEF Executed, Steps
    <3> QED BY <2>1, <2>2, <3>1, <3>2, <3>3
  <2> QED BY <1>5, <2>3, <2>4, <2>5 DEF ExecuteStep, Raise, StartCall
<1>6. CASE TimelineEnds
    BY <1>6
    DEF TimelineEnds
<1>7. CASE StartRecording
  <2>1. /\ pc = "record" /\ step \in Nat /\ step >= 1 /\ ~raised
        /\ UNCHANGED <<config, round, step>> /\ Steps' = Steps
    BY <1>7 DEF StartRecording
  <2>2. Executed = step - 1
    BY <2>1
  <2>3. CASE raised'
    BY <2>3
  <2>4. CASE ~raised'
    <3>1. pc' = "step" /\ Executed' = step
      BY <1>7, <2>1, <2>4 DEF StartRecording, Raise
    <3>2. (\A k \in 1..step : Steps[k].action # "arm")
            <=> CurStep.action # "arm" /\ \A k \in 1..(step - 1) : Steps[k].action # "arm"
      <4> DEFINE n == step - 1
      <4>1. n \in Nat /\ n + 1 = step
        BY <2>1
      <4> HIDE DEF n, Steps
      <4>2. (\A k \in 1..(n + 1) : Steps[k].action # "arm")
              <=> Steps[n + 1].action # "arm" /\ \A k \in 1..n : Steps[k].action # "arm"
        BY <4>1, OneMoreStep
      <4> QED BY <4>1, <4>2 DEF CurStep, n
    <3>3. recorder' = IF CurStep.action = "arm" /\ recorder = "none"
                      THEN IF config.recording THEN "sampling" ELSE "disabled"
                      ELSE recorder
      BY <1>7, <2>4 DEF StartRecording, Raise
    <3>4. recorder = IF \A k \in 1..(step - 1) : Steps[k].action # "arm" THEN "none"
                     ELSE IF config.recording THEN "sampling" ELSE "disabled"
      BY <2>1, <2>2
    <3> HIDE DEF Executed, Steps
    <3> QED BY <2>1, <3>1, <3>2, <3>3, <3>4
  <2> QED BY <2>3, <2>4
<1>8. CASE StopRecording
    BY <1>8
    DEF StopRecording, Raise, Handler
<1>9. CASE ClearRealFaults
    BY <1>9
    DEF ClearRealFaults, StartCall
<1>10. CASE CollectOfflineLogs
    BY <1>10
    DEF CollectOfflineLogs, Raise, Handler
<1>11. CASE ShutdownVehicles
    BY <1>11
    DEF ShutdownVehicles, StartCall
<1>12. CASE ToolchainStop
    BY <1>12
    DEF ToolchainStop
<1>13. CASE JoinReturns
    BY <1>13
    DEF JoinReturns, Raise, Handler, After
<1>14. ASSUME NEW v \in Vehicles, NEW s \in Sites, Worker(v, s)
       PROVE  SamplingInv'
    BY <1>14
    DEF Worker, WorkerReturns, WorkerRaises
<1>15. CASE ToolchainExits
    BY <1>15
    DEF ToolchainExits
<1>16. CASE Interrupt
    BY <1>16
    DEF Interrupt, Raise, Handler
<1>17. CASE UNCHANGED vars
    BY <1>17
    DEF vars
<1>. QED BY <1>1, <1>2, <1>3, <1>4, <1>5, <1>6, <1>7, <1>8, <1>9, <1>10, <1>11, <1>12,
            <1>13, <1>14, <1>15, <1>16, <1>17 DEF Next, Main, Finished

\* A step that writes no workbook and closes no recorder keeps the logs.
LEMMA LogsStay ==
  ASSUME ReturnInv, ~raised, UNCHANGED <<config, files, data_logs>>, Closed' = Closed
  PROVE  LogsOfRounds(Closed)'
BY DEF ReturnInv, LogsOfRounds, Recorded

\* The logs of the rounds closed so far stay complete and in order.
LEMMA ReturnInductive ==
  TypeOK /\ RangeInv /\ ControlInv /\ TimelineInv /\ SamplingInv /\ ReturnInv /\ [Next]_vars
    => ReturnInv'
<1> SUFFICES ASSUME TypeOK, RangeInv, ControlInv, TimelineInv, SamplingInv, ReturnInv,
                    [Next]_vars, ~raised'
             PROVE  /\ LogsOfRounds(Closed)'
                    /\ offline' = IF Collects(config') THEN [r \in 1..Collected' |-> r]
                                  ELSE <<>>
  BY DEF ReturnInv, Collects
<1>1. CASE StopRecording
  <2>1. /\ ~raised /\ recorder \in {"none", "disabled", "sampling"}
        /\ pc = "stop_recording" /\ pc' = "clear"
        /\ UNCHANGED <<config, round, offline, step>>
        /\ round \in 1..Rounds /\ step = Len(Steps)
    BY <1>1 DEF StopRecording, Raise, SamplingInv, Here, TypeOK, RangeInv, Cleaning, roundVars,
                Rounds, TimelineInv
  <2>2. Collected' = Collected /\ Closed' = round /\ Closed = round - 1
    BY <2>1 DEF Collected, Closed, Flying, Cleaning, Here
  <2>3. offline' = IF Collects(config') THEN [r \in 1..Collected' |-> r] ELSE <<>>
    BY <2>1, <2>2 DEF ReturnInv
  <2>4. PICK of \in [DOMAIN data_logs -> 1..(round - 1)] :
          /\ \A i, j \in DOMAIN data_logs : i < j => of[i] < of[j]
          /\ \A r \in 1..(round - 1) : Recorded(r) <=> \E i \in DOMAIN data_logs : of[i] = r
          /\ \A i \in DOMAIN data_logs :
               data_logs[i][1] = config.timelines[of[i]].case /\ data_logs[i] \in files
    BY <2>1, <2>2 DEF ReturnInv, LogsOfRounds
  <2>5. Recorded(round) <=> recorder = "sampling"
    <3>1. DOMAIN Steps = 1..Len(Steps)
      BY <2>1, ConfigFacts DEF TypeOK, Steps, Rounds
    <3>2. Executed = Len(Steps)
      BY <2>1 DEF Executed
    <3>3. recorder = IF ~Arms(config.timelines[round]) THEN "none"
                     ELSE IF config.recording THEN "sampling" ELSE "disabled"
      BY <2>1, <3>1, <3>2 DEF SamplingInv, Arms, Steps
    <3> QED BY <3>3 DEF Recorded
  <2>6. \A r \in 1..round : Recorded(r)' <=> Recorded(r)
    BY <2>1 DEF Recorded
  <2>7. round \in Nat /\ round >= 1
    BY <2>1 DEF TypeOK
  <2>8. CASE recorder # "sampling"
    <3>1. UNCHANGED <<files, data_logs>>
      BY <1>1, <2>1, <2>8 DEF StopRecording
    <3>2. of \in [DOMAIN data_logs' -> 1..round]
      BY <2>7, <3>1
    <3>3. \A r \in 1..round : Recorded(r)' <=> \E i \in DOMAIN data_logs' : of[i] = r
      BY <2>4, <2>5, <2>6, <2>7, <2>8, <3>1
    <3>4. \A i \in DOMAIN data_logs' :
            data_logs'[i][1] = config'.timelines[of[i]].case /\ data_logs'[i] \in files'
      BY <2>1, <2>4, <3>1
    <3>5. LogsOfRounds(Closed)'
      BY <2>1, <2>2, <2>4, <3>1, <3>2, <3>3, <3>4 DEF LogsOfRounds
    <3> QED BY <2>3, <3>5
  <2>9. CASE recorder = "sampling"
    <3> DEFINE n == Len(data_logs)
               f == [i \in 1..(n + 1) |-> IF i = n + 1 THEN round ELSE of[i]]
    <3>1. files' = files \cup {Workbook} /\ data_logs' = Append(data_logs, Workbook)
      BY <1>1, <2>1, <2>9 DEF StopRecording, Raise
    <3>2. /\ n \in Nat /\ DOMAIN data_logs = 1..n /\ DOMAIN data_logs' = 1..(n + 1)
          /\ data_logs'[n + 1] = Workbook
          /\ \A i \in 1..n : data_logs'[i] = data_logs[i]
      BY <3>1 DEF TypeOK
    <3> HIDE DEF n
    <3>3. /\ f[n + 1] = round /\ \A i \in 1..n : f[i] = of[i] /\ of[i] \in 1..(round - 1)
      BY <3>2
    <3>4. f \in [DOMAIN data_logs' -> 1..round]
      BY <2>7, <3>2
    <3> HIDE DEF f
    <3>5. \A i, j \in DOMAIN data_logs' : i < j => f[i] < f[j]
      <4> SUFFICES ASSUME NEW i \in 1..(n + 1), NEW j \in 1..(n + 1), i < j
                   PROVE  f[i] < f[j]
        BY <3>2
      <4>1. i \in 1..n
        BY <3>2
      <4>2. CASE j = n + 1
        BY <2>7, <3>3, <4>1, <4>2
      <4>3. CASE j \in 1..n
        BY <2>4, <3>2, <3>3, <4>1, <4>3
      <4> QED BY <3>2, <4>2, <4>3
    <3>6. \A r \in 1..round : Recorded(r)' <=> \E i \in DOMAIN data_logs' : f[i] = r
      <4> SUFFICES ASSUME NEW r \in 1..round
                   PROVE  Recorded(r) <=> \E i \in 1..(n + 1) : f[i] = r
        BY <2>6, <3>2
      <4>1. CASE r = round
        BY <2>5, <2>9, <3>2, <3>3, <4>1
      <4>2. CASE r # round
        <5>1. r \in 1..(round - 1)
          BY <2>7, <4>2
        <5>2. Recorded(r) <=> \E i \in 1..n : of[i] = r
          BY <2>4, <3>2, <5>1
        <5>3. (\E i \in 1..n : of[i] = r) <=> \E i \in 1..(n + 1) : f[i] = r
          BY <3>2, <3>3, <4>2
        <5> QED BY <5>2, <5>3
      <4> QED BY <4>1, <4>2
    <3>7. \A i \in DOMAIN data_logs' :
            data_logs'[i][1] = config'.timelines[f[i]].case /\ data_logs'[i] \in files'
      <4> SUFFICES ASSUME NEW i \in 1..(n + 1)
                   PROVE  /\ data_logs'[i][1] = config.timelines[f[i]].case
                          /\ data_logs'[i] \in files'
        BY <2>1, <3>2
      <4>1. CASE i = n + 1
        BY <3>1, <3>2, <3>3, <4>1 DEF Workbook
      <4>2. CASE i \in 1..n
        BY <2>4, <3>1, <3>2, <3>3, <4>2
      <4> QED BY <3>2, <4>1, <4>2
    <3>8. LogsOfRounds(Closed)'
      BY <2>1, <2>2, <3>4, <3>5, <3>6, <3>7 DEF LogsOfRounds
    <3> QED BY <2>3, <3>8
  <2> QED BY <2>8, <2>9
<1>2. CASE CollectOfflineLogs
  <2>1. /\ ~raised /\ pc = "collect" /\ pc' = "round_start"
        /\ UNCHANGED <<config, round, files, data_logs>>
        /\ offline' = IF Collects(config) THEN Append(offline, round) ELSE offline
        /\ round \in Nat /\ round >= 1
    BY <1>2 DEF CollectOfflineLogs, Raise, roundVars, TypeOK, RangeInv, Cleaning, Here
  <2>2. Collected = round - 1 /\ Collected' = round /\ Closed = round /\ Closed' = round
    BY <2>1 DEF Collected, Closed, Flying, Cleaning, Here
  <2>3. LogsOfRounds(Closed)'
    BY <2>1, <2>2, LogsStay
  <2>4. Collects(config) => offline' = [r \in 1..round |-> r]
    <3> SUFFICES ASSUME Collects(config)
                 PROVE  Append([r \in 1..(round - 1) |-> r], round) = [r \in 1..round |-> r]
      BY <2>1, <2>2 DEF ReturnInv
    <3> DEFINE s == [r \in 1..(round - 1) |-> r]
    <3>1. s \in Seq(Nat) /\ Len(s) = round - 1
      BY <2>1
    <3>2. /\ Append(s, round) \in Seq(Nat) /\ Len(Append(s, round)) = round
          /\ \A r \in 1..round : Append(s, round)[r] = r
      BY <2>1, <3>1
    <3> QED BY <2>1, <3>2
  <2>5. ~Collects(config) => offline' = <<>>
    BY <2>1 DEF ReturnInv
  <2> QED BY <2>1, <2>2, <2>3, <2>4, <2>5
<1>3. CASE ~StopRecording /\ ~CollectOfflineLogs
  <2>1. /\ ~raised /\ UNCHANGED <<config, files, data_logs, offline>>
        /\ Closed' = Closed /\ Collected' = Collected
    <3> USE DEF Closed, Collected, Flying, Cleaning, Here, TypeOK, RangeInv, roundVars,
                callVars, logVars, Sites, Points
    <3>1. CASE RoundStart
      <4>1. /\ ~raised /\ UNCHANGED <<config, files, data_logs, offline>>
            /\ pc = "round_start" /\ round \in Nat
            /\ \/ round' = round + 1 /\ pc' = "step"
               \/ round' = round /\ pc' = "shutdown"
        BY <3>1 DEF RoundStart
      <4>2. Closed = round /\ Collected = round
        BY <4>1
      <4>3. Closed' = round /\ Collected' = round
        BY <4>1
      <4> QED BY <4>1, <4>2, <4>3
    <3>2. CASE ExecuteStep \/ TimelineEnds \/ StartRecording
      BY <3>2 DEF ExecuteStep, TimelineEnds, StartRecording, Raise, StartCall
    <3>3. CASE BuildVehicles \/ ToolchainStart \/ InitializeVehicles
      BY <3>3 DEF BuildVehicles, ToolchainStart, InitializeVehicles, Raise, StartCall
    <3>4. CASE ClearRealFaults \/ ShutdownVehicles \/ ToolchainStop
      BY <3>4 DEF ClearRealFaults, ShutdownVehicles, ToolchainStop, StartCall
    <3>5. CASE JoinReturns
      BY <3>5 DEF JoinReturns, Raise, After
    <3>6. CASE \E v \in Vehicles, s \in Sites : Worker(v, s)
      BY <3>6 DEF Worker, WorkerReturns, WorkerRaises
    <3>7. CASE ToolchainExits \/ Interrupt
      BY <3>7 DEF ToolchainExits, Interrupt, Raise
    <3>8. CASE UNCHANGED vars
      BY <3>8 DEF vars
    <3> QED BY <1>3, <3>1, <3>2, <3>3, <3>4, <3>5, <3>6, <3>7, <3>8 DEF Next, Main, Finished
  <2>2. LogsOfRounds(Closed)'
    BY <2>1, LogsStay
  <2> QED BY <2>1, <2>2 DEF ReturnInv
<1> QED BY <1>1, <1>2, <1>3

-----------------------------------------------------------------------------
\* Every step of the runner is a step of the session lifecycle or leaves it
\* as it is.
LEMMA LifecycleStep ==
  TypeOK /\ RangeInv /\ ControlInv /\ [Next]_vars
    => [Session!LNext]_(Session!lifecycleVars)
<1> SUFFICES ASSUME TypeOK, RangeInv, ControlInv, [Next]_vars
             PROVE  [Session!LNext]_(Session!lifecycleVars)
  OBVIOUS
<1> USE DEF TypeOK, RangeInv, ControlInv, Stage, SettingUp, Flying, Cleaning, Here, Rounds, Sites, Points, callVars, roundVars, logVars, vehVars,
        Session!LNext, Session!lifecycleVars, Session!Connect, Session!Connected, Session!BeginRound,
        Session!Clean, Session!Cleaned, Session!Shutdown, Session!End
<1>1. CASE BuildVehicles
    BY <1>1
    DEF BuildVehicles, Raise, Here, Handler
<1>2. CASE ToolchainStart
    BY <1>2
    DEF ToolchainStart, Raise, Here, Handler
<1>3. CASE InitializeVehicles
    BY <1>3
    DEF InitializeVehicles, StartCall
<1>4. CASE RoundStart
    BY <1>4
    DEF RoundStart, SetPhase
<1>5. CASE ExecuteStep
    BY <1>5
    DEF ExecuteStep, SetPhase, Raise, Here, Handler, StartCall
<1>6. CASE TimelineEnds
    BY <1>6
    DEF TimelineEnds
<1>7. CASE StartRecording
    BY <1>7
    DEF StartRecording, Raise, Here, Handler
<1>8. CASE StopRecording
    BY <1>8
    DEF StopRecording, Raise, Here, Handler, Workbook
<1>9. CASE ClearRealFaults
    BY <1>9
    DEF ClearRealFaults, StartCall
<1>10. CASE CollectOfflineLogs
    BY <1>10
    DEF CollectOfflineLogs, Raise, Here, Handler
<1>11. CASE ShutdownVehicles
    BY <1>11
    DEF ShutdownVehicles, StartCall
<1>12. CASE ToolchainStop
    BY <1>12
    DEF ToolchainStop
<1>13. CASE JoinReturns
    BY <1>13
    DEF JoinReturns, Raise, Here, Handler, After
<1>14. ASSUME NEW v \in Vehicles, NEW s \in Sites, WorkerReturns(v, s)
       PROVE  [Session!LNext]_(Session!lifecycleVars)
    BY <1>14
    DEF WorkerReturns, Effect
<1>15. ASSUME NEW v \in Vehicles, NEW s \in Sites, WorkerRaises(v, s)
       PROVE  [Session!LNext]_(Session!lifecycleVars)
    BY <1>15
    DEF WorkerRaises, Effect
<1>16. CASE ToolchainExits
    BY <1>16
    DEF ToolchainExits
<1>17. CASE Interrupt
    BY <1>17
    DEF Interrupt, Raise, Here, Handler
<1>18. CASE UNCHANGED vars
    BY <1>18
    DEF vars
<1>. QED BY <1>1, <1>2, <1>3, <1>4, <1>5, <1>6, <1>7, <1>8, <1>9, <1>10, <1>11, <1>12, <1>13, <1>14, <1>15, <1>16, <1>17, <1>18 DEF Next, Main, Worker, Finished

-----------------------------------------------------------------------------
\* The invariants that rest on one another, for the theorems below.
LEMMA AllInvariants ==
  Spec => [](/\ TypeOK /\ RangeInv /\ ControlInv /\ WorkerInv /\ FaultInv
             /\ OpenInv /\ RecorderInv /\ ToolchainInv /\ DTIsHealthyBaseline
             /\ LogInv /\ TimelineInv /\ SamplingInv /\ ReturnInv)
<1>1. Init => WorkerInv
  BY DEF Init, WorkerInv
<1>2. Init => FaultInv
  BY DEF Init, FaultInv, RoundStartsFaultFree
<1>3. Init => OpenInv
  BY DEF Init, OpenInv, NothingLeftOpen
<1>4. Init => RecorderInv
  BY DEF Init, RecorderInv
<1>5. Init => ToolchainInv
  BY DEF Init, ToolchainInv, ToolchainStopped
<1>6. Init => DTIsHealthyBaseline
  BY DEF Init, DTIsHealthyBaseline
<1>7. Init => LogInv
  BY DEF Init, LogInv, DistinctCasesKeepTheirLogs, IsInjective
<1>8. Init => TimelineInv /\ SamplingInv
  BY DEF Init, TimelineInv, SamplingInv, Flying, Here
<1>9. Init => ReturnInv
  <2> SUFFICES ASSUME Init
               PROVE  LogsOfRounds(Closed) /\ offline = <<>> /\ [r \in 1..Collected |-> r] = <<>>
    BY DEF ReturnInv
  <2>1. data_logs = <<>> /\ offline = <<>> /\ Closed = 0 /\ Collected = 0
    BY DEF Init, Closed, Collected, Flying, Cleaning, Here
  <2>2. DOMAIN data_logs = {}
    BY <2>1
  <2> DEFINE f == [i \in DOMAIN data_logs |-> i]
  <2>3. f \in [DOMAIN data_logs -> 1..Closed] /\ 1..Closed = {}
    BY <2>1, <2>2
  <2> HIDE DEF f
  <2>4. LogsOfRounds(Closed)
    BY <2>2, <2>3 DEF LogsOfRounds
  <2> QED BY <2>1, <2>4
<1>. QED
  BY <1>1, <1>2, <1>3, <1>4, <1>5, <1>6, <1>7, <1>8, <1>9, TypeCorrect, WorkersJoined,
     WorkerInductive, FaultInductive, OpenInductive, RecorderInductive,
     ToolchainInductive, BaselineInductive, LogInductive, TimelineInductive,
     SamplingInductive, ReturnInductive, PTL
  DEF Spec

\* No round starts with a real vehicle under an old fault, unless clearing it
\* raised.
THEOREM FaultFreeRounds == Spec => []RoundStartsFaultFree
<1>1. FaultInv => RoundStartsFaultFree BY DEF FaultInv
<1>. QED BY <1>1, AllInvariants, PTL

\* Whatever failed, an uninterrupted run shuts down every vehicle it opened and,
\* with stop_on_exit, leaves no toolchain process.
THEOREM CleanUpReachesAll == Spec => []NothingLeftBehind
<1>1. OpenInv /\ ToolchainInv => NothingLeftBehind
  BY DEF OpenInv, ToolchainInv, NothingLeftBehind
<1>. QED BY <1>1, AllInvariants, PTL

\* Next to a real vehicle, the DT is faulted only on explicit request.
THEOREM HealthyBaseline == Spec => []DTIsHealthyBaseline
<1>. QED BY AllInvariants, PTL

\* Rounds with distinct case ids never write to the same workbook.
THEOREM LogsKept == Spec => []DistinctCasesKeepTheirLogs
<1>1. LogInv => DistinctCasesKeepTheirLogs BY DEF LogInv
<1>. QED BY <1>1, AllInvariants, PTL

\* A run that returns normally has flown every timeline and returns one workbook
\* on disk for each recorded round, in order; the ULogs of all are collected.
THEOREM EveryLogReturned == Spec => []ReturnsEveryLog
<1>1. TypeOK /\ TimelineInv /\ ReturnInv => ReturnsEveryLog
  <2> SUFFICES ASSUME TimelineInv, ReturnInv, pc = "done", ~raised
               PROVE  /\ round = Rounds /\ LogsOfRounds(Rounds)
                      /\ offline = IF Collects(config) THEN [r \in 1..Rounds |-> r] ELSE <<>>
    BY DEF ReturnsEveryLog
  <2>1. round = Rounds /\ Closed = round /\ Collected = round
    BY DEF TimelineInv, Closed, Collected, Flying, Cleaning, Here
  <2> QED BY <2>1 DEF ReturnInv
<1>. QED BY <1>1, AllInvariants, PTL

\* Rounds follow one another: nothing of a round is left when the next starts.
THEOREM RoundsSequential == Spec => RoundsDoNotOverlap
<1>1. /\ TypeOK /\ RangeInv /\ ControlInv /\ RecorderInv
      /\ [Next]_vars
      => [round' # round =>
            /\ round' = round + 1
            /\ running = {} /\ recorder = "none" /\ ~raised
            /\ stamp' >= stamp]_vars
  <2> SUFFICES ASSUME TypeOK, ControlInv, RecorderInv, [Next]_vars, round' # round
               PROVE  /\ round' = round + 1
                      /\ running = {} /\ recorder = "none" /\ ~raised
                      /\ stamp' >= stamp
    OBVIOUS
  <2>1. RoundStart
    BY DEF Next, Main, Worker, Finished, vars, BuildVehicles, ToolchainStart,
           InitializeVehicles, ExecuteStep, TimelineEnds, StartRecording,
           StopRecording, ClearRealFaults, CollectOfflineLogs, ShutdownVehicles,
           ToolchainStop, JoinReturns, WorkerReturns, WorkerRaises,
           ToolchainExits, Interrupt, roundVars
  <2>2. pc = "round_start" /\ round' = round + 1 /\ stamp' \in {stamp, stamp + 1}
    BY <2>1 DEF RoundStart, roundVars, TypeOK
  <2>3. ~raised /\ interrupts = 0 /\ running = {}
    BY <2>2 DEF ControlInv, WorkersAreJoined
  <2>4. recorder = "none"
    BY <2>2 DEF RecorderInv, Here
  <2>. QED BY <2>2, <2>3, <2>4 DEF TypeOK
<1>. QED BY <1>1, AllInvariants, PTL DEF Spec, RoundsDoNotOverlap

\* The runner, with its threads and error paths, implements the lifecycle.
THEOREM Refinement == Spec => ImplementsLifecycle
<1>1. Init => Session!LInit
  BY ConfigFacts DEF Init, Session!LInit, Stage, Here, Rounds
<1>. QED BY <1>1, LifecycleStep, AllInvariants, PTL DEF Spec, ImplementsLifecycle, Session!LSpec

=============================================================================
