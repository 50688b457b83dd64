-------------------------- MODULE CollectionRunner --------------------------
(***************************************************************************)
(* CollectionRunner.run of platform/collection/collection_runner.py: the   *)
(* main thread that builds the vehicle backends, starts the toolchain,     *)
(* initializes the vehicles, flies one round per timeline and tears         *)
(* everything down, together with the worker threads of _parallel_call.    *)
(*                                                                         *)
(* The main thread is a control point "pc".  It runs one _parallel_call at *)
(* a time; the four places that make one are the Sites.  A worker thread   *)
(* is a pair <<vehicle, site>>; it ends in any order relative to the other *)
(* workers, normally or with an exception.  An exception in the main       *)
(* thread moves pc to the enclosing finally block (Handler).               *)
(*                                                                         *)
(* Abstractions.  A backend call is one step with its effect on two facts: *)
(* the vehicle's connection ("opened") and the last fault flag sent to it  *)
(* ("faulted").  A target list is a set of names.  Arguments that make a   *)
(* step raise before any backend is called are the field "valid" of a step.*)
(***************************************************************************)
EXTENDS Integers, Sequences, FiniteSets

CONSTANTS Vehicles,       \* ids a config may declare
          Backend,        \* Backend[v]: the "backend" entry of v's config
          Names,          \* ids a step may name as a target
          Cases,          \* case_id values
          Configs,        \* run configs, the inputs of the program
          Interruptible,  \* the configs whose runs the operator may interrupt
          MaxInterrupts   \* bound on KeyboardInterrupts delivered to main

\* The methods a timeline action can name, "wait", and any other word.
Methods == {"arm", "disarm", "takeoff", "goto", "velocity", "hover", "land",
            "inject_fault", "clear_fault", "mission"}
Actions == Methods \cup {"wait", "unsupported"}

Step == [action : Actions,
         select : {"default", "all", "list"},   \* no targets key / "all" / names
         names  : SUBSET Names,
         valid  : BOOLEAN]                       \* seconds / trajectory parse

Timeline == [case : Cases, steps : Seq(Step)]

Config == [vehicles  : SUBSET Vehicles,
           timelines : Seq(Timeline),
           dry_run   : BOOLEAN,
           toolchain : {"disabled", "no_script", "unusable", "usable"},
           stop_on_exit : BOOLEAN,
           recording : BOOLEAN,
           offline_logs : BOOLEAN]

ASSUME ConstantsAssumption ==
  /\ Backend \in [Vehicles -> {"real", "dt", "other"}]
  /\ Vehicles \subseteq Names
  /\ Configs \subseteq Config
  /\ Interruptible \subseteq Configs
  /\ MaxInterrupts \in Nat

VARIABLES
  config,      \* the parsed config, fixed for the whole run
  pc,          \* control point of the main thread
  site,        \* which _parallel_call main is in, or was in last
  running,     \* live worker threads, as pairs <<vehicle, site>>
  errors,      \* vehicles whose worker of the call at site raised
  raised,      \* an exception is propagating through main
  round,       \* round_index
  step,        \* step_index, 0 before the first step of a round
  phase,       \* current_phase, the label the recorder copies
  recorder,    \* self.recorder: none, or the state of the recorder object
  stamp,       \* current_round_started, in seconds
  files,       \* xlsx workbooks on disk, named <<case_id, stamp>>
  data_logs,   \* paths that run() will return
  offline,     \* rounds whose ULog files were collected
  toolchain,   \* the toolchain process
  opened,      \* vehicles with a live connection and background loops
  faulted,     \* vehicles whose last fault command was an injection
  interrupts   \* KeyboardInterrupts delivered so far

callVars   == <<site, running, errors>>
roundVars  == <<round, step, phase, stamp>>
logVars    == <<recorder, files, data_logs, offline>>
vehVars    == <<opened, faulted>>
vars == <<config, pc, callVars, raised, roundVars, logVars, toolchain, vehVars,
          interrupts>>

Sites == {"initialize", "step", "clear", "shutdown"}
Points == {"build", "toolchain_start", "initialize", "round_start", "step",
           "record", "stop_recording", "clear", "collect", "shutdown",
           "toolchain_stop", "join", "done"}

RealVehicles(c) == {v \in c.vehicles : Backend[v] = "real"}

Rounds  == Len(config.timelines)
Steps   == config.timelines[round].steps
CurStep == Steps[step]

-----------------------------------------------------------------------------
(* Where an exception raised at a control point, or in the call made at a  *)
(* site, takes the main thread: the next enclosing finally block, or out.  *)

\* Mutant: _initialize_vehicles stands before the try block.
HandlerInitializeOutsideTry(p) ==
  IF p \in {"build", "toolchain_start", "initialize", "shutdown", "toolchain_stop"}
    THEN "done"
  ELSE IF p \in {"step", "record"} THEN "stop_recording"
  ELSE "shutdown"

\* Mutant: _run_one_timeline has no finally block.
HandlerWithoutRoundCleanup(p) ==
  IF p \in {"build", "toolchain_start", "shutdown", "toolchain_stop"} THEN "done"
  ELSE "shutdown"

Handler(p) ==
  IF p \in {"build", "toolchain_start", "shutdown", "toolchain_stop"} THEN "done"
  ELSE IF p \in {"step", "record"} THEN "stop_recording"
  ELSE "shutdown"

\* The control point inside whose try block main is.
Here == IF pc = "join" THEN site ELSE pc

Raise == pc' = Handler(Here) /\ raised' = TRUE

-----------------------------------------------------------------------------
(* _parallel_call: one daemon thread per target, all started, all joined.  *)

StartCall(s, targets) ==
  /\ pc' = "join"
  /\ site' = s
  /\ errors' = {}
  /\ running' = running \cup (targets \X {s})

\* What the backend method called at site s does to vehicle v.
IsInject(s) == s = "step" /\ CurStep.action = "inject_fault"
IsClear(s)  == s = "clear" \/ (s = "step" /\ CurStep.action = "clear_fault")

Effect(v, s) ==
  /\ opened' = IF s = "initialize" THEN opened \cup {v}
               ELSE IF s = "shutdown" THEN opened \ {v} ELSE opened
  /\ faulted' = IF IsInject(s) THEN faulted \cup {v}
                ELSE IF IsClear(s) THEN faulted \ {v} ELSE faulted

WorkerReturns(v, s) ==
  /\ pc # "done"                      \* daemon threads die with the process
  /\ <<v, s>> \in running
  /\ running' = running \ {<<v, s>>}
  /\ Effect(v, s)
  /\ UNCHANGED <<config, pc, site, errors, raised, roundVars, logVars,
                 toolchain, interrupts>>

\* The method raises, before or after it has reached the vehicle.  The error
\* joins the list of the call the worker belongs to.
WorkerRaises(v, s) ==
  /\ pc # "done"
  /\ <<v, s>> \in running
  /\ running' = running \ {<<v, s>>}
  /\ errors' = IF s = site THEN errors \cup {v} ELSE errors
  /\ Effect(v, s) \/ UNCHANGED vehVars
  /\ UNCHANGED <<config, pc, site, raised, roundVars, logVars, toolchain,
                 interrupts>>

Tolerated == {"clear", "shutdown"}    \* calls made with tolerate_errors=True

\* The control point after each call.
After(s) ==
  IF s = "initialize" THEN "round_start"
  ELSE IF s = "step" THEN "record"
  ELSE IF s = "clear" THEN "collect"
  ELSE "toolchain_stop"

\* Mutant: the threads are started and not joined.
JoinReturnsEarly ==
  /\ pc = "join"
  /\ IF errors # {} /\ site \notin Tolerated
       THEN Raise
       ELSE pc' = After(site) /\ UNCHANGED raised
  /\ UNCHANGED <<config, callVars, roundVars, logVars, toolchain, vehVars,
                 interrupts>>

\* Mutant: a failed shutdown is called again until it succeeds.
JoinReturnsRetrying ==
  /\ pc = "join"
  /\ \A v \in Vehicles : <<v, site>> \notin running
  /\ IF errors # {} /\ site \notin Tolerated
       THEN Raise
       ELSE /\ pc' = IF errors # {} /\ site = "shutdown" THEN "shutdown" ELSE After(site)
            /\ UNCHANGED raised
  /\ UNCHANGED <<config, callVars, roundVars, logVars, toolchain, vehVars,
                 interrupts>>

JoinReturns ==
  /\ pc = "join"
  /\ \A v \in Vehicles : <<v, site>> \notin running
  /\ IF errors # {} /\ site \notin Tolerated
       THEN Raise
       ELSE pc' = After(site) /\ UNCHANGED raised
  /\ UNCHANGED <<config, callVars, roundVars, logVars, toolchain, vehVars,
                 interrupts>>

-----------------------------------------------------------------------------
(* run: set-up.                                                            *)

CanBuild(c) ==
  /\ c.vehicles # {}
  /\ c.dry_run \/ \A v \in c.vehicles : Backend[v] \in {"real", "dt"}

BuildVehicles ==
  /\ pc = "build"
  /\ IF CanBuild(config) THEN pc' = "toolchain_start" /\ UNCHANGED raised
                         ELSE Raise
  /\ UNCHANGED <<config, callVars, roundVars, logVars, toolchain, vehVars,
                 interrupts>>

\* Whether the script is really launched.
Launches(c) == c.toolchain = "usable" /\ ~c.dry_run

\* ToolchainProcess.start
ToolchainStart ==
  /\ pc = "toolchain_start"
  /\ \/ /\ \/ config.toolchain = "disabled"
           \/ config.toolchain # "no_script" /\ config.dry_run
        /\ pc' = "initialize"
        /\ UNCHANGED <<toolchain, raised>>
     \/ /\ \/ config.toolchain = "no_script"
           \/ config.toolchain = "unusable" /\ ~config.dry_run
        /\ Raise
        /\ UNCHANGED toolchain
     \/ /\ Launches(config)
        /\ toolchain' = "running"
        /\ pc' = "initialize"
        /\ UNCHANGED raised
  /\ UNCHANGED <<config, callVars, roundVars, logVars, vehVars, interrupts>>

\* The toolchain script ends on its own.
ToolchainExits ==
  /\ pc # "done"
  /\ toolchain = "running"
  /\ toolchain' = "exited"
  /\ UNCHANGED <<config, pc, callVars, raised, roundVars, logVars, vehVars,
                 interrupts>>

InitializeVehicles ==
  /\ pc = "initialize"
  /\ StartCall("initialize", config.vehicles)
  /\ UNCHANGED <<config, raised, roundVars, logVars, toolchain, vehVars,
                 interrupts>>

-----------------------------------------------------------------------------
(* _run_one_timeline and _execute_step.                                    *)

\* Mutant: steps are enumerated from zero.
SetPhaseFromZero(r, i, a) == phase' = [round |-> r, index |-> i - 1, action |-> a]

SetPhase(r, i, a) == phase' = [round |-> r, index |-> i, action |-> a]

\* The for loop of run: the next timeline, or out of the try block.  Two
\* rounds may start within the same second of the wall clock.
RoundStart ==
  /\ pc = "round_start"
  /\ IF round < Rounds
       THEN /\ round' = round + 1
            /\ \E elapsed \in 0..1 : stamp' = stamp + elapsed
            /\ recorder' = "none"
            /\ step' = 0
            /\ SetPhase(round + 1, 0, "not_started")
            /\ pc' = "step"
       ELSE /\ pc' = "shutdown"
            /\ UNCHANGED <<roundVars, recorder>>
  /\ UNCHANGED <<config, callVars, raised, files, data_logs, offline,
                 toolchain, vehVars, interrupts>>

\* _select_targets
Targets(s) ==
  IF s.select = "list" THEN s.names
  ELSE IF /\ s.select = "default"
          /\ s.action \in {"inject_fault", "clear_fault"}
          /\ RealVehicles(config) # {}
         THEN RealVehicles(config)
         ELSE config.vehicles

\* The step raises in the main thread before any backend is called.
RaisesEarly(s) ==
  \/ s.action \in {"wait", "mission"} /\ ~s.valid
  \/ s.action # "wait" /\ s.select = "list" /\ ~(s.names \subseteq config.vehicles)
  \/ s.action = "unsupported"

ExecuteStep ==
  /\ pc = "step"
  /\ step < Len(Steps)
  /\ step' = step + 1
  /\ LET s == Steps[step + 1] IN
       /\ SetPhase(round, step + 1, s.action)
       /\ \/ /\ RaisesEarly(s)
             /\ Raise
             /\ UNCHANGED callVars
          \/ /\ ~RaisesEarly(s)
             /\ s.action = "wait"
             /\ UNCHANGED <<pc, raised, callVars>>
          \/ /\ ~RaisesEarly(s)
             /\ s.action # "wait"
             /\ StartCall("step", Targets(s))
             /\ UNCHANGED raised
  /\ UNCHANGED <<config, round, stamp, logVars, toolchain, vehVars, interrupts>>

\* After the last step the inner finally block runs.
TimelineEnds ==
  /\ pc = "step"
  /\ step = Len(Steps)
  /\ pc' = "stop_recording"
  /\ UNCHANGED <<config, callVars, raised, roundVars, logVars, toolchain,
                 vehVars, interrupts>>

\* After a call: _start_recording once arm has succeeded.  A disabled recorder
\* is an object all the same; creating the output directory may fail.
StartRecording ==
  /\ pc = "record"
  /\ \/ /\ CurStep.action = "arm" /\ recorder = "none" /\ ~config.recording
        /\ recorder' = "disabled"
        /\ pc' = "step" /\ UNCHANGED raised
     \/ /\ CurStep.action = "arm" /\ recorder = "none" /\ config.recording
        /\ \/ recorder' = "sampling" /\ pc' = "step" /\ UNCHANGED raised
           \/ recorder' = "created" /\ Raise
     \/ /\ CurStep.action # "arm" \/ recorder # "none"
        /\ pc' = "step" /\ UNCHANGED <<recorder, raised>>
  /\ UNCHANGED <<config, callVars, roundVars, files, data_logs, offline,
                 toolchain, vehVars, interrupts>>

-----------------------------------------------------------------------------
(* The finally block of _run_one_timeline.                                 *)

\* Mutant: the workbook is named by its time stamp only.
WorkbookByStamp == <<CHOOSE c \in Cases : TRUE, stamp>>

Workbook == <<config.timelines[round].case, stamp>>

\* Mutant: the path of the workbook is not appended to data_logs.
StopRecordingForgetsPath ==
  /\ pc = "stop_recording"
  /\ recorder' = "none"
  /\ pc' = "clear"
  /\ files' = IF recorder \in {"created", "sampling"} THEN files \cup {Workbook} ELSE files
  /\ UNCHANGED <<config, callVars, raised, roundVars, data_logs, offline,
                 toolchain, vehVars, interrupts>>

\* recorder.stop joins the sampler and writes the workbook; the write may
\* raise (even after the file was created), and then self.recorder keeps the
\* object and the rest of the finally block is skipped.
StopRecording ==
  /\ pc = "stop_recording"
  /\ \/ /\ recorder \in {"none", "disabled"}
        /\ recorder' = "none"
        /\ pc' = "clear"
        /\ UNCHANGED <<files, data_logs, raised>>
     \/ /\ recorder \in {"created", "sampling"}
        /\ recorder' = "none"
        /\ files' = files \cup {Workbook}
        /\ data_logs' = Append(data_logs, Workbook)
        /\ pc' = "clear"
        /\ UNCHANGED raised
     \/ /\ recorder \in {"created", "sampling"}
        /\ recorder' = "created"
        /\ files' \in {files, files \cup {Workbook}}
        /\ Raise
        /\ UNCHANGED data_logs
  /\ UNCHANGED <<config, callVars, roundVars, offline, toolchain, vehVars,
                 interrupts>>

\* Mutant: the faults are left to the timeline's own clear_fault steps.
ClearRealFaultsSkipped ==
  /\ pc = "clear"
  /\ pc' = "collect"
  /\ UNCHANGED <<config, callVars, raised, roundVars, logVars, toolchain,
                 vehVars, interrupts>>

ClearRealFaults ==
  /\ pc = "clear"
  /\ IF RealVehicles(config) = {}
       THEN pc' = "collect" /\ UNCHANGED callVars
       ELSE StartCall("clear", RealVehicles(config))
  /\ UNCHANGED <<config, raised, roundVars, logVars, toolchain, vehVars,
                 interrupts>>

\* PX4OfflineLogCollector.collect copies nothing when disabled, in a dry run,
\* or without a DT vehicle; making the directory or copying may raise.
Collects(c) ==
  c.offline_logs /\ ~c.dry_run /\ \E v \in c.vehicles : Backend[v] = "dt"

CollectOfflineLogs ==
  /\ pc = "collect"
  /\ \/ /\ offline' = IF Collects(config) THEN Append(offline, round) ELSE offline
        /\ pc' = IF raised THEN "shutdown" ELSE "round_start"
        /\ UNCHANGED raised
     \/ /\ Collects(config)
        /\ Raise
        /\ UNCHANGED offline
  /\ UNCHANGED <<config, callVars, roundVars, recorder, files, data_logs,
                 toolchain, vehVars, interrupts>>

-----------------------------------------------------------------------------
(* The finally block of run.                                               *)

ShutdownVehicles ==
  /\ pc = "shutdown"
  /\ StartCall("shutdown", config.vehicles)
  /\ UNCHANGED <<config, raised, roundVars, logVars, toolchain, vehVars,
                 interrupts>>

\* ToolchainProcess.stop, and the return from run (or the exception's exit).
ToolchainStop ==
  /\ pc = "toolchain_stop"
  /\ toolchain' = IF config.stop_on_exit /\ toolchain = "running"
                    THEN "terminated" ELSE toolchain
  /\ pc' = "done"
  /\ UNCHANGED <<config, callVars, raised, roundVars, logVars, vehVars,
                 interrupts>>

\* Ctrl-C: KeyboardInterrupt in the main thread, at any control point.  The
\* workers of an interrupted join go on; during the start-up wait of
\* ToolchainProcess.start the process is running already.
Interrupt ==
  /\ pc # "done"
  /\ config \in Interruptible
  /\ interrupts < MaxInterrupts
  /\ interrupts' = interrupts + 1
  /\ Raise
  /\ \/ UNCHANGED toolchain
     \/ pc = "toolchain_start" /\ Launches(config) /\ toolchain' = "running"
  /\ UNCHANGED <<config, callVars, roundVars, logVars, vehVars>>

Finished == pc = "done" /\ UNCHANGED vars

-----------------------------------------------------------------------------
Init ==
  /\ config \in Configs
  /\ pc = "build"
  /\ site = "initialize"
  /\ running = {}
  /\ errors = {}
  /\ raised = FALSE
  /\ round = 0
  /\ step = 0
  /\ phase = [round |-> 0, index |-> 0, action |-> "none"]
  /\ recorder = "none"
  /\ stamp = 0
  /\ files = {}
  /\ data_logs = <<>>
  /\ offline = <<>>
  /\ toolchain = "none"
  /\ opened = {}
  /\ faulted = {}
  /\ interrupts = 0

Worker(v, s) == WorkerReturns(v, s) \/ WorkerRaises(v, s)

Main ==
  \/ BuildVehicles \/ ToolchainStart \/ InitializeVehicles
  \/ RoundStart \/ ExecuteStep \/ TimelineEnds \/ StartRecording
  \/ StopRecording \/ ClearRealFaults \/ CollectOfflineLogs
  \/ ShutdownVehicles \/ ToolchainStop \/ JoinReturns

Next ==
  \/ Main
  \/ \E v \in Vehicles, s \in Sites : Worker(v, s)
  \/ ToolchainExits
  \/ Interrupt
  \/ Finished

Spec == Init /\ [][Next]_vars

\* The operating system runs the main thread, and a backend call returns or
\* raises: the vehicles answer.  (A silent link is VehicleSession's.)
Fairness ==
  /\ WF_vars(Main)
  /\ \A v \in Vehicles, s \in Sites : WF_vars(Worker(v, s))

FairSpec == Spec /\ Fairness

-----------------------------------------------------------------------------
(* Properties.                                                             *)

\* The values each part of the state ranges over (run, _parallel_call and the
\* recorder attribute of collection_runner.py).
TypeOK ==
  /\ config \in Configs
  /\ pc \in Points
  /\ site \in Sites
  /\ running \subseteq Vehicles \X Sites
  /\ errors \subseteq Vehicles
  /\ raised \in BOOLEAN
  /\ round \in Nat
  /\ step \in Nat
  /\ phase \in [round : Nat, index : Nat, action : Actions \cup {"none", "not_started"}]
  /\ recorder \in {"none", "disabled", "created", "sampling"}
  /\ stamp \in Nat
  /\ files \subseteq Cases \X Nat
  /\ data_logs \in Seq(Cases \X Nat)
  /\ offline \in Seq(Nat)
  /\ toolchain \in {"none", "running", "exited", "terminated"}
  /\ opened \subseteq Vehicles
  /\ faulted \subseteq Vehicles
  /\ interrupts \in Nat

\* Unless the operator interrupts the run, a worker thread of _parallel_call
\* is alive only while main is joined on the very call that started it: no
\* initialize, mission or fault command runs beside a shutdown.
WorkersAreJoined ==
  interrupts = 0 => \A w \in running : pc = "join" /\ w[2] = site

\* A round starts with no real vehicle still under a fault of an earlier
\* round, except one whose clear_fault raised (_clear_real_faults tolerates
\* that error and the next round flies all the same).
RoundStartsFaultFree ==
  pc = "round_start" => faulted \cap RealVehicles(config) \subseteq errors

NothingLeftOpen == opened \subseteq errors
ToolchainStopped == config.stop_on_exit => toolchain # "running"

\* When run() ends uninterrupted, whichever step failed, no vehicle keeps its
\* connection and its background loops, except one whose shutdown raised, and
\* with stop_on_exit no toolchain process is left: the finally block reached
\* everything that may have been opened or started.
NothingLeftBehind ==
  pc = "done" /\ interrupts = 0 => NothingLeftOpen /\ ToolchainStopped

Arms(t) == \E i \in DOMAIN t.steps : t.steps[i].action = "arm"
Recorded(r) == config.recording /\ Arms(config.timelines[r])

\* The paths to be returned belong to the recorded rounds among the first k,
\* one to each, in the order of the rounds.
LogsOfRounds(k) ==
  \E of \in [DOMAIN data_logs -> 1..k] :
    /\ \A i, j \in DOMAIN data_logs : i < j => of[i] < of[j]
    /\ \A r \in 1..k : Recorded(r) <=> \E i \in DOMAIN data_logs : of[i] = r
    /\ \A i \in DOMAIN data_logs :
         data_logs[i][1] = config.timelines[of[i]].case /\ data_logs[i] \in files

\* A run that returns normally has flown every timeline, and returns one
\* workbook for each timeline that arms a vehicle, in timeline order; each
\* workbook is on disk, and the ULog files of every round were collected.
ReturnsEveryLog ==
  pc = "done" /\ ~raised =>
    /\ round = Rounds
    /\ LogsOfRounds(Rounds)
    /\ offline = IF Collects(config) THEN [r \in 1..Rounds |-> r] ELSE <<>>

DistinctCases ==
  \A i, j \in DOMAIN config.timelines :
    i # j => config.timelines[i].case # config.timelines[j].case

IsInjective(s) == \A i, j \in DOMAIN s : s[i] = s[j] => i = j

\* Timelines with different case_ids never share a workbook, however fast the
\* rounds follow each other: no round overwrites another round's data.
DistinctCasesKeepTheirLogs == DistinctCases => IsInjective(data_logs)

Explicit(v) ==
  \E r \in 1..round : \E i \in DOMAIN config.timelines[r].steps :
    LET s == config.timelines[r].steps[i] IN
      s.action = "inject_fault" /\ s.select # "default" /\ v \in Targets(s)

\* In a fleet with a real vehicle, a DT vehicle is under a fault only if a
\* timeline step targets it explicitly (_select_targets).
DTIsHealthyBaseline ==
  \A v \in faulted :
    Backend[v] = "dt" /\ RealVehicles(config) # {} => Explicit(v)

\* A round begins only after every worker of the previous one has ended, its
\* recorder was released and no exception is pending; rounds are numbered in
\* timeline order and never start before an earlier one.
RoundsDoNotOverlap ==
  [][round' # round =>
       /\ round' = round + 1
       /\ running = {} /\ recorder = "none" /\ ~raised
       /\ stamp' >= stamp]_vars

(* What the documentation states, for the runs that refute it.             *)

\* "real vehicle fault flags are cleared after every round": when the vehicles
\* are about to be shut down, the only real vehicles still under a fault are
\* those whose clear_fault raised.
FaultsClearedAfterEveryRound ==
  pc = "shutdown" => faulted \cap RealVehicles(config) \subseteq errors

(* The session as the operator sees it.                                    *)

Stage ==
  IF pc \in {"build", "toolchain_start"} THEN "idle"
  ELSE IF Here = "initialize" THEN "connecting"
  ELSE IF pc = "round_start" THEN "ready"
  ELSE IF Here \in {"step", "record"} THEN "flying"
  ELSE IF Here \in {"stop_recording", "clear", "collect"} THEN "cleaning"
  ELSE IF Here \in {"shutdown", "toolchain_stop"} THEN "shutdown"
  ELSE "ended"

Session == INSTANCE CollectionLifecycle
             WITH stage <- Stage, flown <- round, planned <- Rounds

\* The runner implements the lifecycle, interrupted or not.
ImplementsLifecycle == Session!LSpec

\* ... and, while backend calls return or raise, never hangs in a stage: every
\* run reaches its end through the stages of the lifecycle.
ImplementsFairLifecycle == Session!LFairSpec

=============================================================================
