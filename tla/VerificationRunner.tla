------------------------- MODULE VerificationRunner -------------------------
(***************************************************************************)
(* VerificationRunner.run of platform/verification/verification_runner.py: *)
(* one scenario on a fleet of DT vehicles, with a recorder that samples     *)
(* from the end of the initialization on, and a JSON report at the end.    *)
(*                                                                         *)
(* Unlike the collection flow there is a single try block, and its finally *)
(* block is a chain: stop the recorder, shut the vehicles down, collect    *)
(* the ULog files, stop the toolchain.  A link that raises drops the rest. *)
(* "failed" remembers the control points at which the main thread raised.  *)
(***************************************************************************)
EXTENDS Naturals, Sequences

CONSTANTS Vehicles,       \* ids a config may declare
          Scenarios,      \* configs with their scenario, the program's inputs
          MaxInterrupts   \* bound on KeyboardInterrupts delivered to main

\* A step calls the targets' backends, waits, or raises on its own: a name
\* that is no vehicle, an unknown action, a bad number or trajectory.
Step == [kind : {"call", "wait", "bad"}, targets : SUBSET Vehicles]

Scenario == [vehicles : SUBSET Vehicles,
             supported : BOOLEAN,       \* dry run, or every backend is "dt"
             steps : Seq(Step),
             toolchain : {"off", "broken", "on"},
             stop_on_exit : BOOLEAN,
             recording : BOOLEAN,
             offline_logs : BOOLEAN]    \* enabled, and not a dry run

ASSUME VerificationAssumption ==
  Scenarios \subseteq Scenario /\ MaxInterrupts \in Nat

VARIABLES
  config,       \* the config and its scenario
  pc,           \* control point of the main thread
  site,         \* the _parallel_call main is in, or was in last
  running,      \* live worker threads, <<vehicle, site>>
  errors,       \* vehicles whose worker of that call raised
  failed,       \* control points at which main raised
  step,         \* index of the current step
  events,       \* indices of the events recorded for the report
  recorder,     \* none, disabled, created, sampling or stopped
  data_log,     \* data_log_path is set
  report,       \* the report is on disk
  toolchain,    \* the toolchain process
  opened,       \* vehicles with a live connection and background loops
  interrupts

vars == <<config, pc, site, running, errors, failed, step, events, recorder,
          data_log, report, toolchain, opened, interrupts>>

Sites  == {"initialize", "step", "shutdown"}
Points == {"build", "toolchain_start", "initialize", "start_recording", "step",
           "stop_recording", "shutdown", "collect", "toolchain_stop", "report",
           "join", "done"}

-----------------------------------------------------------------------------
\* Mutant: the recorder is started before the try block.
HandlerRecordingOutsideTry(p) ==
  IF p \in {"initialize", "step"} THEN "stop_recording" ELSE "done"

\* The finally block covers the three stages of the try block; an exception
\* before it or within it leaves run at once.
Handler(p) ==
  IF p \in {"initialize", "start_recording", "step"} THEN "stop_recording" ELSE "done"

Here == IF pc = "join" THEN site ELSE pc

Raise == pc' = Handler(Here) /\ failed' = failed \cup {Here}

\* After the finally block: the report, unless an exception goes on.
Leave == pc' = IF failed = {} THEN "report" ELSE "done"

-----------------------------------------------------------------------------
(* _parallel_call                                                          *)

StartCall(s, targets) ==
  /\ pc' = "join"
  /\ site' = s
  /\ errors' = {}
  /\ running' = running \cup (targets \X {s})

Effect(v, s) ==
  opened' = IF s = "initialize" THEN opened \cup {v}
            ELSE IF s = "shutdown" THEN opened \ {v} ELSE opened

WorkerReturns(v, s) ==
  /\ pc # "done" /\ <<v, s>> \in running
  /\ running' = running \ {<<v, s>>}
  /\ Effect(v, s)
  /\ UNCHANGED <<config, pc, site, errors, failed, step, events, recorder,
                 data_log, report, toolchain, interrupts>>

\* A method may raise before or after it took effect.
WorkerRaises(v, s) ==
  /\ pc # "done" /\ <<v, s>> \in running
  /\ running' = running \ {<<v, s>>}
  /\ errors' = IF s = site THEN errors \cup {v} ELSE errors
  /\ Effect(v, s) \/ UNCHANGED opened
  /\ UNCHANGED <<config, pc, site, failed, step, events, recorder, data_log,
                 report, toolchain, interrupts>>

Worker(v, s) == WorkerReturns(v, s) \/ WorkerRaises(v, s)

After(s) ==
  IF s = "initialize" THEN "start_recording"
  ELSE IF s = "step" THEN "step" ELSE "collect"

\* Mutant: events are numbered from zero.
RecordEventFromZero(i) == events' = Append(events, i - 1)

\* _record_event; the snapshots it takes cannot raise.
RecordEvent(i) == events' = Append(events, i)

\* Mutant: a step's errors are tolerated like those of shutdown.
JoinReturnsTolerant ==
  /\ pc = "join"
  /\ \A v \in Vehicles : <<v, site>> \notin running
  /\ IF errors # {} /\ site = "initialize"
       THEN Raise /\ UNCHANGED events
       ELSE /\ pc' = After(site)
            /\ IF site = "step" /\ errors = {} THEN RecordEvent(step)
                                               ELSE UNCHANGED events
            /\ UNCHANGED failed
  /\ UNCHANGED <<config, site, running, errors, step, recorder, data_log,
                 report, toolchain, opened, interrupts>>

JoinReturns ==
  /\ pc = "join"
  /\ \A v \in Vehicles : <<v, site>> \notin running
  /\ IF errors # {} /\ site # "shutdown"
       THEN Raise /\ UNCHANGED events
       ELSE /\ pc' = After(site)
            /\ IF site = "step" THEN RecordEvent(step) ELSE UNCHANGED events
            /\ UNCHANGED failed
  /\ UNCHANGED <<config, site, running, errors, step, recorder, data_log,
                 report, toolchain, opened, interrupts>>

-----------------------------------------------------------------------------
(* The try block.                                                          *)

BuildVehicles ==
  /\ pc = "build"
  /\ IF config.vehicles # {} /\ config.supported
       THEN pc' = "toolchain_start" /\ UNCHANGED failed
       ELSE Raise
  /\ UNCHANGED <<config, site, running, errors, step, events, recorder,
                 data_log, report, toolchain, opened, interrupts>>

ToolchainStart ==
  /\ pc = "toolchain_start"
  /\ IF config.toolchain = "broken"
       THEN Raise /\ UNCHANGED toolchain
       ELSE /\ pc' = "initialize"
            /\ toolchain' = IF config.toolchain = "on" THEN "running" ELSE toolchain
            /\ UNCHANGED failed
  /\ UNCHANGED <<config, site, running, errors, step, events, recorder,
                 data_log, report, opened, interrupts>>

\* The toolchain script ends on its own.
ToolchainExits ==
  /\ pc # "done" /\ toolchain = "running"
  /\ toolchain' = "exited"
  /\ UNCHANGED <<config, pc, site, running, errors, failed, step, events,
                 recorder, data_log, report, opened, interrupts>>

InitializeVehicles ==
  /\ pc = "initialize"
  /\ StartCall("initialize", config.vehicles)
  /\ UNCHANGED <<config, failed, step, events, recorder, data_log, report,
                 toolchain, opened, interrupts>>

StartRecording ==
  /\ pc = "start_recording"
  /\ \/ /\ ~config.recording
        /\ recorder' = "disabled" /\ pc' = "step" /\ UNCHANGED failed
     \/ /\ config.recording
        /\ recorder' = "sampling" /\ pc' = "step" /\ UNCHANGED failed
     \/ /\ config.recording               \* the directory cannot be made
        /\ recorder' = "created" /\ Raise
  /\ UNCHANGED <<config, site, running, errors, step, events, data_log, report,
                 toolchain, opened, interrupts>>

ExecuteStep ==
  /\ pc = "step"
  /\ step < Len(config.steps)
  /\ step' = step + 1
  /\ LET s == config.steps[step + 1] IN
       \/ /\ s.kind = "bad"
          /\ Raise
          /\ UNCHANGED <<site, running, errors, events>>
       \/ /\ s.kind = "wait"
          /\ RecordEvent(step + 1)
          /\ UNCHANGED <<pc, failed, site, running, errors>>
       \/ /\ s.kind = "call"
          /\ StartCall("step", s.targets)
          /\ UNCHANGED <<failed, events>>
  /\ UNCHANGED <<config, recorder, data_log, report, toolchain, opened,
                 interrupts>>

ScenarioEnds ==
  /\ pc = "step"
  /\ step = Len(config.steps)
  /\ pc' = "stop_recording"
  /\ UNCHANGED <<config, site, running, errors, failed, step, events, recorder,
                 data_log, report, toolchain, opened, interrupts>>

-----------------------------------------------------------------------------
(* The finally block and the report.                                       *)

StopRecording ==
  /\ pc = "stop_recording"
  /\ \/ /\ recorder \in {"none", "disabled"}
        /\ pc' = "shutdown"
        /\ UNCHANGED <<recorder, data_log, failed>>
     \/ /\ recorder \in {"created", "sampling"}
        /\ recorder' = "stopped" /\ data_log' = TRUE
        /\ pc' = "shutdown"
        /\ UNCHANGED failed
     \/ /\ recorder \in {"created", "sampling"}    \* the write raises
        /\ recorder' = "stopped"
        /\ Raise
        /\ UNCHANGED data_log
  /\ UNCHANGED <<config, site, running, errors, step, events, report, toolchain,
                 opened, interrupts>>

ShutdownVehicles ==
  /\ pc = "shutdown"
  /\ StartCall("shutdown", config.vehicles)
  /\ UNCHANGED <<config, failed, step, events, recorder, data_log, report,
                 toolchain, opened, interrupts>>

\* Every vehicle is a DT: collect copies their logs, or raises on the way.
CollectOfflineLogs ==
  /\ pc = "collect"
  /\ \/ pc' = "toolchain_stop" /\ UNCHANGED failed
     \/ config.offline_logs /\ Raise
  /\ UNCHANGED <<config, site, running, errors, step, events, recorder,
                 data_log, report, toolchain, opened, interrupts>>

ToolchainStop ==
  /\ pc = "toolchain_stop"
  /\ toolchain' = IF config.stop_on_exit /\ toolchain = "running"
                    THEN "terminated" ELSE toolchain
  /\ Leave
  /\ UNCHANGED <<config, site, running, errors, failed, step, events, recorder,
                 data_log, report, opened, interrupts>>

WriteReport ==
  /\ pc = "report"
  /\ \/ report' = TRUE /\ pc' = "done" /\ UNCHANGED failed
     \/ Raise /\ UNCHANGED report
  /\ UNCHANGED <<config, site, running, errors, step, events, recorder,
                 data_log, toolchain, opened, interrupts>>

\* Ctrl-C at any control point; the start-up wait of the toolchain included.
Interrupt ==
  /\ pc # "done"
  /\ interrupts < MaxInterrupts
  /\ interrupts' = interrupts + 1
  /\ Raise
  /\ \/ UNCHANGED toolchain
     \/ /\ pc = "toolchain_start" /\ config.toolchain = "on"
        /\ toolchain' = "running"
  /\ UNCHANGED <<config, site, running, errors, step, events, recorder,
                 data_log, report, opened>>

Finished == pc = "done" /\ UNCHANGED vars

-----------------------------------------------------------------------------
Init ==
  /\ config \in Scenarios
  /\ pc = "build" /\ site = "initialize"
  /\ running = {} /\ errors = {} /\ failed = {}
  /\ step = 0 /\ events = <<>>
  /\ recorder = "none" /\ data_log = FALSE /\ report = FALSE
  /\ toolchain = "none" /\ opened = {} /\ interrupts = 0

Main ==
  \/ BuildVehicles \/ ToolchainStart \/ InitializeVehicles \/ StartRecording
  \/ ExecuteStep \/ ScenarioEnds \/ StopRecording \/ ShutdownVehicles
  \/ CollectOfflineLogs \/ ToolchainStop \/ WriteReport \/ JoinReturns

Next ==
  \/ Main
  \/ \E v \in Vehicles, s \in Sites : Worker(v, s)
  \/ ToolchainExits
  \/ Interrupt
  \/ Finished

Spec == Init /\ [][Next]_vars

-----------------------------------------------------------------------------
(* Properties.                                                             *)

\* The values the runner's attributes range over.
TypeOK ==
  /\ config \in Scenarios
  /\ pc \in Points /\ site \in Sites
  /\ running \subseteq Vehicles \X Sites
  /\ errors \subseteq Vehicles
  /\ failed \subseteq Points
  /\ step \in 0..Len(config.steps)
  /\ events \in Seq(1..Len(config.steps))
  /\ recorder \in {"none", "disabled", "created", "sampling", "stopped"}
  /\ data_log \in BOOLEAN /\ report \in BOOLEAN
  /\ toolchain \in {"none", "running", "exited", "terminated"}
  /\ opened \subseteq Vehicles
  /\ interrupts \in 0..MaxInterrupts

\* A report on disk tells of a run in which everything went through: one event
\* per step in scenario order, the workbook it names was written, no vehicle
\* still connected unless its shutdown raised, no toolchain left behind, and
\* no worker still at work.
ReportIsTruthful ==
  report =>
    /\ events = [i \in 1..Len(config.steps) |-> i]
    /\ data_log = config.recording
    /\ opened \subseteq errors
    /\ running = {}
    /\ config.stop_on_exit => toolchain # "running"

\* Uninterrupted, the vehicles stay connected at the end of run only because
\* the workbook could not be written, and the toolchain stays up only because
\* that or the log collection failed: no failure of the scenario itself makes
\* the clean-up incomplete.
CleanupFailsAlone ==
  pc = "done" /\ interrupts = 0 =>
    /\ ~(opened \subseteq errors) => "stop_recording" \in failed
    /\ config.stop_on_exit /\ toolchain = "running" =>
         failed \cap {"stop_recording", "collect"} # {}

=============================================================================
