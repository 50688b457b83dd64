------------------------ MODULE RealtimeDataRecorder ------------------------
(***************************************************************************)
(* RealtimeDataRecorder of platform/sdk/core/logging.py during one flight  *)
(* round, with the metadata provider CollectionRunner gives it: the main   *)
(* thread moves through the phases of the round while the recorder's       *)
(* daemon thread appends one row per vehicle and sample.  Nothing is       *)
(* locked, so every attribute read and write is a step of its own.         *)
(*                                                                         *)
(* Phases are numbered in the order of the round.  A row remembers which   *)
(* phase was in progress when its payload was read ("data"), which label   *)
(* it carries, and whose start time its phase_elapsed_s is measured from.  *)
(* Vehicles are 1..NVehicles, the order of the dict the recorder iterates. *)
(***************************************************************************)
EXTENDS Naturals, Sequences

CONSTANTS NVehicles,   \* vehicles of the fleet
          MaxPhase,    \* last phase of the round
          MaxSamples   \* bound on sample_index

ASSUME RecorderAssumption ==
  /\ NVehicles \in Nat \ {0}
  /\ MaxPhase \in Nat
  /\ MaxSamples \in Nat \ {0}

VARIABLES
  enabled,      \* the config's recording.enabled
  main,         \* control point of the main thread
  thread,       \* control point of the sampling thread
  current_phase, current_phase_started,   \* written by _set_phase
  stop_event,
  sample_index,
  cursor,       \* vehicle the sample in progress is at; 0 between samples
  at,           \* what _sample_once reads next for that vehicle
  row,          \* what it has read so far
  records,      \* records[v]: rows in memory
  sheets,       \* sheets of the workbook written so far
  workbook,     \* workbook[v]: rows of v's sheet
  timed_out     \* the join gave up on the thread

phaseVars  == <<current_phase, current_phase_started>>
sampleVars == <<sample_index, cursor, at, row, records>>
bookVars   == <<sheets, workbook, timed_out>>
vars == <<enabled, main, thread, phaseVars, stop_event, sampleVars, bookVars>>

Fleet   == 1..NVehicles
Partial == [data : Nat, label : Nat]
Row     == [sample : Nat, data : Nat, label : Nat, started : Nat]

-----------------------------------------------------------------------------
(* _set_phase: two assignments, the start time first.                      *)

\* Mutant: the label is stored before the start time.
SetPhaseLabelFirst ==
  /\ main = "flying"
  /\ current_phase < MaxPhase
  /\ current_phase' = current_phase + 1
  /\ main' = "set_phase"
  /\ UNCHANGED <<enabled, thread, current_phase_started, stop_event, sampleVars,
                 bookVars>>

SetPhaseStarted ==
  /\ main = "flying"
  /\ current_phase < MaxPhase
  /\ current_phase_started' = current_phase + 1
  /\ main' = "set_phase"
  /\ UNCHANGED <<enabled, thread, current_phase, stop_event, sampleVars, bookVars>>

SetPhaseLabel ==
  /\ main = "set_phase"
  /\ current_phase' = current_phase_started
  /\ main' = "flying"
  /\ UNCHANGED <<enabled, thread, current_phase_started, stop_event, sampleVars,
                 bookVars>>

-----------------------------------------------------------------------------
(* _sample_once, run by the main thread inside start and by the sampling   *)
(* thread afterwards.                                                      *)

BeginSample ==
  /\ sample_index' = sample_index + 1
  /\ cursor' = 1
  /\ UNCHANGED <<at, row, records>>

\* payload = vehicle.record_snapshot(fields); an exception there still makes a
\* row.  The vehicle acts on a phase once the phase is set.
ReadPayload ==
  /\ at = "payload"
  /\ row' = [row EXCEPT !.data = current_phase]
  /\ at' = "label"
  /\ UNCHANGED <<sample_index, cursor, records>>

\* data = dict(self.current_phase) in _recording_metadata.
ReadLabel ==
  /\ at = "label"
  /\ row' = [row EXCEPT !.label = current_phase]
  /\ at' = "elapsed"
  /\ UNCHANGED <<sample_index, cursor, records>>

\* Mutant: the last vehicle does not end the sample.
AppendRowNoEnd ==
  /\ at = "elapsed"
  /\ records' = [records EXCEPT ![cursor] =
        Append(@, [sample |-> sample_index, data |-> row.data,
                   label |-> row.label, started |-> current_phase_started])]
  /\ at' = "payload"
  /\ cursor' = cursor + 1
  /\ UNCHANGED <<sample_index, row>>

\* phase_elapsed_s = time.time() - self.current_phase_started, the append, and
\* the next vehicle.
AppendRow ==
  /\ at = "elapsed"
  /\ records' = [records EXCEPT ![cursor] =
        Append(@, [sample |-> sample_index, data |-> row.data,
                   label |-> row.label, started |-> current_phase_started])]
  /\ at' = "payload"
  /\ cursor' = IF cursor = NVehicles THEN 0 ELSE cursor + 1
  /\ UNCHANGED <<sample_index, row>>

SampleStep == cursor # 0 /\ (ReadPayload \/ ReadLabel \/ AppendRow)

-----------------------------------------------------------------------------
(* start: the first sample is taken synchronously, then the thread starts. *)

Start ==
  /\ main = "idle"
  /\ \/ /\ ~enabled
        /\ main' = "flying"
        /\ UNCHANGED sampleVars
     \/ /\ enabled
        /\ main' = "first"
        /\ BeginSample
  /\ UNCHANGED <<enabled, thread, phaseVars, stop_event, bookVars>>

\* output_dir.mkdir raises: the round's finally block calls stop.
StartFails ==
  /\ main = "idle" /\ enabled
  /\ main' = "failed"
  /\ UNCHANGED <<enabled, thread, phaseVars, stop_event, sampleVars, bookVars>>

FirstSample ==
  /\ main = "first"
  /\ SampleStep
  /\ UNCHANGED <<enabled, main, thread, phaseVars, stop_event, bookVars>>

StartThread ==
  /\ main = "first" /\ cursor = 0
  /\ thread' = "check"
  /\ main' = "flying"
  /\ UNCHANGED <<enabled, phaseVars, stop_event, sampleVars, bookVars>>

-----------------------------------------------------------------------------
(* _run_loop.  The event is tested at the top of the loop only.            *)

\* Mutant: the event is tested only when another sample is due.
LoopEndsWhenDue ==
  /\ thread = "check" /\ stop_event /\ sample_index < MaxSamples
  /\ thread' = "ended"
  /\ UNCHANGED <<enabled, main, phaseVars, stop_event, sampleVars, bookVars>>

LoopEnds ==
  /\ thread = "check" /\ stop_event
  /\ thread' = "ended"
  /\ UNCHANGED <<enabled, main, phaseVars, stop_event, sampleVars, bookVars>>

LoopDue ==
  /\ thread = "check" /\ ~stop_event
  /\ sample_index < MaxSamples
  /\ thread' = "due"
  /\ UNCHANGED <<enabled, main, phaseVars, stop_event, sampleVars, bookVars>>

LoopSample ==
  /\ thread = "due"
  /\ BeginSample
  /\ thread' = "sample"
  /\ UNCHANGED <<enabled, main, phaseVars, stop_event, bookVars>>

LoopSampleStep ==
  /\ thread = "sample"
  /\ SampleStep
  /\ thread' = IF cursor' = 0 THEN "check" ELSE "sample"
  /\ UNCHANGED <<enabled, main, phaseVars, stop_event, bookVars>>

-----------------------------------------------------------------------------
(* stop: set the event, join for at most five seconds, write the sheets.   *)

Stop ==
  /\ main \in {"flying", "failed"}
  /\ IF enabled
       THEN /\ stop_event' = TRUE
            /\ main' = IF thread = "none" THEN "write" ELSE "join"
       ELSE /\ main' = "closed"
            /\ UNCHANGED stop_event
  /\ UNCHANGED <<enabled, thread, phaseVars, sampleVars, bookVars>>

\* Mutant: the thread is not joined.
JoinReturnsEarly ==
  /\ main = "join"
  /\ main' = "write"
  /\ UNCHANGED <<enabled, thread, phaseVars, stop_event, sampleVars, bookVars>>

JoinReturns ==
  /\ main = "join" /\ thread = "ended"
  /\ main' = "write"
  /\ UNCHANGED <<enabled, thread, phaseVars, stop_event, sampleVars, bookVars>>

\* The five seconds pass while the thread is still in a sample.
JoinTimesOut ==
  /\ main = "join" /\ thread # "ended"
  /\ timed_out' = TRUE
  /\ main' = "write"
  /\ UNCHANGED <<enabled, thread, phaseVars, stop_event, sampleVars, sheets, workbook>>

\* _write_xlsx, sheet by sheet; a vehicle without rows gets none.
WriteSheet ==
  /\ main = "write" /\ sheets < NVehicles
  /\ sheets' = sheets + 1
  /\ workbook' = [workbook EXCEPT ![sheets + 1] = records[sheets + 1]]
  /\ main' = IF sheets + 1 = NVehicles THEN "closed" ELSE "write"
  /\ UNCHANGED <<enabled, thread, phaseVars, stop_event, sampleVars, timed_out>>

WriteFails ==
  /\ main = "write"
  /\ main' = "raised"
  /\ UNCHANGED <<enabled, thread, phaseVars, stop_event, sampleVars, bookVars>>

Closed == main \in {"closed", "raised"} /\ UNCHANGED vars

-----------------------------------------------------------------------------
Init ==
  /\ enabled \in BOOLEAN
  /\ main = "idle" /\ thread = "none"
  /\ current_phase \in 0..MaxPhase        \* the phase of the arm step
  /\ current_phase_started = current_phase
  /\ stop_event = FALSE
  /\ sample_index = 0 /\ cursor = 0 /\ at = "payload"
  /\ row = [data |-> 0, label |-> 0]
  /\ records = [v \in Fleet |-> <<>>]
  /\ sheets = 0
  /\ workbook = [v \in Fleet |-> <<>>]
  /\ timed_out = FALSE

Main == \/ SetPhaseStarted \/ SetPhaseLabel
        \/ Start \/ StartFails \/ FirstSample \/ StartThread
        \/ Stop \/ JoinReturns \/ JoinTimesOut \/ WriteSheet \/ WriteFails

Sampler == LoopEnds \/ LoopDue \/ LoopSample \/ LoopSampleStep

Next == Main \/ Sampler \/ Closed

Spec == Init /\ [][Next]_vars

\* Both threads are scheduled.
FairSpec == Spec /\ WF_vars(Main) /\ WF_vars(Sampler)

-----------------------------------------------------------------------------
(* Properties.                                                             *)

\* The values the recorder's attributes range over.
TypeOK ==
  /\ enabled \in BOOLEAN /\ stop_event \in BOOLEAN
  /\ main \in {"idle", "first", "failed", "flying", "set_phase", "join", "write",
               "closed", "raised"}
  /\ thread \in {"none", "check", "due", "sample", "ended"}
  /\ current_phase \in 0..MaxPhase /\ current_phase_started \in 0..MaxPhase
  /\ sample_index \in 0..MaxSamples
  /\ cursor \in 0..NVehicles
  /\ at \in {"payload", "label", "elapsed"}
  /\ row \in Partial
  /\ records \in [Fleet -> Seq(Row)]
  /\ sheets \in 0..NVehicles
  /\ workbook \in [Fleet -> Seq(Row)]
  /\ timed_out \in BOOLEAN

\* Unlocked as the attributes are, a row is never labelled with a phase older
\* than its payload, and its phase_elapsed_s never counts time that belongs to
\* a phase before its label: _set_phase stores the start time before the label
\* and the recorder reads payload, label and start time in that order.
RowsAreOrdered ==
  \A v \in Fleet : \A i \in DOMAIN records[v] :
    LET r == records[v][i] IN r.data <= r.label /\ r.label <= r.started

\* Unless the join timed out, the workbook stop returns holds every row ever
\* recorded, and its sheets are aligned: one row per vehicle and sample.
WorkbookIsComplete ==
  main = "closed" /\ enabled /\ ~timed_out =>
    /\ workbook = records
    /\ \A v \in Fleet : Len(workbook[v]) = sample_index

\* Once stop has set the event the thread ends, whatever it was doing and
\* whether or not the join is still waiting for it.
SamplerEnds == stop_event ~> (thread \in {"none", "ended"})

=============================================================================
