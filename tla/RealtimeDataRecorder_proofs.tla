--------------------- MODULE RealtimeDataRecorder_proofs ---------------------
(***************************************************************************)
(* The safety properties of RealtimeDataRecorder, for any fleet, round and *)
(* number of samples.                                                      *)
(*                                                                         *)
(* RowsAreOrdered rests on what a row that is not yet appended has read    *)
(* (RowInv) and on the order of the two assignments of _set_phase;         *)
(* WorkbookIsComplete on who is in a sample (SampleInv), on how many rows  *)
(* each vehicle has in the middle of one (RowCountInv), and on the sheets  *)
(* written so far (BookInv).                                               *)
(***************************************************************************)
EXTENDS RealtimeDataRecorder, SequenceTheorems, TLAPS

(* The start time is never behind the label, and the row in progress was   *)
(* read in the order payload, label, start time.                           *)
RowInv ==
    /\ current_phase <= current_phase_started
    /\ at = "label" => row.data <= current_phase
    /\ at = "elapsed" => row.data <= row.label /\ row.label <= current_phase

(* The first sample is main's, the others are the thread's, one at a time. *)
SampleInv ==
    /\ main = "idle" => sample_index = 0
    /\ thread = "due" => sample_index < MaxSamples
    /\ main \in {"idle", "first", "failed"} => thread = "none"
    /\ cursor # 0 => main = "first" \/ thread = "sample"
    /\ main \in {"write", "closed"} /\ enabled /\ ~timed_out => thread \in {"none", "ended"}

(* In the middle of a sample the vehicles before the cursor have one row   *)
(* more than the others.                                                   *)
RowCountInv ==
    \A v \in Fleet :
        Len(records[v]) = IF cursor = 0 \/ v < cursor THEN sample_index ELSE sample_index - 1

(* The sheets written so far hold all rows, if no thread adds one.         *)
BookInv ==
    /\ main \notin {"write", "closed", "raised"} => sheets = 0
    /\ main \in {"join", "write"} => enabled
    /\ main = "write" => sheets < NVehicles
    /\ main = "closed" /\ enabled => sheets = NVehicles
    /\ main \in {"write", "closed"} /\ enabled /\ ~timed_out =>
          \A v \in 1..sheets : workbook[v] = records[v]

IInv == TypeOK /\ RowInv /\ RowsAreOrdered /\ SampleInv /\ RowCountInv /\ BookInv
-----------------------------------------------------------------------------
LEMMA InitHolds == Init => IInv
<1> SUFFICES ASSUME Init PROVE IInv
  OBVIOUS
<1> USE RecorderAssumption
<1>1. records = [v \in Fleet |-> << >>] /\ workbook = [v \in Fleet |-> << >>]
  BY DEF Init
<1>2. records \in [Fleet -> Seq(Row)] /\ workbook \in [Fleet -> Seq(Row)]
  BY <1>1
<1>3. /\ enabled \in BOOLEAN /\ stop_event \in BOOLEAN /\ timed_out \in BOOLEAN
  BY DEF Init
<1>4. TypeOK
  BY <1>2, <1>3 DEF Init, TypeOK, Partial
<1>5. RowInv /\ SampleInv /\ BookInv
  BY DEF Init, RowInv, SampleInv, BookInv
<1>6. RowsAreOrdered /\ RowCountInv
  BY <1>1 DEF Init, RowsAreOrdered, RowCountInv
<1> QED BY <1>4, <1>5, <1>6 DEF IInv

(* What a step of _sample_once does to the row and to the rows in memory.  *)
LEMMA SampleStepFacts ==
    ASSUME IInv, SampleStep, UNCHANGED phaseVars
    PROVE  /\ sample_index' = sample_index
           /\ cursor' \in 0..NVehicles
           /\ at' \in {"payload", "label", "elapsed"}
           /\ row' \in Partial
           /\ records' \in [Fleet -> Seq(Row)]
           /\ RowInv' /\ RowsAreOrdered' /\ RowCountInv'
<1> USE RecorderAssumption DEF IInv, phaseVars
<1>1. CASE ReadPayload
  <2>1. row' \in Partial /\ row'.data = current_phase
    BY <1>1 DEF TypeOK, ReadPayload, Partial
  <2> QED BY <1>1, <2>1 DEF TypeOK, ReadPayload, RowInv, RowsAreOrdered, RowCountInv
<1>2. CASE ReadLabel
  <2>1. row' \in Partial /\ row'.label = current_phase /\ row'.data = row.data
    BY <1>2 DEF TypeOK, ReadLabel, Partial
  <2> QED BY <1>2, <2>1 DEF TypeOK, ReadLabel, RowInv, RowsAreOrdered, RowCountInv
<1>3. CASE AppendRow
  <2> DEFINE new == [sample |-> sample_index, data |-> row.data,
                     label |-> row.label, started |-> current_phase_started]
             old == records[cursor]
  <2>1. cursor \in Fleet /\ records \in [Fleet -> Seq(Row)] /\ old \in Seq(Row)
    BY DEF TypeOK, SampleStep, Fleet
  <2>2. new \in Row /\ new.data <= new.label /\ new.label <= new.started
    BY <1>3 DEF TypeOK, AppendRow, Row, Partial, RowInv
  <2>3. records' = [records EXCEPT ![cursor] = Append(old, new)]
    BY <1>3 DEF AppendRow
  <2> HIDE DEF new, old
  <2>4. /\ Append(old, new) \in Seq(Row) /\ Len(old) \in Nat
        /\ Len(Append(old, new)) = Len(old) + 1
        /\ \A i \in 1..Len(old) : Append(old, new)[i] = old[i]
        /\ Append(old, new)[Len(old) + 1] = new
        /\ DOMAIN old = 1..Len(old) /\ DOMAIN Append(old, new) = 1..(Len(old) + 1)
    BY <2>1, <2>2, AppendProperties, LenProperties
  <2>5. records' \in [Fleet -> Seq(Row)]
    BY <2>1, <2>3, <2>4
  <2>6. \A v \in Fleet : records'[v] = IF v = cursor THEN Append(old, new) ELSE records[v]
    BY <2>1, <2>3
  <2>7. RowsAreOrdered'
    <3> SUFFICES ASSUME NEW v \in Fleet, NEW i \in DOMAIN (records'[v])
                 PROVE  /\ records'[v][i].data <= records'[v][i].label
                        /\ records'[v][i].label <= records'[v][i].started
      BY DEF RowsAreOrdered
    <3>1. CASE v # cursor
      BY <2>6, <3>1 DEF RowsAreOrdered
    <3>2. CASE v = cursor
      <4>0. records'[v] = Append(old, new)
        BY <2>6, <3>2
      <4>1. i \in 1..(Len(old) + 1)
        BY <2>4, <4>0
      <4>2. CASE i = Len(old) + 1
        BY <2>2, <2>4, <2>6, <3>2, <4>2
      <4>3. CASE i # Len(old) + 1
        <5>1. i \in 1..Len(old)
          BY <2>4, <4>1, <4>3
        <5>2. i \in DOMAIN old /\ records'[v][i] = old[i]
          BY <2>4, <4>0, <5>1
        <5> QED BY <2>1, <5>2 DEF RowsAreOrdered, old
      <4> QED BY <4>2, <4>3
    <3> QED BY <3>1, <3>2
  <2>8. RowCountInv'
    <3>1. /\ cursor \in 1..NVehicles /\ sample_index \in Nat
          /\ cursor' = IF cursor = NVehicles THEN 0 ELSE cursor + 1
          /\ sample_index' = sample_index
      BY <1>3, <2>1 DEF AppendRow, TypeOK, Fleet
    <3>2. Len(old) = sample_index - 1
      BY <2>1, <3>1 DEF RowCountInv, old
    <3> SUFFICES ASSUME NEW v \in Fleet
                 PROVE  Len(records'[v]) =
                           IF cursor' = 0 \/ v < cursor' THEN sample_index' ELSE sample_index' - 1
      BY DEF RowCountInv
    <3>3. CASE v = cursor
      <4>1. Len(records'[v]) = Len(old) + 1
        BY <2>4, <2>6, <3>3
      <4> QED BY <3>1, <3>2, <3>3, <4>1
    <3>4. CASE v # cursor
      <4>1. Len(records'[v]) = IF v < cursor THEN sample_index ELSE sample_index - 1
        BY <2>6, <3>1, <3>4 DEF RowCountInv
      <4> QED BY <3>1, <3>4, <4>1 DEF Fleet
    <3> QED BY <3>3, <3>4
  <2> QED BY <1>3, <2>5, <2>7, <2>8 DEF TypeOK, AppendRow, RowInv
<1> QED BY <1>1, <1>2, <1>3 DEF SampleStep

(* What the beginning of a sample does, between two samples.               *)
LEMMA BeginSampleFacts ==
    ASSUME IInv, BeginSample, UNCHANGED phaseVars, cursor = 0, sample_index < MaxSamples
    PROVE  /\ sample_index' \in 1..MaxSamples /\ cursor' = 1
           /\ at' = at /\ row' = row /\ records' = records
           /\ RowInv' /\ RowsAreOrdered' /\ RowCountInv'
<1> USE RecorderAssumption DEF IInv, phaseVars, BeginSample
<1>1. RowInv' /\ RowsAreOrdered'
  BY DEF RowInv, RowsAreOrdered
<1>2. RowCountInv'
  BY DEF TypeOK, RowCountInv, Fleet
<1> QED BY <1>1, <1>2 DEF TypeOK
-----------------------------------------------------------------------------
LEMMA SetPhaseStartedKeeps == IInv /\ SetPhaseStarted => IInv'
<1> SUFFICES ASSUME IInv, SetPhaseStarted PROVE IInv'
  OBVIOUS
<1> USE RecorderAssumption DEF IInv, SetPhaseStarted, phaseVars, sampleVars, bookVars
<1>1. TypeOK'
  BY DEF TypeOK
<1>2. RowInv' /\ RowsAreOrdered' /\ RowCountInv'
  BY DEF TypeOK, Partial, RowInv, RowsAreOrdered, RowCountInv
<1>3. SampleInv'
  BY DEF TypeOK, SampleInv, BookInv
<1>4. BookInv'
  BY DEF TypeOK, SampleInv, BookInv
<1> QED BY <1>1, <1>2, <1>3, <1>4

LEMMA SetPhaseLabelKeeps == IInv /\ SetPhaseLabel => IInv'
<1> SUFFICES ASSUME IInv, SetPhaseLabel PROVE IInv'
  OBVIOUS
<1> USE RecorderAssumption DEF IInv, SetPhaseLabel, phaseVars, sampleVars, bookVars
<1>1. TypeOK'
  BY DEF TypeOK
<1>2. RowInv' /\ RowsAreOrdered' /\ RowCountInv'
  BY DEF TypeOK, Partial, RowInv, RowsAreOrdered, RowCountInv
<1>3. SampleInv'
  BY DEF TypeOK, SampleInv, BookInv
<1>4. BookInv'
  BY DEF TypeOK, SampleInv, BookInv
<1> QED BY <1>1, <1>2, <1>3, <1>4

LEMMA StartKeeps == IInv /\ Start => IInv'
<1> SUFFICES ASSUME IInv, Start PROVE IInv'
  OBVIOUS
<1> USE RecorderAssumption DEF IInv, Start, phaseVars, sampleVars, bookVars
<1>1. CASE ~enabled
  BY <1>1 DEF TypeOK, RowInv, RowsAreOrdered, SampleInv, RowCountInv, BookInv
<1>2. CASE enabled
  <2>1. BeginSample /\ cursor = 0 /\ sample_index < MaxSamples /\ main' = "first"
    BY <1>2 DEF TypeOK, SampleInv
  <2>2. /\ sample_index' \in 1..MaxSamples /\ cursor' = 1
        /\ at' = at /\ row' = row /\ records' = records
        /\ RowInv' /\ RowsAreOrdered' /\ RowCountInv'
    BY <2>1, BeginSampleFacts
  <2>3. TypeOK'
    BY <2>1, <2>2 DEF TypeOK
  <2>4. SampleInv' /\ BookInv'
    BY <2>1, <2>2 DEF TypeOK, SampleInv, BookInv
  <2> QED BY <2>2, <2>3, <2>4
<1> QED BY <1>1, <1>2

LEMMA StartFailsKeeps == IInv /\ StartFails => IInv'
<1> SUFFICES ASSUME IInv, StartFails PROVE IInv'
  OBVIOUS
<1> USE RecorderAssumption DEF IInv, StartFails, phaseVars, sampleVars, bookVars
<1>1. TypeOK'
  BY DEF TypeOK
<1>2. RowInv' /\ RowsAreOrdered' /\ RowCountInv'
  BY DEF TypeOK, Partial, RowInv, RowsAreOrdered, RowCountInv
<1>3. SampleInv'
  BY DEF TypeOK, SampleInv, BookInv
<1>4. BookInv'
  BY DEF TypeOK, SampleInv, BookInv
<1> QED BY <1>1, <1>2, <1>3, <1>4

LEMMA FirstSampleKeeps == IInv /\ FirstSample => IInv'
<1> SUFFICES ASSUME IInv, FirstSample PROVE IInv'
  OBVIOUS
<1> USE RecorderAssumption DEF IInv, FirstSample, phaseVars, sampleVars, bookVars
<1>0. /\ sample_index' = sample_index
      /\ cursor' \in 0..NVehicles
      /\ at' \in {"payload", "label", "elapsed"}
      /\ row' \in Partial
      /\ records' \in [Fleet -> Seq(Row)]
      /\ RowInv' /\ RowsAreOrdered' /\ RowCountInv'
  BY SampleStepFacts
<1>1. TypeOK'
  BY <1>0 DEF TypeOK
<1>2. SampleInv'
  BY <1>0 DEF TypeOK, SampleInv, SampleStep
<1>3. BookInv'
  BY <1>0 DEF TypeOK, SampleInv, BookInv
<1> QED BY <1>0, <1>1, <1>2, <1>3

LEMMA StartThreadKeeps == IInv /\ StartThread => IInv'
<1> SUFFICES ASSUME IInv, StartThread PROVE IInv'
  OBVIOUS
<1> USE RecorderAssumption DEF IInv, StartThread, phaseVars, sampleVars, bookVars
<1>1. TypeOK'
  BY DEF TypeOK
<1>2. RowInv' /\ RowsAreOrdered' /\ RowCountInv'
  BY DEF TypeOK, Partial, RowInv, RowsAreOrdered, RowCountInv
<1>3. SampleInv'
  BY DEF TypeOK, SampleInv, BookInv
<1>4. BookInv'
  BY DEF TypeOK, SampleInv, BookInv
<1> QED BY <1>1, <1>2, <1>3, <1>4

LEMMA LoopEndsKeeps == IInv /\ LoopEnds => IInv'
<1> SUFFICES ASSUME IInv, LoopEnds PROVE IInv'
  OBVIOUS
<1> USE RecorderAssumption DEF IInv, LoopEnds, phaseVars, sampleVars, bookVars
<1>1. TypeOK'
  BY DEF TypeOK
<1>2. RowInv' /\ RowsAreOrdered' /\ RowCountInv'
  BY DEF TypeOK, Partial, RowInv, RowsAreOrdered, RowCountInv
<1>3. SampleInv'
  BY DEF TypeOK, SampleInv, BookInv
<1>4. BookInv'
  BY DEF TypeOK, SampleInv, BookInv
<1> QED BY <1>1, <1>2, <1>3, <1>4

LEMMA LoopDueKeeps == IInv /\ LoopDue => IInv'
<1> SUFFICES ASSUME IInv, LoopDue PROVE IInv'
  OBVIOUS
<1> USE RecorderAssumption DEF IInv, LoopDue, phaseVars, sampleVars, bookVars
<1>1. TypeOK'
  BY DEF TypeOK
<1>2. RowInv' /\ RowsAreOrdered' /\ RowCountInv'
  BY DEF TypeOK, Partial, RowInv, RowsAreOrdered, RowCountInv
<1>3. SampleInv'
  BY DEF TypeOK, SampleInv, BookInv
<1>4. BookInv'
  BY DEF TypeOK, SampleInv, BookInv
<1> QED BY <1>1, <1>2, <1>3, <1>4

LEMMA LoopSampleKeeps == IInv /\ LoopSample => IInv'
<1> SUFFICES ASSUME IInv, LoopSample PROVE IInv'
  OBVIOUS
<1> USE RecorderAssumption DEF IInv, LoopSample, phaseVars, sampleVars, bookVars
<1>0. /\ sample_index' \in 1..MaxSamples /\ cursor' = 1
      /\ at' = at /\ row' = row /\ records' = records
      /\ RowInv' /\ RowsAreOrdered' /\ RowCountInv'
  <2>1. cursor = 0 /\ sample_index < MaxSamples
    BY DEF TypeOK, SampleInv
  <2> QED BY <2>1, BeginSampleFacts
<1>1. TypeOK'
  BY <1>0 DEF TypeOK
<1>2. SampleInv'
  BY <1>0 DEF TypeOK, SampleInv
<1>3. BookInv'
  BY <1>0 DEF TypeOK, SampleInv, BookInv
<1> QED BY <1>0, <1>1, <1>2, <1>3

LEMMA LoopSampleStepKeeps == IInv /\ LoopSampleStep => IInv'
<1> SUFFICES ASSUME IInv, LoopSampleStep PROVE IInv'
  OBVIOUS
<1> USE RecorderAssumption DEF IInv, LoopSampleStep, phaseVars, sampleVars, bookVars
<1>0. /\ sample_index' = sample_index
      /\ cursor' \in 0..NVehicles
      /\ at' \in {"payload", "label", "elapsed"}
      /\ row' \in Partial
      /\ records' \in [Fleet -> Seq(Row)]
      /\ RowInv' /\ RowsAreOrdered' /\ RowCountInv'
  BY SampleStepFacts
<1>1. TypeOK'
  BY <1>0 DEF TypeOK
<1>2. SampleInv'
  BY <1>0 DEF TypeOK, SampleInv, SampleStep
<1>3. BookInv'
  BY <1>0 DEF TypeOK, SampleInv, BookInv
<1> QED BY <1>0, <1>1, <1>2, <1>3

LEMMA StopKeeps == IInv /\ Stop => IInv'
<1> SUFFICES ASSUME IInv, Stop PROVE IInv'
  OBVIOUS
<1> USE RecorderAssumption DEF IInv, Stop, phaseVars, sampleVars, bookVars
<1>1. TypeOK'
  BY DEF TypeOK
<1>2. RowInv' /\ RowsAreOrdered' /\ RowCountInv'
  BY DEF TypeOK, Partial, RowInv, RowsAreOrdered, RowCountInv
<1>3. SampleInv'
  BY DEF TypeOK, SampleInv, BookInv
<1>4. BookInv'
  BY DEF TypeOK, SampleInv, BookInv
<1> QED BY <1>1, <1>2, <1>3, <1>4

LEMMA JoinReturnsKeeps == IInv /\ JoinReturns => IInv'
<1> SUFFICES ASSUME IInv, JoinReturns PROVE IInv'
  OBVIOUS
<1> USE RecorderAssumption DEF IInv, JoinReturns, phaseVars, sampleVars, bookVars
<1>1. TypeOK'
  BY DEF TypeOK
<1>2. RowInv' /\ RowsAreOrdered' /\ RowCountInv'
  BY DEF TypeOK, Partial, RowInv, RowsAreOrdered, RowCountInv
<1>3. SampleInv'
  BY DEF TypeOK, SampleInv, BookInv
<1>4. BookInv'
  BY DEF TypeOK, SampleInv, BookInv
<1> QED BY <1>1, <1>2, <1>3, <1>4

LEMMA JoinTimesOutKeeps == IInv /\ JoinTimesOut => IInv'
<1> SUFFICES ASSUME IInv, JoinTimesOut PROVE IInv'
  OBVIOUS
<1> USE RecorderAssumption DEF IInv, JoinTimesOut, phaseVars, sampleVars, bookVars
<1>1. TypeOK'
  BY DEF TypeOK
<1>2. RowInv' /\ RowsAreOrdered' /\ RowCountInv'
  BY DEF TypeOK, Partial, RowInv, RowsAreOrdered, RowCountInv
<1>3. SampleInv'
  BY DEF TypeOK, SampleInv, BookInv
<1>4. BookInv'
  BY DEF TypeOK, SampleInv, BookInv
<1> QED BY <1>1, <1>2, <1>3, <1>4

LEMMA WriteSheetKeeps == IInv /\ WriteSheet => IInv'
<1> SUFFICES ASSUME IInv, WriteSheet PROVE IInv'
  OBVIOUS
<1> USE RecorderAssumption DEF IInv, WriteSheet, phaseVars, sampleVars, bookVars
<1>1. /\ sheets' = sheets + 1 /\ sheets' \in 1..NVehicles
      /\ workbook' \in [Fleet -> Seq(Row)]
      /\ \A v \in Fleet : workbook'[v] = IF v = sheets' THEN records[v] ELSE workbook[v]
  BY DEF TypeOK, Fleet
<1>2. main' = IF sheets' = NVehicles THEN "closed" ELSE "write"
  BY <1>1
<1>3. TypeOK'
  BY <1>1, <1>2 DEF TypeOK
<1>4. RowInv' /\ RowsAreOrdered' /\ RowCountInv'
  BY DEF RowInv, RowsAreOrdered, RowCountInv
<1>5. SampleInv'
  BY <1>2 DEF TypeOK, SampleInv, BookInv
<1>6. BookInv'
  <2>1. ~timed_out => \A v \in 1..sheets' : workbook'[v] = records'[v]
    BY <1>1 DEF TypeOK, BookInv, Fleet
  <2> QED BY <1>1, <1>2, <2>1 DEF TypeOK, BookInv
<1> QED BY <1>3, <1>4, <1>5, <1>6

LEMMA WriteFailsKeeps == IInv /\ WriteFails => IInv'
<1> SUFFICES ASSUME IInv, WriteFails PROVE IInv'
  OBVIOUS
<1> USE RecorderAssumption DEF IInv, WriteFails, phaseVars, sampleVars, bookVars
<1>1. TypeOK'
  BY DEF TypeOK
<1>2. RowInv' /\ RowsAreOrdered' /\ RowCountInv'
  BY DEF TypeOK, Partial, RowInv, RowsAreOrdered, RowCountInv
<1>3. SampleInv'
  BY DEF TypeOK, SampleInv, BookInv
<1>4. BookInv'
  BY DEF TypeOK, SampleInv, BookInv
<1> QED BY <1>1, <1>2, <1>3, <1>4

LEMMA NextKeeps == IInv /\ [Next]_vars => IInv'
<1> SUFFICES ASSUME IInv, [Next]_vars PROVE IInv'
  OBVIOUS
<1>1. CASE UNCHANGED vars \/ Closed
  BY <1>1 DEF Closed, vars, phaseVars, sampleVars, bookVars, IInv, TypeOK, RowInv, RowsAreOrdered,
              SampleInv, RowCountInv, BookInv
<1>2. CASE Main
  BY <1>2, SetPhaseStartedKeeps, SetPhaseLabelKeeps, StartKeeps, StartFailsKeeps,
     FirstSampleKeeps, StartThreadKeeps, StopKeeps, JoinReturnsKeeps, JoinTimesOutKeeps,
     WriteSheetKeeps, WriteFailsKeeps DEF Main
<1>3. CASE Sampler
  BY <1>3, LoopEndsKeeps, LoopDueKeeps, LoopSampleKeeps, LoopSampleStepKeeps DEF Sampler
<1> QED BY <1>1, <1>2, <1>3 DEF Next

(* However main, the sampler and the scenario interleave, IInv holds.      *)
LEMMA Invariance == Spec => []IInv
BY InitHolds, NextKeeps, PTL DEF Spec
-----------------------------------------------------------------------------
(* Every attribute keeps its type; in particular the cursor never leaves   *)
(* the fleet and a workbook never gets more sheets than there are vehicles.*)
THEOREM TypeCorrect == Spec => []TypeOK
<1>1. IInv => TypeOK
  BY DEF IInv
<1> QED BY <1>1, Invariance, PTL

(* _set_phase and _sample_once race without a lock, and still no row is    *)
(* labelled with a phase older than its payload or timed from a phase      *)
(* older than its label, however many phases, vehicles and samples.        *)
THEOREM RowsOrdered == Spec => []RowsAreOrdered
<1>1. IInv => RowsAreOrdered
  BY DEF IInv
<1> QED BY <1>1, Invariance, PTL

(* A workbook closed after a join that did not time out holds every row    *)
(* ever recorded, and the sheets of all vehicles have the same length.     *)
THEOREM WorkbookComplete == Spec => []WorkbookIsComplete
<1>1. IInv => WorkbookIsComplete
  <2> SUFFICES ASSUME IInv, main = "closed", enabled, ~timed_out
               PROVE  /\ workbook = records
                      /\ \A v \in Fleet : Len(workbook[v]) = sample_index
    BY DEF WorkbookIsComplete
  <2>1. cursor = 0
    BY DEF IInv, TypeOK, SampleInv
  <2>2. \A v \in Fleet : workbook[v] = records[v]
    BY DEF IInv, BookInv, Fleet
  <2>3. workbook = records
    BY <2>2 DEF IInv, TypeOK
  <2> QED BY <2>1, <2>3 DEF IInv, RowCountInv
<1> QED BY <1>1, Invariance, PTL
=============================================================================
