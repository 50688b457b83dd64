------------------------- MODULE MCCollectionRunner -------------------------
(***************************************************************************)
(* Instances of CollectionRunner for TLC: one real vehicle, one DT, one    *)
(* with a backend no class implements, and the timelines whose steps can   *)
(* interact with the clean-up.                                             *)
(***************************************************************************)
EXTENDS CollectionRunner

MCVehicles == {"r1", "d1", "x1"}
MCBackend  == [v \in MCVehicles |-> CASE v = "r1" -> "real" [] v = "d1" -> "dt"
                                      [] OTHER -> "other"]
MCNames    == MCVehicles \cup {"ghost"}
MCCases    == {"case1", "case2"}

Do(a)     == [action |-> a, select |-> "default", names |-> {}, valid |-> TRUE]
On(a, ns) == [Do(a) EXCEPT !.select = "list", !.names = ns]
Bad(a)    == [Do(a) EXCEPT !.valid = FALSE]
All(a)    == [Do(a) EXCEPT !.select = "all"]

Flight(c, steps) == [case |-> c, steps |-> steps]

Plain == [vehicles |-> {"r1", "d1"}, timelines |-> <<>>, dry_run |-> FALSE,
          toolchain |-> "disabled", stop_on_exit |-> FALSE, recording |-> TRUE,
          offline_logs |-> FALSE]

\* Two rounds: the first arms, faults and ends under the fault, the second
\* records as well; and variants with explicit targets and a wait.
TwoRounds == {
  <<Flight("case1", <<Do("arm"), Do("inject_fault")>>),
    Flight("case2", <<Do("arm"), Do("wait"), Do("hover")>>)>>,
  <<Flight("case1", <<Do("arm"), On("inject_fault", {"d1"}), All("clear_fault")>>),
    Flight("case2", <<Do("arm"), Do("arm"), Do("land")>>)>> }

\* Short timelines for the error paths: steps that raise in the main thread,
\* a timeline that never arms, an empty one, none at all.
Odd == {
  <<Flight("case1", <<Do("arm"), Do("mission"), Bad("mission")>>)>>,
  <<Flight("case1", <<Do("inject_fault"), Bad("wait")>>)>>,
  <<Flight("case1", <<On("goto", {"ghost"})>>)>>,
  <<Flight("case1", <<Do("unsupported")>>)>>,
  <<Flight("case1", <<Do("takeoff")>>), Flight("case2", <<>>)>>,
  <<>> }

TwoRoundConfigs == {[Plain EXCEPT !.timelines = t, !.offline_logs = o, !.recording = r] :
             t \in TwoRounds, o \in BOOLEAN, r \in BOOLEAN}
FailingConfigs == {[Plain EXCEPT !.timelines = t, !.offline_logs = TRUE,
                          !.toolchain = "usable", !.stop_on_exit = s] :
             t \in Odd, s \in BOOLEAN}
FleetConfigs == {[Plain EXCEPT !.vehicles = vs, !.dry_run = d, !.toolchain = k,
                         !.timelines = <<Flight("case1", <<Do("inject_fault")>>)>>] :
             vs \in {{}, {"d1"}, {"x1", "r1"}}, d \in BOOLEAN,
             k \in {"disabled", "no_script", "unusable", "usable"}}

\* One real and one DT vehicle, for the interrupted runs.
MCInterruptible ==
  {[Plain EXCEPT !.timelines = <<Flight("case1", <<Do("arm"), Do("inject_fault")>>),
                                 Flight("case2", <<Do("arm")>>)>>,
                 !.toolchain = "usable", !.stop_on_exit = TRUE]}

MCConfigs == TwoRoundConfigs \cup FailingConfigs \cup FleetConfigs \cup MCInterruptible

=============================================================================
