------------------------ MODULE MCVerificationRunner ------------------------
(***************************************************************************)
(* Two DT vehicles and scenarios of up to three steps: calls on one or on  *)
(* both vehicles, a wait, a step that raises on its own.                   *)
(***************************************************************************)
EXTENDS VerificationRunner

MCVehicles == {"d1", "d2"}

Call(vs) == [kind |-> "call", targets |-> vs]
Wait     == [kind |-> "wait", targets |-> {}]
Bad      == [kind |-> "bad", targets |-> {}]

Plain == [vehicles |-> MCVehicles, supported |-> TRUE, steps |-> <<>>,
          toolchain |-> "on", stop_on_exit |-> TRUE, recording |-> TRUE,
          offline_logs |-> TRUE]

Timelines == { <<Call(MCVehicles), Wait, Call({"d1"})>>, <<Call({"d2"}), Bad>>, <<>> }

MCScenarios ==
  {[Plain EXCEPT !.steps = t, !.toolchain = k, !.recording = r, !.stop_on_exit = x,
                 !.offline_logs = r] :
     t \in Timelines, k \in {"off", "broken", "on"}, r \in BOOLEAN, x \in BOOLEAN}
  \cup {[Plain EXCEPT !.vehicles = {}], [Plain EXCEPT !.supported = FALSE]}

=============================================================================
