------------------------- MODULE CollectionLifecycle -------------------------
(***************************************************************************)
(* What a collection session promises its operator, without threads, logs  *)
(* or error handling: vehicles are connected once, rounds are flown one    *)
(* after the other in timeline order, every round is followed by its own   *)
(* clean-up, and once vehicles may be connected the session ends through   *)
(* exactly one shutdown, after which nothing flies any more.               *)
(***************************************************************************)
EXTENDS Naturals

VARIABLES stage,     \* where the session is
          planned,   \* number of timelines of the config
          flown      \* rounds begun so far

lifecycleVars == <<stage, planned, flown>>

Stages == {"idle", "connecting", "ready", "flying", "cleaning", "shutdown",
           "ended"}

LInit == stage = "idle" /\ planned \in Nat /\ flown = 0

Connect == stage = "idle" /\ stage' = "connecting" /\ UNCHANGED <<planned, flown>>
Connected == stage = "connecting" /\ stage' = "ready" /\ UNCHANGED <<planned, flown>>

BeginRound ==
  /\ stage = "ready"
  /\ flown < planned
  /\ flown' = flown + 1
  /\ stage' = "flying"
  /\ UNCHANGED planned

Clean   == stage = "flying" /\ stage' = "cleaning" /\ UNCHANGED <<planned, flown>>
Cleaned == stage = "cleaning" /\ stage' = "ready" /\ UNCHANGED <<planned, flown>>

\* Normal end of the session, or whatever failed while vehicles were
\* connecting or a round was being cleaned up.  A round in the air is never
\* abandoned: it is cleaned up first.
Shutdown ==
  /\ stage \in {"connecting", "ready", "cleaning"}
  /\ stage' = "shutdown"
  /\ UNCHANGED <<planned, flown>>

\* A session that never connected ends without a shutdown.
End == stage \in {"idle", "shutdown"} /\ stage' = "ended" /\ UNCHANGED <<planned, flown>>

LNext == Connect \/ Connected \/ BeginRound \/ Clean \/ Cleaned \/ Shutdown \/ End

LSpec == LInit /\ [][LNext]_lifecycleVars

\* Some next stage is always reached: a session does not hang.
LFairSpec == LSpec /\ WF_lifecycleVars(LNext)

=============================================================================
