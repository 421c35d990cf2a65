--------------------------- MODULE MissionPhases ---------------------------
(***************************************************************************)
(* What the mission state promises the ground crew, with no sensors in it: *)
(* the order of the phases, how long each must have lasted before the      *)
(* next, and that a fault is final.  The lengths are what the rules of the *)
(* competition and the descent gate add up to:                             *)
(*   - a launch is never declared sooner than LaunchConfirm after READY;   *)
(*   - a landing never sooner than ShortestFlight after the launch;        *)
(*   - RECOVERY never sooner than PostImpact after the landing.            *)
(***************************************************************************)
EXTENDS Naturals

CONSTANTS LaunchConfirm, ShortestFlight, PostImpact

VARIABLES
  clock,      (* time of the latest poll                                   *)
  phase,      (* the mission state                                         *)
  since       (* when it was entered                                       *)

vars == <<clock, phase, since>>

Phases ==
  {"init", "self_test", "ready", "flight", "landed", "recovery", "fault"}

Init == clock = 0 /\ phase = "init" /\ since = 0

(* The phases that may follow p when p has lasted for d. *)
Successors(p, d) ==
  CASE p = "init"      -> {"self_test", "fault"}
    [] p = "self_test" -> {"ready", "fault"}
    [] p = "ready"     -> {"fault"} \cup {q \in {"flight"} : d >= LaunchConfirm}
    [] p = "flight"    -> {"fault"} \cup {q \in {"landed"} : d >= ShortestFlight}
    [] p = "landed"    -> {"fault"} \cup {q \in {"recovery"} : d >= PostImpact}
    [] p = "recovery"  -> {"fault"}
    [] p = "fault"     -> {}

Stay == clock' \in Nat /\ clock' >= clock /\ UNCHANGED <<phase, since>>

Move ==
  /\ clock' \in Nat /\ clock' >= clock
  /\ phase' \in Successors(phase, clock' - since)
  /\ since' = clock'

Next == Stay \/ Move

Spec == Init /\ [][Next]_vars
=============================================================================
