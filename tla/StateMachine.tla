---------------------------- MODULE StateMachine ----------------------------
(***************************************************************************)
(* The mission state machine: flight::StateMachine (state_machine.cpp).    *)
(* Every poll of the flight loop hands it one sample of the sensors and    *)
(* the time; the polls are irregular (a card write or a radio transaction  *)
(* delays one), so a condition that "held" for a time held in every sample *)
(* of that time and no more.                                               *)
(*                                                                         *)
(* Time is the mission clock in ticks, 0 in a timer meaning "not running"  *)
(* exactly as in the code.  A sample is reduced to the comparisons the     *)
(* code makes of it: the classes of vertical rate are disjoint because     *)
(* validate_config demands landing_descent_rate > landing_altitude_rate.   *)
(***************************************************************************)
EXTENDS Naturals

CONSTANTS
  LaunchConfirm,   (* launch_confirm_ms                                    *)
  MinFlight,       (* min_flight_ms                                        *)
  DescentConfirm,  (* landing_descent_confirm_ms                           *)
  RestConfirm,     (* landing_confirm_ms                                   *)
  PostImpact,      (* post_impact_transmission_ms                          *)
  MaxGap,          (* the longest time between two polls                   *)
  MaxTime          (* bound on the mission clock                           *)

(* What validate_config and the types of Configuration guarantee. *)
ASSUME MissionAssumption ==
  /\ LaunchConfirm \in Nat /\ MinFlight \in Nat /\ RestConfirm \in Nat
  /\ DescentConfirm \in Nat \ {0}
  /\ PostImpact \in Nat \ {0}
  /\ MaxGap \in Nat /\ MaxTime \in Nat

VARIABLES
  now,                        (* time of the latest update                 *)
  state,
  entered_ms,
  launch_condition_since_ms,
  rest_condition_since_ms,
  descent_since_ms,
  descent_observed

timers == <<launch_condition_since_ms, rest_condition_since_ms,
            descent_since_ms, descent_observed>>
machine == <<state, entered_ms, timers>>
vars == <<now, machine>>

States ==
  {"init", "self_test", "ready", "flight", "landed", "recovery", "fault"}

(* DetectionInputs, as compared by update(): thrust is boost or climb;     *)
(* falling is a rate beyond landing_descent_rate; still is about 1 g and a *)
(* rate within landing_altitude_rate_max; moving is anything else.         *)
Inputs == [self_test_ok : BOOLEAN, armed : BOOLEAN, thrust : BOOLEAN,
           motion : {"falling", "still", "moving"}, critical_fault : BOOLEAN]

Falling(in) == in.motion = "falling"
AtRest(in) == in.motion = "still"

-----------------------------------------------------------------------------
(* The handlers. *)

(* mutant: a timer that keeps running through a sample without its condition *)
TimerKeepsRunning(since, holds, t) == IF since = 0 /\ holds THEN t ELSE since

TimerRestarts(since, holds, t) == IF holds THEN t ELSE 0   \* mutant: always anew

(* A condition timer after a sample at t. *)
Timer(since, holds, t) ==
  IF ~holds THEN 0 ELSE IF since = 0 THEN t ELSE since

EnterBackdated(next, t) ==   \* mutant: the state began when its condition did
  /\ state' = next /\ entered_ms' = t - LaunchConfirm
  /\ launch_condition_since_ms' = 0 /\ rest_condition_since_ms' = 0
  /\ descent_since_ms' = 0 /\ descent_observed' = FALSE

(* enter(); no caller passes the current state, which would do nothing. *)
Enter(next, t) ==
  /\ state' = next /\ entered_ms' = t
  /\ launch_condition_since_ms' = 0 /\ rest_condition_since_ms' = 0
  /\ descent_since_ms' = 0 /\ descent_observed' = FALSE

LatchFault(t) == state # "fault" /\ Enter("fault", t)

StartSelfTest(t) == state = "init" /\ Enter("self_test", t)

FinishSelfTest(t, in) ==
  /\ state = "self_test"
  /\ Enter(IF in.self_test_ok THEN "ready" ELSE "fault", t)

AwaitLaunch(t, in) ==
  /\ state = "ready"
  /\ LET holds == in.armed /\ in.thrust
         since == Timer(launch_condition_since_ms, holds, t)
     IN IF holds /\ t - since >= LaunchConfirm
        THEN Enter("flight", t)
        ELSE /\ launch_condition_since_ms' = since
             /\ UNCHANGED <<state, entered_ms, rest_condition_since_ms,
                            descent_since_ms, descent_observed>>

ObservedAtOnce(t, in) == descent_observed \/ Falling(in)   \* mutant: no confirmation
NeverObserved(t, in) == descent_observed   \* mutant: the latch is never set

(* The descent gate after this sample: latched for the rest of the flight. *)
Observed(t, in) ==
  \/ descent_observed
  \/ Falling(in) /\ t - Timer(descent_since_ms, TRUE, t) >= DescentConfirm

FlyWithoutMinimum(t, in) ==   \* mutant: no min_flight guard
  /\ state = "flight"
  /\ LET resting == AtRest(in) /\ Observed(t, in)
         since == Timer(rest_condition_since_ms, resting, t)
     IN IF resting /\ t - since >= RestConfirm
        THEN Enter("landed", t)
        ELSE /\ descent_since_ms' = Timer(descent_since_ms, Falling(in), t)
             /\ descent_observed' = Observed(t, in)
             /\ rest_condition_since_ms' = since
             /\ UNCHANGED <<state, entered_ms, launch_condition_since_ms>>

Fly(t, in) ==
  /\ state = "flight"
  /\ LET guarded == t - entered_ms < MinFlight
         resting == AtRest(in) /\ Observed(t, in)
         since == Timer(rest_condition_since_ms, resting, t)
     IN IF ~guarded /\ resting /\ t - since >= RestConfirm
        THEN Enter("landed", t)
        ELSE /\ descent_since_ms' = Timer(descent_since_ms, Falling(in), t)
             /\ descent_observed' = Observed(t, in)
             /\ rest_condition_since_ms' =
                  IF guarded THEN rest_condition_since_ms ELSE since
             /\ UNCHANGED <<state, entered_ms, launch_condition_since_ms>>

AwaitRecovery(t) ==
  /\ state = "landed"
  /\ IF t - entered_ms >= PostImpact
     THEN Enter("recovery", t) ELSE UNCHANGED machine

(* RECOVERY and FAULT: terminal, but for the fault above. *)
Remain == state \in {"recovery", "fault"} /\ UNCHANGED machine

(* update(): a critical fault comes before anything the state would do. *)
Update(t, in) ==
  IF in.critical_fault /\ state # "fault"
  THEN LatchFault(t)
  ELSE \/ StartSelfTest(t)
       \/ FinishSelfTest(t, in)
       \/ AwaitLaunch(t, in)
       \/ Fly(t, in)
       \/ AwaitRecovery(t)
       \/ Remain

-----------------------------------------------------------------------------
Init ==
  /\ now = 0
  /\ state = "init" /\ entered_ms = 0
  /\ launch_condition_since_ms = 0 /\ rest_condition_since_ms = 0
  /\ descent_since_ms = 0 /\ descent_observed = FALSE

(* begin_self_test(), which Controller::initialize calls before the first  *)
(* update.                                                                 *)
BeginSelfTest ==
  /\ StartSelfTest(now)
  /\ UNCHANGED now

Poll(gap, in) ==
  /\ now + gap <= MaxTime
  /\ now' = now + gap
  /\ Update(now', in)

Next ==
  \/ BeginSelfTest
  \/ \E gap \in 0 .. MaxGap, in \in Inputs : Poll(gap, in)

Spec == Init /\ [][Next]_vars

-----------------------------------------------------------------------------
(* Properties. *)

Later(s, t) == IF s >= t THEN s ELSE t

TypeOK ==
  /\ now \in Nat /\ entered_ms \in Nat
  /\ state \in States
  /\ launch_condition_since_ms \in Nat /\ rest_condition_since_ms \in Nat
  /\ descent_since_ms \in Nat /\ descent_observed \in BOOLEAN

(* The phases, their order and their least durations. *)
Phases == INSTANCE MissionPhases WITH
  ShortestFlight <- Later(MinFlight, DescentConfirm) + RestConfirm,
  clock <- now, phase <- state, since <- entered_ms

PhasesSpec == Phases!Spec
=============================================================================
