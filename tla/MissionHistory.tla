--------------------------- MODULE MissionHistory ---------------------------
(***************************************************************************)
(* StateMachine together with what its samples were: runs of consecutive   *)
(* samples, kept without looking at the machine's state or timers, so that *)
(* what the machine declares can be compared with what it was shown.       *)
(***************************************************************************)
EXTENDS StateMachine

VARIABLES
  thrust, descent, rest,      (* the current run of each condition         *)
  descended                   (* the latest descent of DescentConfirm      *)

history == <<thrust, descent, rest, descended>>
historyVars == <<vars, history>>

(* A run is on while every sample has shown its condition, since from. *)
Run == [on : BOOLEAN, from : Nat]
NoRun == [on |-> FALSE, from |-> 0]

Extend(run, holds, t) ==
  IF ~holds THEN NoRun
  ELSE IF run.on THEN run ELSE [on |-> TRUE, from |-> t]

Remember(t, in) ==
  /\ thrust' = Extend(thrust, in.armed /\ in.thrust, t)
  /\ descent' = Extend(descent, Falling(in), t)
  /\ rest' = Extend(rest, AtRest(in), t)
  /\ descended' =
       IF descent'.on /\ t - descent'.from >= DescentConfirm
       THEN [from |-> descent'.from, to |-> t] ELSE descended

HistoryInit ==
  /\ Init
  /\ thrust = NoRun /\ descent = NoRun /\ rest = NoRun
  /\ descended = [from |-> 0, to |-> 0]

HistoryNext ==
  \/ BeginSelfTest /\ UNCHANGED history
  \/ \E gap \in 0 .. MaxGap, in \in Inputs : Poll(gap, in) /\ Remember(now', in)

HistorySpec == HistoryInit /\ [][HistoryNext]_historyVars

-----------------------------------------------------------------------------
(* Properties. *)

HistoryTypeOK ==
  /\ TypeOK
  /\ thrust \in Run /\ descent \in Run /\ rest \in Run
  /\ descended \in [from : Nat, to : Nat]

(* FLIGHT is entered only from READY, only while armed, and only after     *)
(* every sample of the last LaunchConfirm showed both thrust and arming: a *)
(* knock on the pad, or a condition that was met before arming, is no      *)
(* launch.                                                                 *)
LaunchConfirmed ==
  [][state # "flight" /\ state' = "flight" =>
       /\ state = "ready"
       /\ thrust'.on /\ now' - thrust'.from >= LaunchConfirm]_historyVars

(* "A vehicle cannot land without descending first" (state_machine.cpp,    *)
(* the descent gate): when a landing is declared, some unbroken run of     *)
(* descending samples lasted DescentConfirm inside this flight, and only   *)
(* after it did the vehicle rest, for an unbroken RestConfirm that lies    *)
(* beyond min_flight_ms as well.                                           *)
LandingConfirmed ==
  [][state # "landed" /\ state' = "landed" =>
       /\ state = "flight"
       /\ descended'.to - Later(descended'.from, entered_ms) >= DescentConfirm
       /\ rest'.on /\ rest'.from >= descended'.to
       /\ now' - Later(rest'.from, entered_ms + MinFlight) >= RestConfirm]_historyVars

(* The gate is not a trap: a vehicle that fell for DescentConfirm during   *)
(* this flight and then lies still is declared landed at the latest one    *)
(* poll after RestConfirm.                                                 *)
LandsInTime ==
  state = "flight" /\ rest.on
    /\ descended.from > entered_ms /\ descended.to - descended.from >= DescentConfirm
  => now - Later(rest.from, entered_ms + MinFlight) < RestConfirm + MaxGap

(* Nor is arming: an armed vehicle under thrust since it became READY is   *)
(* in FLIGHT after LaunchConfirm, whatever the polls in between.           *)
LaunchesInTime ==
  state = "ready" /\ thrust.on /\ thrust.from > entered_ms
  => now - thrust.from < LaunchConfirm
=============================================================================
