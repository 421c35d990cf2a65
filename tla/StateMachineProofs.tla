------------------------- MODULE StateMachineProofs -------------------------
(***************************************************************************)
(* Proofs about the mission state machine, for every choice of the timing  *)
(* constants, every poll gap and every sequence of samples.                *)
(***************************************************************************)
EXTENDS MissionHistory, TLAPS

(* What the history of the samples satisfies on its own. *)
RunsOK ==
  /\ thrust.on => thrust.from <= now
  /\ descent.on => descent.from <= now
  /\ rest.on => rest.from <= now /\ rest.from >= descended.to /\ ~descent.on
  /\ descended.from <= descended.to /\ descended.to <= now

(* The launch timer runs in READY only, no longer than the run of thrust,  *)
(* and as long as it when that run began after READY did.                  *)
LaunchTimerOK ==
  /\ entered_ms <= now
  /\ launch_condition_since_ms # 0 =>
       /\ state = "ready" /\ thrust.on
       /\ launch_condition_since_ms >= entered_ms
       /\ launch_condition_since_ms >= thrust.from
       /\ launch_condition_since_ms <= now
       /\ now - launch_condition_since_ms < LaunchConfirm
  /\ state = "ready" /\ thrust.on /\ thrust.from > entered_ms =>
       launch_condition_since_ms = thrust.from

(* The gate: its timer likewise, and when it is latched a confirmed        *)
(* descent lies inside this flight.                                        *)
GateOK ==
  /\ descent_since_ms # 0 =>
       /\ state = "flight" /\ descent.on
       /\ descent_since_ms >= entered_ms
       /\ descent_since_ms >= descent.from
       /\ descent_since_ms <= now
  /\ descent_observed =>
       /\ state = "flight"
       /\ descended.to >= descended.from + DescentConfirm
       /\ descended.to >= entered_ms + DescentConfirm
  /\ state = "flight" /\ descent.on /\ descent.from > entered_ms =>
       descent_since_ms = descent.from
  /\ state = "flight" /\ descended.from > entered_ms
       /\ descended.to >= descended.from + DescentConfirm
     => descent_observed

(* The rest timer: it runs only behind the gate and beyond min_flight, and *)
(* it is at most one poll behind the run of rest it times.                 *)
RestTimerOK ==
  /\ rest_condition_since_ms # 0 =>
       /\ state = "flight" /\ descent_observed /\ rest.on
       /\ rest_condition_since_ms >= entered_ms + MinFlight
       /\ rest_condition_since_ms >= rest.from
       /\ rest_condition_since_ms <= now
       /\ rest_condition_since_ms <= Later(rest.from, entered_ms + MinFlight) + MaxGap
       /\ now - rest_condition_since_ms < RestConfirm
  /\ state = "flight" /\ descent_observed /\ rest.on /\ now >= entered_ms + MinFlight =>
       rest_condition_since_ms # 0

TimersInv == HistoryTypeOK /\ RunsOK /\ LaunchTimerOK /\ GateOK /\ RestTimerOK

-----------------------------------------------------------------------------
LEMMA RunFields ==
  ASSUME NEW r \in Run
  PROVE  r.on \in BOOLEAN /\ r.from \in Nat
BY DEF Run

LEMMA NoRunType == NoRun \in Run /\ ~NoRun.on
BY DEF NoRun, Run

(* Extend: the run after a sample at t. *)
LEMMA Extended ==
  ASSUME NEW r \in Run, NEW holds \in BOOLEAN, NEW t \in Nat
  PROVE  /\ Extend(r, holds, t) \in Run
         /\ Extend(r, holds, t).on <=> holds
         /\ holds /\ r.on => Extend(r, holds, t).from = r.from
         /\ holds /\ ~r.on => Extend(r, holds, t).from = t
<1>1. CASE ~holds BY <1>1, NoRunType DEF Extend
<1>2. CASE holds /\ r.on BY <1>2, RunFields DEF Extend
<1>3. CASE holds /\ ~r.on
  <2> DEFINE e == [on |-> TRUE, from |-> t]
  <2>1. Extend(r, holds, t) = e BY <1>3 DEF Extend
  <2>2. e \in Run /\ e.on /\ e.from = t BY DEF Run
  <2> HIDE DEF e
  <2> QED BY <1>3, <2>1, <2>2, Zenon
<1> QED BY <1>1, <1>2, <1>3

(* What a sample leaves in the history, in terms the provers can use. *)
Sampled(t, in) ==
  /\ thrust'.on => in.armed /\ in.thrust
  /\ in.armed /\ in.thrust => thrust'.on
  /\ thrust'.on /\ thrust.on => thrust'.from = thrust.from
  /\ thrust'.on /\ ~thrust.on => thrust'.from = t
  /\ descent'.on <=> Falling(in)
  /\ descent'.on /\ descent.on => descent'.from = descent.from
  /\ descent'.on /\ ~descent.on => descent'.from = t
  /\ rest'.on <=> AtRest(in)
  /\ rest'.on /\ rest.on => rest'.from = rest.from
  /\ rest'.on /\ ~rest.on => rest'.from = t
  /\ descent'.on /\ t - descent'.from >= DescentConfirm =>
       descended'.from = descent'.from /\ descended'.to = t
  /\ ~(descent'.on /\ t - descent'.from >= DescentConfirm) => descended' = descended

HistoryTypes ==
  /\ thrust \in Run /\ descent \in Run /\ rest \in Run
  /\ descended \in [from : Nat, to : Nat]

LEMMA SampleKept ==
  ASSUME HistoryTypes, NEW t \in Nat, NEW in \in Inputs, Remember(t, in)
  PROVE  HistoryTypes' /\ Sampled(t, in)
<1> DEFINE launching == in.armed /\ in.thrust
<1>1. launching \in BOOLEAN /\ Falling(in) \in BOOLEAN /\ AtRest(in) \in BOOLEAN
  BY DEF Falling, AtRest
<1>2. thrust' = Extend(thrust, launching, t) BY DEF Remember
<1>3. descent' = Extend(descent, Falling(in), t) BY DEF Remember
<1>4. rest' = Extend(rest, AtRest(in), t) BY DEF Remember
<1> HIDE DEF launching
<1>5. /\ thrust' \in Run
      /\ thrust'.on <=> launching
      /\ launching /\ thrust.on => thrust'.from = thrust.from
      /\ launching /\ ~thrust.on => thrust'.from = t
  BY <1>1, <1>2, Extended DEF HistoryTypes
<1>6. /\ descent' \in Run
      /\ descent'.on <=> Falling(in)
      /\ Falling(in) /\ descent.on => descent'.from = descent.from
      /\ Falling(in) /\ ~descent.on => descent'.from = t
  BY <1>1, <1>3, Extended DEF HistoryTypes
<1>7. /\ rest' \in Run
      /\ rest'.on <=> AtRest(in)
      /\ AtRest(in) /\ rest.on => rest'.from = rest.from
      /\ AtRest(in) /\ ~rest.on => rest'.from = t
  BY <1>1, <1>4, Extended DEF HistoryTypes
<1>8. /\ descended' \in [from : Nat, to : Nat]
      /\ descent'.on /\ t - descent'.from >= DescentConfirm =>
           descended'.from = descent'.from /\ descended'.to = t
      /\ ~(descent'.on /\ t - descent'.from >= DescentConfirm) =>
           descended' = descended
  <2>1. descent'.from \in Nat BY <1>6, RunFields
  <2>2. CASE descent'.on /\ t - descent'.from >= DescentConfirm
    <3>1. descended' = [from |-> descent'.from, to |-> t] BY <2>2 DEF Remember
    <3> QED BY <2>1, <2>2, <3>1
  <2>3. CASE ~(descent'.on /\ t - descent'.from >= DescentConfirm)
    <3>1. descended' = descended BY <2>3 DEF Remember
    <3> QED BY <2>3, <3>1 DEF HistoryTypes
  <2> QED BY <2>2, <2>3
<1> QED BY <1>5, <1>6, <1>7, <1>8 DEF HistoryTypes, Sampled, launching

-----------------------------------------------------------------------------
(* Type correctness. *)

LEMMA Timings ==
  /\ LaunchConfirm \in Nat /\ MinFlight \in Nat /\ RestConfirm \in Nat
  /\ DescentConfirm \in Nat /\ DescentConfirm # 0
  /\ PostImpact \in Nat /\ MaxGap \in Nat /\ MaxTime \in Nat
BY MissionAssumption

LEMMA PollTime ==
  ASSUME now \in Nat, NEW gap \in 0 .. MaxGap, NEW in \in Inputs, Poll(gap, in)
  PROVE  now' \in Nat /\ now <= now' /\ now' <= now + MaxGap /\ Update(now', in)
BY Timings DEF Poll

Launching(in) == in.armed /\ in.thrust

LEMMA Conditions ==
  ASSUME NEW in \in Inputs
  PROVE  /\ Launching(in) \in BOOLEAN /\ Falling(in) \in BOOLEAN
         /\ AtRest(in) \in BOOLEAN /\ ~(Falling(in) /\ AtRest(in))
BY DEF Launching, Falling, AtRest

LEMMA Timed ==
  ASSUME NEW since \in Nat, NEW holds \in BOOLEAN, NEW t \in Nat
  PROVE  /\ Timer(since, holds, t) \in Nat
         /\ ~holds => Timer(since, holds, t) = 0
         /\ holds /\ since = 0 => Timer(since, holds, t) = t
         /\ holds /\ since # 0 => Timer(since, holds, t) = since
BY DEF Timer

(* Each handler that looks at its timer either enters the next state or    *)
(* updates the timer. *)
Waits(t, in) ==
  /\ ~(Launching(in)
       /\ t - Timer(launch_condition_since_ms, Launching(in), t) >= LaunchConfirm)
  /\ launch_condition_since_ms' = Timer(launch_condition_since_ms, Launching(in), t)
  /\ state' = state /\ entered_ms' = entered_ms
  /\ rest_condition_since_ms' = rest_condition_since_ms
  /\ descent_since_ms' = descent_since_ms
  /\ descent_observed' = descent_observed

LEMMA LaunchOutcome ==
  ASSUME NEW t, NEW in, AwaitLaunch(t, in)
  PROVE  /\ state = "ready"
         /\ \/ /\ Launching(in)
               /\ t - Timer(launch_condition_since_ms, Launching(in), t) >= LaunchConfirm
               /\ Enter("flight", t)
            \/ Waits(t, in)
BY Zenon DEF AwaitLaunch, Launching, Waits

Resting(t, in) == AtRest(in) /\ Observed(t, in)

Flies(t, in) ==
  /\ ~( /\ ~(t - entered_ms < MinFlight)
        /\ Resting(t, in)
        /\ t - Timer(rest_condition_since_ms, Resting(t, in), t) >= RestConfirm)
  /\ descent_since_ms' = Timer(descent_since_ms, Falling(in), t)
  /\ descent_observed' = Observed(t, in)
  /\ rest_condition_since_ms' =
       IF t - entered_ms < MinFlight THEN rest_condition_since_ms
       ELSE Timer(rest_condition_since_ms, Resting(t, in), t)
  /\ state' = state /\ entered_ms' = entered_ms
  /\ launch_condition_since_ms' = launch_condition_since_ms

LEMMA FlyOutcome ==
  ASSUME NEW t, NEW in, Fly(t, in)
  PROVE  /\ state = "flight"
         /\ \/ /\ ~(t - entered_ms < MinFlight)
               /\ Resting(t, in)
               /\ t - Timer(rest_condition_since_ms, Resting(t, in), t) >= RestConfirm
               /\ Enter("landed", t)
            \/ Flies(t, in)
BY Zenon DEF Fly, Resting, Flies

LEMMA EnterType ==
  ASSUME NEW t \in Nat, NEW next \in States, now' \in Nat, Enter(next, t)
  PROVE  TypeOK'
BY DEF Enter, TypeOK

LEMMA KeepType ==
  ASSUME TypeOK, now' \in Nat, UNCHANGED machine
  PROVE  TypeOK'
BY DEF TypeOK, machine, timers

LEMMA ObservedType ==
  ASSUME TypeOK, NEW t \in Nat, NEW in \in Inputs
  PROVE  Observed(t, in) \in BOOLEAN /\ Resting(t, in) \in BOOLEAN
BY Conditions DEF TypeOK, Observed, Resting

LEMMA UpdateType ==
  ASSUME TypeOK, NEW t \in Nat, NEW in \in Inputs, now' \in Nat, Update(t, in)
  PROVE  TypeOK'
<1>0. {"self_test", "ready", "flight", "landed", "recovery", "fault"} \subseteq States
  BY DEF States
<1>1. CASE LatchFault(t) BY <1>0, <1>1, EnterType DEF LatchFault
<1>2. CASE StartSelfTest(t) BY <1>0, <1>2, EnterType DEF StartSelfTest
<1>3. CASE FinishSelfTest(t, in) BY <1>0, <1>3, EnterType DEF FinishSelfTest
<1>4. CASE AwaitLaunch(t, in)
  <2>1. CASE Enter("flight", t) BY <1>0, <2>1, EnterType
  <2>2. CASE Waits(t, in) BY <2>2, Conditions, Timed DEF Waits, TypeOK
  <2> QED BY <1>4, <2>1, <2>2, LaunchOutcome
<1>5. CASE Fly(t, in)
  <2>1. CASE Enter("landed", t) BY <1>0, <2>1, EnterType
  <2>2. CASE Flies(t, in)
    <3>1. Falling(in) \in BOOLEAN /\ Observed(t, in) \in BOOLEAN
            /\ Resting(t, in) \in BOOLEAN
      BY Conditions, ObservedType
    <3>2. descent_since_ms' \in Nat BY <2>2, <3>1, Timed DEF Flies, TypeOK
    <3>3. rest_condition_since_ms' \in Nat BY <2>2, <3>1, Timed DEF Flies, TypeOK
    <3>4. descent_observed' \in BOOLEAN BY <2>2, <3>1, Zenon DEF Flies
    <3> QED BY <2>2, <3>2, <3>3, <3>4 DEF Flies, TypeOK
  <2> QED BY <1>5, <2>1, <2>2, FlyOutcome
<1>6. CASE AwaitRecovery(t)
  BY <1>0, <1>6, EnterType, KeepType, Zenon DEF AwaitRecovery
<1>7. CASE Remain BY <1>7, KeepType DEF Remain
<1> QED BY <1>1, <1>2, <1>3, <1>4, <1>5, <1>6, <1>7 DEF Update

-----------------------------------------------------------------------------
(* The invariant, handler by handler. *)

LEMMA HistoryFields ==
  ASSUME HistoryTypes
  PROVE  /\ thrust.on \in BOOLEAN /\ thrust.from \in Nat
         /\ descent.on \in BOOLEAN /\ descent.from \in Nat
         /\ rest.on \in BOOLEAN /\ rest.from \in Nat
         /\ descended.from \in Nat /\ descended.to \in Nat
BY RunFields DEF HistoryTypes

LEMMA HistoryFieldsNext ==
  ASSUME HistoryTypes'
  PROVE  /\ thrust'.on \in BOOLEAN /\ thrust'.from \in Nat
         /\ descent'.on \in BOOLEAN /\ descent'.from \in Nat
         /\ rest'.on \in BOOLEAN /\ rest'.from \in Nat
         /\ descended'.from \in Nat /\ descended'.to \in Nat
BY RunFields DEF HistoryTypes

(* A sample of the history, as a context for the handlers. *)
Step(in) ==
  /\ TypeOK /\ HistoryTypes /\ HistoryTypes'
  /\ now' \in Nat /\ now <= now' /\ now' <= now + MaxGap
  /\ in \in Inputs /\ Sampled(now', in)

LEMMA RunsKept ==
  ASSUME NEW in, Step(in), RunsOK
  PROVE  RunsOK'
BY HistoryFields, HistoryFieldsNext, Conditions, Timings
   DEF Step, Sampled, RunsOK, TypeOK

LEMMA EnterKept ==
  ASSUME NEW next, now' \in Nat, HistoryTypes', RunsOK', Enter(next, now')
  PROVE  LaunchTimerOK' /\ GateOK' /\ RestTimerOK'
<1>1. LaunchTimerOK'
  BY HistoryFieldsNext DEF Enter, RunsOK, LaunchTimerOK
<1>2. ~descent_observed' /\ descent_since_ms' = 0 /\ rest_condition_since_ms' = 0
        /\ entered_ms' = now'
  BY DEF Enter
<1>3. ~(descent'.on /\ descent'.from > entered_ms') /\ ~(descended'.from > entered_ms')
  BY <1>2, HistoryFieldsNext DEF RunsOK
<1>4. GateOK' BY <1>2, <1>3 DEF GateOK
<1>5. RestTimerOK' BY <1>2 DEF RestTimerOK
<1> QED BY <1>1, <1>4, <1>5

LEMMA IdleKept ==
  ASSUME NEW in, Step(in), TimersInv, UNCHANGED machine,
         state \in {"landed", "recovery", "fault"}
  PROVE  LaunchTimerOK' /\ GateOK' /\ RestTimerOK'
BY DEF Step, TimersInv, TypeOK, LaunchTimerOK, GateOK, RestTimerOK, machine, timers

LEMMA WaitKept ==
  ASSUME NEW in, Step(in), TimersInv, RunsOK', state = "ready", Waits(now', in)
  PROVE  LaunchTimerOK' /\ GateOK' /\ RestTimerOK'
<1>1. Launching(in) \in BOOLEAN /\ (thrust'.on <=> Launching(in))
  BY Conditions DEF Step, Sampled, Launching
<1>2. launch_condition_since_ms \in Nat /\ entered_ms \in Nat /\ now \in Nat
  BY DEF Step, TypeOK
<1>3. /\ ~Launching(in) => launch_condition_since_ms' = 0
      /\ Launching(in) /\ launch_condition_since_ms = 0 =>
           launch_condition_since_ms' = now'
      /\ Launching(in) /\ launch_condition_since_ms # 0 =>
           launch_condition_since_ms' = launch_condition_since_ms
      /\ Launching(in) => now' - launch_condition_since_ms' < LaunchConfirm
  <2>1. launch_condition_since_ms'
          = Timer(launch_condition_since_ms, Launching(in), now')
    BY DEF Waits
  <2>2. launch_condition_since_ms' \in Nat BY <1>1, <1>2, <2>1, Timed DEF Step
  <2>3. ~(Launching(in) /\ now' - launch_condition_since_ms' >= LaunchConfirm)
    BY <2>1, Zenon DEF Waits
  <2>4. Launching(in) => now' - launch_condition_since_ms' < LaunchConfirm
    <3> SUFFICES ASSUME Launching(in)
                 PROVE  now' - launch_condition_since_ms' < LaunchConfirm
      OBVIOUS
    <3>1. ~(now' - launch_condition_since_ms' >= LaunchConfirm) BY <2>3, Zenon
    <3>2. PICK t \in Nat : now' = t BY DEF Step
    <3>3. PICK s \in Nat : launch_condition_since_ms' = s BY <2>2
    <3> QED BY <3>1, <3>2, <3>3, Timings
  <2> QED BY <2>1, <2>4, Zenon DEF Timer
<1>4. LaunchTimerOK'
  BY <1>1, <1>2, <1>3, HistoryFields, HistoryFieldsNext
     DEF Step, Sampled, Waits, TimersInv, RunsOK, LaunchTimerOK
<1>5. GateOK' /\ RestTimerOK'
  BY DEF Waits, TimersInv, GateOK, RestTimerOK
<1> QED BY <1>4, <1>5

LEMMA FlyKept ==
  ASSUME NEW in, Step(in), TimersInv, RunsOK', state = "flight", Flies(now', in)
  PROVE  LaunchTimerOK' /\ GateOK' /\ RestTimerOK'
<1>1. /\ Falling(in) \in BOOLEAN /\ AtRest(in) \in BOOLEAN
      /\ ~(Falling(in) /\ AtRest(in))
      /\ descent'.on <=> Falling(in)
      /\ rest'.on <=> AtRest(in)
  BY Conditions DEF Step, Sampled
<1>2. /\ now \in Nat /\ now' \in Nat /\ now <= now' /\ now' <= now + MaxGap
      /\ entered_ms \in Nat /\ entered_ms <= now
      /\ launch_condition_since_ms = 0
      /\ descent_since_ms \in Nat /\ rest_condition_since_ms \in Nat
      /\ descent_observed \in BOOLEAN
  BY DEF Step, TypeOK, TimersInv, LaunchTimerOK
<1>3. /\ state' = state /\ entered_ms' = entered_ms
      /\ launch_condition_since_ms' = launch_condition_since_ms
  BY DEF Flies
<1>4. LaunchTimerOK' BY <1>2, <1>3 DEF LaunchTimerOK
<1>5. /\ ~Falling(in) => descent_since_ms' = 0
      /\ Falling(in) /\ descent_since_ms = 0 => descent_since_ms' = now'
      /\ Falling(in) /\ descent_since_ms # 0 => descent_since_ms' = descent_since_ms
  BY Zenon DEF Flies, Timer
<1>6. /\ descent_observed => descent_observed'
      /\ Falling(in) /\ now' - descent_since_ms' >= DescentConfirm => descent_observed'
      /\ descent_observed' =>
           \/ descent_observed
           \/ Falling(in) /\ now' - descent_since_ms' >= DescentConfirm
  BY Zenon DEF Flies, Observed, Timer
<1>7. GateOK'
  <2>1. descent_since_ms' # 0 =>
          /\ descent'.on
          /\ descent_since_ms' >= entered_ms'
          /\ descent_since_ms' >= descent'.from
          /\ descent_since_ms' <= now'
    BY <1>1, <1>2, <1>3, <1>5, HistoryFields, HistoryFieldsNext
       DEF Step, Sampled, TimersInv, RunsOK, GateOK
  <2>2. descent_observed' =>
          /\ descended'.to >= descended'.from + DescentConfirm
          /\ descended'.to >= entered_ms' + DescentConfirm
    <3>1. CASE Falling(in) /\ now' - descent_since_ms' >= DescentConfirm
      <4>1. PICK t \in Nat : now' = t BY <1>2
      <4>2. PICK s \in Nat : descent_since_ms' = s BY <1>2, <1>5
      <4>3. PICK f \in Nat : descent'.from = f BY HistoryFieldsNext DEF Step
      <4>4. s # 0 /\ s >= entered_ms /\ s >= f
        BY <1>1, <1>2, <1>3, <1>5, <2>1, <3>1, <4>1, <4>2, <4>3, Timings
      <4>5. t - f >= DescentConfirm /\ t - s >= DescentConfirm
        BY <3>1, <4>1, <4>2, <4>4, Timings
      <4>6. descended'.from = f /\ descended'.to = t
        BY <1>1, <3>1, <4>1, <4>3, <4>5 DEF Step, Sampled
      <4>7. t >= f + DescentConfirm /\ t >= entered_ms + DescentConfirm
        BY <1>2, <4>4, <4>5, Timings
      <4> QED BY <1>3, <4>6, <4>7
    <3>2. CASE descent_observed
      <4>1. CASE descended' = descended
        BY <1>3, <3>2, <4>1 DEF TimersInv, GateOK
      <4>2. CASE descended' # descended
        <5>1. PICK t \in Nat : now' = t BY <1>2
        <5>2. PICK f \in Nat : descent'.from = f BY HistoryFieldsNext DEF Step
        <5>3. t - f >= DescentConfirm /\ descended'.from = f /\ descended'.to = t
          BY <4>2, <5>1, <5>2 DEF Step, Sampled
        <5>4. descended.to >= entered_ms + DescentConfirm /\ descended.to <= now
          BY <3>2 DEF TimersInv, GateOK, RunsOK
        <5>5. t >= f + DescentConfirm /\ t >= entered_ms + DescentConfirm
          BY <1>2, <5>1, <5>3, <5>4, HistoryFields, Timings DEF Step
        <5> QED BY <1>3, <5>3, <5>5
      <4> QED BY <4>1, <4>2
    <3> QED BY <1>6, <3>1, <3>2
  <2>3. descent'.on /\ descent'.from > entered_ms' => descent_since_ms' = descent'.from
    BY <1>1, <1>2, <1>3, <1>5, HistoryFields, HistoryFieldsNext
       DEF Step, Sampled, TimersInv, RunsOK, GateOK
  <2>4. descended'.from > entered_ms'
          /\ descended'.to >= descended'.from + DescentConfirm
        => descent_observed'
    <3>1. CASE descended' = descended
      BY <1>3, <1>6, <3>1 DEF TimersInv, GateOK
    <3>2. CASE descended' # descended
      <4>1. PICK t \in Nat : now' = t BY <1>2
      <4>2. PICK f \in Nat : descent'.from = f BY HistoryFieldsNext DEF Step
      <4>3. descent'.on /\ t - f >= DescentConfirm /\ descended'.from = f
        BY <3>2, <4>1, <4>2 DEF Step, Sampled
      <4>4. f > entered_ms' => descent_since_ms' = f BY <2>3, <4>2, <4>3
      <4>5. f > entered_ms' => now' - descent_since_ms' >= DescentConfirm
        BY <4>1, <4>3, <4>4
      <4> QED BY <1>1, <1>6, <4>3, <4>5
    <3> QED BY <3>1, <3>2
  <2> QED BY <1>3, <2>1, <2>2, <2>3, <2>4 DEF GateOK
<1>8. RestTimerOK'
  <2>1. /\ Resting(now', in) \in BOOLEAN
        /\ Resting(now', in) <=> AtRest(in) /\ descent_observed'
    BY <1>1, ObservedType, Zenon DEF Resting, Flies, Step
  <2>2. AtRest(in) /\ descent_observed' => descent_observed
    BY <1>1, <1>6
  <2>3. PICK t \in Nat : now' = t BY <1>2
  <2>4. PICK r \in Nat : rest'.from = r BY HistoryFieldsNext DEF Step
  <2>5. CASE t - entered_ms < MinFlight
    <3>1. rest_condition_since_ms' = rest_condition_since_ms
      BY <2>3, <2>5, Zenon DEF Flies
    <3>2. rest_condition_since_ms = 0
      BY <1>2, <2>3, <2>5, Timings DEF TimersInv, RestTimerOK
    <3>3. ~(t >= entered_ms + MinFlight) BY <1>2, <2>5, Timings
    <3> QED BY <1>3, <2>3, <3>1, <3>2, <3>3 DEF RestTimerOK
  <2>6. CASE ~(t - entered_ms < MinFlight)
    <3>1. rest_condition_since_ms'
            = Timer(rest_condition_since_ms, Resting(now', in), now')
      BY <2>3, <2>6, Zenon DEF Flies
    <3>2. t >= entered_ms + MinFlight BY <1>2, <2>6, Timings
    <3>3. CASE ~Resting(now', in)
      <4>1. rest_condition_since_ms' = 0 BY <3>1, <3>3, Zenon DEF Timer
      <4>2. ~(descent_observed' /\ rest'.on) BY <1>1, <2>1, <3>3
      <4> QED BY <4>1, <4>2 DEF RestTimerOK
    <3>4. CASE Resting(now', in)
      <4>1. AtRest(in) /\ rest'.on /\ descent_observed' /\ descent_observed
        BY <1>1, <2>1, <2>2, <3>4
      <4>2. PICK s \in Nat : rest_condition_since_ms' = s
        BY <1>2, <2>1, <3>1, Timed
      <4>3. t - s < RestConfirm
        <5>1. ~(t - s >= RestConfirm)
          BY <2>3, <2>6, <3>1, <3>4, <4>2, Zenon DEF Flies
        <5> QED BY <5>1, Timings
      <4>4. r <= t BY <2>3, <2>4, <4>1 DEF RunsOK
      <4>5. s # 0 /\ s >= entered_ms + MinFlight /\ s >= r /\ s <= t
              /\ s <= Later(r, entered_ms + MinFlight) + MaxGap
        <5>1. CASE rest_condition_since_ms = 0
          <6>1. s = t BY <3>1, <3>4, <4>2, <2>3, <5>1, Zenon DEF Timer
          <6>2. PICK d \in Nat : descended'.to = d BY HistoryFieldsNext DEF Step
          <6>3. d <= t /\ d >= entered_ms + DescentConfirm
            BY <1>3, <1>7, <2>3, <4>1, <6>2 DEF RunsOK, GateOK
          <6>4. t # 0 BY <1>2, <6>3, Timings
          <6>5. ~rest.on \/ ~(now >= entered_ms + MinFlight)
            BY <4>1, <5>1 DEF TimersInv, RestTimerOK
          <6>6. t <= Later(r, entered_ms + MinFlight) + MaxGap
            <7>1. CASE ~rest.on
              <8>1. r = t BY <2>3, <2>4, <4>1, <7>1 DEF Step, Sampled
              <8> QED BY <1>2, <8>1, Timings DEF Later
            <7>2. CASE ~(now >= entered_ms + MinFlight)
              BY <1>2, <2>3, <7>2, Timings DEF Later
            <7> QED BY <6>5, <7>1, <7>2
          <6> QED BY <3>2, <4>4, <6>1, <6>4, <6>6
        <5>2. CASE rest_condition_since_ms # 0
          <6>1. s = rest_condition_since_ms
            BY <3>1, <3>4, <4>2, <5>2, Zenon DEF Timer
          <6>2. rest.on BY <5>2 DEF TimersInv, RestTimerOK
          <6>3. r = rest.from BY <2>4, <4>1, <6>2 DEF Step, Sampled
          <6> QED BY <1>2, <2>3, <5>2, <6>1, <6>3 DEF TimersInv, RestTimerOK
        <5> QED BY <5>1, <5>2
      <4> QED BY <1>3, <2>3, <2>4, <4>1, <4>2, <4>3, <4>5 DEF RestTimerOK
    <3> QED BY <3>3, <3>4
  <2> QED BY <2>5, <2>6
<1> QED BY <1>4, <1>7, <1>8

-----------------------------------------------------------------------------
(* The invariant of the specification. *)

LEMMA InitTimers == HistoryInit => TimersInv
<1> SUFFICES ASSUME HistoryInit PROVE TimersInv OBVIOUS
<1>1. HistoryTypeOK
  BY NoRunType DEF HistoryInit, Init, HistoryTypeOK, TypeOK, States
<1>2. RunsOK BY NoRunType DEF HistoryInit, Init, RunsOK
<1>3. LaunchTimerOK /\ GateOK /\ RestTimerOK
  BY NoRunType DEF HistoryInit, Init, LaunchTimerOK, GateOK, RestTimerOK
<1> QED BY <1>1, <1>2, <1>3 DEF TimersInv

LEMMA PollStep ==
  ASSUME HistoryTypeOK, NEW gap \in 0 .. MaxGap, NEW in \in Inputs,
         Poll(gap, in), Remember(now', in)
  PROVE  Step(in) /\ Update(now', in) /\ HistoryTypeOK'
<1>1. now' \in Nat /\ now <= now' /\ now' <= now + MaxGap /\ Update(now', in)
  BY PollTime DEF HistoryTypeOK, TypeOK
<1>2. HistoryTypes BY DEF HistoryTypeOK, HistoryTypes
<1>3. HistoryTypes' /\ Sampled(now', in) BY <1>1, <1>2, SampleKept
<1>4. TypeOK /\ TypeOK' BY <1>1, UpdateType DEF HistoryTypeOK
<1> QED BY <1>1, <1>2, <1>3, <1>4 DEF Step, HistoryTypeOK, HistoryTypes

LEMMA PollTimers ==
  ASSUME TimersInv, NEW gap \in 0 .. MaxGap, NEW in \in Inputs,
         Poll(gap, in), Remember(now', in)
  PROVE  TimersInv'
<1>1. Step(in) /\ Update(now', in) /\ HistoryTypeOK' BY PollStep DEF TimersInv
<1>2. RunsOK' BY <1>1, RunsKept DEF TimersInv
<1>3. now' \in Nat /\ HistoryTypes' BY <1>1 DEF Step
<1>4. LaunchTimerOK' /\ GateOK' /\ RestTimerOK'
  <2>1. ASSUME NEW next, Enter(next, now')
        PROVE  LaunchTimerOK' /\ GateOK' /\ RestTimerOK'
    BY <1>2, <1>3, <2>1, EnterKept
  <2>2. CASE LatchFault(now') BY <2>1, <2>2 DEF LatchFault
  <2>3. CASE StartSelfTest(now') BY <2>1, <2>3 DEF StartSelfTest
  <2>4. CASE FinishSelfTest(now', in) BY <2>1, <2>4 DEF FinishSelfTest
  <2>5. CASE AwaitLaunch(now', in)
    BY <1>1, <1>2, <2>1, <2>5, LaunchOutcome, WaitKept
  <2>6. CASE Fly(now', in)
    BY <1>1, <1>2, <2>1, <2>6, FlyOutcome, FlyKept
  <2>7. CASE AwaitRecovery(now')
    <3>1. CASE Enter("recovery", now') BY <2>1, <3>1
    <3>2. CASE UNCHANGED machine
      BY <1>1, <2>7, <3>2, IdleKept DEF AwaitRecovery
    <3> QED BY <2>7, <3>1, <3>2 DEF AwaitRecovery
  <2>8. CASE Remain BY <1>1, <2>8, IdleKept DEF Remain
  <2> QED BY <1>1, <2>2, <2>3, <2>4, <2>5, <2>6, <2>7, <2>8 DEF Update
<1> QED BY <1>1, <1>2, <1>4 DEF TimersInv

LEMMA SelfTestTimers ==
  ASSUME TimersInv, BeginSelfTest, UNCHANGED history
  PROVE  TimersInv'
<1>1. now' = now /\ now' \in Nat /\ state = "init" /\ Enter("self_test", now')
  BY DEF TimersInv, HistoryTypeOK, TypeOK, BeginSelfTest, StartSelfTest
<1>2. TypeOK' BY <1>1, EnterType DEF States
<1>3. HistoryTypeOK' /\ HistoryTypes'
  BY <1>2 DEF TimersInv, HistoryTypeOK, HistoryTypes, history
<1>4. RunsOK' BY <1>1 DEF TimersInv, RunsOK, history
<1>5. LaunchTimerOK' /\ GateOK' /\ RestTimerOK' BY <1>1, <1>3, <1>4, EnterKept
<1> QED BY <1>3, <1>4, <1>5 DEF TimersInv

LEMMA StutterTimers ==
  ASSUME TimersInv, UNCHANGED historyVars
  PROVE  TimersInv'
BY DEF TimersInv, historyVars, vars, machine, timers, history, HistoryTypeOK,
       TypeOK, RunsOK, LaunchTimerOK, GateOK, RestTimerOK

LEMMA TimersInvariant == HistorySpec => []TimersInv
<1>1. TimersInv /\ [HistoryNext]_historyVars => TimersInv'
  BY PollTimers, SelfTestTimers, StutterTimers DEF HistoryNext
<1> QED BY <1>1, InitTimers, PTL DEF HistorySpec

-----------------------------------------------------------------------------
(* The machine and its history stay within their types. *)
THEOREM TimersTyped == HistorySpec => []HistoryTypeOK
<1>1. TimersInv => HistoryTypeOK BY DEF TimersInv
<1> QED BY <1>1, TimersInvariant, PTL

(* An armed vehicle under thrust is in FLIGHT within LaunchConfirm.  (The  *)
(* launch timer follows the run of thrust, and fires when it is due.)      *)
THEOREM LaunchInTime == HistorySpec => []LaunchesInTime
<1>1. TimersInv => LaunchesInTime
  <2> SUFFICES ASSUME TimersInv, state = "ready", thrust.on, thrust.from > entered_ms
               PROVE  now - thrust.from < LaunchConfirm
    BY DEF LaunchesInTime
  <2>1. launch_condition_since_ms = thrust.from BY DEF TimersInv, LaunchTimerOK
  <2>2. thrust.from \in Nat /\ entered_ms \in Nat
    BY HistoryFields DEF TimersInv, HistoryTypeOK, HistoryTypes, TypeOK
  <2> QED BY <2>1, <2>2 DEF TimersInv, LaunchTimerOK
<1> QED BY <1>1, TimersInvariant, PTL

(* A vehicle that fell and lies still is LANDED within RestConfirm and one *)
(* poll.  (The descent latched the gate, and the rest timer is at most one *)
(* poll behind the run of rest.)                                           *)
THEOREM LandInTime == HistorySpec => []LandsInTime
<1>1. TimersInv => LandsInTime
  <2> SUFFICES ASSUME TimersInv, state = "flight", rest.on,
                      descended.from > entered_ms,
                      descended.to - descended.from >= DescentConfirm
               PROVE  now - Later(rest.from, entered_ms + MinFlight)
                        < RestConfirm + MaxGap
    BY DEF LandsInTime
  <2>1. /\ rest.from \in Nat /\ descended.from \in Nat /\ descended.to \in Nat
        /\ now \in Nat /\ entered_ms \in Nat /\ rest_condition_since_ms \in Nat
    BY HistoryFields DEF TimersInv, HistoryTypeOK, HistoryTypes, TypeOK
  <2>2. descent_observed BY <2>1, Timings DEF TimersInv, GateOK
  <2>3. CASE now >= entered_ms + MinFlight
    <3>1. /\ rest_condition_since_ms <= Later(rest.from, entered_ms + MinFlight) + MaxGap
          /\ now - rest_condition_since_ms < RestConfirm
      BY <2>2, <2>3 DEF TimersInv, RestTimerOK
    <3> QED BY <2>1, <3>1, Timings DEF Later
  <2>4. CASE ~(now >= entered_ms + MinFlight)
    BY <2>1, <2>4, Timings DEF Later
  <2> QED BY <2>3, <2>4
<1> QED BY <1>1, TimersInvariant, PTL

-----------------------------------------------------------------------------
(* What the two confirmed transitions have behind them. *)

LEMMA LaunchBasis ==
  ASSUME NEW in, Step(in), TimersInv, RunsOK', AwaitLaunch(now', in), state' # "ready"
  PROVE  /\ state = "ready" /\ Enter("flight", now')
         /\ thrust'.on /\ now' - thrust'.from >= LaunchConfirm
         /\ now' - entered_ms >= LaunchConfirm
<1>1. /\ state = "ready" /\ Launching(in) /\ Enter("flight", now')
      /\ now' - Timer(launch_condition_since_ms, Launching(in), now') >= LaunchConfirm
  BY LaunchOutcome, Zenon DEF Waits
<1>2. thrust'.on BY <1>1 DEF Step, Sampled, Launching
<1>3. PICK t \in Nat : now' = t BY DEF Step
<1>4. PICK f \in Nat : thrust'.from = f BY HistoryFieldsNext DEF Step
<1>5. now \in Nat /\ entered_ms \in Nat /\ launch_condition_since_ms \in Nat
        /\ entered_ms <= now /\ now <= t
  BY <1>3 DEF Step, TypeOK, TimersInv, LaunchTimerOK
<1>6. f <= t BY <1>2, <1>3, <1>4 DEF RunsOK
<1>7. t - f >= LaunchConfirm /\ t - entered_ms >= LaunchConfirm
  <2>1. CASE launch_condition_since_ms = 0
    <3>1. t - t >= LaunchConfirm BY <1>1, <1>3, <2>1, Zenon DEF Timer
    <3> QED BY <1>5, <1>6, <3>1, Timings
  <2>2. CASE launch_condition_since_ms # 0
    <3>1. t - launch_condition_since_ms >= LaunchConfirm
      BY <1>1, <1>3, <2>2, Zenon DEF Timer
    <3>2. f = thrust.from
      BY <1>2, <1>4, <2>2 DEF Step, Sampled, TimersInv, LaunchTimerOK
    <3>3. launch_condition_since_ms >= f /\ launch_condition_since_ms >= entered_ms
      BY <2>2, <3>2 DEF TimersInv, LaunchTimerOK
    <3> QED BY <1>5, <3>1, <3>3, Timings
  <2> QED BY <2>1, <2>2
<1> QED BY <1>1, <1>2, <1>3, <1>4, <1>7

LEMMA LandingBasis ==
  ASSUME NEW in, Step(in), TimersInv, RunsOK', Fly(now', in), state' # "flight"
  PROVE  /\ state = "flight" /\ Enter("landed", now')
         /\ descended' = descended
         /\ descended.to >= descended.from + DescentConfirm
         /\ descended.to >= entered_ms + DescentConfirm
         /\ rest'.on /\ rest'.from >= descended.to
         /\ now' - Later(rest'.from, entered_ms + MinFlight) >= RestConfirm
<1>1. /\ state = "flight" /\ Enter("landed", now')
      /\ ~(now' - entered_ms < MinFlight)
      /\ AtRest(in) /\ Observed(now', in) /\ Resting(now', in)
      /\ now' - Timer(rest_condition_since_ms, Resting(now', in), now') >= RestConfirm
  BY FlyOutcome, Zenon DEF Flies, Resting
<1>2. ~Falling(in) BY <1>1, Conditions DEF Step
<1>3. descent_observed BY <1>1, <1>2, Zenon DEF Observed
<1>4. rest'.on /\ ~descent'.on /\ descended' = descended
  BY <1>1, <1>2 DEF Step, Sampled
<1>5. PICK t \in Nat : now' = t BY DEF Step
<1>6. PICK r \in Nat : rest'.from = r BY HistoryFieldsNext DEF Step
<1>7. /\ now \in Nat /\ entered_ms \in Nat /\ rest_condition_since_ms \in Nat
      /\ descended.to \in Nat /\ descended.from \in Nat
      /\ entered_ms <= now /\ now <= t
  BY <1>5, HistoryFields DEF Step, TypeOK, TimersInv, LaunchTimerOK
<1>8. r <= t /\ r >= descended.to BY <1>4, <1>5, <1>6 DEF RunsOK
<1>9. t >= entered_ms + MinFlight BY <1>1, <1>5, <1>7, Timings
<1>10. t - Later(r, entered_ms + MinFlight) >= RestConfirm
  <2>1. CASE rest_condition_since_ms = 0
    <3>1. t - t >= RestConfirm BY <1>1, <1>5, <2>1, Zenon DEF Timer
    <3> QED BY <1>7, <1>8, <1>9, <3>1, Timings DEF Later
  <2>2. CASE rest_condition_since_ms # 0
    <3>1. t - rest_condition_since_ms >= RestConfirm
      BY <1>1, <1>5, <2>2, Zenon DEF Timer
    <3>2. r = rest.from
      BY <1>4, <1>6, <2>2 DEF Step, Sampled, TimersInv, RestTimerOK
    <3>3. rest_condition_since_ms >= r
            /\ rest_condition_since_ms >= entered_ms + MinFlight
      BY <2>2, <3>2 DEF TimersInv, RestTimerOK
    <3> QED BY <1>7, <3>1, <3>3, Timings DEF Later
  <2> QED BY <2>1, <2>2
<1>11. descended.to >= descended.from + DescentConfirm
         /\ descended.to >= entered_ms + DescentConfirm
  BY <1>3 DEF TimersInv, GateOK
<1> QED BY <1>1, <1>4, <1>5, <1>6, <1>8, <1>10, <1>11

(* A launch is declared only behind an unbroken, armed run of thrust. *)
THEOREM LaunchIsConfirmed == HistorySpec => LaunchConfirmed
<1> DEFINE A == state # "flight" /\ state' = "flight" =>
                  /\ state = "ready"
                  /\ thrust'.on /\ now' - thrust'.from >= LaunchConfirm
<1>1. TimersInv /\ [HistoryNext]_historyVars => [A]_historyVars
  <2> SUFFICES ASSUME TimersInv, HistoryNext, state # "flight", state' = "flight"
               PROVE  A
    BY Zenon
  <2>1. CASE BeginSelfTest BY <2>1 DEF BeginSelfTest, StartSelfTest, Enter
  <2>2. CASE \E gap \in 0 .. MaxGap, in \in Inputs : Poll(gap, in) /\ Remember(now', in)
    <3>1. PICK gap \in 0 .. MaxGap, in \in Inputs : Poll(gap, in) /\ Remember(now', in)
      BY <2>2
    <3>2. Step(in) /\ Update(now', in) /\ RunsOK'
      BY <3>1, PollStep, PollTimers DEF TimersInv
    <3>3. AwaitLaunch(now', in)
      BY <3>2 DEF Update, LatchFault, StartSelfTest, FinishSelfTest, Fly,
                  AwaitRecovery, Remain, Enter, machine
    <3> QED BY <3>2, <3>3, LaunchBasis
  <2> QED BY <2>1, <2>2 DEF HistoryNext
<1> QED BY <1>1, TimersInvariant, PTL DEF HistorySpec, LaunchConfirmed

(* A landing is declared only behind a confirmed descent inside the flight *)
(* and a rest, after it, that outlasts RestConfirm beyond min_flight.      *)
THEOREM LandingIsConfirmed == HistorySpec => LandingConfirmed
<1> DEFINE A == state # "landed" /\ state' = "landed" =>
       /\ state = "flight"
       /\ descended'.to - Later(descended'.from, entered_ms) >= DescentConfirm
       /\ rest'.on /\ rest'.from >= descended'.to
       /\ now' - Later(rest'.from, entered_ms + MinFlight) >= RestConfirm
<1>1. TimersInv /\ [HistoryNext]_historyVars => [A]_historyVars
  <2> SUFFICES ASSUME TimersInv, HistoryNext, state # "landed", state' = "landed"
               PROVE  A
    BY Zenon
  <2>1. CASE BeginSelfTest BY <2>1 DEF BeginSelfTest, StartSelfTest, Enter
  <2>2. CASE \E gap \in 0 .. MaxGap, in \in Inputs : Poll(gap, in) /\ Remember(now', in)
    <3>1. PICK gap \in 0 .. MaxGap, in \in Inputs : Poll(gap, in) /\ Remember(now', in)
      BY <2>2
    <3>2. Step(in) /\ Update(now', in) /\ RunsOK'
      BY <3>1, PollStep, PollTimers DEF TimersInv
    <3>3. Fly(now', in)
      BY <3>2 DEF Update, LatchFault, StartSelfTest, FinishSelfTest, AwaitLaunch,
                  AwaitRecovery, Remain, Enter, machine
    <3>4. /\ descended.to \in Nat /\ descended.from \in Nat /\ entered_ms \in Nat
      BY HistoryFields DEF TimersInv, HistoryTypeOK, HistoryTypes, TypeOK
    <3>5. /\ state = "flight" /\ descended' = descended
          /\ descended.to >= descended.from + DescentConfirm
          /\ descended.to >= entered_ms + DescentConfirm
          /\ rest'.on /\ rest'.from >= descended.to
          /\ now' - Later(rest'.from, entered_ms + MinFlight) >= RestConfirm
      BY <3>2, <3>3, LandingBasis
    <3>6. descended.to - Later(descended.from, entered_ms) >= DescentConfirm
      BY <3>4, <3>5, Timings DEF Later
    <3> QED BY <3>5, <3>6
  <2> QED BY <2>1, <2>2 DEF HistoryNext
<1> QED BY <1>1, TimersInvariant, PTL DEF HistorySpec, LandingConfirmed

-----------------------------------------------------------------------------
(* The refinement of MissionPhases. *)

Shortest == Later(MinFlight, DescentConfirm) + RestConfirm

(* A landing is as late as both the guard and the gate demand. *)
LEMMA ShortestFlightKept ==
  ASSUME NEW in, Step(in), TimersInv, RunsOK', Fly(now', in), state' # "flight"
  PROVE  now' - entered_ms >= Shortest
<1>1. PICK t \in Nat : now' = t BY DEF Step
<1>2. PICK r \in Nat : rest'.from = r BY HistoryFieldsNext DEF Step
<1>3. entered_ms \in Nat /\ descended.to \in Nat
  BY HistoryFields DEF Step, TypeOK
<1>4. /\ descended.to >= entered_ms + DescentConfirm
      /\ r >= descended.to
      /\ t - Later(r, entered_ms + MinFlight) >= RestConfirm
  BY <1>1, <1>2, LandingBasis
<1> QED BY <1>1, <1>3, <1>4, Timings DEF Later, Shortest

Moves(next) == now' \in Nat /\ now' >= now /\ Enter(next, now')

LEMMA PhaseStep ==
  ASSUME TimersInv, HistoryNext
  PROVE  [Phases!Next]_(Phases!vars)
<1>1. now \in Nat /\ entered_ms \in Nat BY DEF TimersInv, HistoryTypeOK, TypeOK
<1>2. ASSUME NEW next, Moves(next), next \in Phases!Successors(state, now' - entered_ms)
      PROVE  Phases!Move
  BY <1>2, Zenon DEF Moves, Enter, Phases!Move
<1>3. CASE BeginSelfTest
  <2>1. state = "init" /\ Moves("self_test")
    BY <1>1, <1>3 DEF BeginSelfTest, StartSelfTest, Moves
  <2> QED BY <1>2, <2>1 DEF Phases!Successors, Phases!Next
<1>4. CASE \E gap \in 0 .. MaxGap, in \in Inputs : Poll(gap, in) /\ Remember(now', in)
  <2>1. PICK gap \in 0 .. MaxGap, in \in Inputs : Poll(gap, in) /\ Remember(now', in)
    BY <1>4
  <2>2. Step(in) /\ Update(now', in) /\ RunsOK'
    BY <2>1, PollStep, PollTimers DEF TimersInv
  <2>3. now' \in Nat /\ now' >= now BY <1>1, <2>2 DEF Step
  <2>4. ASSUME UNCHANGED <<state, entered_ms>> PROVE Phases!Stay
    BY <2>3, <2>4 DEF Phases!Stay
  <2>5. CASE LatchFault(now')
    <3>1. state # "fault" /\ state \in States /\ Moves("fault")
      BY <2>2, <2>3, <2>5 DEF LatchFault, Moves, Step, TypeOK
    <3>2. "fault" \in Phases!Successors(state, now' - entered_ms)
      BY <3>1 DEF States, Phases!Successors
    <3> QED BY <1>2, <3>1, <3>2 DEF Phases!Next
  <2>6. CASE StartSelfTest(now')
    <3>1. state = "init" /\ Moves("self_test") BY <2>3, <2>6 DEF StartSelfTest, Moves
    <3> QED BY <1>2, <3>1 DEF Phases!Successors, Phases!Next
  <2>7. CASE FinishSelfTest(now', in)
    <3>1. state = "self_test" /\ (Moves("ready") \/ Moves("fault"))
      BY <2>3, <2>7 DEF FinishSelfTest, Moves
    <3> QED BY <1>2, <3>1 DEF Phases!Successors, Phases!Next
  <2>8. CASE AwaitLaunch(now', in)
    <3>1. CASE state' = "ready"
      <4>1. UNCHANGED <<state, entered_ms>>
        BY <2>8, <3>1, LaunchOutcome DEF Waits, Enter
      <4> QED BY <2>4, <4>1 DEF Phases!Next
    <3>2. CASE state' # "ready"
      <4>1. state = "ready" /\ Moves("flight") /\ now' - entered_ms >= LaunchConfirm
        BY <2>2, <2>3, <2>8, <3>2, LaunchBasis DEF Moves
      <4>2. "flight" \in Phases!Successors(state, now' - entered_ms)
        BY <4>1 DEF Phases!Successors
      <4> QED BY <1>2, <4>1, <4>2 DEF Phases!Next
    <3> QED BY <3>1, <3>2
  <2>9. CASE Fly(now', in)
    <3>1. CASE state' = "flight"
      <4>1. UNCHANGED <<state, entered_ms>>
        BY <2>9, <3>1, FlyOutcome DEF Flies, Enter
      <4> QED BY <2>4, <4>1 DEF Phases!Next
    <3>2. CASE state' # "flight"
      <4>1. /\ state = "flight" /\ Moves("landed")
            /\ now' - entered_ms >= Later(MinFlight, DescentConfirm) + RestConfirm
        BY <2>2, <2>3, <2>9, <3>2, LandingBasis, ShortestFlightKept DEF Moves, Shortest
      <4>2. "landed" \in Phases!Successors(state, now' - entered_ms)
        BY <4>1 DEF Phases!Successors
      <4> QED BY <1>2, <4>1, <4>2 DEF Phases!Next
    <3> QED BY <3>1, <3>2
  <2>10. CASE AwaitRecovery(now')
    <3>1. CASE UNCHANGED machine BY <2>4, <3>1 DEF machine, Phases!Next
    <3>2. CASE now' - entered_ms >= PostImpact /\ Enter("recovery", now')
      <4>1. state = "landed" /\ Moves("recovery")
        BY <2>3, <2>10, <3>2 DEF AwaitRecovery, Moves
      <4>2. "recovery" \in Phases!Successors(state, now' - entered_ms)
        BY <3>2, <4>1 DEF Phases!Successors
      <4> QED BY <1>2, <4>1, <4>2 DEF Phases!Next
    <3> QED BY <2>10, <3>1, <3>2 DEF AwaitRecovery
  <2>11. CASE Remain BY <2>4, <2>11 DEF Remain, machine, Phases!Next
  <2> QED BY <2>2, <2>5, <2>6, <2>7, <2>8, <2>9, <2>10, <2>11 DEF Update
<1> QED BY <1>3, <1>4 DEF HistoryNext

(* The mission state implements MissionPhases: the order of the phases and *)
(* the least duration of each.                                             *)
THEOREM ImplementsPhases == HistorySpec => PhasesSpec
<1>1. HistoryInit => Phases!Init BY DEF HistoryInit, Init, Phases!Init
<1>2. TimersInv /\ [HistoryNext]_historyVars => [Phases!Next]_(Phases!vars)
  <2>1. CASE UNCHANGED historyVars
    BY <2>1 DEF historyVars, vars, machine, Phases!vars
  <2> QED BY <2>1, PhaseStep
<1> QED BY <1>1, <1>2, TimersInvariant, PTL
        DEF HistorySpec, PhasesSpec, Phases!Spec

=============================================================================
