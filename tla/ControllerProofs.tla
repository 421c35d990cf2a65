-------------------------- MODULE ControllerProofs --------------------------
(***************************************************************************)
(* Proofs about the flight loop up to launch, for every build, window,     *)
(* delay, calibration, replay window and poll gap.                         *)
(*                                                                         *)
(* None of the properties is inductive.  What carries them is that the     *)
(* window opens with the first step or never: once it is closed it stays   *)
(* closed, with the uplink latched, the calibrator new and the max rate    *)
(* engaged where the build wants it.  The bounds in time rest on where in  *)
(* a poll the window and the calibration are looked at.                    *)
(***************************************************************************)
EXTENDS Controller, SequenceTheorems, TLAPS

Calibrations ==
  [n_imu : 0 .. CalibSamples, baro : BOOLEAN, started : BOOLEAN,
   started_ms : Nat, verdict : {"pending", "complete", "failed"},
   from_window : BOOLEAN]

Steps ==
  {"off", "self_test", "idle", "sensors", "window", "calibrate", "machine",
   "telemetry"}

Typed ==
  /\ Machine!TypeOK
  /\ pc \in Steps /\ build \in Builds
  /\ operational \in BOOLEAN
  /\ imu_valid \in BOOLEAN /\ baro_valid \in BOOLEAN
  /\ imu_stale \in BOOLEAN /\ baro_stale \in BOOLEAN
  /\ calib \in Calibrations
  /\ calibration_applied \in BOOLEAN /\ baseline_ready \in BOOLEAN
  /\ window_open \in BOOLEAN /\ uplink_closed \in BOOLEAN /\ max_rate \in BOOLEAN
  /\ was_armed \in BOOLEAN
  /\ window_closed_ms \in Nat
  /\ packet_number \in 0 .. MaxPackets /\ last_command_pn \in 0 .. MaxPackets
  /\ obeyed \in Seq(Frames)
  /\ baseline_on \in {"nowhere", "window", "pad"}

(* The phases of the power-on: the clock stands still until the first poll.*)
Booting ==
  /\ pc = "off" => state = "init" /\ ~window_open /\ obeyed = <<>>
  /\ pc \in {"off", "self_test"} => now = 0 /\ ~was_armed /\ ~calib.started
  /\ pc = "self_test" => state = "self_test"
  /\ pc \notin {"off", "self_test"} => state \notin {"init", "self_test"}

(* What a window that is not open stands for, once there was power. *)
ClosedWindow ==
  /\ pc # "off" /\ ~window_open =>
       /\ build.commands => uplink_closed
       /\ build.auto => max_rate
  /\ state = "flight" \/ was_armed => ~window_open
  /\ window_closed_ms <= now /\ window_closed_ms < CommandWindow + MaxGap

(* The window is looked at once a poll, before the calibration. *)
OpenWindow ==
  window_open =>
    /\ now < CommandWindow + MaxGap
    /\ pc \notin {"sensors", "window"} => now < CommandWindow

(* A calibration is applied in the pass in which it settles, and what it   *)
(* took in the window goes with the window.                                *)
Applied ==
  /\ calibration_applied <=> Settled(calib)
  /\ calib.from_window => window_open

(* The clock of the calibration starts with the first pass after the       *)
(* window, and a pass after its timeout settles it.                        *)
CalibrationClock ==
  ~window_open /\ ~Settled(calib) =>
    /\ calib.started =>
         /\ calib.started_ms <= window_closed_ms + MaxGap
         /\ pc \in {"machine", "telemetry", "idle"} =>
              now < calib.started_ms + CalibTimeout
    /\ ~calib.started =>
         /\ pc \notin {"machine", "telemetry"}
         /\ now <= window_closed_ms + MaxGap
         /\ pc \in {"off", "self_test", "idle"} => now = window_closed_ms

(* The commands obeyed, against the number of the last of them and the     *)
(* latch that MAX_RATE leaves.                                             *)
Obeyed ==
  \A i \in DOMAIN obeyed :
    /\ obeyed[i].pn <= last_command_pn
    /\ obeyed[i].kind = "max_rate" => uplink_closed

(* The launch timer runs only from when the vehicle was armed. *)
LaunchTimer ==
  launch_condition_since_ms # 0 =>
    /\ ~window_open
    /\ launch_condition_since_ms >= window_closed_ms + ArmingDelay
    /\ launch_condition_since_ms <= now

ControllerInv ==
  /\ Typed /\ Booting /\ ClosedWindow /\ OpenWindow /\ Applied
  /\ CalibrationClock /\ Obeyed /\ LaunchTimer

-----------------------------------------------------------------------------
(* The constants, one by one. *)
LEMMA Constants ==
  /\ LaunchConfirm \in Nat /\ MaxGap \in Nat
  /\ CommandWindow \in Nat /\ CommandWindow > 0 /\ ArmingDelay \in Nat
  /\ CalibSamples \in Nat /\ CalibTimeout \in Nat
  /\ ReplayWindow \in Nat /\ MaxPackets \in Nat
  /\ \A b \in Builds : b.commands \in BOOLEAN /\ b.auto \in BOOLEAN
BY ControllerAssumption, ControllerMission
   DEF ControllerAssumption, Machine!MissionAssumption

LEMMA CalibratorFields ==
  ASSUME NEW c \in Calibrations
  PROVE  /\ c.n_imu \in 0 .. CalibSamples /\ c.started_ms \in Nat
         /\ c.baro \in BOOLEAN /\ c.started \in BOOLEAN /\ c.from_window \in BOOLEAN
         /\ c.verdict \in {"pending", "complete", "failed"}
BY DEF Calibrations

(* A new calibrator holds nothing and its clock does not run. *)
LEMMA NewIsEmpty ==
  /\ NewCalibrator \in Calibrations
  /\ ~NewCalibrator.started /\ ~NewCalibrator.from_window /\ ~Settled(NewCalibrator)
<1>1. 0 \in 0 .. CalibSamples /\ 0 \in Nat
  BY Constants
<1> QED
  BY <1>1 DEF NewCalibrator, Calibrations, Settled

(* Samples start no clock and settle nothing; they are of the window only  *)
(* while it is open.                                                       *)
LEMMA SamplesAdded ==
  ASSUME NEW c \in Calibrations, NEW imu \in BOOLEAN, NEW baro \in BOOLEAN,
         window_open \in BOOLEAN
  PROVE  LET d == WithSamples(c, imu, baro)
         IN /\ d \in Calibrations
            /\ d.started = c.started /\ d.started_ms = c.started_ms
            /\ d.verdict = c.verdict
            /\ d.from_window => c.from_window \/ window_open
<1> DEFINE n == IF imu /\ c.n_imu < CalibSamples THEN c.n_imu + 1 ELSE c.n_imu
           taken == c.baro \/ baro
           handled == c.from_window \/ (window_open /\ (imu \/ baro))
           d == [c EXCEPT !.n_imu = n, !.baro = taken, !.from_window = handled]
<1>1. n \in 0 .. CalibSamples
  BY Constants, CalibratorFields
<1>2. taken \in BOOLEAN /\ handled \in BOOLEAN
  BY CalibratorFields
<1>3. WithSamples(c, imu, baro) = IF Settled(c) THEN c ELSE d
  BY DEF WithSamples, Calibrations
<1>4. handled => c.from_window \/ window_open
  OBVIOUS
<1> HIDE DEF n, taken, handled
<1>5. d \in Calibrations
  BY <1>1, <1>2 DEF Calibrations
<1>6. d.started = c.started /\ d.started_ms = c.started_ms /\ d.verdict = c.verdict
      /\ d.from_window = handled
  BY DEF Calibrations
<1> HIDE DEF d
<1> QED
  BY <1>3, <1>4, <1>5, <1>6

(* A pass has the clock run, from now at the latest, and leaves the         *)
(* calibration pending only before the timeout.                            *)
LEMMA PassJudged ==
  ASSUME NEW c \in Calibrations, ~Settled(c), NEW still \in BOOLEAN, now \in Nat
  PROVE  LET d == Judged(c, still)
         IN /\ d \in Calibrations
            /\ d.from_window => c.from_window
            /\ d.started
            /\ d.started_ms = IF c.started THEN c.started_ms ELSE now
            /\ ~Settled(d) => now - d.started_ms < CalibTimeout
<1> DEFINE s == IF c.started THEN c ELSE [c EXCEPT !.started = TRUE, !.started_ms = now]
           e == [s EXCEPT !.n_imu = 0, !.baro = FALSE, !.from_window = FALSE]
           full == s.n_imu >= CalibSamples
           kept == IF full THEN e ELSE s
           complete == [s EXCEPT !.verdict = "complete"]
           failed == [kept EXCEPT !.verdict = "failed"]
<1>1. /\ s \in Calibrations /\ s.verdict = c.verdict /\ s.from_window = c.from_window
      /\ c.started => s = c
      /\ s.started /\ s.started_ms = IF c.started THEN c.started_ms ELSE now
  BY CalibratorFields DEF Calibrations
<1>2. Judged(c, still) =
        IF Settled(s) THEN s
        ELSE IF full /\ still THEN complete
        ELSE IF now - s.started_ms >= CalibTimeout THEN failed ELSE kept
  BY DEF Judged, Empty
<1> HIDE DEF s
<1>3. 0 \in 0 .. CalibSamples
  BY Constants
<1>4. /\ e \in Calibrations /\ e.verdict = s.verdict /\ ~e.from_window
      /\ e.started = s.started /\ e.started_ms = s.started_ms
  BY <1>1, <1>3 DEF Calibrations
<1> HIDE DEF e
<1>5. /\ kept \in Calibrations /\ kept.verdict = s.verdict
      /\ kept.from_window => s.from_window
      /\ kept.started = s.started /\ kept.started_ms = s.started_ms
  BY <1>1, <1>4
<1> HIDE DEF kept
<1>6. /\ complete \in Calibrations /\ complete.verdict = "complete"
      /\ complete.from_window = s.from_window
      /\ complete.started = s.started /\ complete.started_ms = s.started_ms
  BY <1>1 DEF Calibrations
<1>7. /\ failed \in Calibrations /\ failed.verdict = "failed"
      /\ failed.from_window = kept.from_window
      /\ failed.started = s.started /\ failed.started_ms = s.started_ms
  BY <1>5 DEF Calibrations
<1> HIDE DEF complete, failed, full
<1>8. ~Settled(s) /\ Settled(failed) /\ Settled(complete)
  BY <1>1, <1>6, <1>7 DEF Settled
<1>9. CASE full /\ still
  <2>1. Judged(c, still) = complete
    BY <1>2, <1>8, <1>9
  <2> QED
    BY <1>1, <1>6, <1>8, <2>1
<1>10. CASE ~(full /\ still) /\ now - s.started_ms >= CalibTimeout
  <2>1. Judged(c, still) = failed
    BY <1>2, <1>8, <1>10
  <2> QED
    BY <1>1, <1>5, <1>7, <1>8, <2>1
<1>11. CASE ~(full /\ still) /\ ~(now - s.started_ms >= CalibTimeout)
  <2>1. Judged(c, still) = kept
    BY <1>2, <1>8, <1>11
  <2>2. now - s.started_ms < CalibTimeout
    <3>1. s.started_ms \in Nat /\ CalibTimeout \in Nat
      BY <1>1, CalibratorFields, Constants
    <3> QED
      BY <1>11, <3>1
  <2> QED
    BY <1>1, <1>5, <2>1, <2>2
<1> QED
  BY <1>9, <1>10, <1>11

(* What an update of the machine at t may do, for what is proved here: it  *)
(* never goes back to before READY, it enters FLIGHT only from READY and   *)
(* armed, and it starts the launch timer only when armed.                  *)
LEMMA MachineMoves ==
  ASSUME Machine!TypeOK, NEW t \in Nat, NEW in, Machine!Update(t, in)
  PROVE  /\ state' \in Machine!States /\ entered_ms' \in Nat
         /\ launch_condition_since_ms' \in Nat /\ rest_condition_since_ms' \in Nat
         /\ descent_since_ms' \in Nat /\ descent_observed' \in BOOLEAN
         /\ state # "init" => state' \notin {"init", "self_test"}
         /\ state' = "flight" /\ state # "flight" =>
              /\ state = "ready" /\ in.armed
              /\ t - Machine!Timer(launch_condition_since_ms, TRUE, t) >= LaunchConfirm
         /\ \/ launch_condition_since_ms' \in {0, launch_condition_since_ms}
            \/ in.armed /\ launch_condition_since_ms' = t
<1> USE DEF Machine!TypeOK, Machine!States
<1>1. CASE \E s \in {"self_test", "ready", "fault", "landed", "recovery"} :
             Machine!Enter(s, t) /\ (s = "self_test" => state = "init")
  <2>1. PICK s \in {"self_test", "ready", "fault", "landed", "recovery"} :
          Machine!Enter(s, t) /\ (s = "self_test" => state = "init")
    BY <1>1
  <2>2. /\ state' = s /\ entered_ms' = t
        /\ launch_condition_since_ms' = 0 /\ rest_condition_since_ms' = 0
        /\ descent_since_ms' = 0 /\ descent_observed' = FALSE
    BY <2>1 DEF Machine!Enter
  <2>3. s \in Machine!States /\ s # "flight" /\ s # "init"
    OBVIOUS
  <2>4. descent_observed' \in BOOLEAN
    BY <2>2
  <2> QED
    BY <2>1, <2>2, <2>3, <2>4
<1>2. CASE Machine!AwaitLaunch(t, in)
  <2> DEFINE holds == in.armed /\ in.thrust
             since == Machine!Timer(launch_condition_since_ms, holds, t)
  <2>1. CASE holds /\ t - since >= LaunchConfirm
    <3>1. Machine!Enter("flight", t) /\ state = "ready"
      BY <1>2, <2>1 DEF Machine!AwaitLaunch
    <3>2. since = Machine!Timer(launch_condition_since_ms, TRUE, t)
      BY <2>1 DEF Machine!Timer
    <3> QED
      BY <2>1, <3>1, <3>2 DEF Machine!Enter
  <2>2. CASE ~(holds /\ t - since >= LaunchConfirm)
    <3>1. /\ launch_condition_since_ms' = since /\ state = "ready"
          /\ UNCHANGED <<state, entered_ms, rest_condition_since_ms,
                         descent_since_ms, descent_observed>>
      BY <1>2, <2>2 DEF Machine!AwaitLaunch
    <3>2. since = 0 \/ since = launch_condition_since_ms \/ (in.armed /\ since = t)
      BY DEF Machine!Timer
    <3> HIDE DEF holds, since
    <3>3. /\ state' = "ready" /\ entered_ms' \in Nat /\ rest_condition_since_ms' \in Nat
          /\ descent_since_ms' \in Nat /\ descent_observed' \in BOOLEAN
      BY <3>1
    <3>4. launch_condition_since_ms' \in Nat
      BY <3>1, <3>2
    <3> QED
      BY <3>1, <3>2, <3>3, <3>4
  <2> QED
    BY <2>1, <2>2
<1>3. CASE Machine!Fly(t, in)
  <2>1. CASE Machine!Enter("landed", t)
    BY <1>1, <2>1
  <2>2. CASE ~Machine!Enter("landed", t)
    <3>1. /\ descent_since_ms' = Machine!Timer(descent_since_ms, Machine!Falling(in), t)
          /\ descent_observed' = Machine!Observed(t, in)
          /\ \/ rest_condition_since_ms' = rest_condition_since_ms
             \/ rest_condition_since_ms' =
                  Machine!Timer(rest_condition_since_ms,
                                Machine!AtRest(in) /\ Machine!Observed(t, in), t)
          /\ state = "flight"
          /\ UNCHANGED <<state, entered_ms, launch_condition_since_ms>>
      BY <1>3, <2>2 DEF Machine!Fly
    <3>2. descent_since_ms' \in Nat /\ rest_condition_since_ms' \in Nat
      BY <3>1 DEF Machine!Timer
    <3>3. descent_observed' \in BOOLEAN
      BY <3>1 DEF Machine!Observed
    <3> QED
      BY <3>1, <3>2, <3>3
  <2> QED
    BY <2>1, <2>2
<1>4. CASE UNCHANGED Machine!machine /\ state \in {"landed", "recovery", "fault"}
  BY <1>4 DEF Machine!machine, Machine!timers
<1>5. \/ \E s \in {"self_test", "ready", "fault", "landed", "recovery"} :
           Machine!Enter(s, t) /\ (s = "self_test" => state = "init")
      \/ Machine!AwaitLaunch(t, in)
      \/ Machine!Fly(t, in)
      \/ UNCHANGED Machine!machine /\ state \in {"landed", "recovery", "fault"}
  BY DEF Machine!Update, Machine!LatchFault, Machine!StartSelfTest,
         Machine!FinishSelfTest, Machine!AwaitRecovery, Machine!Remain
<1> QED
  BY <1>1, <1>2, <1>3, <1>4, <1>5

-----------------------------------------------------------------------------
LEMMA InvInit ==
  ASSUME Init
  PROVE  ControllerInv
<1>1. Typed
  <2>1. 0 \in 0 .. MaxPackets /\ 0 \in Nat
    BY Constants
  <2>2. Machine!TypeOK
    BY DEF Init, Machine!Init, Machine!TypeOK, Machine!States
  <2>3. obeyed \in Seq(Frames)
    BY DEF Init
  <2> QED
    BY <2>1, <2>2, <2>3, NewIsEmpty DEF Init, Typed, Steps
<1>2. Booting /\ Obeyed /\ LaunchTimer /\ OpenWindow
  BY NewIsEmpty DEF Init, Machine!Init, Booting, Obeyed, LaunchTimer, OpenWindow
<1>3. ClosedWindow
  <2>1. 0 < CommandWindow + MaxGap
    BY Constants
  <2> QED
    BY <2>1 DEF Init, Machine!Init, ClosedWindow
<1>4. Applied
  BY NewIsEmpty DEF Init, Applied
<1>5. CalibrationClock
  <2>1. 0 <= 0 + MaxGap
    BY Constants
  <2> QED
    BY <2>1, NewIsEmpty DEF Init, Machine!Init, CalibrationClock
<1> QED
  BY <1>1, <1>2, <1>3, <1>4, <1>5 DEF ControllerInv

LEMMA InvInitialize ==
  ASSUME ControllerInv, NEW watchdog \in BOOLEAN, NEW ready \in BOOLEAN,
         Initialize(watchdog, ready)
  PROVE  ControllerInv'
<1> USE DEF ControllerInv
<1>1. /\ pc = "off" /\ pc' = "self_test"
      /\ window_open' = (build.commands /\ ~watchdog)
      /\ max_rate' = (build.auto /\ ~window_open')
      /\ uplink_closed' = (max_rate' \/ (build.commands /\ watchdog))
      /\ window_closed_ms' = 0 /\ operational' = ready
      /\ UNCHANGED <<now, build, imu_valid, baro_valid, imu_stale, baro_stale, calib,
                     calibration_applied, baseline_ready, baseline_on,
                     packet_number, last_command_pn, obeyed, was_armed>>
  BY DEF Initialize, Machine!BeginSelfTest, calibration, downlink
<1>2. /\ state' = "self_test" /\ entered_ms' = now
      /\ launch_condition_since_ms' = 0 /\ rest_condition_since_ms' = 0
      /\ descent_since_ms' = 0 /\ descent_observed' = FALSE
  BY DEF Initialize, Machine!BeginSelfTest, Machine!StartSelfTest, Machine!Enter
<1>3. /\ now = 0 /\ ~was_armed /\ obeyed = <<>> /\ ~window_open /\ ~calib.started
      /\ build \in Builds /\ build.commands \in BOOLEAN /\ build.auto \in BOOLEAN
  BY <1>1, Constants DEF Booting, Typed
<1>4. window_open' \in BOOLEAN /\ max_rate' \in BOOLEAN /\ uplink_closed' \in BOOLEAN
  BY <1>1, <1>3
<1>5. Typed'
  <2>1. Machine!TypeOK'
    BY <1>1, <1>2, <1>3 DEF Machine!TypeOK, Machine!States
  <2> QED
    BY <1>1, <1>4, <2>1 DEF Typed, Steps
<1>6. Booting'
  BY <1>1, <1>2, <1>3 DEF Booting
<1>7. ClosedWindow'
  <2>1. 0 < CommandWindow + MaxGap
    BY Constants
  <2> QED
    BY <1>1, <1>2, <1>3, <2>1 DEF ClosedWindow
<1>8. OpenWindow'
  <2>1. 0 < CommandWindow + MaxGap /\ 0 < CommandWindow
    BY Constants
  <2> QED
    BY <1>1, <1>3, <2>1 DEF OpenWindow
<1>9. Applied'
  BY <1>1, <1>3 DEF Applied, Settled
<1>10. CalibrationClock'
  <2>1. 0 <= 0 + MaxGap
    BY Constants
  <2>2. window_closed_ms = 0
    BY <1>3 DEF ClosedWindow, Typed
  <2> QED
    BY <1>1, <1>3, <2>1, <2>2 DEF CalibrationClock, Settled
<1>11. Obeyed' /\ LaunchTimer'
  BY <1>1, <1>2, <1>3 DEF Obeyed, LaunchTimer
<1> QED
  BY <1>5, <1>6, <1>7, <1>8, <1>9, <1>10, <1>11

LEMMA InvSelfTest ==
  ASSUME ControllerInv, SelfTest
  PROVE  ControllerInv'
<1> USE DEF ControllerInv
<1> DEFINE in == [self_test_ok |-> operational, armed |-> FALSE, thrust |-> FALSE,
                  motion |-> "moving", critical_fault |-> ~operational]
<1>1. /\ pc = "self_test" /\ pc' = "idle" /\ Machine!Update(0, in)
      /\ UNCHANGED <<now, build, operational, imu_valid, baro_valid, imu_stale,
                     baro_stale, calib, calibration_applied, baseline_ready,
                     baseline_on, window_open, window_closed_ms, uplink_closed,
                     max_rate, packet_number, last_command_pn, obeyed, was_armed>>
  BY DEF SelfTest, sensors, calibration, window, downlink
<1>2. ~in.armed
  OBVIOUS
<1> HIDE DEF in
<1>3. /\ state = "self_test" /\ now = 0 /\ ~was_armed /\ Machine!TypeOK
  BY <1>1 DEF Booting, Typed
<1>4. /\ state' \in Machine!States /\ entered_ms' \in Nat
      /\ launch_condition_since_ms' \in Nat /\ rest_condition_since_ms' \in Nat
      /\ descent_since_ms' \in Nat /\ descent_observed' \in BOOLEAN
      /\ state' \notin {"init", "self_test"} /\ state' # "flight"
      /\ launch_condition_since_ms' \in {0, launch_condition_since_ms}
  BY <1>1, <1>2, <1>3, MachineMoves, Zenon
<1>5. Typed'
  <2>1. Machine!TypeOK'
    BY <1>1, <1>3, <1>4 DEF Machine!TypeOK
  <2> QED
    BY <1>1, <2>1 DEF Typed, Steps
<1>6. Booting'
  BY <1>1, <1>4 DEF Booting
<1>7. ClosedWindow' /\ OpenWindow'
  BY <1>1, <1>3, <1>4 DEF ClosedWindow, OpenWindow
<1>8. Applied' /\ CalibrationClock'
  BY <1>1 DEF Applied, CalibrationClock, Settled, Booting
<1>9. Obeyed' /\ LaunchTimer'
  BY <1>1, <1>4 DEF Obeyed, LaunchTimer
<1> QED
  BY <1>5, <1>6, <1>7, <1>8, <1>9

LEMMA InvBeginPoll ==
  ASSUME ControllerInv, NEW gap \in 0 .. MaxGap, BeginPoll(gap)
  PROVE  ControllerInv'
<1> USE DEF ControllerInv
<1>1. /\ pc = "idle" /\ pc' = "sensors" /\ now' = now + gap
      /\ UNCHANGED <<state, entered_ms, launch_condition_since_ms,
                     rest_condition_since_ms, descent_since_ms, descent_observed,
                     build, operational, imu_valid, baro_valid, imu_stale,
                     baro_stale, calib, calibration_applied, baseline_ready,
                     baseline_on, window_open, window_closed_ms, uplink_closed,
                     max_rate, packet_number, last_command_pn, obeyed, was_armed>>
  BY DEF BeginPoll, machine, sensors, calibration, window, downlink
<1>2. /\ now \in Nat /\ now + gap \in Nat /\ now + gap >= now /\ gap <= MaxGap
      /\ window_closed_ms \in Nat /\ launch_condition_since_ms \in Nat /\ gap \in Nat
      /\ MaxGap \in Nat /\ CommandWindow \in Nat /\ CalibTimeout \in Nat
  BY Constants DEF Typed, Machine!TypeOK
<1>3. Typed'
  <2>1. Machine!TypeOK'
    BY <1>1, <1>2 DEF Typed, Machine!TypeOK
  <2> QED
    BY <1>1, <2>1 DEF Typed, Steps
<1>4. Booting' /\ Obeyed' /\ Applied'
  BY <1>1 DEF Booting, Obeyed, Applied, Settled
<1>5. ClosedWindow'
  <2>1. window_closed_ms <= now => window_closed_ms <= now + gap
    BY <1>2
  <2> QED
    BY <1>1, <2>1 DEF ClosedWindow
<1>6. OpenWindow'
  <2>1. now < CommandWindow => now + gap < CommandWindow + MaxGap
    BY <1>2
  <2> QED
    BY <1>1, <2>1 DEF OpenWindow
<1>7. CalibrationClock'
  <2>1. now = window_closed_ms => now + gap <= window_closed_ms + MaxGap
    BY <1>2
  <2> QED
    BY <1>1, <2>1 DEF CalibrationClock, Settled
<1>8. LaunchTimer'
  <2>1. launch_condition_since_ms <= now => launch_condition_since_ms <= now + gap
    BY <1>2
  <2> QED
    BY <1>1, <2>1 DEF LaunchTimer
<1> QED
  BY <1>3, <1>4, <1>5, <1>6, <1>7, <1>8

LEMMA InvAcquireSensors ==
  ASSUME ControllerInv,
         NEW imu \in Readings, NEW baro \in Readings,
         NEW imu_late \in BOOLEAN, NEW baro_late \in BOOLEAN,
         AcquireSensors(imu, imu_late, baro, baro_late)
  PROVE  ControllerInv'
<1> USE DEF ControllerInv
<1>1. /\ pc = "sensors" /\ pc' = "window"
      /\ calib' = WithSamples(calib, imu = "good", baro = "good")
      /\ UNCHANGED <<now, state, entered_ms, launch_condition_since_ms,
                     rest_condition_since_ms, descent_since_ms, descent_observed,
                     build, operational, calibration_applied, baseline_ready,
                     baseline_on, window_open, window_closed_ms, uplink_closed,
                     max_rate, packet_number, last_command_pn, obeyed, was_armed>>
  BY DEF AcquireSensors, machine, window, downlink
<1>2. /\ calib' \in Calibrations
      /\ calib'.started = calib.started /\ calib'.started_ms = calib.started_ms
      /\ calib'.verdict = calib.verdict
      /\ calib'.from_window => calib.from_window \/ window_open
  BY <1>1, SamplesAdded DEF Typed
<1>3. Typed'
  <2>1. /\ imu_valid' \in BOOLEAN /\ imu_stale' \in BOOLEAN
        /\ baro_valid' \in BOOLEAN /\ baro_stale' \in BOOLEAN
    BY DEF AcquireSensors
  <2>2. Machine!TypeOK'
    BY <1>1 DEF Typed, Machine!TypeOK
  <2> QED
    BY <1>1, <1>2, <2>1, <2>2 DEF Typed, Steps
<1>4. Booting' /\ ClosedWindow' /\ OpenWindow'
  BY <1>1 DEF Booting, ClosedWindow, OpenWindow
<1>5. Applied' /\ CalibrationClock'
  BY <1>1, <1>2 DEF Applied, CalibrationClock, Settled
<1>6. Obeyed' /\ LaunchTimer'
  BY <1>1 DEF Obeyed, LaunchTimer
<1> QED
  BY <1>3, <1>4, <1>5, <1>6

(* Steps that only pass on to the next. *)
LEMMA InvSkip ==
  ASSUME ControllerInv, SkipSensors \/ NoTelemetry
  PROVE  ControllerInv'
<1>1. /\ \/ pc = "sensors" /\ pc' = "window"
         \/ pc = "telemetry" /\ pc' = "idle"
      /\ UNCHANGED <<now, state, entered_ms, launch_condition_since_ms,
                     rest_condition_since_ms, descent_since_ms, descent_observed,
                     build, operational, imu_valid, baro_valid, imu_stale,
                     baro_stale, calib, calibration_applied, baseline_ready,
                     baseline_on, window_open, window_closed_ms, uplink_closed,
                     max_rate, packet_number, last_command_pn, obeyed, was_armed>>
  BY DEF SkipSensors, NoTelemetry, machine, sensors, calibration, window, downlink
<1>2. Typed'
  BY <1>1 DEF ControllerInv, Typed, Machine!TypeOK, Steps
<1> QED
  BY <1>1, <1>2 DEF ControllerInv, Booting, ClosedWindow, OpenWindow, Applied,
         CalibrationClock, Settled, Obeyed, LaunchTimer

(* Closing an open window, at either place where the code does. *)
LEMMA WindowCloses ==
  ASSUME ControllerInv, NEW rate \in BOOLEAN, CloseWindow(rate),
         window_open, now < CommandWindow + MaxGap, pc' \in {"calibrate", "idle"},
         UNCHANGED <<now, state, launch_condition_since_ms, build, was_armed>>
  PROVE  /\ window_open' = FALSE /\ window_closed_ms' \in Nat /\ uplink_closed' = TRUE
         /\ max_rate' \in BOOLEAN
         /\ calib' \in Calibrations /\ calibration_applied' = FALSE
         /\ ClosedWindow' /\ OpenWindow' /\ Applied' /\ CalibrationClock' /\ LaunchTimer'
<1> USE DEF ControllerInv
<1>1. /\ window_open' = FALSE /\ window_closed_ms' = now /\ uplink_closed' = TRUE
      /\ calib' = NewCalibrator /\ calibration_applied' = FALSE
      /\ max_rate' = (rate \/ build.auto)
  BY DEF CloseWindow
<1>2. /\ now \in Nat /\ now <= now + MaxGap /\ build.auto \in BOOLEAN
  BY Constants DEF Typed, Machine!TypeOK
<1>3. max_rate' \in BOOLEAN
  BY <1>1, <1>2
<1>4. ClosedWindow'
  <2>1. now <= now
    BY <1>2
  <2> QED
    BY <1>1, <2>1 DEF ClosedWindow
<1>5. OpenWindow'
  BY <1>1 DEF OpenWindow
<1>6. Applied' /\ CalibrationClock'
  BY <1>1, <1>2, NewIsEmpty DEF Applied, CalibrationClock, Settled
<1>7. LaunchTimer'
  BY DEF LaunchTimer
<1> QED
  BY <1>1, <1>2, <1>3, <1>4, <1>5, <1>6, <1>7, NewIsEmpty

LEMMA InvCheckWindow ==
  ASSUME ControllerInv, CheckWindow
  PROVE  ControllerInv'
<1> USE DEF ControllerInv
<1>1. /\ pc = "window" /\ pc' = "calibrate"
      /\ UNCHANGED <<now, state, entered_ms, launch_condition_since_ms,
                     rest_condition_since_ms, descent_since_ms, descent_observed,
                     build, operational, imu_valid, baro_valid, imu_stale,
                     baro_stale, baseline_ready, baseline_on,
                     packet_number, last_command_pn, obeyed, was_armed>>
  BY DEF CheckWindow, machine, sensors, downlink
<1>2. now \in Nat /\ CommandWindow \in Nat /\ MaxGap \in Nat
  BY Constants DEF Typed, Machine!TypeOK
<1>3. Machine!TypeOK' /\ Booting'
  BY <1>1 DEF Typed, Machine!TypeOK, Booting
<1>4. CASE window_open /\ now >= CommandWindow
  <2>1. CloseWindow(FALSE)
    BY <1>4 DEF CheckWindow
  <2>2. now < CommandWindow + MaxGap
    BY <1>4 DEF OpenWindow
  <2>3. /\ window_open' = FALSE /\ window_closed_ms' \in Nat /\ uplink_closed' = TRUE
        /\ max_rate' \in BOOLEAN
        /\ calib' \in Calibrations /\ calibration_applied' = FALSE
        /\ ClosedWindow' /\ OpenWindow' /\ Applied' /\ CalibrationClock' /\ LaunchTimer'
    BY <1>1, <1>4, <2>1, <2>2, WindowCloses
  <2>4. Typed'
    BY <1>1, <1>3, <2>3 DEF Typed, Steps
  <2>5. Obeyed'
    BY <1>1, <2>3 DEF Obeyed
  <2> QED
    BY <1>3, <2>3, <2>4, <2>5
<1>5. CASE ~(window_open /\ now >= CommandWindow)
  <2>1. UNCHANGED <<window_open, window_closed_ms, uplink_closed, max_rate, calib,
                    calibration_applied>>
    BY <1>5 DEF CheckWindow, window
  <2>2. window_open => now < CommandWindow
    BY <1>2, <1>5
  <2>3. Typed'
    BY <1>1, <1>3, <2>1 DEF Typed, Steps
  <2>4. OpenWindow' /\ ClosedWindow'
    BY <1>1, <2>1, <2>2 DEF OpenWindow, ClosedWindow
  <2>5. Applied' /\ CalibrationClock'
    BY <1>1, <2>1 DEF Applied, CalibrationClock, Settled
  <2>6. Obeyed' /\ LaunchTimer'
    BY <1>1, <2>1 DEF Obeyed, LaunchTimer
  <2> QED
    BY <1>3, <2>3, <2>4, <2>5, <2>6
<1> QED
  BY <1>4, <1>5

LEMMA InvRunCalibration ==
  ASSUME ControllerInv, NEW still \in BOOLEAN, RunCalibration(still)
  PROVE  ControllerInv'
<1> USE DEF ControllerInv
<1>1. /\ pc = "calibrate" /\ pc' = "machine"
      /\ UNCHANGED <<now, state, entered_ms, launch_condition_since_ms,
                     rest_condition_since_ms, descent_since_ms, descent_observed,
                     build, operational, imu_valid, baro_valid, imu_stale,
                     baro_stale, window_open, window_closed_ms, uplink_closed,
                     max_rate, packet_number, last_command_pn, obeyed, was_armed>>
  BY DEF RunCalibration, machine, sensors, window, downlink
<1>2. /\ now \in Nat /\ window_closed_ms \in Nat /\ MaxGap \in Nat
      /\ CalibTimeout \in Nat /\ calib \in Calibrations /\ calib.started_ms \in Nat
  BY Constants, CalibratorFields DEF Typed, Machine!TypeOK
<1>3. Machine!TypeOK' /\ Booting' /\ ClosedWindow' /\ OpenWindow' /\ Obeyed' /\ LaunchTimer'
  BY <1>1 DEF Typed, Machine!TypeOK, Booting, ClosedWindow, OpenWindow, Obeyed, LaunchTimer
<1>4. CASE calibration_applied
  <2>1. UNCHANGED <<calib, calibration_applied, baseline_ready, baseline_on>>
    BY <1>4 DEF RunCalibration, calibration
  <2>2. Typed'
    BY <1>1, <1>3, <2>1 DEF Typed, Steps
  <2>3. Applied' /\ CalibrationClock'
    BY <1>1, <1>4, <2>1 DEF Applied, CalibrationClock, Settled
  <2> QED
    BY <1>3, <2>2, <2>3
<1>5. CASE ~calibration_applied
  <2> DEFINE c == Judged(calib, still)
  <2>1. ~Settled(calib)
    BY <1>5 DEF Applied
  <2>2. /\ c \in Calibrations
        /\ c.from_window => calib.from_window
        /\ c.started
        /\ c.started_ms = IF calib.started THEN calib.started_ms ELSE now
        /\ ~Settled(c) => now - c.started_ms < CalibTimeout
    BY <1>2, <2>1, PassJudged
  <2>3. /\ calib' = c /\ calibration_applied' = Settled(c)
        /\ baseline_ready' \in {TRUE, baseline_ready}
        /\ baseline_on' \in {"window", "pad", baseline_on}
    BY <1>5 DEF RunCalibration
  <2> HIDE DEF c
  <2>4. /\ calibration_applied' \in BOOLEAN /\ baseline_ready' \in BOOLEAN
        /\ baseline_on' \in {"nowhere", "window", "pad"}
    BY <2>3 DEF Settled, Typed
  <2>5. Typed'
    BY <1>1, <1>3, <2>2, <2>3, <2>4 DEF Typed, Steps
  <2>6. Applied'
    BY <1>1, <2>2, <2>3 DEF Applied, Settled
  <2>7. CalibrationClock'
    <3>1. ~window_open => c.started_ms <= window_closed_ms + MaxGap
      BY <1>1, <2>1, <2>2 DEF CalibrationClock
    <3>2. ~Settled(c) => now < c.started_ms + CalibTimeout
      BY <1>2, <2>2
    <3>3. ~window_open' /\ ~Settled(c) =>
            /\ c.started_ms <= window_closed_ms' + MaxGap
            /\ now' < c.started_ms + CalibTimeout
      BY <1>1, <3>1, <3>2
    <3> QED
      BY <2>2, <2>3, <3>3 DEF CalibrationClock, Settled
  <2> QED
    BY <1>3, <2>5, <2>6, <2>7
<1> QED
  BY <1>4, <1>5

(* What feed_state_machine() makes of the machine, in terms of the loop. *)
LEMMA FeedMoves ==
  ASSUME ControllerInv, NEW thrust \in BOOLEAN, FeedStateMachine(thrust)
  PROVE  /\ pc = "machine" /\ pc' = "telemetry"
         /\ UNCHANGED <<now, build, operational, imu_valid, baro_valid, imu_stale,
                        baro_stale, calib, calibration_applied, baseline_ready,
                        baseline_on, window_open, window_closed_ms, uplink_closed,
                        max_rate, packet_number, last_command_pn, obeyed>>
         /\ was_armed' = (was_armed \/ IsArmed)
         /\ state' \in Machine!States /\ entered_ms' \in Nat
         /\ launch_condition_since_ms' \in Nat /\ rest_condition_since_ms' \in Nat
         /\ descent_since_ms' \in Nat /\ descent_observed' \in BOOLEAN
         /\ state # "init" => state' \notin {"init", "self_test"}
         /\ state' = "flight" /\ state # "flight" =>
              /\ state = "ready" /\ IsArmed
              /\ now - Machine!Timer(launch_condition_since_ms, TRUE, now) >= LaunchConfirm
         /\ \/ launch_condition_since_ms' \in {0, launch_condition_since_ms}
            \/ IsArmed /\ launch_condition_since_ms' = now
<1> DEFINE in == [self_test_ok |-> operational, armed |-> IsArmed,
                  thrust |-> thrust, motion |-> "moving",
                  critical_fault |-> ~operational \/ (imu_stale /\ baro_stale)]
<1>1. Machine!Update(now, in) /\ in.armed = IsArmed
  BY DEF FeedStateMachine
<1>2. Machine!TypeOK /\ now \in Nat
  BY DEF ControllerInv, Typed, Machine!TypeOK
<1> HIDE DEF in
<1>3. /\ state' \in Machine!States /\ entered_ms' \in Nat
      /\ launch_condition_since_ms' \in Nat /\ rest_condition_since_ms' \in Nat
      /\ descent_since_ms' \in Nat /\ descent_observed' \in BOOLEAN
      /\ state # "init" => state' \notin {"init", "self_test"}
      /\ state' = "flight" /\ state # "flight" =>
           /\ state = "ready" /\ in.armed
           /\ now - Machine!Timer(launch_condition_since_ms, TRUE, now) >= LaunchConfirm
      /\ \/ launch_condition_since_ms' \in {0, launch_condition_since_ms}
         \/ in.armed /\ launch_condition_since_ms' = now
  BY <1>1, <1>2, MachineMoves
<1>4. /\ pc = "machine" /\ pc' = "telemetry" /\ was_armed' = (was_armed \/ IsArmed)
      /\ UNCHANGED <<now, build, operational, imu_valid, baro_valid, imu_stale,
                     baro_stale, calib, calibration_applied, baseline_ready,
                     baseline_on, window_open, window_closed_ms, uplink_closed,
                     max_rate, packet_number, last_command_pn, obeyed>>
  BY DEF FeedStateMachine, sensors, calibration, window, downlink
<1> QED
  BY <1>1, <1>3, <1>4

LEMMA ArmedFacts ==
  ASSUME IsArmed
  PROVE  ~window_open /\ Settled(calib) /\ now >= window_closed_ms + ArmingDelay
BY DEF IsArmed

LEMMA InvFeedStateMachine ==
  ASSUME ControllerInv, NEW thrust \in BOOLEAN, FeedStateMachine(thrust)
  PROVE  ControllerInv'
<1> USE DEF ControllerInv
<1>1. /\ pc = "machine" /\ pc' = "telemetry"
      /\ UNCHANGED <<now, build, operational, imu_valid, baro_valid, imu_stale,
                     baro_stale, calib, calibration_applied, baseline_ready,
                     baseline_on, window_open, window_closed_ms, uplink_closed,
                     max_rate, packet_number, last_command_pn, obeyed>>
      /\ was_armed' = (was_armed \/ IsArmed)
  BY FeedMoves
<1>2. /\ state' \in Machine!States /\ entered_ms' \in Nat
      /\ launch_condition_since_ms' \in Nat /\ rest_condition_since_ms' \in Nat
      /\ descent_since_ms' \in Nat /\ descent_observed' \in BOOLEAN
      /\ state # "init" => state' \notin {"init", "self_test"}
  BY FeedMoves
<1>3. /\ state' = "flight" /\ state # "flight" => ~window_open
      /\ was_armed' /\ ~was_armed => ~window_open
      /\ \/ launch_condition_since_ms' \in {0, launch_condition_since_ms}
         \/ /\ launch_condition_since_ms' = now /\ ~window_open
            /\ now >= window_closed_ms + ArmingDelay
  BY <1>1, FeedMoves, ArmedFacts
<1>4. now \in Nat /\ now <= now /\ IsArmed \in BOOLEAN
  BY DEF Typed, Machine!TypeOK, IsArmed
<1>5. Typed'
  <2>1. Machine!TypeOK'
    BY <1>1, <1>2, <1>4 DEF Machine!TypeOK
  <2>2. was_armed' \in BOOLEAN
    BY <1>1, <1>4 DEF Typed
  <2> QED
    BY <1>1, <2>1, <2>2 DEF Typed, Steps
<1>6. Booting'
  BY <1>1, <1>2 DEF Booting
<1>7. ClosedWindow' /\ OpenWindow'
  BY <1>1, <1>3 DEF ClosedWindow, OpenWindow
<1>8. Applied' /\ CalibrationClock'
  BY <1>1 DEF Applied, CalibrationClock, Settled
<1>9. Obeyed'
  BY <1>1 DEF Obeyed
<1>10. LaunchTimer'
  BY <1>1, <1>3, <1>4 DEF LaunchTimer
<1> QED
  BY <1>5, <1>6, <1>7, <1>8, <1>9, <1>10

(* Only a packet obeys commands: none, or one fresh frame while it listens.*)
LEMMA EmitObeys ==
  ASSUME NEW heard \in SUBSET Frames, EmitTelemetry(heard)
  PROVE  /\ pc = "telemetry" /\ pc' = "idle" /\ packet_number < MaxPackets
         /\ packet_number' = packet_number + 1
         /\ UNCHANGED <<now, state, entered_ms, launch_condition_since_ms,
                        rest_condition_since_ms, descent_since_ms, descent_observed,
                        build, operational, imu_valid, baro_valid, imu_stale,
                        baro_stale, baseline_ready, baseline_on, was_armed>>
         /\ \/ UNCHANGED <<last_command_pn, obeyed, window_open, window_closed_ms,
                           uplink_closed, max_rate, calib, calibration_applied>>
            \/ \E frame \in Frames :
                 Listening /\ FreshFrame(frame, packet_number') /\ Obey(frame)
BY DEF EmitTelemetry, machine, sensors, Refuse, window

LEMMA InvObey ==
  ASSUME ControllerInv, NEW frame \in Frames, pc = "telemetry", pc' = "idle",
         packet_number < MaxPackets, packet_number' = packet_number + 1,
         UNCHANGED <<now, state, entered_ms, launch_condition_since_ms,
                     rest_condition_since_ms, descent_since_ms, descent_observed,
                     build, operational, imu_valid, baro_valid, imu_stale,
                     baro_stale, baseline_ready, baseline_on, was_armed>>,
         Listening, FreshFrame(frame, packet_number'), Obey(frame)
  PROVE  ControllerInv'
<1> USE DEF ControllerInv
<1>1. /\ last_command_pn' = frame.pn /\ obeyed' = Append(obeyed, frame)
      /\ obeyed \in Seq(Frames) /\ obeyed' \in Seq(Frames)
  BY DEF Obey, Typed
<1>2. /\ packet_number \in Nat /\ MaxPackets \in Nat
      /\ packet_number + 1 \in 0 .. MaxPackets /\ frame.pn \in Nat
      /\ last_command_pn \in Nat /\ last_command_pn < frame.pn
      /\ frame.pn <= packet_number + 1 /\ frame.pn <= MaxPackets
      /\ now \in Nat /\ CommandWindow \in Nat /\ MaxGap \in Nat
  BY Constants DEF Typed, Machine!TypeOK, Frames, FreshFrame
<1>3. frame.pn \in 0 .. MaxPackets
  BY <1>2
<1>4. Machine!TypeOK' /\ Booting'
  <2>1. pc' \notin {"off", "self_test"} /\ state \notin {"init", "self_test"}
    BY DEF Booting
  <2> QED
    BY <2>1 DEF Typed, Machine!TypeOK, Booting
<1>5. uplink_closed => uplink_closed'
  BY DEF Obey, CloseWindow
<1>6. frame.kind = "max_rate" => uplink_closed'
  BY DEF Obey, CloseWindow
<1>7. Obeyed'
  <2>1. ASSUME NEW i \in DOMAIN obeyed'
        PROVE  /\ obeyed'[i].pn <= frame.pn
               /\ obeyed'[i].kind = "max_rate" => uplink_closed'
    <3>1. CASE i \in DOMAIN obeyed
      <4>1. obeyed'[i] = obeyed[i] /\ obeyed[i] \in Frames
        BY <1>1, <3>1
      <4>2. /\ obeyed[i].pn <= last_command_pn /\ obeyed[i].pn \in Nat
            /\ obeyed[i].kind = "max_rate" => uplink_closed
        BY <3>1, <4>1 DEF Obeyed, Frames
      <4>3. obeyed[i].pn <= frame.pn
        BY <1>2, <4>2
      <4> QED
        BY <1>5, <4>1, <4>2, <4>3
    <3>2. CASE i \notin DOMAIN obeyed
      <4>1. obeyed'[i] = frame
        BY <1>1, <3>2
      <4> QED
        BY <1>2, <1>6, <4>1
    <3> QED
      BY <3>1, <3>2
  <2> QED
    BY <1>1, <2>1 DEF Obeyed
<1>8. CASE frame.kind = "max_rate" /\ window_open
  <2>1. CloseWindow(TRUE)
    BY <1>8 DEF Obey
  <2>2. now < CommandWindow + MaxGap
    BY <1>8 DEF OpenWindow
  <2>3. /\ window_open' = FALSE /\ window_closed_ms' \in Nat /\ uplink_closed' = TRUE
        /\ max_rate' \in BOOLEAN
        /\ calib' \in Calibrations /\ calibration_applied' = FALSE
        /\ ClosedWindow' /\ OpenWindow' /\ Applied' /\ CalibrationClock' /\ LaunchTimer'
    BY <1>8, <2>1, <2>2, WindowCloses
  <2>4. Typed'
    BY <1>1, <1>2, <1>3, <1>4, <2>3 DEF Typed, Steps
  <2> QED
    BY <1>4, <1>7, <2>3, <2>4
<1>9. CASE ~(frame.kind = "max_rate" /\ window_open)
  <2>1. /\ max_rate' = (max_rate \/ frame.kind = "max_rate")
        /\ uplink_closed' = (uplink_closed \/ frame.kind = "max_rate")
        /\ UNCHANGED <<window_open, window_closed_ms, calib, calibration_applied>>
    BY <1>9 DEF Obey
  <2>2. max_rate' \in BOOLEAN /\ uplink_closed' \in BOOLEAN
    BY <2>1 DEF Typed
  <2>3. Typed'
    BY <1>1, <1>2, <1>3, <1>4, <2>1, <2>2 DEF Typed, Steps
  <2>4. ClosedWindow' /\ OpenWindow' /\ LaunchTimer'
    BY <2>1 DEF ClosedWindow, OpenWindow, LaunchTimer
  <2>5. Applied' /\ CalibrationClock'
    BY <2>1 DEF Applied, CalibrationClock, Settled
  <2> QED
    BY <1>4, <1>7, <2>3, <2>4, <2>5
<1> QED
  BY <1>8, <1>9

LEMMA InvEmitTelemetry ==
  ASSUME ControllerInv, NEW heard \in SUBSET Frames, EmitTelemetry(heard)
  PROVE  ControllerInv'
<1>1. /\ pc = "telemetry" /\ pc' = "idle" /\ packet_number < MaxPackets
      /\ packet_number' = packet_number + 1
      /\ UNCHANGED <<now, state, entered_ms, launch_condition_since_ms,
                     rest_condition_since_ms, descent_since_ms, descent_observed,
                     build, operational, imu_valid, baro_valid, imu_stale,
                     baro_stale, baseline_ready, baseline_on, was_armed>>
  BY EmitObeys
<1>2. CASE UNCHANGED <<last_command_pn, obeyed, window_open, window_closed_ms,
                       uplink_closed, max_rate, calib, calibration_applied>>
  <2>1. packet_number + 1 \in 0 .. MaxPackets
    BY <1>1, Constants DEF ControllerInv, Typed
  <2>2. Typed'
    BY <1>1, <1>2, <2>1 DEF ControllerInv, Typed, Machine!TypeOK, Steps
  <2> QED
    BY <1>1, <1>2, <2>2 DEF ControllerInv, Booting, ClosedWindow, OpenWindow, Applied,
           CalibrationClock, Settled, Obeyed, LaunchTimer
<1>3. ASSUME NEW frame \in Frames,
             Listening, FreshFrame(frame, packet_number'), Obey(frame)
      PROVE  ControllerInv'
  BY <1>1, <1>3, InvObey
<1> QED
  BY <1>2, <1>3, EmitObeys

LEMMA InvNext ==
  ASSUME ControllerInv, [Next]_vars
  PROVE  ControllerInv'
<1>1. ASSUME NEW watchdog \in BOOLEAN, NEW ready \in BOOLEAN,
             Initialize(watchdog, ready)
      PROVE  ControllerInv'
  BY <1>1, InvInitialize
<1>2. CASE SelfTest
  BY <1>2, InvSelfTest
<1>3. ASSUME NEW gap \in 0 .. MaxGap, BeginPoll(gap)
      PROVE  ControllerInv'
  BY <1>3, InvBeginPoll
<1>4. ASSUME NEW imu \in Readings, NEW baro \in BaroReadings,
             NEW imu_late \in BOOLEAN, NEW baro_late \in BOOLEAN,
             AcquireSensors(imu, imu_late, baro, baro_late)
      PROVE  ControllerInv'
  <2>1. baro \in Readings
    BY DEF BaroReadings, Readings
  <2> QED
    BY <1>4, <2>1, InvAcquireSensors
<1>5. CASE SkipSensors \/ NoTelemetry
  BY <1>5, InvSkip
<1>6. CASE CheckWindow
  BY <1>6, InvCheckWindow
<1>7. ASSUME NEW still \in BOOLEAN, RunCalibration(still)
      PROVE  ControllerInv'
  BY <1>7, InvRunCalibration
<1>8. ASSUME NEW thrust \in BOOLEAN, FeedStateMachine(thrust)
      PROVE  ControllerInv'
  BY <1>8, InvFeedStateMachine
<1>9. CASE EmitTelemetry({}) \/ \E frame \in Frames : EmitTelemetry({frame})
  <2>1. PICK heard \in SUBSET Frames : EmitTelemetry(heard)
    BY <1>9
  <2> QED
    BY <2>1, InvEmitTelemetry
<1>10. CASE UNCHANGED vars
  <2>1. UNCHANGED <<now, state, entered_ms, launch_condition_since_ms,
                    rest_condition_since_ms, descent_since_ms, descent_observed,
                    pc, build, operational, imu_valid, baro_valid, imu_stale,
                    baro_stale, calib, calibration_applied, baseline_ready,
                    baseline_on, window_open, window_closed_ms, uplink_closed,
                    max_rate, packet_number, last_command_pn, obeyed, was_armed>>
    BY <1>10 DEF vars, machine, sensors, calibration, window, downlink
  <2>2. Typed'
    BY <2>1 DEF ControllerInv, Typed, Machine!TypeOK
  <2> QED
    BY <2>1, <2>2 DEF ControllerInv, Booting, ClosedWindow, OpenWindow, Applied,
           CalibrationClock, Settled, Obeyed, LaunchTimer
<1> QED
  BY <1>1, <1>2, <1>3, <1>4, <1>5, <1>6, <1>7, <1>8, <1>9, <1>10 DEF Next

LEMMA Invariance == Spec => []ControllerInv
<1>1. Init => ControllerInv
  BY InvInit
<1>2. ControllerInv /\ [Next]_vars => ControllerInv'
  BY InvNext
<1> QED
  BY <1>1, <1>2, PTL DEF Spec

-----------------------------------------------------------------------------
(* The loop's variables keep their types: no timer runs backwards, no      *)
(* number outgrows its bound.                                              *)
THEOREM LoopTyped == Spec => []TypeOK
<1>1. ControllerInv => TypeOK
  BY DEF ControllerInv, Typed, TypeOK, Calibrations, Steps
<1> QED
  BY <1>1, Invariance, PTL

(* Whatever the window, the samples and the commands do, the vehicle arms  *)
(* on a calibration that was applied and holds no sample of the window     *)
(* (is_armed, close_command_window, run_calibration).                      *)
THEOREM ArmsOnNewCalibration == Spec => []ArmedOnNewCalibration
<1>1. ControllerInv => ArmedOnNewCalibration
  BY ArmedFacts DEF ControllerInv, Applied, ArmedOnNewCalibration
<1> QED
  BY <1>1, Invariance, PTL

(* A build that engages the max rate by itself flies at it, from every way *)
(* into FLIGHT (initialize, close_command_window).                         *)
THEOREM FliesAtMaxRate == Spec => []FlightAtMaxRate
<1>1. ControllerInv => FlightAtMaxRate
  BY DEF ControllerInv, Booting, ClosedWindow, FlightAtMaxRate
<1> QED
  BY <1>1, Invariance, PTL

(* With its mandatory sensors valid the vehicle is armed in a time that    *)
(* depends on the configuration alone, however it is moved on the pad.     *)
THEOREM ArmingInTime == Spec => []ArmsInTime
<1>1. ASSUME ControllerInv, pc = "machine", operational, imu_valid, baro_valid,
             now >= CommandWindow + MaxGap
                      + (IF ArmingDelay > CalibTimeout + MaxGap
                         THEN ArmingDelay ELSE CalibTimeout + MaxGap)
      PROVE  IsArmed
  <2>1. /\ now \in Nat /\ window_closed_ms \in Nat /\ calib.started_ms \in Nat
        /\ CommandWindow \in Nat /\ MaxGap \in Nat /\ ArmingDelay \in Nat
        /\ CalibTimeout \in Nat
    BY <1>1, Constants, CalibratorFields DEF ControllerInv, Typed, Machine!TypeOK
  <2>2. ~window_open
    <3>1. now >= CommandWindow
      BY <1>1, <2>1
    <3> QED
      BY <1>1, <2>1, <3>1 DEF ControllerInv, OpenWindow
  <2>3. window_closed_ms < CommandWindow + MaxGap
    BY <1>1 DEF ControllerInv, ClosedWindow
  <2>4. now >= window_closed_ms + ArmingDelay
    BY <1>1, <2>1, <2>3
  <2>5. Settled(calib)
    <3> SUFFICES ASSUME ~Settled(calib) PROVE FALSE
      OBVIOUS
    <3>1. /\ calib.started_ms <= window_closed_ms + MaxGap
          /\ now < calib.started_ms + CalibTimeout
      BY <1>1, <2>2 DEF ControllerInv, CalibrationClock
    <3> QED
      BY <1>1, <2>1, <2>3, <3>1
  <2> QED
    BY <1>1, <2>2, <2>4, <2>5 DEF IsArmed
<1>2. ControllerInv => ArmsInTime
  BY <1>1 DEF ArmsInTime
<1> QED
  BY <1>2, Invariance, PTL

(* What any step does to the commands obeyed.                              *)
LEMMA CommandStep ==
  ASSUME ControllerInv, [Next]_vars, obeyed' # obeyed
  PROVE  \E frame \in Frames :
           /\ Listening /\ FreshFrame(frame, packet_number')
           /\ obeyed' = Append(obeyed, frame)
<1>1. \E heard \in SUBSET Frames : EmitTelemetry(heard)
  <2>1. CASE EmitTelemetry({}) \/ \E frame \in Frames : EmitTelemetry({frame})
    BY <2>1
  <2>2. CASE UNCHANGED obeyed
    BY <2>2
  <2> QED
    BY <2>1, <2>2 DEF Next, vars, downlink, Initialize, SelfTest, BeginPoll,
           AcquireSensors, SkipSensors, CheckWindow, RunCalibration,
           FeedStateMachine, NoTelemetry
<1> QED
  BY <1>1, EmitObeys DEF Obey

(* Once armed, once out of READY or after MAX_RATE, no ground command is   *)
(* obeyed for the rest of the power cycle (service_ground_commands).       *)
THEOREM CommandsEndWithArming == Spec => NoCommandOnceArmed
<1>1. ASSUME ControllerInv, [Next]_vars, obeyed' # obeyed
      PROVE  /\ ~was_armed /\ state = "ready"
             /\ \A i \in DOMAIN obeyed : obeyed[i].kind # "max_rate"
  <2>1. ~uplink_closed /\ build.commands /\ state = "ready"
    BY <1>1, CommandStep DEF Listening
  <2>2. pc # "off"
    BY <1>1, <2>1 DEF ControllerInv, Booting
  <2>3. ~was_armed
    BY <1>1, <2>1, <2>2 DEF ControllerInv, ClosedWindow
  <2>4. \A i \in DOMAIN obeyed : obeyed[i].kind # "max_rate"
    BY <1>1, <2>1 DEF ControllerInv, Obeyed
  <2> QED
    BY <2>1, <2>3, <2>4
<1> QED
  BY <1>1, Invariance, PTL DEF Spec, NoCommandOnceArmed

(* Every command obeyed names a later packet than each obeyed before it,   *)
(* so that no frame is obeyed twice, and one that was sent and is within   *)
(* the replay window (service_ground_commands).                            *)
THEOREM CommandsInOrder == Spec => CommandsOnceInOrder
<1>1. ASSUME ControllerInv, [Next]_vars, NEW i \in DOMAIN obeyed' \ DOMAIN obeyed
      PROVE  /\ \A j \in DOMAIN obeyed : obeyed[j].pn < obeyed'[i].pn
             /\ obeyed'[i].pn \in 1 .. packet_number'
             /\ packet_number' - obeyed'[i].pn <= ReplayWindow
  <2>1. PICK frame \in Frames :
          /\ FreshFrame(frame, packet_number') /\ obeyed' = Append(obeyed, frame)
    BY <1>1, CommandStep
  <2>2. obeyed \in Seq(Frames)
    BY <1>1 DEF ControllerInv, Typed
  <2>3. obeyed'[i] = frame
    BY <1>1, <2>1, <2>2
  <2>4. /\ frame.pn > last_command_pn /\ frame.pn <= packet_number'
        /\ packet_number' - frame.pn <= ReplayWindow
    BY <2>1 DEF FreshFrame
  <2>5. last_command_pn \in Nat /\ packet_number' \in Nat /\ frame.pn \in Nat
    <3>1. ControllerInv'
      BY <1>1, InvNext
    <3> QED
      BY <1>1, <2>1, <3>1, Constants DEF ControllerInv, Typed, Frames
  <2>6. ASSUME NEW j \in DOMAIN obeyed
        PROVE  obeyed[j].pn < frame.pn
    <3>1. obeyed[j] \in Frames
      BY <2>2
    <3>2. obeyed[j].pn <= last_command_pn /\ obeyed[j].pn \in Nat
      BY <1>1, <3>1 DEF ControllerInv, Obeyed, Frames
    <3> QED
      BY <2>4, <2>5, <3>2
  <2>7. frame.pn \in 1 .. packet_number'
    BY <2>4, <2>5
  <2> QED
    BY <2>3, <2>4, <2>6, <2>7
<1>2. ControllerInv /\ [Next]_vars =>
        \A i \in DOMAIN obeyed' \ DOMAIN obeyed :
          /\ \A j \in DOMAIN obeyed : obeyed[j].pn < obeyed'[i].pn
          /\ obeyed'[i].pn \in 1 .. packet_number'
          /\ packet_number' - obeyed'[i].pn <= ReplayWindow
  BY <1>1
<1> QED
  BY <1>2, Invariance, PTL DEF Spec, CommandsOnceInOrder

(* FLIGHT is entered with the window closed, no sooner after it than the   *)
(* arming delay and the launch confirmation (is_armed, state_machine.cpp). *)
THEOREM LaunchesAfterWindow == Spec => LaunchAfterWindow
<1>1. ASSUME ControllerInv, [Next]_vars, state # "flight", state' = "flight"
      PROVE  ~window_open /\ now >= window_closed_ms + ArmingDelay + LaunchConfirm
  <2>1. PICK thrust \in BOOLEAN : FeedStateMachine(thrust)
    <3>1. CASE UNCHANGED state
      BY <1>1, <3>1
    <3>2. ASSUME NEW watchdog \in BOOLEAN, NEW ready \in BOOLEAN,
                 Initialize(watchdog, ready)
          PROVE  FALSE
      BY <1>1, <3>2 DEF Initialize, Machine!BeginSelfTest, Machine!StartSelfTest,
             Machine!Enter
    <3>3. CASE SelfTest
      <4>1. state = "self_test" /\ Machine!TypeOK
        BY <1>1, <3>3 DEF ControllerInv, Booting, SelfTest, Typed
      <4>2. PICK in : Machine!Update(0, in)
        BY <3>3 DEF SelfTest
      <4>3. state = "ready"
        BY <1>1, <4>1, <4>2, MachineMoves
      <4> QED
        BY <4>1, <4>3
    <3> QED
      BY <1>1, <3>1, <3>2, <3>3 DEF Next, vars, machine, BeginPoll, AcquireSensors,
             SkipSensors, CheckWindow, RunCalibration, NoTelemetry, EmitTelemetry
  <2>2. /\ IsArmed
        /\ now - Machine!Timer(launch_condition_since_ms, TRUE, now) >= LaunchConfirm
    BY <1>1, <2>1, FeedMoves
  <2>3. /\ now \in Nat /\ launch_condition_since_ms \in Nat /\ window_closed_ms \in Nat
        /\ ArmingDelay \in Nat /\ LaunchConfirm \in Nat
    BY <1>1, Constants DEF ControllerInv, Typed, Machine!TypeOK
  <2>4. /\ ~window_open /\ now >= window_closed_ms + ArmingDelay
        /\ launch_condition_since_ms # 0 =>
             launch_condition_since_ms >= window_closed_ms + ArmingDelay
    BY <1>1, <2>2, ArmedFacts DEF ControllerInv, LaunchTimer
  <2>5. CASE launch_condition_since_ms = 0
    BY <2>2, <2>3, <2>4, <2>5 DEF Machine!Timer
  <2>6. CASE launch_condition_since_ms # 0
    BY <2>2, <2>3, <2>4, <2>6 DEF Machine!Timer
  <2> QED
    BY <2>5, <2>6
<1> QED
  BY <1>1, Invariance, PTL DEF Spec, LaunchAfterWindow
=============================================================================
