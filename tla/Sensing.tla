------------------------------ MODULE Sensing ------------------------------
(***************************************************************************)
(* The mandatory sensing of the flight loop, from the registers of its two *)
(* sensors to the mission state machine: what the drivers answer           *)
(* (mpu9250.cpp, bmp280.cpp), the IMU and barometer half of                *)
(* acquire_sensors(), the barometric baseline of run_calibration() and     *)
(* feed_state_machine() (controller.cpp).                                  *)
(*                                                                         *)
(* One step is one poll in which the sensor task is due; a tick is its     *)
(* period.  The vehicle stands on the pad until it is armed, is lifted,    *)
(* hovers, falls under its parachute and lies on the ground.  Heights are  *)
(* in units of altitude, rates in tenths of a unit per tick: the filter of *)
(* the code, 0.7 of the old and 0.3 of the new, is rounded towards 0.      *)
(*                                                                         *)
(* Abstracted: the pressure, told by the altitude it stands for; the       *)
(* samples of the calibration, whose ground altitude is the site's, and    *)
(* the command window (module Controller); the acceleration, which is 1 g  *)
(* or rough; the attitude (module Heading).                                *)
(***************************************************************************)
EXTENDS Integers, SensorDrivers

CONSTANTS
  LaunchConfirm, MinFlight, DescentConfirm, RestConfirm, PostImpact,
  MaxGap, MaxTime,
  SensorStale,     (* sensor_stale_after_ms                                *)
  RateHold,        (* altitude_rate_hold_ms                                *)
  ArmingDelay,     (* arming_delay_ms                                      *)
  LaunchGain,      (* launch_altitude_gain_m                               *)
  FallingRate,     (* landing_descent_rate_mps, tenths per tick            *)
  StillRate,       (* landing_altitude_rate_max_mps, tenths per tick       *)
  Site,            (* the altitude of the pad                              *)
  PadTime,         (* bound on the ticks the vehicle stands on the pad     *)
  Ceiling,         (* where the lift ends                                  *)
  Speed,           (* of the lift and of the fall, units per tick          *)
  SettleTime,      (* ticks in which the rate of a fall decays             *)
  FallTime,        (* passes in which a fall shows in the rate             *)
  DropTime,        (* bound on the time of the drop                        *)
  MaxMisses        (* bound on the passes with a reading that is not good  *)

(* What is left of the rate, at most, n times after the filter has taken   *)
(* 0.7 of it, when readings on the ground differ by their last bit.        *)
Fade[n \in Nat] == IF n = 0 THEN 10 * (Speed + Site + 1)
                   ELSE (7 * Fade[n - 1] + 30) \div 10

(* validate_config demands the two rates apart.  The last bit of the       *)
(* barometer is no launch, the fall under the parachute is not still, and  *)
(* SettleTime is enough for any rate to fade, at each unchanged pressure   *)
(* held for RateHold, to one that is.  FallTime passes of a fall are       *)
(* enough for a climb to fade from it: what the rate is above the fall's   *)
(* is at first at most twice Fade[0], and fades as it does.                *)
ASSUME SensingAssumption ==
  /\ {SensorStale, RateHold, ArmingDelay, LaunchGain, FallingRate, StillRate,
      Site, PadTime, DropTime, Ceiling, MaxMisses, FallTime} \subseteq Nat
  /\ {Speed, SettleTime} \subseteq Nat \ {0}
  /\ FallingRate > StillRate
  /\ LaunchGain > 0
  /\ StillRate <= 10 * Speed
  /\ Fade[(SettleTime - 1) \div (RateHold + 1)] < StillRate
  /\ 2 * Fade[FallTime] + FallingRate < 10 * Speed

VARIABLES
  now, state, entered_ms, launch_condition_since_ms, rest_condition_since_ms,
  descent_since_ms, descent_observed,   (* StateMachine                    *)
  imu_ok, baro_ok,         (* did the drivers' begin() succeed?            *)
  imu_valid, baro_valid,   (* snapshot_                                    *)
  accel_rough,             (* snapshot_: is the acceleration not about 1g? *)
  last_good_imu_ms, last_good_baro_ms,
  faults,                  (* the active ones among Codes                  *)
  last_altitude_ms, last_altitude_agl_m,
  last_reading,            (* last_baro_pressure_pa_                       *)
  altitude_rate,           (* altitude_rate_mps_                           *)
  settled,                 (* calibrator_.settled()                        *)
  baseline_ready,          (* did it settle with a baseline?               *)
  phase, height,           (* where the vehicle is                         *)
  misses,                  (* passes with a reading that was not good      *)
  fallen,                  (* history: passes of the fall in FLIGHT, one   *)
                           (* after the other, with a good pressure        *)
  quiet,                   (* history: passes on the ground, one after the *)
                           (* other, with both readings good               *)
  level                    (* history: was FLIGHT declared on an altitude  *)
                           (* of the reference in use, the rate no fall's? *)

Machine == INSTANCE StateMachine

ASSUME SensingMission == Machine!MissionAssumption

machine == <<state, entered_ms, launch_condition_since_ms,
             rest_condition_since_ms, descent_since_ms, descent_observed>>
imu == <<imu_valid, accel_rough, last_good_imu_ms>>
baro == <<baro_valid, last_good_baro_ms>>
altitude == <<last_altitude_ms, last_altitude_agl_m, last_reading, altitude_rate>>
calibration == <<settled, baseline_ready>>
vehicle == <<phase, height>>
drivers == <<imu_ok, baro_ok>>
vars == <<now, machine, drivers, imu, baro, faults, altitude, calibration, vehicle,
          misses, fallen, quiet, level>>

Codes == {"imu_stale", "baro_stale", "sensor_implausible"}
Places == {"pad", "lift", "hover", "fall", "ground"}

Abs(n) == IF n < 0 THEN -n ELSE n
Quotient(n, d) == IF n < 0 THEN -((-n) \div d) ELSE n \div d

-----------------------------------------------------------------------------
(* The vehicle.  It is lifted once it shows itself armed. *)

Armed == imu_valid /\ baro_valid /\ settled /\ now >= ArmingDelay

Move ==
  \/ phase = "pad" /\ now' <= PadTime /\ UNCHANGED vehicle
  \/ phase \in {"hover", "ground"} /\ UNCHANGED vehicle
  \/ /\ phase = "pad" /\ Armed
     /\ phase' = "lift" /\ UNCHANGED height
  \/ /\ phase = "lift"
     /\ height' = IF height + Speed < Ceiling THEN height + Speed ELSE Ceiling
     /\ phase' = IF height' = Ceiling THEN "hover" ELSE "lift"
  \/ /\ phase = "fall" \/ (phase = "hover" /\ now' <= DropTime)
     /\ height' = IF height > Speed THEN height - Speed ELSE 0
     /\ phase' = IF height' = 0 THEN "ground" ELSE "fall"

-----------------------------------------------------------------------------
(* acquire_sensors() *)

Late(last_good) == now' - last_good > SensorStale

ImuKeptWhenImplausible(outcome) ==   \* mutant: it coasts on the old sample
  /\ last_good_imu_ms' = IF outcome = "good" THEN now' ELSE last_good_imu_ms
  /\ imu_valid' = (outcome # "missed" \/ imu_valid)

(* The IMU: an implausible sample drops the prior value at once, a missing *)
(* one when it gets stale.                                                 *)
AcquireImu(outcome) ==
  /\ last_good_imu_ms' = IF outcome = "good" THEN now' ELSE last_good_imu_ms
  /\ imu_valid' = (outcome = "good" \/ (/\ outcome = "missed" /\ imu_valid
                                        /\ ~Late(last_good_imu_ms)))

BaroDeadline(outcome) ==   \* mutant: the deadline is kept in place of the time
  /\ last_good_baro_ms' = IF outcome = "good" THEN now' + SensorStale ELSE last_good_baro_ms
  /\ baro_valid' = (outcome = "good" \/ (/\ outcome = "missed" /\ baro_valid
                                         /\ now' <= last_good_baro_ms))

AcquireBaro(outcome) ==
  /\ last_good_baro_ms' = IF outcome = "good" THEN now' ELSE last_good_baro_ms
  /\ baro_valid' = (outcome = "good" \/ (/\ outcome = "missed" /\ baro_valid
                                         /\ ~Late(last_good_baro_ms)))

(* A stale sensor's fault is held from when it is late to its next sample. *)
StaleFaults(imu_outcome, baro_outcome) ==
  {c \in {"imu_stale", "baro_stale"} :
     LET outcome == IF c = "imu_stale" THEN imu_outcome ELSE baro_outcome
         last_good == IF c = "imu_stale" THEN last_good_imu_ms ELSE last_good_baro_ms
     IN outcome # "good" /\ (Late(last_good) \/ c \in faults)}

(* sensor_implausible goes with the first pass that has no such reading,   *)
(* even one that has no reading at all.                                    *)
RaiseFaults(imu_outcome, baro_outcome) ==
  faults' = StaleFaults(imu_outcome, baro_outcome)
            \cup (IF "implausible" \in {imu_outcome, baro_outcome}
                  THEN {"sensor_implausible"} ELSE {})

(* Altitude above the baseline once there is one (baseline_ready is as it  *)
(* was before this poll's run_calibration()), above the sea otherwise.     *)
Agl(reading) == IF baseline_ready THEN reading - Site ELSE reading

RateWithoutSettling(reading) ==   \* mutant: an unchanged pressure holds the rate
  LET dt == now' - last_altitude_ms
  IN IF last_altitude_ms # 0 /\ reading # last_reading
     THEN Quotient(7 * altitude_rate * dt + 30 * (Agl(reading) - last_altitude_agl_m), 10 * dt)
     ELSE altitude_rate

(* Is the altitude in use one of the reference in use? *)
OnReference == last_altitude_agl_m = Agl(last_reading)

(* The vertical rate: moved by a changed pressure, held over an unchanged  *)
(* one for RateHold, and led to zero after that.                           *)
Rate(reading) ==
  LET dt == now' - last_altitude_ms
  IN IF last_altitude_ms = 0 THEN altitude_rate
     ELSE IF reading # last_reading
     THEN Quotient(7 * altitude_rate * dt + 30 * (Agl(reading) - last_altitude_agl_m), 10 * dt)
     ELSE IF dt > RateHold THEN Quotient(7 * altitude_rate, 10)
     ELSE altitude_rate

UpdateAltitude(outcome, reading) ==
  IF outcome # "good" THEN UNCHANGED altitude
  ELSE /\ altitude_rate' = Rate(reading)
       /\ IF last_altitude_ms = 0 \/ reading # last_reading
          THEN /\ last_altitude_agl_m' = Agl(reading)
               /\ last_altitude_ms' = now'
               /\ last_reading' = reading
          ELSE UNCHANGED <<last_altitude_ms, last_altitude_agl_m, last_reading>>

-----------------------------------------------------------------------------
(* feed_state_machine(), with is_armed() of this poll; what it reads of a  *)
(* sensor that fails is the last value there was.                          *)

MotionUnsigned ==   \* mutant: a climb counts as a fall
  IF Abs(altitude_rate') > FallingRate THEN "falling"
  ELSE IF ~accel_rough' /\ Abs(altitude_rate') < StillRate THEN "still"
  ELSE "moving"

Motion ==
  IF altitude_rate' < -FallingRate THEN "falling"
  ELSE IF ~accel_rough' /\ Abs(altitude_rate') < StillRate THEN "still"
  ELSE "moving"

FeedStateMachine ==
  Machine!Update(now',
    [self_test_ok |-> TRUE,
     armed |-> imu_valid' /\ baro_valid' /\ settled' /\ now' >= ArmingDelay,
     thrust |-> last_altitude_agl_m' > LaunchGain,
     motion |-> Motion,
     critical_fault |-> {"imu_stale", "baro_stale"} \subseteq faults'])

-----------------------------------------------------------------------------
(* After initialize() and the poll at time 0: without both sensors the     *)
(* machine starts in FAULT, for ever.                                      *)
Init ==
  /\ now = 0
  /\ \E part \in Parts, answered \in 0 .. ImuAccesses + MagAccesses :
       imu_ok = ImuBegins(part, answered)
  /\ \E answered \in 0 .. BaroAccesses : baro_ok = BaroBegins(answered)
  /\ state = (IF imu_ok /\ baro_ok THEN "ready" ELSE "fault") /\ entered_ms = 0
  /\ launch_condition_since_ms = 0 /\ rest_condition_since_ms = 0
  /\ descent_since_ms = 0 /\ descent_observed = FALSE
  /\ imu_valid \in {FALSE, imu_ok} /\ baro_valid \in {FALSE, baro_ok}
  /\ accel_rough = FALSE
  /\ last_good_imu_ms = 0 /\ last_good_baro_ms = 0
  /\ faults = {}
  /\ last_altitude_ms = 0 /\ last_altitude_agl_m = 0 /\ last_reading = 0
  /\ altitude_rate = 0
  /\ settled = FALSE /\ baseline_ready = FALSE
  /\ phase = "pad" /\ height = 0
  /\ misses = 0 /\ fallen = 0 /\ quiet = 0 /\ level = FALSE

(* The calibration settles when it likes, at the latest at its timeout,    *)
(* without a baseline when its accumulators hold no barometer sample: it   *)
(* had none, or an unsteady set of IMU samples has just cleared them.      *)
RunCalibration ==
  \/ UNCHANGED calibration
  \/ /\ ~settled /\ settled' = TRUE
     /\ baseline_ready' \in {FALSE, last_altitude_ms' # 0}

(* Has the fall been shown to the flight for long enough?  Two passes may  *)
(* go by until the altitude is one of the pass before, FallTime until the  *)
(* rate is a fall's, and DescentConfirm until it is confirmed.             *)
FallSeen == fallen >= FallTime + DescentConfirm + 2

(* poll(): noise is the last bit of the barometer, told apart where the    *)
(* vehicle lies; the acceleration may be rough in the pass of its impact.  *)
Poll(imu_outcome, baro_outcome, noise, rough) ==
  /\ now < MaxTime
  /\ now' = now + 1
  /\ Move
  /\ misses' = misses + (IF \/ imu_ok /\ imu_outcome # "good"
                            \/ baro_ok /\ baro_outcome # "good" THEN 1 ELSE 0)
  /\ misses' <= MaxMisses
  /\ rough => phase' = "ground" /\ phase = "fall"
  /\ noise = 0 \/ phase \in {"pad", "ground"}
  /\ AcquireImu(imu_outcome)
  /\ accel_rough' = IF imu_outcome = "good" THEN rough ELSE accel_rough
  /\ AcquireBaro(baro_outcome)
  /\ RaiseFaults(imu_outcome, baro_outcome)
  /\ UpdateAltitude(baro_outcome, Site + height' + noise)
  /\ RunCalibration
  /\ FeedStateMachine
  /\ UNCHANGED drivers
  /\ fallen' = IF ~(state = "flight" /\ state' = "flight") THEN 0
               ELSE IF FallSeen THEN fallen
               ELSE IF phase' = "fall" /\ baro_outcome = "good" THEN fallen + 1
               ELSE 0
  /\ quiet' = IF phase = "ground" /\ {imu_outcome, baro_outcome} = {"good"}
              THEN quiet + 1 ELSE 0
  /\ level' = IF state = "ready" /\ state' = "flight"
              THEN OnReference' /\ altitude_rate' >= -FallingRate ELSE level

Next ==
  \E imu_outcome \in OutcomesOf(imu_ok), baro_outcome \in OutcomesOf(baro_ok),
     noise \in {0, 1}, rough \in BOOLEAN :
    Poll(imu_outcome, baro_outcome, noise, rough)

Spec == Init /\ [][Next]_vars

-----------------------------------------------------------------------------
(* Properties. *)

TypeOK ==
  /\ Machine!TypeOK
  /\ {imu_ok, baro_ok, imu_valid, baro_valid, accel_rough, settled,
      baseline_ready} \subseteq BOOLEAN
  /\ last_good_imu_ms \in 0 .. now /\ last_good_baro_ms \in 0 .. now
  /\ last_altitude_ms \in 0 .. now
  /\ faults \subseteq Codes
  /\ last_altitude_agl_m \in Int /\ last_reading \in Nat /\ altitude_rate \in Int
  /\ phase \in Places /\ height \in 0 .. Ceiling
  /\ misses \in 0 .. MaxMisses /\ fallen \in Nat /\ quiet \in Nat /\ level \in BOOLEAN

(* What the packets call valid was measured within sensor_stale_after_ms,  *)
(* and the mission ends in FAULT when, and only when, both mandatory       *)
(* sensors have been without a good sample for longer than that, however   *)
(* their outages overlap: "anything the vehicle can still partially do     *)
(* keeps the mission running" (controller.cpp).                            *)
Blind == now - last_good_imu_ms > SensorStale /\ now - last_good_baro_ms > SensorStale

SensingHonest ==
  [][/\ imu_valid' => now' - last_good_imu_ms' <= SensorStale
     /\ baro_valid' => now' - last_good_baro_ms' <= SensorStale
     /\ Blind' => state' = "fault"
     /\ state # "fault" /\ state' = "fault" => Blind']_vars

(* A vehicle that stands on the pad with a baseline never declares FLIGHT, *)
(* at any altitude of the site, unless the barometer gave nothing new for  *)
(* as long as a launch takes to confirm: the altitude in use when the      *)
(* baseline is taken is still the one above the sea, until the next        *)
(* reading that differs.  Without a baseline the altitude stays the one    *)
(* above the sea, and FLIGHT is declared on the pad of a high site.        *)
NoFlightOnPad ==
  [][state = "ready" /\ state' = "flight" /\ phase' = "pad" /\ baseline_ready' =>
       now' - last_altitude_ms' >= LaunchConfirm]_vars

(* LANDED is declared on the ground, never on the pad, under the drone or  *)
(* in the fall, whichever readings were missed on the way and with or      *)
(* without a baseline.  What is left out is a flight declared while the    *)
(* altitude in use was still that of the sea though there was a baseline,  *)
(* or in the rate that the step from one to the other made: it looks like  *)
(* a fall from the height of the site, whatever the vehicle does, and can  *)
(* end in LANDED under a drone that stands level.  That is less than       *)
(* state_machine.cpp:85-87 says of the gate, that "no hover, however long  *)
(* or however gentle the lift, can satisfy it".                            *)
LandedOnGround ==
  [][state = "flight" /\ state' = "landed" /\ level => phase' = "ground"]_vars

(* The phases are those of the vehicle: no flight on the pad, and LANDED   *)
(* on the ground.                                                          *)
PhasesTrue == NoFlightOnPad /\ LandedOnGround

(* "Holding a stale descent rate would stop the landing detector from ever *)
(* firing" (controller.cpp): once enough of the fall was shown to the      *)
(* flight, whatever the rate before it, the vehicle that then lies still   *)
(* with both sensors answering is not in FLIGHT when the rate has had the  *)
(* time to decay, whatever readings it missed in between.  A fall of which *)
(* less was shown, as a short one with a reading missed, may leave it in   *)
(* FLIGHT for good: no landing without a descent (state_machine.cpp).      *)
LandsOnceQuiet ==
  /\ FallSeen
  /\ quiet >= SettleTime + RestConfirm
  /\ now - entered_ms >= MinFlight + RestConfirm
  => state # "flight"
=============================================================================
