----------------------------- MODULE Controller -----------------------------
(***************************************************************************)
(* The flight loop: flight::Controller (controller.cpp), composed with the *)
(* mission state machine and the pad calibration                           *)
(* (startup_calibration.cpp).  One poll is the sequence of steps poll()    *)
(* takes, each an action; pc names the next.                               *)
(*                                                                         *)
(* The subject is what has to happen, in which order, before the vehicle   *)
(* may launch: the command window and the uplink it opens, the calibration *)
(* taken before and after it closes, arming, and the ground commands.      *)
(*                                                                         *)
(* Abstracted: the periods of the tasks (a task may or may not be due in a *)
(* poll); the age of the last good reading (a reading that fails may or    *)
(* may not be the one that makes its sensor stale); whether the samples    *)
(* show thrust (free) and the motion in flight (the landing is the subject *)
(* of MissionHistory: FLIGHT ends here only by a fault); the outcome of a  *)
(* transmission and of a log write, which nothing here looks at; health,   *)
(* the LED and the battery.                                                *)
(***************************************************************************)
EXTENDS Naturals, FiniteSets, Sequences

CONSTANTS
  LaunchConfirm, MinFlight, DescentConfirm, RestConfirm, PostImpact,
  MaxGap, MaxTime,
  Builds,          (* the builds: do they allow ground commands, and do    *)
                   (* they engage the max rate by themselves?              *)
  CommandWindow,   (* command_window_ms                                    *)
  ArmingDelay,     (* arming_delay_ms                                      *)
  CalibSamples,    (* calib_samples                                        *)
  CalibTimeout,    (* calib_timeout_ms                                     *)
  ReplayWindow,    (* command_replay_window                                *)
  BaroFaults,      (* may a reading of the barometer fail?                 *)
  MaxPackets       (* bound on the packet number                           *)

ASSUME ControllerAssumption ==
  /\ Builds \subseteq [commands : BOOLEAN, auto : BOOLEAN] /\ Builds # {}
  /\ CommandWindow \in Nat \ {0} /\ ArmingDelay \in Nat
  /\ CalibSamples \in Nat /\ CalibTimeout \in Nat
  /\ ReplayWindow \in Nat /\ MaxPackets \in Nat /\ BaroFaults \in BOOLEAN

VARIABLES
  now, state, entered_ms, launch_condition_since_ms, rest_condition_since_ms,
  descent_since_ms, descent_observed,   (* StateMachine                    *)
  pc,
  build,
  operational,
  imu_valid, baro_valid,          (* snapshot_                             *)
  imu_stale, baro_stale,          (* the active faults of those names      *)
  calib,                          (* StartupCalibrator                     *)
  calibration_applied, baseline_ready,
  window_open, window_closed_ms, uplink_closed,
  max_rate,
  packet_number, last_command_pn,
  was_armed,     (* history: has the vehicle ever been armed?              *)
  obeyed,        (* history: the commands acted on, one after the other     *)
  baseline_on    (* history: where the baseline in use was taken           *)

Machine == INSTANCE StateMachine

ASSUME ControllerMission == Machine!MissionAssumption

machine == <<state, entered_ms, launch_condition_since_ms,
             rest_condition_since_ms, descent_since_ms, descent_observed>>
sensors == <<operational, imu_valid, baro_valid, imu_stale, baro_stale>>
calibration == <<calib, calibration_applied, baseline_ready, baseline_on>>
window == <<window_open, window_closed_ms, uplink_closed, max_rate>>
downlink == <<packet_number, last_command_pn, obeyed>>
vars == <<now, machine, pc, build, sensors, calibration, window,
          downlink, was_armed>>

(* A command is a kind and the packet number its token was computed for;   *)
(* "none" is a frame parse_command() refuses.                              *)
Frames == [kind : {"erase", "max_rate", "none"}, pn : 0 .. MaxPackets + 1]

-----------------------------------------------------------------------------
(* StartupCalibrator: counts of the samples held, whether a barometer      *)
(* sample is among them, when its clock started, and how it settled.       *)
(* from_window (history): is a sample among them that was taken while the  *)
(* command window was open?                                                *)
Empty(c) == [c EXCEPT !.n_imu = 0, !.baro = FALSE, !.from_window = FALSE]

NewCalibrator == [n_imu |-> 0, baro |-> FALSE, started |-> FALSE, started_ms |-> 0,
                  verdict |-> "pending", from_window |-> FALSE]

Settled(c) == c.verdict # "pending"

(* add_imu and add_baro of one pass of acquire_sensors; both are skipped   *)
(* once the calibration has settled.                                       *)
WithSamples(c, imu, baro) ==
  IF Settled(c) THEN c
  ELSE [c EXCEPT !.n_imu = IF imu /\ @ < CalibSamples THEN @ + 1 ELSE @,
                 !.baro = @ \/ baro,
                 !.from_window = @ \/ (window_open /\ (imu \/ baro))]

JudgedWithoutTimeout(c, still) ==   \* mutant: the timeout is not looked at
  LET full == c.n_imu >= CalibSamples
  IN IF Settled(c) THEN c
     ELSE IF full /\ still THEN [c EXCEPT !.verdict = "complete"]
     ELSE IF full THEN Empty(c) ELSE c

(* update(): a full set of samples that was still completes; one that was  *)
(* not is dropped, barometer and all; the timeout settles for what there   *)
(* is.                                                                     *)
Judged(c, still) ==
  LET s == IF c.started THEN c ELSE [c EXCEPT !.started = TRUE, !.started_ms = now]
      full == s.n_imu >= CalibSamples
      kept == IF full THEN Empty(s) ELSE s
  IN IF Settled(s) THEN s
     ELSE IF full /\ still THEN [s EXCEPT !.verdict = "complete"]
     ELSE IF now - s.started_ms >= CalibTimeout THEN [kept EXCEPT !.verdict = "failed"]
     ELSE kept

-----------------------------------------------------------------------------
ArmedFromBoot ==   \* mutant: the delay counts from power-on
  /\ operational /\ imu_valid /\ baro_valid /\ ~window_open
  /\ now >= ArmingDelay
  /\ Settled(calib)

(* is_armed(), with require_calibration_to_arm as every build has it. *)
IsArmed ==
  /\ operational /\ imu_valid /\ baro_valid /\ ~window_open
  /\ now >= window_closed_ms + ArmingDelay
  /\ Settled(calib)

(* mutant: the window closes, the calibration of the window stays *)
CloseKeepingCalibration(rate) ==
  /\ window_open' = FALSE
  /\ window_closed_ms' = now
  /\ uplink_closed' = TRUE
  /\ UNCHANGED <<calib, calibration_applied>>
  /\ max_rate' = (rate \/ build.auto)

CloseAtCommandRate(rate) ==   \* mutant: the timeout does not engage the rate
  /\ window_open' = FALSE
  /\ window_closed_ms' = now
  /\ uplink_closed' = TRUE
  /\ calib' = NewCalibrator /\ calibration_applied' = FALSE
  /\ max_rate' = rate

(* close_command_window() on an open window, by a MAX_RATE command (which  *)
(* has engaged the rate) or by time.  The old baseline stays in use until  *)
(* a new one is taken.                                                     *)
CloseWindow(rate) ==
  /\ window_open' = FALSE
  /\ window_closed_ms' = now
  /\ uplink_closed' = TRUE
  /\ calib' = NewCalibrator /\ calibration_applied' = FALSE
  /\ max_rate' = (rate \/ build.auto)

ReplayableFrame(frame, latest) ==   \* mutant: a token may be used again
  /\ frame.pn <= latest
  /\ latest - frame.pn <= ReplayWindow

FutureFrame(frame, latest) ==   \* mutant: a packet not yet sent may be named
  /\ frame.pn > last_command_pn
  /\ latest <= frame.pn + ReplayWindow

(* The replay check of service_ground_commands. *)
FreshFrame(frame, latest) ==
  /\ frame.pn > last_command_pn
  /\ frame.pn <= latest
  /\ latest - frame.pn <= ReplayWindow

-----------------------------------------------------------------------------
Init ==
  /\ Machine!Init
  /\ pc = "off" /\ build \in Builds
  /\ operational = FALSE
  /\ imu_valid = FALSE /\ baro_valid = FALSE
  /\ imu_stale = FALSE /\ baro_stale = FALSE
  /\ calib = NewCalibrator /\ calibration_applied = FALSE
  /\ baseline_ready = FALSE /\ baseline_on = "nowhere"
  /\ window_open = FALSE /\ window_closed_ms = 0 /\ uplink_closed = FALSE
  /\ max_rate = FALSE
  /\ packet_number = 0 /\ last_command_pn = 0 /\ obeyed = <<>>
  /\ was_armed = FALSE

(* initialize() up to the self test: the window opens on a clean power-on, *)
(* never on a watchdog reset.  ready is the outcome of validate_config and *)
(* of the mandatory sensors.                                               *)
Initialize(watchdog, ready) ==
  /\ pc = "off"
  /\ window_open' = (build.commands /\ ~watchdog)
  /\ max_rate' = (build.auto /\ ~window_open')
  /\ uplink_closed' = (max_rate' \/ (build.commands /\ watchdog))
  /\ window_closed_ms' = 0
  /\ operational' = ready
  /\ Machine!BeginSelfTest
  /\ pc' = "self_test"
  /\ UNCHANGED <<build, imu_valid, baro_valid, imu_stale, baro_stale,
                 calibration, downlink, was_armed>>

(* The update that ends initialize(). *)
SelfTest ==
  /\ pc = "self_test"
  /\ Machine!Update(0, [self_test_ok |-> operational, armed |-> FALSE,
                        thrust |-> FALSE, motion |-> "moving",
                        critical_fault |-> ~operational])
  /\ pc' = "idle"
  /\ UNCHANGED <<now, build, sensors, calibration, window, downlink, was_armed>>

(* poll(): the mission clock starts at 0 with the first one. *)
BeginPoll(gap) ==
  /\ pc = "idle" /\ now + gap <= MaxTime
  /\ now' = now + gap
  /\ pc' = "sensors"
  /\ UNCHANGED <<machine, build, sensors, calibration, window, downlink,
                 was_armed>>

(* acquire_sensors(), the mandatory part: a reading is good, missed or     *)
(* rejected as implausible; late says that a reading that was not good     *)
(* passed sensor_stale_after_ms.                                           *)
AcquireSensors(imu, imu_late, baro, baro_late) ==
  /\ pc = "sensors"
  /\ imu_valid' = (imu = "good" \/ (imu = "missed" /\ ~imu_late /\ imu_valid))
  /\ imu_stale' = (imu # "good" /\ (imu_late \/ imu_stale))
  /\ baro_valid' = (baro = "good" \/ (baro = "missed" /\ ~baro_late /\ baro_valid))
  /\ baro_stale' = (baro # "good" /\ (baro_late \/ baro_stale))
  /\ calib' = WithSamples(calib, imu = "good", baro = "good")
  /\ pc' = "window"
  /\ UNCHANGED <<now, machine, build, operational, calibration_applied,
                 baseline_ready, baseline_on, window, downlink, was_armed>>

SkipSensors ==
  /\ pc = "sensors" /\ pc' = "window"
  /\ UNCHANGED <<now, machine, build, sensors, calibration, window,
                 downlink, was_armed>>

CheckWindow ==
  /\ pc = "window"
  /\ IF window_open /\ now >= CommandWindow
     THEN CloseWindow(FALSE)
     ELSE UNCHANGED <<window, calib, calibration_applied>>
  /\ pc' = "calibrate"
  /\ UNCHANGED <<now, machine, build, sensors, baseline_ready, baseline_on,
                 downlink, was_armed>>

(* run_calibration(): nothing once applied; a settled one is applied at    *)
(* once, its barometric part only when it has one.                         *)
RunCalibration(still) ==
  /\ pc = "calibrate"
  /\ IF calibration_applied
     THEN UNCHANGED calibration
     ELSE LET c == Judged(calib, still)
          IN /\ calib' = c
             /\ calibration_applied' = Settled(c)
             /\ IF Settled(c) /\ c.baro
                THEN /\ baseline_ready' = TRUE
                     /\ baseline_on' = IF c.from_window THEN "window" ELSE "pad"
                ELSE UNCHANGED <<baseline_ready, baseline_on>>
  /\ pc' = "machine"
  /\ UNCHANGED <<now, machine, build, sensors, window, downlink, was_armed>>

(* feed_state_machine(): only the loss of all mandatory sensing is a       *)
(* critical fault.                                                         *)
FeedStateMachine(thrust) ==
  /\ pc = "machine"
  /\ Machine!Update(now, [self_test_ok |-> operational, armed |-> IsArmed,
                          thrust |-> thrust, motion |-> "moving",
                          critical_fault |-> ~operational \/ (imu_stale /\ baro_stale)])
  /\ was_armed' = (was_armed \/ IsArmed)
  /\ pc' = "telemetry"
  /\ UNCHANGED <<now, build, sensors, calibration, window, downlink>>

(* No packet: none is due, one is on the air, or the mandatory data is not *)
(* there to build it from.                                                 *)
NoTelemetry ==
  /\ pc = "telemetry" /\ pc' = "idle"
  /\ UNCHANGED <<now, machine, build, sensors, calibration, window, downlink,
                 was_armed>>

Refuse == UNCHANGED <<last_command_pn, obeyed, window, calib, calibration_applied>>

(* The effect of a fresh frame on packet latest: ERASE reaches the log,    *)
(* which is not part of this module.                                       *)
Obey(frame) ==
  /\ last_command_pn' = frame.pn
  /\ obeyed' = Append(obeyed, frame)
  /\ IF frame.kind = "max_rate" /\ window_open
     THEN CloseWindow(TRUE)
     ELSE /\ max_rate' = (max_rate \/ frame.kind = "max_rate")
          /\ uplink_closed' = (uplink_closed \/ frame.kind = "max_rate")
          /\ UNCHANGED <<window_open, window_closed_ms, calib, calibration_applied>>

ListeningUnlatched ==   \* mutant: the latch is not looked at
  build.commands /\ state = "ready" /\ ~IsArmed

(* The gates of service_ground_commands. *)
Listening == ~uplink_closed /\ build.commands /\ state = "ready" /\ ~IsArmed

(* emit_telemetry(), the packet number and service_ground_commands(): the  *)
(* radio hands over the frames it received since the last packet, of which *)
(* one is looked at; heard is that frame, or none there is.                *)
EmitTelemetry(heard) ==
  /\ pc = "telemetry" /\ imu_valid /\ baro_valid
  /\ packet_number < MaxPackets
  /\ packet_number' = packet_number + 1
  /\ \/ \E frame \in heard :
          /\ Listening /\ frame.kind # "none" /\ FreshFrame(frame, packet_number')
          /\ Obey(frame)
     \/ /\ \A frame \in heard :
             ~(Listening /\ frame.kind # "none" /\ FreshFrame(frame, packet_number'))
        /\ Refuse
  /\ pc' = "idle"
  /\ UNCHANGED <<now, machine, build, sensors, baseline_ready, baseline_on,
                 was_armed>>

Readings == {"good", "missed", "rejected"}
BaroReadings == IF BaroFaults THEN Readings ELSE {"good"}

Next ==
  \/ \E watchdog, ready \in BOOLEAN : Initialize(watchdog, ready)
  \/ SelfTest
  \/ \E gap \in 0 .. MaxGap : BeginPoll(gap)
  \/ \E imu \in Readings, baro \in BaroReadings, imu_late, baro_late \in BOOLEAN :
       AcquireSensors(imu, imu_late, baro, baro_late)
  \/ SkipSensors
  \/ CheckWindow
  \/ \E still \in BOOLEAN : RunCalibration(still)
  \/ \E thrust \in BOOLEAN : FeedStateMachine(thrust)
  \/ NoTelemetry
  \/ EmitTelemetry({}) \/ \E frame \in Frames : EmitTelemetry({frame})

Spec == Init /\ [][Next]_vars

-----------------------------------------------------------------------------
(* Properties. *)

TypeOK ==
  /\ Machine!TypeOK
  /\ pc \in {"off", "self_test", "idle", "sensors", "window", "calibrate",
             "machine", "telemetry"}
  /\ build \in Builds
  /\ {operational, imu_valid, baro_valid, imu_stale, baro_stale} \subseteq BOOLEAN
  /\ calib \in [n_imu : 0 .. CalibSamples, baro : BOOLEAN, started : BOOLEAN,
                started_ms : Nat, verdict : {"pending", "complete", "failed"},
                from_window : BOOLEAN]
  /\ {calibration_applied, baseline_ready, window_open, uplink_closed, max_rate,
      was_armed} \subseteq BOOLEAN
  /\ window_closed_ms \in Nat
  /\ packet_number \in 0 .. MaxPackets /\ last_command_pn \in 0 .. MaxPackets
  /\ obeyed \in Seq(Frames)
  /\ baseline_on \in {"nowhere", "window", "pad"}

(* Once the vehicle has been armed, or has left READY, no frame is ever    *)
(* obeyed again, whatever the sensors then do to the arming: the uplink is *)
(* "closed for FLIGHT, LANDED, RECOVERY and FAULT" (controller.cpp).  Nor  *)
(* is one obeyed after MAX_RATE, for the rest of the power cycle.          *)
NoCommandOnceArmed ==
  [][obeyed' # obeyed =>
       /\ ~was_armed /\ state = "ready"
       /\ \A i \in DOMAIN obeyed : obeyed[i].kind # "max_rate"]_vars

(* A command is worth one use: every time one is obeyed it names a later   *)
(* packet than each obeyed before it (so that a recorded frame heard again *)
(* is not obeyed again, nor another for the same packet), and one that was *)
(* sent, and not too long ago (the replay check of controller.cpp).        *)
CommandsOnceInOrder ==
  [][\A i \in DOMAIN obeyed' \ DOMAIN obeyed :
       /\ \A j \in DOMAIN obeyed : obeyed[j].pn < obeyed'[i].pn
       /\ obeyed'[i].pn \in 1 .. packet_number'
       /\ packet_number' - obeyed'[i].pn <= ReplayWindow]_vars

(* FLIGHT is entered with the command window closed, and no sooner after   *)
(* it than the arming delay and the launch confirmation.                   *)
LaunchAfterWindow ==
  [][state # "flight" /\ state' = "flight" =>
       /\ ~window_open
       /\ now >= window_closed_ms + ArmingDelay + LaunchConfirm]_vars

(* The vehicle arms on a calibration that has been applied and that holds  *)
(* no sample of the command window, during which it may have been handled: *)
(* the power-on calibration "is thrown away" (controller.cpp).             *)
ArmedOnNewCalibration ==
  IsArmed /\ pc \in {"machine", "telemetry", "idle"} =>
    calibration_applied /\ ~calib.from_window

(* A build that engages the max rate by itself flies at it, whichever way  *)
(* the window closed and also after a watchdog reset.                      *)
FlightAtMaxRate ==
  build.auto /\ state = "flight" => max_rate

(* The mission is never blocked: with the mandatory sensors valid, the     *)
(* vehicle is armed once the window, the calibration timeout and the       *)
(* arming delay have passed, however it is moved on the pad.  (One poll    *)
(* may pass before the window is seen to be over, and one before the new   *)
(* calibration starts its clock.)                                          *)
ArmsInTime ==
  /\ pc = "machine" /\ operational /\ imu_valid /\ baro_valid
  /\ now >= CommandWindow + MaxGap + (IF ArmingDelay > CalibTimeout + MaxGap
                                      THEN ArmingDelay ELSE CalibTimeout + MaxGap)
  => IsArmed

(* "The barometric ground reference stays usable even if the IMU saw       *)
(* motion" (startup_calibration.cpp): a vehicle whose barometer never      *)
(* missed a reading arms with a ground reference taken on the pad.         *)
ArmedWithReference ==
  IsArmed /\ pc = "machine" => baseline_on = "pad"
=============================================================================
