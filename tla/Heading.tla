------------------------------ MODULE Heading ------------------------------
(***************************************************************************)
(* The heading the packets call magnetic: OrientationEstimator             *)
(* (orientation.cpp), MagCalibrator (startup_calibration.cpp), the         *)
(* magnetometer and orientation part of acquire_sensors(),                 *)
(* update_mag_calibration() and check_yaw_reference() (controller.cpp).    *)
(* One step is one pass in which the sensor task is due (ages are in       *)
(* passes), with the reset of run_calibration() after it.                  *)
(*                                                                         *)
(* Abstracted: the quaternion, the corrections and the field, told by what *)
(* the estimator decides on them; of the sweep, which end of which axis a  *)
(* sample reaches; the integration never loses the quaternion's norm, so   *)
(* its "numerically dead" branch is left out; the course over ground,      *)
(* compared with the heading by the environment.                           *)
(***************************************************************************)
EXTENDS Naturals, SensorDrivers

CONSTANTS
  Required,      (* kMagConfidenceRequired                                 *)
  MaxConfidence, (* kMagConfidenceMax                                      *)
  SensorStale,   (* sensor_stale_after_ms, in passes                       *)
  CogConfirm,    (* yaw_cog_confirm_samples                                *)
  Axes,          (* of the magnetometer                                    *)
  MinSamples     (* mag_cal_min_samples                                    *)

HeadingAssumption ==
  /\ {Required, MaxConfidence, SensorStale, CogConfirm, MinSamples} \subseteq Nat \ {0}
  /\ Required <= MaxConfidence

VARIABLES
  seeded,           (* seeded_ and valid_, which change together           *)
  confidence,       (* mag_confidence_                                     *)
  mag_calibrated,   (* mag_calibrated_                                     *)
  has_mag,          (* has_magnetometer()                                  *)
  in_flight,        (* mag_cal_in_flight                                   *)
  calibrated,       (* mag_calibration_.valid                              *)
  swept,            (* mag_calibrator_: the ends of the axes it has seen   *)
  samples,          (* its n_, up to MinSamples                            *)
  imu_age,          (* now - last_good_imu_ms_                             *)
  mag_age,          (* now - last_good_mag_ms_                             *)
  shown,            (* snapshot_: mag_valid, orientation_valid and         *)
                    (* yaw_is_magnetic                                     *)
  cog_disagreements,
  cog_warning,      (* is yaw_reference_disagreement active?               *)
  unaided           (* history: updates since the field last set or        *)
                    (* steered the yaw of this solution, at most           *)
                    (* MaxConfidence                                       *)

estimator == <<seeded, confidence, mag_calibrated, unaided>>
build == <<has_mag, in_flight>>
sweep == <<swept, samples>>
cog == <<cog_disagreements, cog_warning>>
vars == <<estimator, build, calibrated, sweep, imu_age, mag_age, shown, cog>>

Least(a, b) == IF a < b THEN a ELSE b
Older(age) == Least(age + 1, SensorStale + 1)

(* The field of a sample: none (no magnetometer, or it has nothing new,    *)
(* overflowed, or is outside mag_clip_ut); not the Earth's strength; with  *)
(* no horizontal part; with too little to steer by; good.                  *)
Fields == {"none", "strange", "vertical", "steep", "good"}
FieldsRead == IF has_mag THEN Fields ELSE {"none"}
Seeds(field) == field \in {"steep", "good"}
Steers(field) == field = "good"

-----------------------------------------------------------------------------
(* apply() and estimate() *)

SeedAlways(accel_usable, field) ==   \* mutant: any usable field seeds the yaw
  IF ~accel_usable THEN UNCHANGED estimator
  ELSE /\ seeded' = TRUE
       /\ confidence' = IF field \in Fields \ {"none", "strange"} THEN Required
                        ELSE confidence
       /\ mag_calibrated' = IF field # "none" THEN calibrated ELSE mag_calibrated
       /\ unaided' = IF Seeds(field) THEN 0 ELSE MaxConfidence

(* The first sample with a usable gravity defines which way is up, and its *)
(* field, if it has one, the yaw.                                          *)
Seed(accel_usable, field) ==
  IF ~accel_usable THEN UNCHANGED estimator
  ELSE /\ seeded' = TRUE
       /\ IF Seeds(field)
          THEN confidence' = Required /\ mag_calibrated' = calibrated /\ unaided' = 0
          ELSE UNCHANGED <<confidence, mag_calibrated>> /\ unaided' = MaxConfidence

Correct(field) ==
  /\ UNCHANGED seeded
  /\ IF Steers(field)
     THEN /\ confidence' = Least(confidence + 1, MaxConfidence)
          /\ mag_calibrated' = calibrated
          /\ unaided' = 0
     ELSE /\ confidence' = IF confidence > 0 THEN confidence - 1 ELSE 0
          /\ UNCHANGED mag_calibrated
          /\ unaided' = Least(unaided + 1, MaxConfidence)

Update(accel_usable, field) ==
  IF seeded THEN Correct(field) ELSE Seed(accel_usable, field)

YawIsMagnetic == seeded' /\ mag_calibrated' /\ confidence' >= Required

(* reset(), of a calibration that settles after the pass. *)
Reset ==
  /\ seeded' = FALSE /\ confidence' = 0
  /\ mag_calibrated' = FALSE /\ unaided' = MaxConfidence

-----------------------------------------------------------------------------
(* MagCalibrator: a field of the Earth's strength extends the box of what  *)
(* the sweep has seen, before any correction; it covers enough with the    *)
(* samples and the span of every axis, two far ends of it.                 *)
Ends == Axes \X {"low", "high"}

AddToSweep(field, end) ==
  IF in_flight /\ ~calibrated /\ field \notin {"none", "strange"}
  THEN swept' = swept \cup {end} /\ samples' = Least(samples + 1, MinSamples)
  ELSE UNCHANGED sweep

CoverageMet == samples' >= MinSamples /\ swept' = Ends

(* acquire_sensors(): an IMU sample, read and plausible, with its field. *)
Sample(accel_usable, field, end) ==
  /\ imu_age' = 0
  /\ mag_age' = IF field = "none" THEN Older(mag_age) ELSE 0
  /\ AddToSweep(field, end)
  /\ Update(accel_usable, field)
  /\ shown' = [mag |-> field # "none" \/ (shown.mag /\ mag_age' <= SensorStale),
               orientation |-> seeded', yaw_is_magnetic |-> YawIsMagnetic]

(* No sample, or one that is refused: the estimator is not updated, the    *)
(* snapshot is kept until it is stale; a refused one drops the attitude.   *)
NoSample(implausible) ==
  /\ imu_age' = Older(imu_age) /\ mag_age' = Older(mag_age)
  /\ UNCHANGED <<estimator, sweep>>
  /\ shown' = IF imu_age' > SensorStale
              THEN [mag |-> FALSE, orientation |-> FALSE, yaw_is_magnetic |-> FALSE]
              ELSE [shown EXCEPT !.orientation = shown.orientation /\ ~implausible]

(* The sweep in flight is adopted once, when it covers enough. *)
UpdateMagCalibration == calibrated' = (calibrated \/ (in_flight /\ CoverageMet))

(* check_yaw_reference(): course is "none" unless the GPS has one, moving  *)
(* fast enough.                                                            *)
CheckYawReference(course) ==
  IF ~shown'.orientation \/ ~shown'.yaw_is_magnetic \/ course = "none"
  THEN cog_disagreements' = 0 /\ UNCHANGED cog_warning
  ELSE IF course = "agrees"
  THEN cog_disagreements' = 0 /\ cog_warning' = FALSE
  ELSE /\ cog_disagreements' = Least(cog_disagreements + 1, CogConfirm)
       /\ cog_warning' = (cog_warning \/ cog_disagreements' = CogConfirm)

-----------------------------------------------------------------------------
Init ==
  /\ seeded = FALSE /\ confidence = 0 /\ mag_calibrated = FALSE /\ unaided = MaxConfidence
  /\ \E part \in Parts, answered \in 0 .. ImuAccesses + MagAccesses :
       ImuBegins(part, answered) /\ has_mag = MagnetometerBegins(part, answered)
  /\ in_flight \in BOOLEAN /\ calibrated \in BOOLEAN
  /\ swept = {} /\ samples = 0
  /\ imu_age = 0 /\ mag_age = 0
  /\ shown = [mag |-> FALSE, orientation |-> FALSE, yaw_is_magnetic |-> FALSE]
  /\ cog_disagreements = 0 /\ cog_warning = FALSE

Pass ==
  /\ \/ \E accel_usable \in BOOLEAN, field \in FieldsRead, end \in Ends :
          Sample(accel_usable, field, end)
     \/ \E implausible \in BOOLEAN : NoSample(implausible)
  /\ UpdateMagCalibration
  /\ \E course \in {"none", "agrees", "opposes"} : CheckYawReference(course)
  /\ UNCHANGED build

(* run_calibration(), in the pass that settles. *)
Settle == Reset /\ UNCHANGED <<build, calibrated, sweep, imu_age, mag_age, shown, cog>>

Next == Pass \/ Settle

Spec == Init /\ [][Next]_vars

-----------------------------------------------------------------------------
(* Properties. *)

TypeOK ==
  /\ {seeded, mag_calibrated, has_mag, in_flight, calibrated, cog_warning} \subseteq BOOLEAN
  /\ swept \subseteq Ends /\ samples \in 0 .. MinSamples
  /\ confidence \in 0 .. MaxConfidence /\ unaided \in 0 .. MaxConfidence
  /\ imu_age \in 0 .. SensorStale + 1 /\ mag_age \in 0 .. SensorStale + 1
  /\ shown \in [mag : BOOLEAN, orientation : BOOLEAN, yaw_is_magnetic : BOOLEAN]
  /\ cog_disagreements \in 0 .. CogConfirm

(* A heading the packets call magnetic was set or steered by a field with  *)
(* a calibration, in this attitude solution and no more updates ago than   *)
(* the confidence above Required outlives: no sequence of seeds, dropouts, *)
(* disturbances and resets lets "a zero nobody measured" (orientation.cpp) *)
(* pass for one.                                                           *)
HeadingEarned ==
  [][seeded' /\ shown'.orientation /\ shown'.yaw_is_magnetic /\ imu_age' = 0 =>
       calibrated /\ unaided' <= MaxConfidence - Required]_vars
=============================================================================
