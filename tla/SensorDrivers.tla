--------------------------- MODULE SensorDrivers ---------------------------
(***************************************************************************)
(* What the drivers of the two mandatory sensors make of the bus: begin()  *)
(* and read() of Mpu9250 (mpu9250.cpp) and of Bmp280 (bmp280.cpp), and the *)
(* datasheet bounds of the flight loop (controller.cpp).                   *)
(*                                                                         *)
(* begin() is a chain of register accesses that stops at the first one the *)
(* part does not answer, or answers with something else: answered is the   *)
(* number of accesses before it.  Abstracted: the settings written and the *)
(* conversions, told by what read() decides on them.                       *)
(***************************************************************************)
EXTENDS Naturals

(* Parts that may answer for the IMU.  A module sold as an MPU-9250 is     *)
(* often an MPU-6500, which has no magnetometer.                           *)
Parts == {"mpu9250", "mpu9255", "mpu6500", "other"}
NineAxis == {"mpu9250", "mpu9255"}

(* WHO_AM_I, reset, clock, axes, the filters and ranges of both sensors    *)
(* and the rate; the bridge, the identity, reset and power-down, the fuses *)
(* and the mode of the magnetometer; those of the barometer.               *)
ImuAccesses == 9
MagAccesses == 9
BaroAccesses == 5

(* Whatever happens to the magnetometer, the other six axes are up.        *)
ImuBegins(part, answered) == part # "other" /\ answered >= ImuAccesses

MagnetometerBegins(part, answered) ==
  part \in NineAxis /\ answered >= ImuAccesses + MagAccesses

BaroBegins(answered) == answered >= BaroAccesses

(* What read() and the bounds leave of a burst: the bus does not answer;   *)
(* it answers with the pattern of a fault, all zeros, or with what cannot  *)
(* be compensated; the values are outside the datasheet's, or sane.        *)
Answers == {"none", "faulty", "out_of_bounds", "sane"}

Read(ok, answer) ==
  CASE ~ok \/ answer \in {"none", "faulty"} -> "missed"
    [] ok /\ answer = "out_of_bounds" -> "implausible"
    [] ok /\ answer = "sane" -> "good"

Outcomes == {"good", "missed", "implausible"}
OutcomesOf(ok) == {Read(ok, answer) : answer \in Answers}
=============================================================================
