SPECIFICATION Spec
CHECK_DEADLOCK FALSE
CONSTANTS
  LaunchConfirm = 1
  MinFlight = 2
  DescentConfirm = 1
  RestConfirm = 1
  PostImpact = 1
  MaxGap = 1
  MaxTime = 32
  SensorStale = 1
  RateHold = 1
  ArmingDelay = 1
  LaunchGain = 1
  FallingRate = 114
  StillRate = 112
  Site = 2
  PadTime = 2
  DropTime = 13
  Ceiling = 360
  Speed = 40
  SettleTime = 9
  FallTime = 4
  MaxMisses = 2
INVARIANTS TypeOK LandsOnceQuiet
PROPERTIES SensingHonest PhasesTrue
