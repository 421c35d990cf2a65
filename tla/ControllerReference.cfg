SPECIFICATION Spec
CHECK_DEADLOCK FALSE
CONSTANTS
  LaunchConfirm = 1
  MinFlight = 1
  DescentConfirm = 1
  RestConfirm = 1
  PostImpact = 1
  MaxGap = 1
  MaxTime = 6
  Builds <- SealedBuild
  CommandWindow = 2
  ArmingDelay = 1
  CalibSamples = 2
  CalibTimeout = 3
  ReplayWindow = 1
  BaroFaults = FALSE
  MaxPackets = 3
INVARIANTS ArmedWithReference
