SPECIFICATION Spec
CHECK_DEADLOCK FALSE
CONSTANTS
  LaunchConfirm = 1
  MinFlight = 1
  DescentConfirm = 1
  RestConfirm = 1
  PostImpact = 1
  MaxGap = 1
  MaxTime = 6
  Builds <- AllBuilds
  CommandWindow = 2
  ArmingDelay = 1
  CalibSamples = 1
  CalibTimeout = 1
  ReplayWindow = 1
  BaroFaults = TRUE
  MaxPackets = 3
INVARIANTS TypeOK ArmedOnNewCalibration FlightAtMaxRate ArmsInTime
PROPERTIES NoCommandOnceArmed CommandsOnceInOrder LaunchAfterWindow
