SPECIFICATION HistorySpec
CHECK_DEADLOCK FALSE
CONSTANTS
  LaunchConfirm = 2
  MinFlight = 3
  DescentConfirm = 2
  RestConfirm = 2
  PostImpact = 2
  MaxGap = 2
  MaxTime = 10
INVARIANTS HistoryTypeOK LandsInTime LaunchesInTime
PROPERTIES LaunchConfirmed LandingConfirmed PhasesSpec
