SPECIFICATION Spec
CONSTANTS
  Codes = {imu_init, packet_oversize}
  MaxCount = 3
  FixTimeout = 2
  MaxLine = 4
  Required = 2
  MaxConfidence = 4
  SensorStale = 2
  CogConfirm = 2
  Axes = {x, z}
  MinSamples = 3
  Lengths = {0, 1, 2}
  MaxPayload = 12
  MaxDigits = 2
  MaxExtents = 2
  MaxDirClusters = 3
  MinBlocks = 2
  EndOfChain <- ChainEnd
  BlockSize = 512
  MaxWrites = 2
  Configs <- Builds
  Shipped <- ShippedBuild
  Widths <- FieldWidths
  Volumes <- PreparedCards
  SeenWindow = 2
  MaxNumber = 4
  MaxClock = 5
  MaxRestarts = 2
INVARIANTS TypeOK FaultsTruthful PositionFresh CardKept AcceptedFits LossHonest
PROPERTIES HeadingEarned Delivered
CHECK_DEADLOCK FALSE
