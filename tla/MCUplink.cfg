SPECIFICATION Spec
CHECK_DEADLOCK FALSE
CONSTANTS
  Period = 12
  Slot = 3
  Airtime = 2
  CommandAirtime = 2
  AfterPacket = 2
  MaxHold = 19
  CommandWindow = 30
  VehicleGap = 2
  RowGap = 2
  ScrubGap = 3
  EraseGap = 3
  BridgeGap = 1
  MaxCommands = 2
  MaxPrompt = 1
  MaxTime = 36
  None = none
INVARIANTS TypeOK GapIsQuiet HeldInTime ObeyedInTime
