SPECIFICATION Spec
CHECK_DEADLOCK FALSE
CONSTANTS
  BlockCount = 5
  Records = {r1, r2}
  Columns = columns
  Blank = blank
  Garbage = garbage
  WriteFaults = TRUE
  GroundCommands = FALSE
  MaxFailures = 2
  MaxSequence = 9
INVARIANTS AckedRecoverable

