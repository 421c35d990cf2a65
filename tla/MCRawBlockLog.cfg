SPECIFICATION FairSpec
CHECK_DEADLOCK FALSE
CONSTANTS
  BlockCount = 5
  Records = {r1, r2}
  Columns = columns
  Blank = blank
  Garbage = garbage
  WriteFaults = FALSE
  GroundCommands = TRUE
  MaxFailures = 2
  MaxSequence = 9
INVARIANTS TypeOK AckedRecoverable
PROPERTIES ScrubOnlyUnreachable ReaderSpec ScrubEnds
