SPECIFICATION FairSpec
CHECK_DEADLOCK FALSE
CONSTANTS
  BlockCount = 5
  Records = {r1}
  Columns = columns
  Blank = blank
  Garbage = garbage
  WriteFaults = TRUE
  GroundCommands = TRUE
  MaxFailures = 2
  MaxSequence = 9
PROPERTIES ScrubEnds
