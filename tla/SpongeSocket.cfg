SPECIFICATION FairSpec
CONSTANTS
  OutLen = 2
  InLen = 4
  OutBuffer = 2
  InBuffer = 3
  PipeRoom = 1
  MaxSegs = 2
  MayReset = TRUE
  MayAbandon = TRUE
INVARIANTS TypeOK StreamsIntact NoFailure
PROPERTY ProgramEnds
