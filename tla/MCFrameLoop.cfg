SPECIFICATION FairSpec
CONSTANTS
  Cmds = 2
  Ahead = 1
  MaxFrames = 2
  MaxOps = 2
  MaxChunks = 2
INVARIANTS
  StagedIntact
  ReaderSafe
  FramesAhead
PROPERTY Shown
CHECK_DEADLOCK FALSE
