SPECIFICATION Spec
CONSTANTS
  None = None
  Targets = {t1, t2}
  Keys = {k1}
  Timers = {x1, x2}
  Plans <- Frames
  Steps = {1}
  MaxElapsed = 2
  MaxCalls = 1
  MaxPosts = 0
SYMMETRY Symmetric
INVARIANT FrameComplete
