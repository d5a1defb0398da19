SPECIFICATION Spec
CONSTANTS
  None = None
  Targets = {t1, t2, t3}
  Keys = {k1, k2}
  Timers = {x1, x2, x3}
  Plans <- Mixed
  Steps = {2}
  MaxElapsed = 3
  MaxCalls = 1
  MaxPosts = 0
SYMMETRY Symmetric
INVARIANT Counted
INVARIANT WalkValid
INVARIANT TargetComplete
INVARIANT RunsAtMost
PROPERTY TickedOnce
