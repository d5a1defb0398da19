SPECIFICATION FairSpec
CONSTANTS
  None = None
  Targets = {t1}
  Keys = {k1}
  Timers = {x1}
  Plans <- OneShots
  Steps = {1}
  MaxElapsed = 2
  MaxCalls = 1
  MaxPosts = 3
INVARIANT NoneLost
PROPERTY Performed
