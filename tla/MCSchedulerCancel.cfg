SPECIFICATION Spec
CONSTANTS
  None = None
  Targets = {t1}
  Keys = {k1}
  Timers = {x1, x2}
  Plans <- OneShots
  Steps = {1}
  MaxElapsed = 2
  MaxCalls = 2
  MaxPosts = 0
SYMMETRY Symmetric
PROPERTY CancelsItself
