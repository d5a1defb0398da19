SPECIFICATION FairSpec
CONSTANTS
  Xhrs = {x1}
  PoolSize = 2
  MaxSends = 2
  MaxRequests = 2
INVARIANTS
  CountsUsers
  AnsweredInOrder
  HeardOnce
  KeptAlive
PROPERTY Unrooted
CHECK_DEADLOCK FALSE
