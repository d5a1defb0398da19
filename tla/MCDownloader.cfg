SPECIFICATION FairSpec
CONSTANTS
  Urls = {"u", "v"}
  MaxProcessing = 1
  MaxTasks = 3
INVARIANTS
  EndsAreTold
  HeldForReason
PROPERTY Answered
CHECK_DEADLOCK FALSE
