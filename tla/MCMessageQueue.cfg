SPECIFICATION FairSpec
CONSTANTS
  ChunkSize = 4
  MaxMessages = 6
INVARIANTS
  LinkedInOrder
  NoLostWakeup
  NoReadAfterFree
PROPERTIES
  WaitDrains
  ImplementsDelivery
  CallsReturn
CHECK_DEADLOCK FALSE
