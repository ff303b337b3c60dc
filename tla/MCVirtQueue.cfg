SPECIFICATION FairSpec
CONSTANTS
  Num = 2
  IdxMod = 6
  MaxLag = 5
  None = None
INVARIANTS
  QueueInv
PROPERTIES
  QueueSpec
  RequestsAnswered
CHECK_DEADLOCK FALSE
