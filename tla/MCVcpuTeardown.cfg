SPECIFICATION FairSpec
CONSTANTS
  N = 2
  Commands = {"pause", "resume", "stop"}
  GuestExits = {"emulate"}
  MaxRequests = 3
PROPERTIES
  TornDownAnyway
CHECK_DEADLOCK FALSE
