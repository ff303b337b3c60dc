SPECIFICATION FairSpec
CONSTANTS
  N = 2
  Commands = {"pause", "resume", "nmi"}
  GuestExits = {"emulate", "system"}
  MaxRequests = 2
PROPERTIES
  PauseEnds
  TeardownEnds
  
CHECK_DEADLOCK FALSE
