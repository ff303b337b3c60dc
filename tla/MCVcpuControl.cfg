SPECIFICATION Spec
CONSTANTS
  N = 2
  Commands = {"pause", "resume", "stop", "dump"}
  GuestExits = {"emulate", "reset", "panic", "shutdown", "system"}
  MaxRequests = 3
INVARIANTS
  VcpuInv
  NeverRepaused
  PauseParks
CHECK_DEADLOCK FALSE
