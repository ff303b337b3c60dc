SPECIFICATION MCSpec
CONSTANTS
  Ports = {s0}
  Sysrqed = s0
  Irq <- OwnLine
  Console = TRUE
  FifoLen = 1
  Chars = {a, esc}
  Escape = esc
  Other = other
  MaxTyped = 2
  Clients = {1, 2}
  MaxPages = 2
  MaxResets = 2
  U32 = 16
  Users = {"u1", "u2"}
  CmdNames = {"pause", "resume", "list", "stop", "stat", "balloon", "nmi", "dump", "bad_dump"}
  Vms = {1, 2, 3}
  GuestNames = {"a", "b"}
INVARIANTS
  
  ScreenMapped
  
PROPERTIES
  DevicesProgress
CHECK_DEADLOCK FALSE
