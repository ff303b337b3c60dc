SPECIFICATION MCSpec
CONSTANTS
  Ports = {s0}
  Sysrqed = s0
  Irq <- OwnLine
  Console = TRUE
  FifoLen = 2
  Chars = {a, b, esc}
  Escape = esc
  Other = other
  MaxTyped = 3
  FlashSize = 4
  BlockWords = 2
  BufferWords = 2
  FlashData = {"confirm", "array"}
  Contexts = {0, 1}
  LevelSources = {1}
  EdgeSources = {2}
  Priorities = {0, 1}
  Servers = {0}
  NrIrqs = 2
  XPriorities = {0, 1, 2}
  VcpuPrios = {1}
  IpiPrios = {1}
  Masked = 3
  MaxNest = 1
  QueueSize = 2
  DataBytes = {233}
  Keys = {"escaped", "pointer"}
  MaxInputs = 1
  MaxCommands = 2
  Pages <- MCPages
  MaxBanks = 4
  MaxRegs = 4
INVARIANTS
  SerialInv
  InOrder
  FlashTrue
  PlicInv
  
  KbdInOrder
  BanksInv
CHECK_DEADLOCK FALSE
