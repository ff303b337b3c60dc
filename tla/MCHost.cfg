SPECIFICATION MCSpec
CONSTANTS
  L2Size = 2
  RbSize = 4
  MaxCache = 2
  HasZlib = TRUE
  Zero = "z"
  Stale = "stale"
  DiskKinds = {"raw", "rawro", "blk", "qcow"}
  QcowModes = {TRUE, FALSE}
  Images <- MCImages
  Guest = {0, 1}
  DiskVals = {"z", "a"}
  MaxCursor = 14
  MaxWrites = 3
  P9Fids = {1, 2}
  P9Names <- MCNames
  Up = ".."
  P9Depth = 2
  MaxInos = 3
  MaxFds = 2
  RbKeys <- MCKeys
  Iovecs <- MCIovecs
  FileLen = 4
  FileRoom = 6
  IoStart = 1
  MaxErrs = 2
  WordBits = 2
  NrCpus = 5
  UintMax = 16
  CpuNums = {0, 1, 3, 14}
  MaxRegions = 2
INVARIANTS
  
  
  RbInv
  
CHECK_DEADLOCK FALSE
