SPECIFICATION FairSpec
CONSTANTS
  Workers = {w1, w2}
  Callers = {c1, c2}
  Jobs = {j1}
  MaxSignal = 2
  NoJob = NoJob
  NoThread = NoThread
INVARIANTS
  
  PoolInv
PROPERTIES
  WorkServed
  StopEnds
CHECK_DEADLOCK FALSE
