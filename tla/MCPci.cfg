SPECIFICATION MCSpec
CONSTANTS
  Vcpus = {v1, v2}
  Bars <- MCBars
  Targets <- MCTargets
  Regions <- BarRegions
  Addrs = {2, 4}
  Lens = {1}
  Top = 8
  Rules = {"size", "overlap"}
  None = None
  MxQueues = {0, 1}
  Vectors = {0, 1}
  NoVector = 9
  Msgs = {0, 1}
  ZeroMsg = 0
  MaxRoutes = 2
  VfCaps <- MCCaps
  VfVectors = {0, 1}
  VfMsgs = {1, 2}
  NoMsg = 0
  MaxFails = 1
  VdDevices = {1, 2}
  VdGroups = {1, 2}
  VdLayouts <- MCLayouts
  VdAddrs = {1, 2, 3}
  VdUnaligned = {3}
SYMMETRY Symmetry
INVARIANTS
  PciInv
  BarsTrue
  MsixInv
  
  VfioDevInv
CHECK_DEADLOCK FALSE
