SPECIFICATION MCSpec
CONSTANTS
  VQueues = {0, 1}
  VMachines <- MCMachines
  VKicked = {1}
  VBars = {1, 2}
  VNone = VNone
  SgBuses = {"pci", "mmio", "msix"}
  SgSignallers = {"queue", "config"}
  MaxTyped = 2
  MaxBuffers = 2
  VhKinds = {"scsi", "vsock"}
  MaxSessions = 3
INVARIANTS
  TransportInv
  SignalRecorded
  
PROPERTIES
  TransportProgress
CHECK_DEADLOCK FALSE
