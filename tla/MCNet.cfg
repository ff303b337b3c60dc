SPECIFICATION MCSpec
CONSTANTS
  Bufs = {1, 2}
  Socks = {1}
  MaxWin = 1
  MaxFrames = 3
  MaxReads = 1
  NetModes = {"tap", "vhost"}
  MaxLen = 2
  MaxAvail = 2
  MaxRx = 1
INVARIANTS
  
  FramesWhole

  
CHECK_DEADLOCK FALSE
