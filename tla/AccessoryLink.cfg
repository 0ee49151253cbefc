SPECIFICATION FairSpec
CONSTANTS
  Ports <- SomePorts
  Sizes <- FewSizes
  Transports <- BothTransports
  length = 5
  MaxFrames = 2
INVARIANTS
  FramesIntact
  StatusReachesPort
PROPERTIES
  FrameArrives
  LostUsbEnds
CHECK_DEADLOCK FALSE
