SPECIFICATION Spec
CONSTANTS
  a = a
  b = b
  NoTouch = NoTouch
  NoFrame = NoFrame
  Partial = Partial
  Touch <- MCTouch
  RingSize = 2
  SendWindow = 2
  QueueCapacity = 3
  MaxGenerations = 2
  MaxConnections = 2
  MaxTouches = 2
  MaxFrames = 3
  MaxPings = 1
  MaxFaults = 1
  MaxLosses = 0
SYMMETRY Symm
INVARIANTS TypeOK AppliedInOrder AckedMeansApplied RingNeverDropsNewFrames HeldFollowsSession NoProtocolError
PROPERTIES SessionNeverResumed StreamSpec
CHECK_DEADLOCK FALSE
