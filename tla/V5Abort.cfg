SPECIFICATION Spec
CONSTANTS
  a = a
  b = b
  NoTouch = NoTouch
  NoFrame = NoFrame
  Partial = Partial
  Touch <- MCTouch
  RingSize = 2
  SendWindow = 2
  QueueCapacity = 3
  MaxGenerations = 1
  MaxConnections = 1
  MaxTouches = 1
  MaxFrames = 2
  MaxPings = 1
  MaxFaults = 1
  MaxLosses = 0
INVARIANT AbortMeansReleased
CHECK_DEADLOCK FALSE
