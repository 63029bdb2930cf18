SPECIFICATION FairSpec
CONSTANTS
  a = a
  b = b
  NoTouch = NoTouch
  NoFrame = NoFrame
  Partial = Partial
  Touch <- MCOneFinger
  RingSize = 2
  SendWindow = 2
  QueueCapacity = 2
  MaxGenerations = 3
  MaxConnections = 3
  MaxTouches = 1
  MaxFrames = 3
  MaxPings = 0
  MaxFaults = 1
  MaxLosses = 1
PROPERTY EventuallyMirrors
CHECK_DEADLOCK FALSE
