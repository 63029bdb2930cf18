SPECIFICATION Spec
CONSTANTS
  a = a
  NoTouch = NoTouch
  NoFrame = NoFrame
  Partial = Partial
  Touch <- MCOne
  RingSize = 2
  HostWindow = 2
  MaxSessions = 2
  MaxTouches = 1
  MaxFrames = 2
  MaxInFlight = 2
  MaxTrouble = 1
INVARIANTS HeldFollowsSession OneAdapterPerWindow AckedMeansApplied
CHECK_DEADLOCK FALSE
