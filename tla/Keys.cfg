SPECIFICATION FairSpec
CONSTANTS
  Pointers = {0, 1}
  LaneCount = 3
  Gap = 1
  Variants <- MCSinks
  MaxFrames = 3
  MaxFaults = 1
  Frames <- MCTaps
INVARIANTS BeliefMatchesOs KeysFollowFingers SlideHasNoGap SharedLaneStaysDown
PROPERTIES RepressWaits KeysSettle
CHECK_DEADLOCK FALSE
