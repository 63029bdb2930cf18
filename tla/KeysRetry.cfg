SPECIFICATION Spec
CONSTANTS
  Pointers = {0, 1}
  LaneCount = 3
  Gap = 1
  Variants <- MCLinuxSpaced
  MaxFrames = 4
  MaxFaults = 1
  Frames <- MCTaps
INVARIANT RetryFinishes
CHECK_DEADLOCK FALSE
