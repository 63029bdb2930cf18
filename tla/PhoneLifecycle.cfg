SPECIFICATION FairSpec
CONSTANTS
  Helpers = {"watchdog"}
  MaxSessions = 3
  MaxObjects = 2
  MaxPosts = 2
  MaxRefusals = 1
INVARIANT NothingForgotten
PROPERTIES EndsByItsOwn Reconnects
CHECK_DEADLOCK FALSE
