SPECIFICATION Spec
CONSTANTS
  WordBits = 3
  WordCount = 3
  LastPacket = 11
  MaxAttempts = 12
INVARIANTS OpenedOnce NonceIsFresh WindowIsExact
CHECK_DEADLOCK FALSE
