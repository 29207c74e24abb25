SPECIFICATION Spec
CONSTANTS
  Bounds <- LateMedia
  MaxAttempts = 3
  Shortest = 1
  Longest = 3
INVARIANT
  CollectedIsWhole
CHECK_DEADLOCK FALSE
