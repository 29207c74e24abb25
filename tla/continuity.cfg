SPECIFICATION Spec
CONSTANTS
  Bounds <- Extents
  MaxAttempts = 3
  Shortest = 1
  Longest = 3
INVARIANTS
  OutagesAccounted
  MirrorBacked
CHECK_DEADLOCK FALSE
