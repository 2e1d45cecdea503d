\* Two calls, two addresses, a pool they can fill.
SPECIFICATION FairSpec
CONSTANTS
  Addresses = {a1, a2}
  Compressed = {a2}
  Calls = {c1, c2}
  Pool = 2
  Durations = {1}
  MaxTime = 2
INVARIANTS
  BlockHolds
  ClearingHolds
  StuckNeedsFullPool
PROPERTIES
  EveryCallEnds
CHECK_DEADLOCK FALSE
