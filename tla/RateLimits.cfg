\* Two checks of one client under every algorithm; they overlap, die and outlast keys.
SPECIFICATION Spec
CONSTANTS
  Checks = {c1, c2}
  Limits = {1, 2}
  Window = 3
  Life = 3
  Delay = 2
  MaxTime = 6
  MaxRequests = 4
SYMMETRY Symmetry
INVARIANTS
  TypeOK
  SerialQuota
  OverlapQuota
PROPERTIES
  DeniedHasSpent
CHECK_DEADLOCK FALSE
