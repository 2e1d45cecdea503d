\* Three keys, room for two, windows that events straddle, a restart.
SPECIFICATION MonitorSpec
CONSTANTS
  k1 = k1
  k2 = k2
  k3 = k3
  Keys = {k1, k2, k3}
  Limit <- MCLimit
  Window = 1
  MaxBuckets = 2
  MaxRetries = 2
  MaxClock = 3
  MaxEvents = 5
  MaxRestarts = 1
INVARIANTS
  MonitorTypeOK
  NoMissedAlert
PROPERTIES
  AlertsAreEarned
  AttemptsRunOut
CHECK_DEADLOCK FALSE
