\* Three requests race for the tokens of one session, with crashes.
SPECIFICATION Spec
CONSTANTS
  Sessions = {s1}
  Tokens = {t1, t2, t3}
  u1 = u1
  Users = {u1}
  Owner <- OneOwner
  Requests = {r1, r2, r3}
  TTL = 0
  Retention = 0
  MaxTime = 1
  CanAbort = TRUE
  NoToken = NoToken
  NoSession = NoSession
SYMMETRY Symmetry
INVARIANTS
  OneHeirPerToken
  ReuseEndsFamily
PROPERTIES
  ImplementsLineage
