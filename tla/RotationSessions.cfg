\* Two sessions of one user: wrong sessions, revoke-all, suspension, crashes.
SPECIFICATION Spec
CONSTANTS
  Sessions = {s1, s2}
  Tokens = {t1, t2, t3}
  u1 = u1
  Users = {u1}
  Owner <- OneOwner
  Requests = {r1, r2}
  TTL = 0
  Retention = 0
  MaxTime = 1
  CanAbort = TRUE
  NoToken = NoToken
  NoSession = NoSession
SYMMETRY Symmetry
INVARIANTS
  OneLiveTokenPerSession
  IssuedTokenMatchesSession
PROPERTIES
  RevocationIsFinal
