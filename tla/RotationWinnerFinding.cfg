\* The loser of a claim records the use first and the winner fails.
SPECIFICATION Spec
CONSTANTS
  Sessions = {s1}
  Tokens = {t1, t2}
  u1 = u1
  Users = {u1}
  Owner <- OneOwner
  Requests = {r1, r2}
  TTL = 1
  Retention = 1
  MaxTime = 1
  CanAbort = FALSE
  NoToken = NoToken
  NoSession = NoSession
SYMMETRY Symmetry
PROPERTIES
  FirstRequestWins
