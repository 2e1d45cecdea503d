\* One session over several lifetimes; handlers and cleaner run on.
SPECIFICATION FairSpec
CONSTANTS
  Sessions = {s1}
  Tokens = {t1, t2}
  u1 = u1
  Users = {u1}
  Owner <- OneOwner
  Requests = {r1, r2}
  TTL = 1
  Retention = 1
  MaxTime = 3
  CanAbort = FALSE
  NoToken = NoToken
  NoSession = NoSession
INVARIANTS
  UsedKeptWhileValid
  NobodyStranded
  MarkedWasExpired
PROPERTIES
  ExpiredSessionsEnd
  ReuseEndsAnswered
