\* Three calls, two codes, one lifetime; calls may die.
SPECIFICATION FairSpec
CONSTANTS
  d1 = d1
  Slugs = {d1}
  Accounts = {a1}
  SlugOf <- OneSlug
  Otps = {o1, o2}
  Codes = {k1, k2}
  Calls = {c1, c2, c3}
  Lifetime = 1
  MaxTime = 1
  CanAbort = TRUE
  NoOtp = NoOtp
  NoAccount = NoAccount
  NoCode = NoCode
INVARIANTS
  OpeningsAreConcurrent
PROPERTIES
  ContentionServesSomebody
