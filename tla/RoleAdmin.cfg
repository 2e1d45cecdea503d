\* Two calls or a bulk of two, a member role below the administrator's.
SPECIFICATION FairSpec
CONSTANTS
  admin = admin
  member = member
  u1 = u1
  u2 = u2
  Users = {u1, u2}
  Updaters = {u1}
  Roles = {admin, member}
  Admins = {admin}
  Expiring <- MCExpiring
  Parents <- MCParents
  Calls = {c1, c2}
  Duration = 0
  MaxTime = 1
  MaxAsked = 1
INVARIANTS
  DuplicatesNeedOverlap
  GrantsByAdmins
  BulkCounts
PROPERTIES
  SerialRolesExact
  CleanerDeletesOnlyExpired
  ExpiredEventuallyGone
CHECK_DEADLOCK FALSE
