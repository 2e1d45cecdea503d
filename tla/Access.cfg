\* Every endpoint, every way to name a tenant, any world, two changes of it.
SPECIFICATION Spec
CONSTANT
  MaxChanges = 2
INVARIANTS
  GrantedOnlyWithin
  RefusalsAreJustified
  OnRecord
CHECK_DEADLOCK FALSE
