\* Two concurrent calls, chained or direct; what was committed is emitted.
SPECIFICATION FairSpec
CONSTANTS
  Writers = {w1, w2}
  MaxTime = 2
  MaxRows = 3
INVARIANTS
  ParentIsNoYounger
  ForkNeedsOverlapOrTie
PROPERTIES
  CommittedIsEmitted
