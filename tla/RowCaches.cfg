\* Two readers and two writers of one row, for every cached service.
SPECIFICATION FairSpec
CONSTANTS
  Readers = {r1, r2}
  Writers = {w1, w2}
  Life = 1
  Delay = 1
  MaxWarmups = 1
  MaxRow = 2
  Cap = 5
PROPERTIES
  ImplementsCachedRow
  WriterSettles
  EventuallyCurrent
