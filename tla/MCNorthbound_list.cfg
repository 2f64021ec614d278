SPECIFICATION FairSpec
CONSTANTS
  Keys = {k1, k2}
  Watchers = {w1}
  Listers = {l1}
  Nobody = Nobody
  MaxPuts = 2
INVARIANTS
  ListIsSnapshot
  OrderUnlessOverlap
PROPERTIES
  CallsReturn
\* After a crash, or when the server could not start, nothing happens any more.
CHECK_DEADLOCK FALSE
