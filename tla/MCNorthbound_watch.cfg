SPECIFICATION FairSpec
CONSTANTS
  Keys = {k1}
  Watchers = {w1, w2, w3}
  Listers = {}
  Nobody = Nobody
  MaxPuts = 1
INVARIANTS
  TypeOK
  PanicCauses
  NothingAfterRemoval
PROPERTIES
  EventReachesWatchers
\* After a crash, or when the server could not start, nothing happens any more.
CHECK_DEADLOCK FALSE
