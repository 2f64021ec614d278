SPECIFICATION FairSpec
CONSTANTS
  Monitors = {m1, m2}
  MaxArrivals = 3
  n1 = n1
  n2 = n2
  i1 = i1
  i2 = i2
  Names = {n1, n2}
  NoName = NoName
  NoID = NoID
  NoReport = NoReport
  NameOf <- MCNameOf
  Word = 4
  Clock = 8
  Messages <- MCMessages
  Content <- MCContent
INVARIANTS
  TypeOK
  SecondErrorIsFinal
  PanicCauses
  MonitorInv
  TopologyFollowsStore
  ReportsAreLatest
  EntityAgreesWithAnswer
PROPERTIES
  ArrivedIsTaken
  MeasurementsAdvance
\* A monitor may be stuck, and the process may be gone.
CHECK_DEADLOCK FALSE
