SPECIFICATION Spec
CONSTANTS
  Monitors = {m1}
  MaxArrivals = 2
  n1 = n1
  n2 = n2
  i1 = i1
  i2 = i2
  Names = {n1, n2}
  NoName = NoName
  NoID = NoID
  NoReport = NoReport
  NameOf <- MCNameOf
  Word = 4
  Clock = 8
  Messages = {}
  Content <- MCContent
INVARIANTS
  CloseIsGraceful
\* A monitor may be stuck, and the process may be gone.
CHECK_DEADLOCK FALSE
