SPECIFICATION FairSpec
CONSTANTS
  Nodes = {n1}
  NoNode = NoNode
  CellCount = 1
  NoCell = NoCell
  EmptyID = EmptyID
  Styles = 1
  MaxConnections = 1
  MaxPeriod = 2
PROPERTIES
  PeriodReachesNodes
