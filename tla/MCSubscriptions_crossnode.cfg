SPECIFICATION Spec
CONSTANTS
  Nodes = {n1, n2}
  NoNode = NoNode
  CellCount = 1
  NoCell = NoCell
  EmptyID = EmptyID
  Styles = 1
  MaxConnections = 1
  MaxPeriod = 1
INVARIANTS
  FiledUnderOwnCell
