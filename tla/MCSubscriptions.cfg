SPECIFICATION FairSpec
CONSTANTS
  Nodes = {n1}
  NoNode = NoNode
  CellCount = 2
  NoCell = NoCell
  EmptyID = EmptyID
  Styles = 2
  MaxConnections = 2
  MaxPeriod = 1
INVARIANTS
  TypeOK
  ActionsComplete
  SubscriptionsInv
PROPERTIES
  MisfiledOnlyIfRekeyed
  RemovalLeavesOnlyLate
  AnnouncedIsSettled
