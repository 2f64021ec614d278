SPECIFICATION FairSpec
CONSTANTS
  Channels = {c1, c2}
  NoChannel = NoChannel
  Openers = {p1, p2}
  Closers = {k1}
  Nobody = Nobody
  MaxStreams = 3
INVARIANTS
  TypeOK
  MapsAgree
  WriterIsReader
  ClosedIffForgotten
  BrokerInv
  OneStreamPerChannel
PROPERTIES
  OnlyRacersReplace
  CloseReachesAll
  ImplementsTable
  CallsReturn
