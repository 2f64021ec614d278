SPECIFICATION FairSpec
CONSTANTS
  Indications = {i1, i2}
  NoIndication = NoIndication
  Forwarders = {f1, f2}
  Readers = {r1, r2}
  BufferMaxSize = 2
  MaxSends = 4
INVARIANTS
  TypeOK
  NoLossNoReorder
  NoSleepOnWork
  EofMeansDrained
  StreamInv
PROPERTIES
  ImplementsQueue
  AcceptedIsDelivered
  BusyDrainCloses
