SPECIFICATION FairSpec
CONSTANTS
  Indications = {i1}
  NoIndication = NoIndication
  Forwarders = {f1}
  Readers = {r1}
  BufferMaxSize = 2
  MaxSends = 2
PROPERTIES
  ClosedUnblocksReader
