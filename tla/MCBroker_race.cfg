SPECIFICATION Spec
CONSTANTS
  Channels = {c1}
  NoChannel = NoChannel
  Openers = {p1, p2}
  Closers = {k1}
  Nobody = Nobody
  MaxStreams = 2
PROPERTIES
  ExistingStreamReturned
\* Openers stop when the bound on streams is reached and no stream is left to close.
