SPECIFICATION Spec
CONSTANTS
  MaxPipes = 2
  PipeBufSize = 2
  Byte = {1, 2}
  Data <- Writes
  Counts <- Reads
  PointersFault = TRUE
INVARIANT TypeOK
INVARIANT RingConsistent
INVARIANT TakenWhileOpen
PROPERTY ImplementsChannels
