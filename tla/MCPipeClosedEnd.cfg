SPECIFICATION Spec
CONSTANTS
  MaxPipes = 2
  PipeBufSize = 2
  Byte = {1, 2}
  Data <- Writes
  Counts <- Reads
  PointersFault = TRUE
PROPERTY ClosedEndTakesNothing
