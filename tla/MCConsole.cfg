\* Seven scenarios; 9 characters of output, 3 keys, 2 reboots.
SPECIFICATION Spec
CONSTANTS
  Cols = 5
  Rows = 3
  MaxScrollback = 2
  Chars <- mcChars
  RamWords <- mcRamWords
  Windows <- mcWindows
  Sectors <- mcSectors
  SectorWords <- mcSectorWords
  FbWidth = 2
  FbHeight = 2
  MaxPixels = 9
  PresentMax = 5
  Art = 99
  Batch = 2
  Scenarios <- mcScenarios
CHECK_DEADLOCK FALSE
INVARIANTS
  TypeOK
  OneLoop
  KeysInOrder
  CursorOnItsRow
  GpuPaints
PROPERTIES
  ViewStays
  TransferWhole
