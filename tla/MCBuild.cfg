\* Programs of up to six lines; images of up to four files on six blocks.
SPECIFICATION Spec
CONSTANTS
  TotalBlocks = 8
  FirstData = 2
  NInodes = 5
  MaxDirect = 2
  UnitsPerBlock = 5
  UnitBytes = 1024
  Dot = Dot
  DotDot = DotDot
  Zero = Zero
  Hole = Hole
  Scenarios <- mcScenarios
CHECK_DEADLOCK FALSE
INVARIANTS
  TypeOK
  ProgramMeansSource
  SegmentHoldsSections
  ImageSound
