SPECIFICATION Spec
CONSTANTS
  NBlocks = 3
  NInodes = 3
  MaxDirect = 2
  UnitsPerBlock = 3
  Name = {a, b}
  Value = {v}
  Offsets = {2, 4}
  Lengths = {0, 2}
  Tails <- mcTails
  Dot = Dot
  DotDot = DotDot
  Zero = Zero
  Hole = Hole
SYMMETRY Names
INVARIANT TypeOK
INVARIANT BlocksHaveOneOwner
INVARIANT FreeCountMatchesBitmap
INVARIANT DirectoriesHoldEntries
INVARIANT EntriesNameOnce
PROPERTY OnlyFaultsLeak
PROPERTY OnlyFaultsOrphan
PROPERTY ImplementsTree
