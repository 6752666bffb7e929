SPECIFICATION Spec
CONSTANTS
  Space = {a, b}
  Map = {m}
  Frame <- FiveFrames
  Kernel = 0
  pde_max = 2
  PAGE_DIR_SIZE = 3
  PAGE_TABLE_SIZE = 2
  Touched <- ThreePages
  Ranges <- SomeRanges
  Copies <- SomeCopies
  User <- NoUser
  Flags = {FALSE}
  CopyNew = FALSE
  Fresh <- Garbage
  MaxUses = 2
  MaxHeld = 2
  Pool <- Lowest
  None = None
INVARIANTS TypeOK  TablesPrivate
 
CHECK_DEADLOCK FALSE
SYMMETRY Alike
