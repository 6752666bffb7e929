SPECIFICATION Spec
CONSTANTS
  Space = {a}
  Map = {m}
  Frame <- FiveFrames
  Kernel = 0
  pde_max = 2
  PAGE_DIR_SIZE = 3
  PAGE_TABLE_SIZE = 2
  Touched <- ThreePages
  Ranges <- SomeRanges
  Copies <- SomeCopies
  User <- AllUser
  Flags = {TRUE, FALSE}
  CopyNew = FALSE
  Fresh <- Garbage
  MaxUses = 2
  MaxHeld = 2
  Pool <- Lowest
  None = None
INVARIANTS Reclaimed
CHECK_DEADLOCK FALSE
