CONSTANTS
  c1 = c1
  c2 = c2
  Ctx <- OneCtx
  Block <- ThreeBlocks
  BlockSize = 4
  HeaderSize = 1
  ObjectSize <- TwoSizes
SPECIFICATION FairSpec
INVARIANTS
  TypeOK
  HandedOutOnce
  NothingLost
PROPERTIES
  NullOnlyWhenFull
  CallsReturn
