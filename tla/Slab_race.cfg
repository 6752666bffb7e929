CONSTANTS
  c1 = c1
  c2 = c2
  Ctx <- TwoCtx
  Block <- OneBlock
  BlockSize = 4
  HeaderSize = 1
  ObjectSize <- OneSize
SPECIFICATION Spec
INVARIANT
  HandedOutOnce
