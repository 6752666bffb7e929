CONSTANTS
  c1 = c1
  c2 = c2
  NoCtx = NoCtx
  PageCount = 4
  ORDER_MAX = 2
  Usable <- AllUsable
  Critical <- NoPages
  Stray <- AnyOrder
  Ctx <- TwoCtx
  MaxRefs = 2
SPECIFICATION Spec
INVARIANTS
  NoBlockLeaked
