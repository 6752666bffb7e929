CONSTANTS
  c1 = c1
  c2 = c2
  NoCtx = NoCtx
  PageCount = 7
  ORDER_MAX = 2
  Usable <- AllUsable
  Critical <- NoPages
  Stray <- ZeroWord
  Ctx <- OneCtx
  MaxRefs = 1
SPECIFICATION Spec
INVARIANTS
  NoOverlap
