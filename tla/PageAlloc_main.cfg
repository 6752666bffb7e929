CONSTANTS
  c1 = c1
  c2 = c2
  NoCtx = NoCtx
  PageCount = 8
  ORDER_MAX = 2
  Usable <- HoleUsable
  Critical <- KernelPages
  Stray <- AnyOrder
  Ctx <- TwoCtx
  MaxRefs = 2
SPECIFICATION FairSpec
INVARIANTS
  TypeOK
  NoOverlap
  NoFrameLost
  FreeCountsAgree
  Coalesced
  FailsOnlyWhenFull
  UseCountsAgree
PROPERTIES
  RefinesOwnership
  LockReleased
