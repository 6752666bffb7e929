CONSTANTS
  idle = idle
  s1 = s1
  s2 = s2
  Head = Head
  Irq = Irq
  None = None
  Idle <- idle
  Slot <- ThreeSlots
  Ops <- LifeOps
  IrqOps <- ShellOps
  MaxId = 3
SPECIFICATION HandlerSpec
CHECK_DEADLOCK FALSE
INVARIANTS
  TypeOK
  ListIntact
  ResourcesOwned
  CriticalSection
PROPERTY
  PickEnds
