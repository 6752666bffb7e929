CONSTANTS
  idle = idle
  s1 = s1
  s2 = s2
  Head = Head
  Irq = Irq
  None = None
  Idle <- idle
  Slot <- ThreeSlots
  Ops <- CreateOps
  IrqOps <- NoOps
  MaxId = 3
SPECIFICATION FairSpec
PROPERTIES
  EveryTaskRuns
  TaskLockReleased
