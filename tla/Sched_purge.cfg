CONSTANTS
  idle = idle
  s1 = s1
  s2 = s2
  Head = Head
  Irq = Irq
  None = None
  Idle <- idle
  Slot <- TwoSlots
  Ops <- ExitOps
  IrqOps <- NoOps
  MaxId = 2
SPECIFICATION FairSpec
CHECK_DEADLOCK FALSE
PROPERTIES
  KilledIsPurged
