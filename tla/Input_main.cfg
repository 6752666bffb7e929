SPECIFICATION FairSpec
CONSTANTS
  Idle = idle_task
  Shell = shell_task
  Task = {idle_task, shell_task, extra_task}
  Device <- OneDevice
  Exception <- SomeExceptions
  Code <- SomeCodes
  MAX_INTERRUPT_HANDLERS = 2
  MaxKeys = 4
INVARIANTS TypeOK NothingInService LineFaithful
PROPERTIES KeysRead TicksServed
