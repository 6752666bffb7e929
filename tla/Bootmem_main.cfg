CONSTANTS
  PAGE_SIZE = 4
  ADDR_LIMIT = 32
  MAX_MEM_REGIONS = 3
  KERNEL_PHYS_START = 8
  KERNEL_PHYS_END = 14
  StructSize = 1
  MaxAddr = 28
  MaxEntries = 3
  Requests <- SomeRequests
  MaxAllocs = 1
  Regions <- AvailableMap
  MmapEntries <- LoaderMap
  KmapTables = 1
  NULL = NULL
  WORD = 8
  MAX_STRING_LEN = 6
  SIZE_1K = 4
  VGA_WIDTH = 5
  VGA_HEIGHT = 4
  TOP_LINE = 2
  shell_prompt <- Prompt
  PanicLines <- Panics
  Keys <- Letters
  MaxKeys = 5
  Command <- Commands
  StatusLine <- Status
  OK_STR <- Okay
  FAIL_STR <- Fail
  UnknownCommand <- UnknownText
  KernelBuilt <- BuiltText
  AppleText <- AppleSays
SPECIFICATION FairSpec
CHECK_DEADLOCK FALSE
INVARIANTS
  TypeOK
  InUseNotReleased
  AllocsApart
  OtherAreasPreserved
  
  ListOpsFaithful
  RegistryFaithful
  
  EchoFaithful

  
