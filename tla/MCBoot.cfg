SPECIFICATION Spec
CONSTANTS
  MEM_BASE = 1073741824
  IMAGE_OFFSET = 524288
  LOW_SIZE = 1048576
  PAGING_MEMORY = 15728640
  PAGE_SIZE = 4096
  FAN = 512
  BootMap <- MCBootMap
  PFLASH1_PA = 32
  PFLASH1_VA = 8192
  PFLASH1_SIZE = 67108864
  Others = {28, 33}
  Ticks = 3
  JiffyWrap = 2
INVARIANTS
  KernelMapExact
  PageOfAddress
  OnlyTimerOn
  NoLostExpiry
PROPERTIES
  JiffyNotShort
  TicksContinue
