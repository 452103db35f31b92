SPECIFICATION MachineSpec
CONSTANTS
  d0 = d0
  d1 = d1
  s0 = s0
  s1 = s1
  HEAP_BYTES = 320
  HEADER = 40
  CANARY = 8
  UINT64_MAX = 1023
  Sizes = {0, 1, 24, 40, 1020}
  Counts = {2, 43}
  MemoryPages = 7
  KernelPages = 1
  PageRange = 16
  DMA_PAGE_SIZE = 4
  DMA_UINT64_MAX = 127
  Handles = {b1, b2}
  DmaSizes = {0, 3, 9, 68, 124}
  Alignments = {1, 8, 12}
  Limits = {20, 128}
  Frames = {f1, f2}
  Tables = 3
  Data = {d0, d1}
  VirtioSectors = {s0, s1}
  IndexRange = 4
  MaxRequests = 4
  Sectors = 3
  BLOCK_DEVICE_MAX = 3
  ATA_MAX_DEVICES = 2
  LBA28_SECTORS = 6
  WordRange = 9
  QueueSizes = {2, 3, 256, 257}
INVARIANTS
  
  PagesAccounted
  DmaSound
  PagingSound
  TransfersExact
  RegistrySound
  AnswerIsOurs
PROPERTIES
  TranslationKept
  CallsReturn
CHECK_DEADLOCK FALSE
