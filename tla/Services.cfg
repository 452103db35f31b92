SPECIFICATION ServiceSpec
CONSTANTS
  FS_NODE_MAX = 4
  FS_DATA_MAX = 2
  LongNames = {"long"}
  FsPaths <- MCPaths
  Texts <- MCTexts
  Layout <- MCLayout
  Names = {"core", "a", "b", "c"}
  MODULE_LIMIT = 4
  c1 = c1
  c2 = c2
  Callers = {c1, c2}
  MaxUsers = 1
  NET_ARP_CACHE_SIZE = 2
  Addresses = {1, 2, 3}
  m1 = m1
  m2 = m2
  Macs = {m1, m2}
  Lifetimes = {1, 2}
  MaxTime = 3
  NET_ROUTE_MAX = 3
  Bits = {1, 2}
  Metrics = {1, 2}
  KLOG_CAPACITY = 3
  Bytes = {1, 2}
  MaxWritten = 8
  RANDOM_OUTPUT_BYTES = 3
  ReadyBits = 256
  HardwareBits = 64
  Estimates = {52, 128, 255}
  Requests = {1, 2, 4}
  Readings = {0, 1, 2}
  MaxBlocks = 3
  CommandSize = 4
  VGA_WIDTH = 9
  SerialBytes = {3, 13, 97, 127, 200}
INVARIANTS
  FilesAgree
  ModulesSound
  NetTablesSound
  ScreenHonest
PROPERTIES
  FilesImplementTree
  StreamsExact
CHECK_DEADLOCK FALSE
