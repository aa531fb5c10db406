SPECIFICATION Spec
CONSTANTS
  HostPids = {1, 2, 3, 4}
  PidBits = 4
  Named = {0, 1, 2, 15}
  Owned = {1, 3}
  MaxDepth = 2
  TotalMem = 2
  Iface = {i1}
  Requested = 3
  MaxCount = 2
  Base = 6
  MaxFrame = 6
  MaxHello = 1
  MaxWrites = 2
  Bodies <- MCBodies
  Nvidia <- MCNvidia
  DrmDirs <- MCDrmDirs
  AmdFiles <- MCAmdFiles
  Pid = {11, 12}
  MaxContexts = 2
  Blobs <- MCBlobs
  Services <- MCServices
  Mhz = 2
  MaxClock = 10
  MinInterval = 1
  Coarse = 2
  MaxTime = 3
  Pod = {p1, p2}
  Node = {n1}
  MaxU8 = 1
  MaxU32 = 6
  MaxU64 = 9
  PodContainers <- MCPodContainers
  Capacities <- MCCapacities
  Usages <- MCUsages
  Containers <- MCContainers
  Short <- MCShort
  HistoryLen = 2
  MaxWork = 3
  Targets <- MCTargets
  Instance = {s1, s2}
  MaxGeneration = 2
  RowSet <- MCRowSet
  MaxListed = 3
  MaxTyped = 2
  MaxActive = 2
  LogCapacity = 4
  TtlInfo = 1
  TtlWarning = 2
  TtlError = 3
  MaxPosts = 5
  MaxInstant = 3
  Commands <- MCCommands
  Score <- MCScore
  Queries = {"s", "k"}
  Tabs = {"procs", "net"}
  HistoryMax = 2
SYMMETRY MCSymmetry
INVARIANTS
  TreeComplete
  ActionsExact
  SparklineHonest
  MessagesArriveWhole
  RowsAttributed
  AppleSound
  ClusterAddsUp
  NoPhantomTraffic
  ClientSafe
  ServesOwnPair
  RowsInOrder
  ToastsInLog
  PaletteHonest
CHECK_DEADLOCK FALSE
