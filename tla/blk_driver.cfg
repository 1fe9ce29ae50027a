CONSTANTS
  PoolBase = 1024
  MaxQueues = 2
  VqDescSize = 128
  VqAvailSize = 32
  VqUsedSize = 32
  BufPoolEnd = 1520
  MaxData = 20
  GpaSpace = 2048
  HalfWord = 256
  QueueNumMax = 8
  DefaultSize = 4
  ExoticBase <- MCExoticBase
  ExoticSize <- MCExoticSize
  DevQueues = {0}
  IdxSpace = 16
  MmioBase = 512
  NoBuf = NoBuf
  MaxOps = 8
  MaxInputs = 1
  Kinds <- DriverKinds
  VqIdxs = {0, 1}
  Sizes = {2, 17}
  BufIds = {1}
  DataLens = {17}
  DescLens = {4}
  Regions = {0}
  Gpas = {}
  ConfigOffs = {}
  StatusArgs <- MCStatusArgs
  Corruptions <- MCCorruptions

SPECIFICATION Spec
CHECK_DEADLOCK FALSE
INVARIANTS
  TypeOK
  RingInStep
  OpenChainLinked
