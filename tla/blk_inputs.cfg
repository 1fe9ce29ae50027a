CONSTANTS
  PoolBase = 1024
  MaxQueues = 3
  VqDescSize = 64
  VqAvailSize = 64
  VqUsedSize = 64
  BufPoolEnd = 1712
  MaxData = 20
  GpaSpace = 2048
  HalfWord = 256
  QueueNumMax = 8
  DefaultSize = 4
  ExoticBase <- MCExoticBase
  ExoticSize <- MCExoticSize
  DevQueues = {0, 1}
  IdxSpace = 16
  MmioBase = 512
  NoBuf = NoBuf
  MaxOps = 4
  MaxInputs = 2
  Kinds <- AllKinds
  VqIdxs = {0, 1, 2, 3}
  Sizes = {0, 17}
  BufIds = {1}
  DataLens = {17}
  DescLens = {4}
  Regions = {0}
  Gpas = {1700}
  ConfigOffs = {256}
  StatusArgs <- MCStatusArgs
  Corruptions <- MCCorruptions

SPECIFICATION Spec
CHECK_DEADLOCK FALSE
INVARIANTS
  RingsProgrammed
