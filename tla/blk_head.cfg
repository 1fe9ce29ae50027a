CONSTANTS
  PoolBase = 1024
  MaxQueues = 2
  VqDescSize = 64
  VqAvailSize = 64
  VqUsedSize = 64
  BufPoolEnd = 1520
  MaxData = 20
  GpaSpace = 2048
  HalfWord = 256
  QueueNumMax = 8
  DefaultSize = 4
  ExoticBase <- MCExoticBase
  ExoticSize <- MCExoticSize
  DevQueues = {0}
  IdxSpace = 16
  MmioBase = 512
  NoBuf = NoBuf
  MaxOps = 4
  MaxInputs = 1
  Kinds <- ChainKinds
  VqIdxs = {0}
  Sizes = {0}
  BufIds = {1}
  DataLens = {17}
  DescLens = {4}
  Regions = {0, 6}
  Gpas = {}
  ConfigOffs = {}
  StatusArgs <- MCStatusArgs
  Corruptions <- MCCorruptions

SPECIFICATION Spec
CHECK_DEADLOCK FALSE
PROPERTIES
  HeadOfChainPublished
