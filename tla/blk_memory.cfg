CONSTANTS
  PoolBase = 1024
  MaxQueues = 2
  VqDescSize = 64
  VqAvailSize = 64
  VqUsedSize = 64
  BufPoolEnd = 1520
  MaxData = 20
  GpaSpace = 2048
  HalfWord = 256
  QueueNumMax = 8
  DefaultSize = 4
  ExoticBase <- MCExoticBase
  ExoticSize <- MCExoticSize
  DevQueues = {0}
  IdxSpace = 16
  MmioBase = 512
  NoBuf = NoBuf
  MaxOps = 4
  MaxInputs = 1
  Kinds <- MemoryKinds
  VqIdxs = {0, 1, 2}
  Sizes = {0, 9}
  BufIds = {1, 2}
  DataLens = {0, 17, 40}
  DescLens = {4, 200}
  Regions = {0, 6}
  Gpas = {0, 1024, 1519, 2047}
  ConfigOffs = {255, 300}
  StatusArgs <- MCStatusArgs
  Corruptions <- MCCorruptions

SPECIFICATION Spec
CHECK_DEADLOCK FALSE
INVARIANTS
  BuffersDisjoint
  WritesConfined
  DescTargetsOffRings
