CONSTANTS
  PoolBase = 1024
  MaxQueues = 2
  VqDescSize = 128
  VqAvailSize = 64
  VqUsedSize = 64
  BufPoolEnd = 1968
  MaxData = 8
  GpaSpace = 2048
  HalfWord = 256
  QueueNumMax = 8
  DefaultSize = 4
  ExoticBase <- MCExoticBase
  ExoticSize <- MCExoticSize
  DevQueues = {0, 1}
  IdxSpace = 16
  MmioBase = 512
  BufIds = {1, 2}
  NoBuf = NoBuf
  A = A
  B = B
  ProgramsA <- OneBuffer
  ProgramsB <- Resetting
  IterArgs = {0}
  MaxIter = 2
  MaxOps = 8

SPECIFICATION Spec
INVARIANT
  ThreadBuffersDisjoint
