----------------------------- MODULE GuestPool -----------------------------
(***************************************************************************)
(* The reserved DRAM region of a harness and the arithmetic done on it:    *)
(* the ring areas of the virtqueues, the buffer pool behind them, the bump *)
(* allocator, the clamp of absolute writes, the queue-size rounding and    *)
(* the addresses of the MMIO windows a descriptor may name instead of a    *)
(* buffer.  There is no state here: VirtioBlk and BlkThreads apply these   *)
(* operators to theirs.                                                    *)
(*                                                                         *)
(* Addresses are byte addresses.  GpaSpace stands for 2^64, and HalfWord   *)
(* for 2^32, the value at which a 64-bit address is split into its _LO and *)
(* _HI register.  Both are parameters, so that small instances wrap too.   *)
(***************************************************************************)
EXTENDS Integers

CONSTANTS
  PoolBase,     \* kPoolBase, first byte of the reserved region
  MaxQueues,    \* kMaxQueues, number of ring areas
  VqDescSize,   \* kVqDescSize, bytes of a descriptor table area
  VqAvailSize,  \* kVqAvailSize, bytes of an avail ring area
  VqUsedSize,   \* kVqUsedSize, bytes of a used ring area
  BufPoolEnd,   \* kBufPoolEnd, first byte behind the buffer pool
  MaxData,      \* cap of one write's payload, 4096 in the code
  GpaSpace,     \* 2^64
  HalfWord,     \* 2^32
  QueueNumMax,  \* what R_QUEUE_NUM_MAX answers for a queue the device has
  DefaultSize,  \* queue size when the request says 0, 64 in the code
  ExoticBase,   \* first byte of each of the four MMIO windows
  ExoticSize    \* and the bytes each of them has

VqStride == VqDescSize + VqAvailSize + VqUsedSize
BufPoolBase == PoolBase + MaxQueues * VqStride
BufPoolMid == BufPoolBase + (BufPoolEnd - BufPoolBase) \div 2

Queues == 0 .. MaxQueues - 1

ASSUME PoolAssumption ==
  /\ PoolBase \in Nat \ {0}
  /\ MaxQueues \in Nat \ {0}
  /\ VqDescSize \in Nat /\ VqAvailSize \in Nat /\ VqUsedSize \in Nat
  /\ VqStride > 0
  /\ MaxData \in Nat
  /\ BufPoolEnd \in Nat
  /\ BufPoolBase + MaxData + 16 < BufPoolEnd

ASSUME AlignAssumption == PoolBase % 16 = 0 /\ VqStride % 16 = 0

ASSUME WordAssumption ==
  /\ HalfWord \in Nat \ {0}
  /\ GpaSpace \in Nat
  /\ BufPoolEnd < GpaSpace

\* A device answers at most 1024 entries (VIRTQUEUE_MAX_SIZE).
ASSUME SizeAssumption == QueueNumMax \in 1 .. 1024 /\ DefaultSize \in Nat \ {0}

\* The MMIO windows lie below DRAM and are whole numbers of 32-bit registers.
ASSUME ExoticAssumption ==
  /\ ExoticBase \in [0 .. 3 -> Nat]
  /\ ExoticSize \in [0 .. 3 -> Nat \ {0}]
  /\ \A r \in 0 .. 3 : /\ ExoticSize[r] % 4 = 0
                       /\ ExoticBase[r] + ExoticSize[r] <= PoolBase

----------------------------------------------------------------------------
(* Ring areas *)

DescGpa(i)  == PoolBase + i * VqStride
AvailGpa(i) == PoolBase + i * VqStride + VqDescSize
UsedGpa(i)  == PoolBase + i * VqStride + VqDescSize + VqAvailSize

\* The two registers an address is programmed through, and what the device
\* makes of them.
Lo(gpa) == gpa % HalfWord
Hi(gpa) == gpa \div HalfWord
Joined(lo, hi) == hi * HalfWord + lo

----------------------------------------------------------------------------
(* Buffer pool *)

Lesser(a, b) == IF a <= b THEN a ELSE b

AlignDown16(x) == x - (x % 16)

AllocFits(alloc, len) == alloc + len + 16 <= BufPoolEnd

\* Plausible slip: rounding the end of the buffer down without the pad.
NextAlloc_Unpadded(alloc, len) == AlignDown16(alloc + len)

NextAlloc(alloc, len) == AlignDown16(alloc + len + 16)

\* The clamp as it was before the repair ARCHITECTURE.md tells of as Bug 3:
\* gpa + len wraps around at 2^64.
ClampGpa_Wrapping(gpa, len) ==
  IF gpa < BufPoolBase \/ (gpa + len) % GpaSpace > BufPoolEnd
  THEN BufPoolBase + (gpa % (BufPoolEnd - BufPoolBase - len))
  ELSE gpa

ClampGpa(gpa, len) ==
  IF gpa < BufPoolBase \/ gpa > BufPoolEnd - len
  THEN BufPoolBase + (gpa % (BufPoolEnd - BufPoolBase - len))
  ELSE gpa

----------------------------------------------------------------------------
(* Queue size *)

PowersOfTwo == {1, 2, 4, 8, 16, 32, 64, 128, 256, 512, 1024}

\* Clearing the lowest set bit until one bit is left keeps the highest one.
PowerFloor(n) == CHOOSE p \in PowersOfTwo : p <= n /\ n < 2 * p

\* Plausible slip: the device's limit is not applied.
SizeFor_Uncapped(requested) ==
  PowerFloor(IF requested = 0 THEN DefaultSize ELSE requested)

SizeFor(requested) ==
  PowerFloor(Lesser(IF requested = 0 THEN DefaultSize ELSE requested,
                    QueueNumMax))

----------------------------------------------------------------------------
(* MMIO windows a descriptor may point at *)

ExoticAddr(region, id) ==
  LET r == (region - 1) % 4
  IN  ExoticBase[r] + (id % (ExoticSize[r] \div 4)) * 4

ExoticLen(len) == Lesser(len, 4)

============================================================================
