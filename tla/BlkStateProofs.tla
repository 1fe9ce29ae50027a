--------------------------- MODULE BlkStateProofs ----------------------------
(***************************************************************************)
(* What the operators of GuestPool, VirtioMmio and BlkState return, for    *)
(* every layout that satisfies their assumptions: where areas, buffers and *)
(* clamped addresses lie, what sizes and MMIO addresses can be; the State  *)
(* of a thread, guest memory and the device keep their shape, queues keep  *)
(* their areas, registers of a queue hold what they are programmed with.   *)
(***************************************************************************)
EXTENDS BlkState, TLAPS

----------------------------------------------------------------------------
(* Areas, allocator and clamp *)

\* A multiple of a multiple of 16 is a multiple of 16.
LEMMA MultipleOf16 ==
  ASSUME NEW n \in Nat, NEW s \in Nat, s % 16 = 0
  PROVE  n * s \in Nat /\ (n * s) % 16 = 0
<1> DEFINE k == s \div 16
<1>1. k \in Nat /\ s = 16 * k
  BY Z3
<1>2. n * s = 16 * (n * k) /\ n * k \in Nat
  BY <1>1, Z3
<1> HIDE DEF k
<1>3. ASSUME NEW m \in Nat PROVE 16 * m \in Nat /\ (16 * m) % 16 = 0
  BY Z3
<1> QED
  BY <1>2, <1>3

\* The ring areas and the pool are where the constants say, and aligned.
LEMMA Layout ==
  /\ VqStride \in Nat \ {0}
  /\ BufPoolBase \in Nat /\ BufPoolBase % 16 = 0
  /\ BufPoolBase >= PoolBase + VqStride
  /\ BufPoolEnd \in Nat /\ BufPoolBase + MaxData + 16 < BufPoolEnd
<1>1. VqStride \in Nat \ {0}
  BY PoolAssumption DEF VqStride
<1>2. MaxQueues * VqStride \in Nat /\ (MaxQueues * VqStride) % 16 = 0
  BY <1>1, PoolAssumption, AlignAssumption, MultipleOf16
<1>3. MaxQueues * VqStride >= VqStride
  BY <1>1, PoolAssumption, Z3
<1> QED
  BY <1>1, <1>2, <1>3, PoolAssumption, AlignAssumption DEF BufPoolBase

\* Every queue's three areas are consecutive and lie before the pool.
LEMMA RingAreas ==
  ASSUME NEW i \in Queues
  PROVE  /\ DescGpa(i) \in Nat /\ AvailGpa(i) \in Nat /\ UsedGpa(i) \in Nat
         /\ DescGpa(i) >= PoolBase
         /\ AvailGpa(i) = DescGpa(i) + VqDescSize
         /\ UsedGpa(i) = AvailGpa(i) + VqAvailSize
         /\ UsedGpa(i) + VqUsedSize <= BufPoolBase
<1>1. VqStride \in Nat \ {0}
  BY Layout
<1>2. i \in Nat /\ i + 1 <= MaxQueues
  BY PoolAssumption DEF Queues
<1>3. i * VqStride \in Nat /\ (i + 1) * VqStride <= MaxQueues * VqStride
  BY <1>1, <1>2, PoolAssumption, Z3
<1>4. (i + 1) * VqStride = i * VqStride + VqStride
  BY <1>1, <1>2, Z3
<1>5. MaxQueues * VqStride \in Nat
  BY <1>1, PoolAssumption, Z3
<1> DEFINE m == i * VqStride
           t == MaxQueues * VqStride
<1>6. m \in Nat /\ t \in Nat /\ m + VqStride <= t
  BY <1>1, <1>3, <1>4, <1>5
<1>7. /\ DescGpa(i) = PoolBase + m
      /\ AvailGpa(i) = PoolBase + m + VqDescSize
      /\ UsedGpa(i) = PoolBase + m + VqDescSize + VqAvailSize
      /\ BufPoolBase = PoolBase + t
  BY DEF DescGpa, AvailGpa, UsedGpa, BufPoolBase
<1> HIDE DEF m, t
<1> QED
  BY <1>1, <1>6, <1>7, PoolAssumption DEF VqStride

\* Rounding down loses less than 16 and leaves a multiple of 16.
LEMMA AlignDown ==
  ASSUME NEW x \in Nat
  PROVE  /\ AlignDown16(x) \in Nat /\ AlignDown16(x) % 16 = 0
         /\ AlignDown16(x) <= x /\ x < AlignDown16(x) + 16
  BY Z3 DEF AlignDown16

\* An allocation that fits leaves an aligned allocator strictly behind the
\* buffer it returned, and still inside the pool.
LEMMA Allocation ==
  ASSUME NEW alloc \in BufPoolBase .. BufPoolEnd, NEW len \in Nat,
         AllocFits(alloc, len)
  PROVE  /\ NextAlloc(alloc, len) \in BufPoolBase .. BufPoolEnd
         /\ NextAlloc(alloc, len) % 16 = 0
         /\ alloc + len < NextAlloc(alloc, len)
         /\ alloc + len <= BufPoolEnd
<1>1. alloc + len + 16 \in Nat /\ alloc \in Nat
  BY Layout
<1>2. /\ NextAlloc(alloc, len) \in Nat /\ NextAlloc(alloc, len) % 16 = 0
      /\ NextAlloc(alloc, len) <= alloc + len + 16
      /\ alloc + len + 16 < NextAlloc(alloc, len) + 16
  BY <1>1, AlignDown DEF NextAlloc
<1> QED
  BY <1>1, <1>2, Layout DEF AllocFits

\* Whatever address is asked for, the clamp gives one from which len bytes fit
\* into the pool (the repair of ARCHITECTURE.md's Bug 3).
LEMMA Clamp ==
  ASSUME NEW gpa \in Nat, NEW len \in 0 .. MaxData
  PROVE  /\ ClampGpa(gpa, len) \in Nat
         /\ ClampGpa(gpa, len) >= BufPoolBase
         /\ ClampGpa(gpa, len) + len <= BufPoolEnd
<1> DEFINE span == BufPoolEnd - BufPoolBase - len
<1>1. span \in Nat \ {0} /\ BufPoolBase \in Nat /\ BufPoolEnd \in Nat
  BY Layout, PoolAssumption
<1>2. gpa % span \in 0 .. span - 1
  BY <1>1, Z3
<1>3. CASE gpa < BufPoolBase \/ gpa > BufPoolEnd - len
  <2>1. ClampGpa(gpa, len) = BufPoolBase + (gpa % span)
    BY <1>3 DEF ClampGpa
  <2>2. BufPoolEnd = BufPoolBase + span + len
    BY <1>1, PoolAssumption
  <2> HIDE DEF span
  <2> QED
    BY <2>1, <2>2, <1>1, <1>2, PoolAssumption
<1>4. CASE ~(gpa < BufPoolBase \/ gpa > BufPoolEnd - len)
  BY <1>1, <1>4, PoolAssumption DEF ClampGpa
<1> QED
  BY <1>3, <1>4

\* A queue gets at least one entry and no more than the device has.
LEMMA QueueSize ==
  ASSUME NEW requested \in Nat
  PROVE  SizeFor(requested) \in 1 .. QueueNumMax
<1> DEFINE m == Lesser(IF requested = 0 THEN DefaultSize ELSE requested,
                       QueueNumMax)
<1>1. m \in 1 .. 1024 /\ m <= QueueNumMax
  BY SizeAssumption DEF Lesser
<1> HIDE DEF m
<1>2. \E p \in PowersOfTwo : p <= m /\ m < 2 * p
  BY <1>1 DEF PowersOfTwo
<1>3. PowerFloor(m) \in PowersOfTwo /\ PowerFloor(m) <= m
  BY <1>2 DEF PowerFloor
<1>4. PowerFloor(m) \in Nat /\ PowerFloor(m) >= 1
  BY <1>3 DEF PowersOfTwo
<1>5. SizeFor(requested) = PowerFloor(m)
  BY DEF SizeFor, m
<1> QED
  BY <1>1, <1>3, <1>4, <1>5, SizeAssumption

\* An exotic descriptor names a whole register of one of the MMIO windows, so
\* what it covers lies below the pool.
LEMMA ExoticTarget ==
  ASSUME NEW region \in Nat, region # 0, NEW id \in Nat, NEW len \in Nat
  PROVE  /\ ExoticAddr(region, id) \in Nat /\ ExoticLen(len) \in Nat
         /\ ExoticAddr(region, id) + ExoticLen(len) <= PoolBase
<1> DEFINE r == (region - 1) % 4
           w == ExoticSize[r] \div 4
<1>1. r \in 0 .. 3
  BY Z3
<1> HIDE DEF r
<1>2. /\ ExoticBase[r] \in Nat /\ ExoticSize[r] \in Nat \ {0}
      /\ ExoticSize[r] % 4 = 0 /\ ExoticBase[r] + ExoticSize[r] <= PoolBase
  BY <1>1, ExoticAssumption
<1>3. w \in Nat \ {0} /\ 4 * w = ExoticSize[r]
  BY <1>2, Z3
<1> HIDE DEF w
<1>4. id % w \in Nat /\ id % w <= w - 1
  BY <1>3, Z3
<1>5. ExoticAddr(region, id) = ExoticBase[r] + (id % w) * 4
  BY DEF ExoticAddr, r, w
<1>6. ExoticLen(len) \in Nat /\ ExoticLen(len) <= 4
  BY DEF ExoticLen, Lesser
<1> QED
  BY <1>2, <1>3, <1>4, <1>5, <1>6, PoolAssumption

----------------------------------------------------------------------------
(* Arithmetic of slots and of split addresses *)

\* A number divided by d.
LEMMA DivMod ==
  ASSUME NEW x \in Nat, NEW d \in Nat \ {0}
  PROVE  /\ x \div d \in Nat /\ x % d \in 0 .. d - 1
         /\ x = d * (x \div d) + (x % d)
  BY Z3

\* Quotient and remainder are determined by the number.
LEMMA DivModUnique ==
  ASSUME NEW d \in Nat \ {0}, NEW k \in Nat, NEW r \in 0 .. d - 1
  PROVE  (d * k + r) % d = r
  BY Z3

\* Counters less than a ring apart use different slots.
LEMMA SlotsApart ==
  ASSUME NEW s \in Nat \ {0}, NEW a \in Nat, NEW b \in Nat,
         a < b, b < a + s
  PROVE  a % s # b % s
<1> SUFFICES ASSUME a % s = b % s PROVE FALSE
  OBVIOUS
<1> DEFINE j == a \div s
           k == b \div s
           r == a % s
<1>1. /\ j \in Nat /\ k \in Nat /\ r \in Nat
      /\ a = s * j + r /\ b = s * k + r
  <2>1. j \in Nat /\ r \in 0 .. s - 1 /\ a = s * j + r
    BY DivMod
  <2>2. k \in Nat /\ b = s * k + (b % s)
    BY DivMod
  <2> QED
    BY <2>1, <2>2
<1> HIDE DEF j, k, r
<1>2. s * k - s * j \in 1 .. s - 1
  BY <1>1, SMT
<1>3. s * k - s * j = s * (k - j)
  BY <1>1, Z3
<1>4. \A m \in Int : s * m \notin 1 .. s - 1
  BY Z3
<1>5. k - j \in Int
  BY <1>1
<1> QED
  BY <1>2, <1>3, <1>4, <1>5

\* The next slot of a counter is the slot of the next counter.
LEMMA NextSlot ==
  ASSUME NEW s \in Nat \ {0}, NEW x \in Nat
  PROVE  ((x % s) + 1) % s = (x + 1) % s
<1> DEFINE k == x \div s
           r == x % s
<1>1. k \in Nat /\ r \in 0 .. s - 1 /\ x = s * k + r
  BY DivMod
<1> HIDE DEF k, r
<1>2. CASE r + 1 < s
  <2>1. x + 1 = s * k + (r + 1) /\ r + 1 \in 0 .. s - 1
    BY <1>1, <1>2, Z3
  <2>2. r + 1 = s * 0 + (r + 1)
    BY <1>1, Z3
  <2>3. (s * k + (r + 1)) % s = r + 1 /\ (s * 0 + (r + 1)) % s = r + 1
    BY <1>1, <2>1, DivModUnique
  <2> QED
    BY <2>1, <2>2, <2>3 DEF r
<1>3. CASE r + 1 = s
  <2>1. x + 1 = s * (k + 1) + 0 /\ r + 1 = s * 1 + 0
    BY <1>1, <1>3, Z3
  <2>2. k + 1 \in Nat /\ 0 \in 0 .. s - 1
    BY <1>1
  <2>3. (s * (k + 1) + 0) % s = 0 /\ (s * 1 + 0) % s = 0
    BY <2>2, DivModUnique
  <2> QED
    BY <2>1, <2>3 DEF r
<1> QED
  BY <1>1, <1>2, <1>3

\* An address comes back from its two registers as it was.
LEMMA HalvesJoin ==
  ASSUME NEW gpa \in Nat
  PROVE  Joined(Lo(gpa), Hi(gpa)) = gpa
  BY WordAssumption, Z3 DEF Joined, Lo, Hi

\* Each queue has a descriptor table and an avail ring of its own.
LEMMA AreasApart ==
  ASSUME NEW i \in Queues, NEW j \in Queues, i # j
  PROVE  DescGpa(i) # DescGpa(j) /\ AvailGpa(i) # AvailGpa(j)
<1>1. i \in Nat /\ j \in Nat /\ VqStride \in Nat \ {0}
  BY Layout, PoolAssumption DEF Queues
<1>2. i * VqStride # j * VqStride
  BY <1>1, Z3
<1> DEFINE m == i * VqStride
           n1 == j * VqStride
<1>3. m \in Nat /\ n1 \in Nat /\ m # n1
  BY <1>1, <1>2
<1>4. /\ DescGpa(i) = PoolBase + m /\ AvailGpa(i) = PoolBase + m + VqDescSize
      /\ DescGpa(j) = PoolBase + n1 /\ AvailGpa(j) = PoolBase + n1 + VqDescSize
  BY DEF DescGpa, AvailGpa
<1> HIDE DEF m, n1
<1> QED
  BY <1>3, <1>4, PoolAssumption

----------------------------------------------------------------------------
(* The State of a thread *)

LEMMA ResetStateType == ResetState \in States
<1>1. \A i \in Queues : FreshVq(i) \in VqStates
  <2> SUFFICES ASSUME NEW i \in Queues PROVE FreshVq(i) \in VqStates
    OBVIOUS
  <2>1. 0 \in 0 .. QueueNumMax
    BY SizeAssumption
  <2> QED
    BY <2>1, RingAreas DEF FreshVq, VqStates
<1> QED
  BY <1>1, Layout DEF ResetState, States

LEMMA WithSizeType ==
  ASSUME NEW s \in States, NEW i \in Queues, NEW size \in 1 .. QueueNumMax
  PROVE  WithSize(s, i, size) \in States
<1>1. size \in 0 .. QueueNumMax
  BY SizeAssumption
<1> QED
  BY <1>1 DEF WithSize, States, VqStates

LEMMA WithBufferType ==
  ASSUME NEW s \in States, NEW id \in BufIds, NEW len \in Nat
  PROVE  WithBuffer(s, id, len) \in States
<1>1. s.buf_alloc \in Nat /\ s.buf_alloc + len + 16 \in Nat
  BY DEF States
<1>2. NextAlloc(s.buf_alloc, len) \in Nat
  BY <1>1, AlignDown DEF NextAlloc
<1> QED
  BY <1>1, <1>2 DEF WithBuffer, States, Bufs

\* Everything op_vq_add_desc computes once it is past its early returns.
LEMMA AddDescParts ==
  ASSUME NEW s \in States, NEW i \in Nat, NEW id \in Nat, NEW len \in Nat,
         NEW region \in Nat, region = 0 => id \in BufIds,
         CanAddDesc(s, i, id, region)
  PROVE  /\ i \in Queues /\ s.vqs[i] \in VqStates
         /\ Slot(s.vqs[i]) \in Slots
         /\ Slot(s.vqs[i]) <= s.vqs[i].next_desc_idx
         /\ RingSlot(s.vqs[i]) \in Slots
         /\ PublishedHead(s.vqs[i]) \in Nat /\ PublishedIdx(s.vqs[i]) \in Nat
         /\ Target(s, id, len, region).addr \in Nat
         /\ Target(s, id, len, region).len \in Nat
         /\ \A writable, more \in BOOLEAN :
              Descriptor(s.vqs[i], Target(s, id, len, region), writable, more)
                \in Descriptors
         /\ \A more \in BOOLEAN : AfterAddDesc(s, i, more) \in States
<1> DEFINE q == s.vqs[i]
           t == Target(s, id, len, region)
<1>1. i \in Queues /\ q \in VqStates /\ q.size # 0
  BY DEF CanAddDesc, States
<1>2. /\ q.size \in 1 .. QueueNumMax /\ q.size \in Nat \ {0}
      /\ q.next_desc_idx \in Nat /\ q.next_avail_idx \in Nat
  BY <1>1, SizeAssumption DEF VqStates
<1>3. ASSUME NEW x \in Nat PROVE /\ x % q.size \in 0 .. q.size - 1
                                 /\ x % q.size <= x
  <2> HIDE DEF q
  <2> QED
    BY <1>2, Z3
<1>4. ASSUME NEW x \in 0 .. q.size - 1 PROVE x \in Slots /\ x \in Nat
  <2> HIDE DEF q
  <2> QED
    BY <1>2, SizeAssumption DEF Slots
<1>5. /\ Slot(q) \in Slots /\ Slot(q) \in Nat
      /\ Slot(q) <= q.next_desc_idx /\ RingSlot(q) \in Slots
  BY <1>2, <1>3, <1>4 DEF Slot, RingSlot
<1>6. PublishedHead(q) \in Nat /\ PublishedIdx(q) \in Nat
  <2>1. ASSUME NEW x \in Nat PROVE x % IdxSpace \in Nat
    BY DeviceAssumption, Z3
  <2> QED
    BY <1>2, <2>1 DEF PublishedHead, PublishedIdx
<1>7. t.addr \in Nat /\ t.len \in Nat
  <2>1. CASE region # 0
    BY <2>1, ExoticTarget DEF Target
  <2>2. CASE region = 0
    <3>1. s.bufs[id] \in Bufs
      BY <2>2 DEF CanAddDesc, States
    <3> QED
      BY <2>2, <3>1 DEF Target, Bufs, Lesser
  <2> QED
    BY <2>1, <2>2
<1>8. \A writable, more \in BOOLEAN :
        Descriptor(q, t, writable, more) \in Descriptors
  <2>1. (Slot(q) + 1) % q.size \in Nat
    BY <1>3, <1>4, <1>5
  <2> HIDE DEF q, t
  <2> QED
    BY <1>7, <2>1 DEF Descriptor, Descriptors
<1>9. ASSUME NEW more \in BOOLEAN PROVE AfterAddDesc(s, i, more) \in States
  <2> DEFINE d == q.next_desc_idx + 1
             a == IF more THEN q.next_avail_idx ELSE q.next_avail_idx + 1
  <2>1. d \in Nat /\ a \in Nat
    BY <1>2
  <2>2. [q EXCEPT !.next_desc_idx = d, !.next_avail_idx = a] \in VqStates
    <3> HIDE DEF d, a, q
    <3> QED
      BY <1>1, <2>1 DEF VqStates
  <2>3. AfterAddDesc(s, i, more)
          = [s EXCEPT !.vqs[i] = [q EXCEPT !.next_desc_idx = d,
                                           !.next_avail_idx = a]]
    BY <1>1 DEF AfterAddDesc, States, VqStates
  <2> HIDE DEF d, a, q
  <2> QED
    BY <1>1, <2>2, <2>3 DEF States
<1> QED
  BY <1>1, <1>5, <1>6, <1>7, <1>8, <1>9

\* The queue a descriptor was added to, and no other, has its counters moved.
LEMMA AddedQueue ==
  ASSUME NEW s \in States, NEW i \in Queues, NEW more \in BOOLEAN,
         AfterAddDesc(s, i, more) \in States
  PROVE  LET q == s.vqs[i]
             u == AfterAddDesc(s, i, more).vqs[i]
         IN  /\ q \in VqStates /\ u \in VqStates
             /\ u.desc_gpa = q.desc_gpa /\ u.avail_gpa = q.avail_gpa
             /\ u.used_gpa = q.used_gpa /\ u.size = q.size
             /\ u.next_desc_idx = q.next_desc_idx + 1
             /\ u.next_avail_idx = IF more THEN q.next_avail_idx
                                   ELSE q.next_avail_idx + 1
             /\ \A j \in Queues \ {i} :
                  AfterAddDesc(s, i, more).vqs[j] = s.vqs[j]
  BY DEF AfterAddDesc, States, VqStates

\* And so has the queue whose size was set.
LEMMA SizedQueue ==
  ASSUME NEW s \in States, NEW i \in Queues, NEW size \in 1 .. QueueNumMax
  PROVE  LET q == s.vqs[i]
             u == WithSize(s, i, size).vqs[i]
         IN  /\ q \in VqStates /\ u \in VqStates
             /\ u.desc_gpa = q.desc_gpa /\ u.avail_gpa = q.avail_gpa
             /\ u.used_gpa = q.used_gpa /\ u.size = size
             /\ u.next_desc_idx = q.next_desc_idx
             /\ u.next_avail_idx = q.next_avail_idx
             /\ \A j \in Queues \ {i} : WithSize(s, i, size).vqs[j] = s.vqs[j]
<1>1. size \in 0 .. QueueNumMax
  BY SizeAssumption
<1> QED
  BY <1>1 DEF WithSize, States, VqStates

----------------------------------------------------------------------------
(* Guest memory *)

LEMMA PutType ==
  ASSUME NEW m \in Rams, NEW a, NEW slot \in Slots, NEW x \in Nat,
         NEW d \in Descriptors
  PROVE  /\ PutDesc(m, a, slot, d) \in Rams
         /\ PutRing(m, a, slot, x) \in Rams
         /\ PutIdx(m, a, x) \in Rams
<1>1. PutDesc(m, a, slot, d) \in Rams
  BY DEF PutDesc, Rams
<1>2. PutRing(m, a, slot, x) \in Rams
  BY DEF PutRing, Rams
<1>3. PutIdx(m, a, x) \in Rams
  BY DEF PutIdx, Rams
<1> QED
  BY <1>1, <1>2, <1>3

LEMMA RamInitType == RamInit \in Rams
  BY DEF RamInit, Rams, Blank, Descriptors

Writes == [kind : {"desc", "avail", "buffer", "mmio", "corrupt"},
           lo : Nat, hi : Nat]

LEMMA WriteType ==
  ASSUME NEW kind \in {"desc", "avail", "buffer", "mmio", "corrupt"},
         NEW lo \in Nat, NEW len \in Nat
  PROVE  Write(kind, lo, len) \in Writes
  BY DEF Write, Writes

\* One lemma per kind of write the invariant speaks of.
LEMMA BufferConfined ==
  ASSUME NEW lo, NEW len, lo >= BufPoolBase, lo + len <= BufPoolEnd
  PROVE  Confined(Write("buffer", lo, len))
  BY DEF Write, Confined

LEMMA TableConfined ==
  ASSUME NEW i \in Queues, NEW slot \in Nat, 16 * slot + 16 <= VqDescSize
  PROVE  Confined(Write("desc", DescGpa(i) + 16 * slot, 16))
<1>1. /\ DescGpa(i) + 16 * slot >= DescGpa(i)
      /\ DescGpa(i) + 16 * slot + 16 <= AvailGpa(i)
  BY RingAreas, PoolAssumption
<1> QED
  BY <1>1 DEF Write, Confined

LEMMA AvailConfined ==
  ASSUME NEW i \in Queues, NEW slot \in Slots
  PROVE  /\ Confined(Write("avail", AvailGpa(i) + 4 + 2 * slot, 2))
         /\ Confined(Write("avail", AvailGpa(i) + 2, 2))
<1>1. slot \in Nat /\ 2 * slot + 6 <= VqAvailSize /\ 4 <= VqAvailSize
  BY RingAssumption, SizeAssumption, PoolAssumption DEF Slots
<1>2. /\ AvailGpa(i) + 4 + 2 * slot >= AvailGpa(i)
      /\ AvailGpa(i) + 4 + 2 * slot + 2 <= UsedGpa(i)
      /\ AvailGpa(i) + 2 >= AvailGpa(i)
      /\ AvailGpa(i) + 2 + 2 <= UsedGpa(i)
  BY <1>1, RingAreas, PoolAssumption
<1> QED
  BY <1>2 DEF Write, Confined

----------------------------------------------------------------------------
(* The device *)

Halves == [lo : Nat, hi : Nat]

DevQueueStates == [num : Nat, ready : BOOLEAN, last : Nat,
                   desc : Halves, drv : Halves, dvc : Halves]

Devices == [status : SUBSET StatusBits, sel : Nat, isr : BOOLEAN,
            q : [DevQueues -> DevQueueStates]]

LEMMA DevInitType ==
  /\ DevInit \in Devices
  /\ \A i \in DevQueues : ~DevInit.q[i].ready /\ DevInit.q[i].last = 0
  BY DEF DevInit, Devices, DevQueueInit, DevQueueStates, NoAddr, Halves

\* What a write that programs no queue does to queue i of the device: either
\* nothing, or the queue is no longer ready, or it takes what memory m holds.
Undisturbed(p, q, m) ==
  /\ q.ready => /\ p.ready /\ q.num = p.num
                /\ q.desc = p.desc /\ q.drv = p.drv /\ q.dvc = p.dvc
  /\ \/ q.last = p.last
     \/ q.last = 0
     \/ /\ p.ready /\ Addr(p.drv) \in AvailAreas
        /\ q.last = m.idx[Addr(p.drv)]

QuietStep(d, e, m) ==
  \A i \in DevQueues : Undisturbed(d.q[i], e.q[i], m)

LEMMA SameQuiet == ASSUME NEW d, NEW m PROVE QuietStep(d, d, m)
  BY DEF QuietStep, Undisturbed

LEMMA SetDevStatusQuiet ==
  ASSUME NEW d \in Devices, NEW bits \in SUBSET StatusBits, NEW m
  PROVE  /\ SetDevStatus(d, bits) \in Devices
         /\ QuietStep(d, SetDevStatus(d, bits), m)
<1>1. CASE bits = {}
  BY <1>1, DevInitType DEF SetDevStatus, QuietStep, Undisturbed
<1>2. CASE bits # {}
  <2>1. SetDevStatus(d, bits) = [d EXCEPT !.status = bits]
    BY <1>2 DEF SetDevStatus
  <2> QED
    BY <2>1 DEF Devices, QuietStep, Undisturbed
<1> QED
  BY <1>1, <1>2

\* A record of the device with another state of queue i.
WithQueue(d, i, q) == [d EXCEPT !.q = [d.q EXCEPT ![i] = q]]

LEMMA WithQueueType ==
  ASSUME NEW d \in Devices, NEW i \in DevQueues, NEW q \in DevQueueStates
  PROVE  LET e == WithQueue(d, i, q)
         IN  /\ e \in Devices /\ e.sel = d.sel /\ e.isr = d.isr
             /\ e.status = d.status /\ e.q[i] = q
             /\ \A j \in DevQueues \ {i} : e.q[j] = d.q[j]
             /\ \A p : WithQueue(e, i, p) = WithQueue(d, i, p)
  BY DEF WithQueue, Devices

\* A doorbell: the device is where avail.idx is, or where it was.
LEMMA NotifyQuiet ==
  ASSUME NEW d \in Devices, NEW m \in Rams, NEW i
  PROVE  Notify(d, m, i) \in Devices /\ QuietStep(d, Notify(d, m, i), m)
<1>1. CASE i \in DevQueues /\ d.q[i].ready /\ Addr(d.q[i].drv) \in AvailAreas
  <2> DEFINE idx == m.idx[Addr(d.q[i].drv)]
             p == d.q[i]
             q == [p EXCEPT !.last = idx]
             e == Notify(d, m, i)
  <2>1. idx \in Nat /\ p \in DevQueueStates
    BY <1>1 DEF Rams, Devices
  <2>2. /\ q \in DevQueueStates /\ q.last = idx /\ q.ready = p.ready
        /\ q.num = p.num /\ q.desc = p.desc /\ q.drv = p.drv /\ q.dvc = p.dvc
    <3> HIDE DEF idx, p
    <3> QED
      BY <2>1 DEF DevQueueStates
  <2>3. /\ e.q = [d.q EXCEPT ![i] = q] /\ e.status = d.status
        /\ e.sel = d.sel /\ e.isr = (d.isr \/ idx # d.q[i].last)
        /\ e = [status |-> e.status, sel |-> e.sel, isr |-> e.isr, q |-> e.q]
    BY <1>1 DEF Notify, Devices
  <2>4. e \in Devices
    <3> HIDE DEF e, q, idx
    <3> QED
      BY <1>1, <2>2, <2>3 DEF Devices
  <2>5. ASSUME NEW j \in DevQueues PROVE Undisturbed(d.q[j], e.q[j], m)
    <3>1. CASE j # i
      <4>1. e.q[j] = d.q[j]
        BY <2>3, <3>1 DEF Devices
      <4> QED
        BY <4>1 DEF Undisturbed
    <3>2. CASE j = i
      <4>1. e.q[j] = q
        BY <1>1, <2>3, <3>2 DEF Devices
      <4> QED
        BY <1>1, <2>2, <3>2, <4>1 DEF Undisturbed
    <3> QED
      BY <3>1, <3>2
  <2> QED
    BY <2>4, <2>5 DEF QuietStep
<1>2. CASE ~(i \in DevQueues /\ d.q[i].ready /\ Addr(d.q[i].drv) \in AvailAreas)
  BY <1>2, SameQuiet DEF Notify
<1> QED
  BY <1>1, <1>2

\* The registers of the selected queue, each with the field it sets.
Registered(q, off, v) ==
  CASE off = R_QUEUE_NUM   -> [q EXCEPT !.num = v]
    [] off = R_QUEUE_READY -> [q EXCEPT !.ready = (v = 1)]
    [] off = R_QDESC_LO    -> [q EXCEPT !.desc.lo = v]
    [] off = R_QDESC_HI    -> [q EXCEPT !.desc.hi = v]
    [] off = R_QDRV_LO     -> [q EXCEPT !.drv.lo = v]
    [] off = R_QDRV_HI     -> [q EXCEPT !.drv.hi = v]
    [] off = R_QDEV_LO     -> [q EXCEPT !.dvc.lo = v]
    [] off = R_QDEV_HI     -> [q EXCEPT !.dvc.hi = v]

LEMMA RegisteredFields ==
  ASSUME NEW q, NEW v
  PROVE  /\ Registered(q, R_QUEUE_NUM, v)   = [q EXCEPT !.num = v]
         /\ Registered(q, R_QUEUE_READY, v) = [q EXCEPT !.ready = (v = 1)]
         /\ Registered(q, R_QDESC_LO, v)    = [q EXCEPT !.desc.lo = v]
         /\ Registered(q, R_QDESC_HI, v)    = [q EXCEPT !.desc.hi = v]
         /\ Registered(q, R_QDRV_LO, v)     = [q EXCEPT !.drv.lo = v]
         /\ Registered(q, R_QDRV_HI, v)     = [q EXCEPT !.drv.hi = v]
         /\ Registered(q, R_QDEV_LO, v)     = [q EXCEPT !.dvc.lo = v]
         /\ Registered(q, R_QDEV_HI, v)     = [q EXCEPT !.dvc.hi = v]
  BY DEF Registered, R_QUEUE_NUM, R_QUEUE_READY, R_QDESC_LO, R_QDESC_HI,
         R_QDRV_LO, R_QDRV_HI, R_QDEV_LO, R_QDEV_HI

LEMMA RegisteredType ==
  ASSUME NEW q \in DevQueueStates, NEW off \in QueueRegs, NEW v \in Nat
  PROVE  Registered(q, off, v) \in DevQueueStates
<1>1. /\ [q EXCEPT !.num = v] \in DevQueueStates
      /\ [q EXCEPT !.ready = (v = 1)] \in DevQueueStates
      /\ [q EXCEPT !.desc.lo = v] \in DevQueueStates
      /\ [q EXCEPT !.desc.hi = v] \in DevQueueStates
      /\ [q EXCEPT !.drv.lo = v] \in DevQueueStates
      /\ [q EXCEPT !.drv.hi = v] \in DevQueueStates
      /\ [q EXCEPT !.dvc.lo = v] \in DevQueueStates
      /\ [q EXCEPT !.dvc.hi = v] \in DevQueueStates
  BY DEF DevQueueStates, Halves
<1> QED
  BY <1>1, RegisteredFields DEF QueueRegs, QueueConfig

LEMMA SelectedField ==
  ASSUME NEW d \in Devices, d.sel \in DevQueues, NEW v, NEW off \in QueueRegs
  PROVE  Selected(d, off, v)
           = WithQueue(d, d.sel, Registered(d.q[d.sel], off, v))
<1> DEFINE To(p) == WithQueue(d, d.sel, p)
           q == d.q[d.sel]
<1>1. /\ Selected(d, R_QUEUE_NUM, v) = To([q EXCEPT !.num = v])
      /\ Selected(d, R_QUEUE_READY, v) = To([q EXCEPT !.ready = (v = 1)])
      /\ Selected(d, R_QDESC_LO, v) = To([q EXCEPT !.desc.lo = v])
      /\ Selected(d, R_QDESC_HI, v) = To([q EXCEPT !.desc.hi = v])
      /\ Selected(d, R_QDRV_LO, v) = To([q EXCEPT !.drv.lo = v])
      /\ Selected(d, R_QDRV_HI, v) = To([q EXCEPT !.drv.hi = v])
      /\ Selected(d, R_QDEV_LO, v) = To([q EXCEPT !.dvc.lo = v])
      /\ Selected(d, R_QDEV_HI, v) = To([q EXCEPT !.dvc.hi = v])
  BY DEF Selected, WithQueue, R_QUEUE_NUM, R_QUEUE_READY, R_QDESC_LO,
         R_QDESC_HI, R_QDRV_LO, R_QDRV_HI, R_QDEV_LO, R_QDEV_HI
<1> DEFINE Same(x) == Selected(d, x, v) = To(Registered(q, x, v))
<1>2. /\ Same(R_QUEUE_NUM) /\ Same(R_QUEUE_READY)
      /\ Same(R_QDESC_LO) /\ Same(R_QDESC_HI)
      /\ Same(R_QDRV_LO) /\ Same(R_QDRV_HI)
      /\ Same(R_QDEV_LO) /\ Same(R_QDEV_HI)
  <2> HIDE DEF To, q
  <2> QED
    BY <1>1, RegisteredFields
<1>3. Same(off)
  <2> HIDE DEF Same
  <2> QED
    BY <1>2 DEF QueueRegs, QueueConfig
<1> QED
  BY <1>3

\* Which write goes where.
LEMMA OtherOffsets ==
  ASSUME NEW d, NEW m, NEW v
  PROVE  /\ MmioWrite(d, m, R_QUEUE_SEL, v) = [d EXCEPT !.sel = v]
         /\ MmioWrite(d, m, R_STATUS, v) =
              IF v = 0 THEN DevInit ELSE [d EXCEPT !.status = BitsOf(v)]
         /\ MmioWrite(d, m, R_QUEUE_NOTIFY, v) = Notify(d, m, v)
         /\ MmioWrite(d, m, R_INT_ACK, v) = [d EXCEPT !.isr = @ /\ v = 0]
  BY DEF MmioWrite, R_QUEUE_SEL, R_STATUS, R_QUEUE_NOTIFY, R_INT_ACK

LEMMA QueueOffsets ==
  ASSUME NEW d, NEW m, NEW v, NEW off,
         off \notin {R_QUEUE_SEL, R_STATUS, R_QUEUE_NOTIFY, R_INT_ACK}
  PROVE  /\ d.sel \in DevQueues => MmioWrite(d, m, off, v) = Selected(d, off, v)
         /\ d.sel \notin DevQueues => MmioWrite(d, m, off, v) = d
  BY DEF MmioWrite

LEMMA QueueRegsApart ==
  QueueRegs \cap {R_QUEUE_SEL, R_STATUS, R_QUEUE_NOTIFY, R_INT_ACK} = {}
  BY DEF QueueRegs, QueueConfig, R_QUEUE_NUM, R_QUEUE_READY, R_QDESC_LO,
         R_QDESC_HI, R_QDRV_LO, R_QDRV_HI, R_QDEV_LO, R_QDEV_HI, R_QUEUE_SEL,
         R_STATUS, R_QUEUE_NOTIFY, R_INT_ACK

\* A write to a register of queue i while it is selected.
LEMMA FieldStep ==
  ASSUME NEW d \in Devices, NEW i \in DevQueues, d.sel = i,
         NEW q \in DevQueueStates, NEW off \in QueueRegs, NEW m, NEW v \in Nat
  PROVE  /\ MmioWrite(WithQueue(d, i, q), m, off, v)
              = WithQueue(d, i, Registered(q, off, v))
         /\ Registered(q, off, v) \in DevQueueStates
<1> DEFINE e == WithQueue(d, i, q)
<1>1. /\ e \in Devices /\ e.sel = i /\ e.q[i] = q
      /\ \A p : WithQueue(e, i, p) = WithQueue(d, i, p)
  BY WithQueueType
<1> HIDE DEF e
<1>2. MmioWrite(e, m, off, v) = Selected(e, off, v)
  BY <1>1, QueueRegsApart, QueueOffsets
<1>3. Selected(e, off, v) = WithQueue(e, i, Registered(q, off, v))
  BY <1>1, SelectedField
<1> QED
  BY <1>1, <1>2, <1>3, RegisteredType DEF e

\* Any write to the window keeps the device's shape, and a quiet one disturbs
\* no queue.
LEMMA MmioWriteType ==
  ASSUME NEW d \in Devices, NEW m \in Rams, NEW off \in Nat, NEW v \in Nat
  PROVE  /\ MmioWrite(d, m, off, v) \in Devices
         /\ Quiet(off, v) => QuietStep(d, MmioWrite(d, m, off, v), m)
<1> DEFINE e == MmioWrite(d, m, off, v)
           Goal == e \in Devices /\ (Quiet(off, v) => QuietStep(d, e, m))
<1>1. CASE off = R_QUEUE_SEL
  <2>1. e = [d EXCEPT !.sel = v]
    BY <1>1, OtherOffsets
  <2> QED
    BY <2>1 DEF Devices, QuietStep, Undisturbed
<1>2. CASE off = R_STATUS
  <2>1. BitsOf(v) \in SUBSET StatusBits
    BY DEF BitsOf
  <2>2. CASE v = 0
    <3>1. e = SetDevStatus(d, {})
      BY <1>2, <2>2, OtherOffsets DEF SetDevStatus
    <3> QED
      BY <3>1, SetDevStatusQuiet
  <2>3. CASE v # 0
    <3>1. e = [d EXCEPT !.status = BitsOf(v)]
      BY <1>2, <2>3, OtherOffsets
    <3> QED
      BY <2>1, <3>1 DEF Devices, QuietStep, Undisturbed
  <2> QED
    BY <2>2, <2>3
<1>3. CASE off = R_QUEUE_NOTIFY
  <2>1. e = Notify(d, m, v)
    BY <1>3, OtherOffsets
  <2> QED
    BY <2>1, NotifyQuiet
<1>4. CASE off = R_INT_ACK
  <2>1. e = [d EXCEPT !.isr = (d.isr /\ v = 0)]
    BY <1>4, OtherOffsets
  <2> QED
    BY <2>1 DEF Devices, QuietStep, Undisturbed
<1>5. CASE off \notin {R_QUEUE_SEL, R_STATUS, R_QUEUE_NOTIFY, R_INT_ACK}
  <2>1. CASE d.sel \notin DevQueues
    <3>1. e = d
      BY <1>5, <2>1, QueueOffsets
    <3> QED
      BY <3>1, SameQuiet
  <2>2. CASE d.sel \in DevQueues
    <3> DEFINE q == d.q[d.sel]
    <3>1. e = Selected(d, off, v) /\ q \in DevQueueStates
      BY <1>5, <2>2, QueueOffsets DEF Devices
    <3>2. CASE off \notin QueueRegs
      <4>1. e = d
        BY <3>1, <3>2 DEF Selected, QueueRegs, QueueConfig
      <4> QED
        BY <4>1, SameQuiet
    <3>3. CASE off \in QueueRegs
      <4> DEFINE p == Registered(q, off, v)
      <4>1. e = WithQueue(d, d.sel, p) /\ p \in DevQueueStates
        BY <2>2, <3>1, <3>3, SelectedField, RegisteredType
      <4>2. /\ e \in Devices /\ e.q[d.sel] = p
            /\ \A j \in DevQueues \ {d.sel} : e.q[j] = d.q[j]
        <5> HIDE DEF p
        <5> QED
          BY <2>2, <4>1, WithQueueType
      <4>3. Quiet(off, v) => p.last = q.last /\ ~p.ready
        <5>1. Quiet(off, v) => off = R_QUEUE_READY /\ v # 1
          BY <3>3 DEF Quiet, QueueRegs
        <5>2. off = R_QUEUE_READY => p = [q EXCEPT !.ready = (v = 1)]
          BY RegisteredFields
        <5> QED
          BY <3>1, <5>1, <5>2 DEF DevQueueStates
      <4>4. ASSUME Quiet(off, v), NEW j \in DevQueues
            PROVE  Undisturbed(d.q[j], e.q[j], m)
        <5> HIDE DEF p, e
        <5>1. CASE j = d.sel
          BY <4>2, <4>3, <4>4, <5>1 DEF Undisturbed, q
        <5>2. CASE j # d.sel
          BY <4>2, <5>2 DEF Undisturbed
        <5> QED
          BY <5>1, <5>2
      <4> QED
        BY <4>2, <4>4 DEF QuietStep
    <3> QED
      BY <3>2, <3>3
  <2> QED
    BY <2>1, <2>2
<1>6. Goal
  <2> HIDE DEF Goal, e
  <2> QED
    BY <1>1, <1>2, <1>3, <1>4, <1>5 DEF Goal, e
<1> QED
  BY <1>6

============================================================================
