-------------------------- MODULE VirtioBlkProofs ---------------------------
(***************************************************************************)
(* Proofs about VirtioBlk, for every layout, every queue size, every number*)
(* of operations and inputs, and every set of arguments: its type invariant*)
(* and the three memory invariants.                                        *)
(***************************************************************************)
EXTENDS VirtioBlk, BlkStateProofs

----------------------------------------------------------------------------
(* Type correctness *)

\* A step leaves the bookkeeping, guest memory and chains alone.
Kept == UNCHANGED <<g, ram, chain>>

\* What StartInput, EndInput and Dispatch do to the counters.
LEMMA ControlType ==
  ASSUME TypeOK, \/ StartInput \/ EndInput \/ \E kind : Dispatch(kind)
  PROVE  phase' \in {"idle", "run"} /\ n' \in 0 .. MaxOps
         /\ inputs' \in 0 .. MaxInputs
<1>1. MaxOps \in Nat /\ MaxInputs \in Nat
  BY OpsAssumption
<1>2. CASE StartInput
  BY <1>1, <1>2 DEF StartInput, TypeOK
<1>3. CASE EndInput
  BY <1>3 DEF EndInput, TypeOK
<1>4. ASSUME NEW kind, Dispatch(kind)
      PROVE  phase' \in {"idle", "run"} /\ n' \in 0 .. MaxOps
             /\ inputs' \in 0 .. MaxInputs
  BY <1>1, <1>4 DEF Dispatch, TypeOK
<1> QED
  BY <1>2, <1>3, <1>4

\* The operations that change neither bookkeeping, memory nor chains.
RegisterOp ==
  \/ ReadOnlyOp \/ SetFeatures \/ VqWaitUsed
  \/ \E offset \in ConfigOffs, size \in DataLens : ConfigWrite(offset, size)
  \/ \E i \in VqIdxs : VqSelect(i) \/ VqKick(i)
  \/ \E bits \in StatusArgs : SetStatus(bits)
  \/ \E c \in Corruptions : MmioCorrupt(c)
  \/ \E gpa \in Gpas, size \in DataLens : MemwriteAbsolute(gpa, size)

LEMMA NextCases ==
  ASSUME Next
  PROVE  \/ StartInput \/ EndInput \/ RegisterOp \/ Reset
         \/ \E i \in VqIdxs, size \in Sizes : VqSetup(i, size)
         \/ \E id \in BufIds, size \in DataLens : GuestMemWrite(id, size)
         \/ \E i \in VqIdxs, id \in BufIds, len \in DescLens,
               writable \in BOOLEAN, more \in BOOLEAN, region \in Regions :
              VqAddDesc(i, id, len, writable, more, region)
BY DEF Next, RegisterOp

LEMMA ResetIterationType ==
  ASSUME ResetIteration, TypeOK
  PROVE  /\ g' \in States /\ ram' \in Rams /\ chain' \in [Queues -> Seq(Slots)]
         /\ touched' \subseteq Writes
<1>1. g' \in States /\ ram' \in Rams
  BY ResetStateType DEF ResetIteration, TypeOK
<1>2. NoChains \in [Queues -> Seq(Slots)]
  BY DEF NoChains
<1> QED
  BY <1>1, <1>2 DEF ResetIteration

LEMMA VqSetupType ==
  ASSUME TypeOK, NEW i \in Nat, NEW size \in Nat, VqSetup(i, size)
  PROVE  g' \in States /\ chain' \in [Queues -> Seq(Slots)]
<1>1. g' \in States
  <2>1. CASE g' = g
    BY <2>1 DEF TypeOK
  <2>2. CASE i \in Queues /\ g' = WithSize(g, i, SizeFor(size))
    BY <2>2, QueueSize, WithSizeType DEF TypeOK
  <2> QED
    BY <2>1, <2>2 DEF VqSetup
<1>2. chain' \in [Queues -> Seq(Slots)]
  <2>1. chain \in [Queues -> Seq(Slots)] /\ <<>> \in Seq(Slots)
    BY DEF TypeOK
  <2>2. chain' = chain \/ chain' = [chain EXCEPT ![i] = <<>>]
    BY DEF VqSetup
  <2> QED
    BY <2>1, <2>2
<1> QED
  BY <1>1, <1>2

LEMMA GuestMemWriteType ==
  ASSUME TypeOK, NEW id \in BufIds, NEW size \in Nat, GuestMemWrite(id, size)
  PROVE  /\ g' \in States
         /\ UNCHANGED <<ram, chain>>
         /\ touched' \subseteq Writes
<1> DEFINE len == Lesser(size, MaxData)
<1>1. len \in Nat
  BY PoolAssumption DEF Lesser
<1>2. CASE NoEffect
  BY <1>2 DEF NoEffect, TypeOK
<1>3. CASE /\ g' = WithBuffer(g, id, len)
           /\ touched' = {Write("buffer", g.buf_alloc, len)}
           /\ UNCHANGED <<ram, dev, chain>>
  <2>1. g.buf_alloc \in Nat
    BY DEF TypeOK, States
  <2> HIDE DEF len
  <2>2. g' \in States
    BY <1>1, <1>3, WithBufferType DEF TypeOK
  <2>3. Write("buffer", g.buf_alloc, len) \in Writes
    BY <1>1, <2>1, WriteType
  <2> QED
    BY <1>3, <2>2, <2>3
<1> QED
  BY <1>2, <1>3 DEF GuestMemWrite

LEMMA VqAddDescType ==
  ASSUME TypeOK, NEW i \in Nat, NEW id \in BufIds, NEW len \in Nat,
         NEW writable \in BOOLEAN, NEW more \in BOOLEAN, NEW region \in Nat,
         VqAddDesc(i, id, len, writable, more, region)
  PROVE  /\ g' \in States /\ ram' \in Rams /\ chain' \in [Queues -> Seq(Slots)]
         /\ touched' \subseteq Writes
<1>1. CASE ~CanAddDesc(g, i, id, region)
  BY <1>1 DEF VqAddDesc, TypeOK
<1>2. CASE CanAddDesc(g, i, id, region)
  <2> DEFINE q    == g.vqs[i]
             d    == Descriptor(q, Target(g, id, len, region), writable, more)
             ram1 == PutDesc(ram, q.desc_gpa, Slot(q), d)
             ram2 == PutRing(ram1, q.avail_gpa, RingSlot(q), PublishedHead(q))
             ram3 == PutIdx(ram2, q.avail_gpa, PublishedIdx(q))
  <2>1. g \in States /\ ram \in Rams /\ chain \in [Queues -> Seq(Slots)]
    BY DEF TypeOK
  <2>2. /\ i \in Queues /\ q \in VqStates
        /\ Slot(q) \in Slots /\ RingSlot(q) \in Slots
        /\ PublishedHead(q) \in Nat /\ PublishedIdx(q) \in Nat
        /\ d \in Descriptors /\ AfterAddDesc(g, i, more) \in States
    BY <1>2, <2>1, AddDescParts, InputAssumption
  <2>3. /\ g' = AfterAddDesc(g, i, more)
        /\ ram' = IF more THEN ram1 ELSE ram3
        /\ chain' = [chain EXCEPT ![i] = IF more THEN Append(@, Slot(q))
                                         ELSE <<>>]
        /\ touched' =
             {Write("desc", q.desc_gpa + 16 * Slot(q), 16)} \cup
             IF more THEN {}
             ELSE {Write("avail", q.avail_gpa + 4 + 2 * RingSlot(q), 2),
                   Write("avail", q.avail_gpa + 2, 2)}
    BY <1>2 DEF VqAddDesc
  <2>4. ram1 \in Rams /\ ram2 \in Rams /\ ram3 \in Rams
    <3> HIDE DEF d
    <3>1. ram1 \in Rams
      BY <2>1, <2>2, PutType
    <3> HIDE DEF ram1
    <3>2. ram2 \in Rams
      BY <3>1, <2>2, PutType
    <3> HIDE DEF ram2
    <3> QED
      BY <3>1, <3>2, <2>2, PutType
  <2>5. chain' \in [Queues -> Seq(Slots)]
    <3>1. Append(chain[i], Slot(q)) \in Seq(Slots) /\ <<>> \in Seq(Slots)
      BY <2>1, <2>2
    <3> QED
      BY <2>1, <2>2, <2>3, <3>1
  <2>6. touched' \subseteq Writes
    <3>1. /\ q.desc_gpa + 16 * Slot(q) \in Nat
          /\ q.avail_gpa + 4 + 2 * RingSlot(q) \in Nat
          /\ q.avail_gpa + 2 \in Nat
      BY <2>2 DEF VqStates, Slots
    <3>2. /\ Write("desc", q.desc_gpa + 16 * Slot(q), 16) \in Writes
          /\ Write("avail", q.avail_gpa + 4 + 2 * RingSlot(q), 2) \in Writes
          /\ Write("avail", q.avail_gpa + 2, 2) \in Writes
      BY <3>1, WriteType
    <3> QED
      BY <2>3, <3>2
  <2> QED
    BY <2>2, <2>3, <2>4, <2>5, <2>6
<1> QED
  BY <1>1, <1>2

LEMMA RegisterOpsType ==
  ASSUME TypeOK, RegisterOp
  PROVE  Kept /\ touched' \subseteq Writes
<1>1. CASE \/ ReadOnlyOp \/ SetFeatures \/ VqWaitUsed
           \/ \E i \in VqIdxs : VqSelect(i) \/ VqKick(i)
           \/ \E bits \in StatusArgs : SetStatus(bits)
  BY <1>1 DEF ReadOnlyOp, NoEffect, SetFeatures, VqWaitUsed, VqSelect, VqKick,
              SetStatus, Kept
<1>2. ASSUME NEW offset \in ConfigOffs, NEW size \in DataLens,
             ConfigWrite(offset, size)
      PROVE  Kept /\ touched' \subseteq Writes
  <2> DEFINE off == offset % 256
  <2>1. off \in Nat
    BY InputAssumption, Z3
  <2> HIDE DEF off
  <2>2. ASSUME NEW k \in 0 .. 63
        PROVE  Write("mmio", MmioBase + R_CONFIG + off + 4 * k, 4) \in Writes
    <3>1. MmioBase + R_CONFIG + off + 4 * k \in Nat
      BY <2>1, DeviceAssumption DEF R_CONFIG
    <3> QED
      BY <3>1, WriteType
  <2> QED
    BY <1>2, <2>2 DEF ConfigWrite, Kept, off
<1>3. ASSUME NEW c \in Corruptions, MmioCorrupt(c)
      PROVE  Kept /\ touched' \subseteq Writes
  <2> DEFINE off   == c.off % MmioSize
             width == IF c.size \in {1, 2} THEN c.size ELSE 4
  <2>1. MmioBase + off \in Nat /\ width \in Nat
    <3>1. c.off \in Nat
      BY InputAssumption
    <3>2. off \in Nat
      BY <3>1, Z3 DEF MmioSize
    <3> QED
      BY <3>2, DeviceAssumption
  <2>2. touched' = {Write("corrupt", MmioBase + off, width)} /\ Kept
    BY <1>3 DEF MmioCorrupt, Kept
  <2> HIDE DEF off, width
  <2> QED
    BY <2>1, <2>2, WriteType
<1>4. ASSUME NEW gpa \in Gpas, NEW size \in DataLens,
             MemwriteAbsolute(gpa, size)
      PROVE  Kept /\ touched' \subseteq Writes
  <2> DEFINE len == Lesser(size, MaxData)
  <2>1. len \in 0 .. MaxData /\ len \in Nat
    BY InputAssumption, PoolAssumption DEF Lesser
  <2>2. gpa \in Nat
    BY InputAssumption, WordAssumption
  <2>3. \/ touched' = {} /\ Kept
        \/ touched' = {Write("buffer", ClampGpa(gpa, len), len)} /\ Kept
    BY <1>4 DEF MemwriteAbsolute, NoEffect, Kept
  <2> HIDE DEF len
  <2>4. Write("buffer", ClampGpa(gpa, len), len) \in Writes
    BY <2>1, <2>2, Clamp, WriteType
  <2> QED
    BY <2>3, <2>4
<1> QED
  BY <1>1, <1>2, <1>3, <1>4 DEF RegisterOp

\* Every operation is dispatched, the other two actions are not.
LEMMA NextControl ==
  ASSUME Next
  PROVE  StartInput \/ EndInput \/ \E kind : Dispatch(kind)
<1>1. RegisterOp => \E kind : Dispatch(kind)
  BY DEF RegisterOp, ReadOnlyOp, SetFeatures, ConfigWrite, VqSelect, SetStatus,
         VqKick, VqWaitUsed, MmioCorrupt, MemwriteAbsolute
<1>2. Reset => \E kind : Dispatch(kind)
  BY DEF Reset
<1>3. \A i, size : VqSetup(i, size) => \E kind : Dispatch(kind)
  BY DEF VqSetup
<1>4. \A id, size : GuestMemWrite(id, size) => \E kind : Dispatch(kind)
  BY DEF GuestMemWrite
<1>5. \A i, id, len, writable, more, region :
        VqAddDesc(i, id, len, writable, more, region)
          => \E kind : Dispatch(kind)
  BY DEF VqAddDesc
<1> QED
  BY <1>1, <1>2, <1>3, <1>4, <1>5, NextCases

LEMMA TypeInit == Init => TypeOK
<1>1. NoChains \in [Queues -> Seq(Slots)]
  BY DEF NoChains
<1> QED
  BY <1>1, ResetStateType, RamInitType, OpsAssumption DEF Init, TypeOK

LEMMA TypeStep == TypeOK /\ [Next]_vars => TypeOK'
<1> SUFFICES ASSUME TypeOK, [Next]_vars PROVE TypeOK'
  OBVIOUS
<1> DEFINE Data == /\ g' \in States /\ ram' \in Rams
                   /\ chain' \in [Queues -> Seq(Slots)]
                   /\ touched' \subseteq Writes
<1>1. CASE UNCHANGED vars
  BY <1>1 DEF vars, TypeOK
<1>2. CASE Next
  <2>1. phase' \in {"idle", "run"} /\ n' \in 0 .. MaxOps
        /\ inputs' \in 0 .. MaxInputs
    BY <1>2, NextControl, ControlType
  <2>2. TypeOK => /\ g \in States /\ ram \in Rams
                  /\ chain \in [Queues -> Seq(Slots)] /\ touched \subseteq Writes
    BY DEF TypeOK, Writes
  <2>3. ASSUME StartInput \/ Reset PROVE Data
    BY <2>3, ResetIterationType DEF StartInput, Reset
  <2>4. ASSUME EndInput PROVE Data
    BY <2>2, <2>4 DEF EndInput
  <2>5. ASSUME RegisterOp PROVE Data
    BY <2>2, <2>5, RegisterOpsType DEF Kept
  <2>6. ASSUME NEW i \in VqIdxs, NEW size \in Sizes, VqSetup(i, size)
        PROVE  Data
    BY <2>2, <2>6, VqSetupType, InputAssumption DEF VqSetup
  <2>7. ASSUME NEW id \in BufIds, NEW size \in DataLens, GuestMemWrite(id, size)
        PROVE  Data
    BY <2>2, <2>7, GuestMemWriteType, InputAssumption
  <2>8. ASSUME NEW i \in VqIdxs, NEW id \in BufIds, NEW len \in DescLens,
               NEW writable \in BOOLEAN, NEW more \in BOOLEAN,
               NEW region \in Regions,
               VqAddDesc(i, id, len, writable, more, region)
        PROVE  Data
    BY <2>8, VqAddDescType, InputAssumption
  <2>9. Data
    <3> HIDE DEF Data
    <3> QED
      BY <1>2, <2>3, <2>4, <2>5, <2>6, <2>7, <2>8, NextCases
  <2> QED
    BY <2>1, <2>9 DEF TypeOK, Writes
<1> QED
  BY <1>1, <1>2

\* Whatever programs the environment sends, every variable keeps its shape:
\* in particular no counter of a queue is ever used with size 0, and no slot
\* computed from one leaves the ring.
THEOREM TypeCorrect == Spec => []TypeOK
<1>1. Init => TypeOK
  BY TypeInit
<1>2. TypeOK /\ [Next]_vars => TypeOK'
  BY TypeStep
<1> QED
  BY <1>1, <1>2, PTL DEF Spec

----------------------------------------------------------------------------
(* The three memory invariants.  The inductive invariant adds Counters to  *)
(* them: a queue has the addresses of its own area, and placed no more     *)
(* descriptors than operations were dispatched.                            *)

Counters ==
  \A i \in Queues : /\ g.vqs[i].desc_gpa = DescGpa(i)
                    /\ g.vqs[i].avail_gpa = AvailGpa(i)
                    /\ g.vqs[i].next_desc_idx <= n

IInv == /\ TypeOK /\ Counters
        /\ BuffersDisjoint /\ WritesConfined /\ DescTargetsOffRings

----------------------------------------------------------------------------
(* What a step makes of g *)

GrownBy(i, more) == g' = AfterAddDesc(g, i, more) /\ n' = n + 1

LEMMA StateStep ==
  ASSUME TypeOK, [Next]_vars
  PROVE  \/ g' = ResetState
         \/ g' = g /\ n <= n'
         \/ \E i \in Queues, size \in 1 .. QueueNumMax :
              g' = WithSize(g, i, size) /\ n <= n'
         \/ \E id \in BufIds, len \in 0 .. MaxData :
              /\ AllocFits(g.buf_alloc, len)
              /\ g' = WithBuffer(g, id, len) /\ n <= n'
         \/ \E i \in Queues, more \in BOOLEAN : GrownBy(i, more)
<1> DEFINE Goal ==
       \/ g' = ResetState
       \/ g' = g /\ n <= n'
       \/ \E i \in Queues, size \in 1 .. QueueNumMax :
            g' = WithSize(g, i, size) /\ n <= n'
       \/ \E id \in BufIds, len \in 0 .. MaxData :
            /\ AllocFits(g.buf_alloc, len)
            /\ g' = WithBuffer(g, id, len) /\ n <= n'
       \/ \E i \in Queues, more \in BOOLEAN : GrownBy(i, more)
<1>0. n \in Nat /\ MaxData \in Nat
  BY OpsAssumption, PoolAssumption DEF TypeOK
<1>1. ASSUME UNCHANGED vars \/ EndInput PROVE Goal
  BY <1>0, <1>1 DEF vars, EndInput
<1>2. ASSUME StartInput \/ Reset PROVE Goal
  BY <1>2 DEF StartInput, Reset, ResetIteration
<1>3. ASSUME NEW kind, Dispatch(kind) PROVE n' = n + 1 /\ n <= n'
  BY <1>0, <1>3 DEF Dispatch
<1>4. ASSUME RegisterOp PROVE Goal
  <2>1. Kept
    BY <1>4, RegisterOpsType
  <2>2. \E kind : Dispatch(kind)
    BY <1>4 DEF RegisterOp, ReadOnlyOp, SetFeatures, ConfigWrite, VqSelect,
                SetStatus, VqKick, VqWaitUsed, MmioCorrupt, MemwriteAbsolute
  <2> QED
    BY <2>1, <2>2, <1>3 DEF Kept
<1>5. ASSUME NEW i \in VqIdxs, NEW size \in Sizes, VqSetup(i, size) PROVE Goal
  <2>1. n <= n'
    BY <1>3, <1>5 DEF VqSetup
  <2>2. SizeFor(size) \in 1 .. QueueNumMax
    BY QueueSize, InputAssumption
  <2>3. g' = g \/ (i \in Queues /\ g' = WithSize(g, i, SizeFor(size)))
    BY <1>5 DEF VqSetup
  <2> QED
    BY <2>1, <2>2, <2>3
<1>6. ASSUME NEW id \in BufIds, NEW size \in DataLens, GuestMemWrite(id, size)
      PROVE  Goal
  <2>1. n <= n'
    BY <1>3, <1>6 DEF GuestMemWrite
  <2>2. Lesser(size, MaxData) \in 0 .. MaxData
    BY <1>0, InputAssumption DEF Lesser
  <2>3. \/ g' = g
        \/ /\ AllocFits(g.buf_alloc, Lesser(size, MaxData))
           /\ g' = WithBuffer(g, id, Lesser(size, MaxData))
    BY <1>6 DEF GuestMemWrite, NoEffect
  <2> QED
    BY <2>1, <2>2, <2>3
<1>7. ASSUME NEW i \in VqIdxs, NEW id \in BufIds, NEW len \in DescLens,
             NEW writable \in BOOLEAN, NEW more \in BOOLEAN,
             NEW region \in Regions,
             VqAddDesc(i, id, len, writable, more, region)
      PROVE  Goal
  <2>1. n' = n + 1 /\ n <= n'
    BY <1>3, <1>7 DEF VqAddDesc
  <2>2. g' = g \/ (i \in Queues /\ g' = AfterAddDesc(g, i, more))
    BY <1>7 DEF VqAddDesc, CanAddDesc
  <2> QED
    BY <2>1, <2>2 DEF GrownBy
<1>8. Goal
  <2> HIDE DEF Goal
  <2> QED
    BY <1>1, <1>2, <1>4, <1>5, <1>6, <1>7, NextCases
<1> QED
  BY <1>8

----------------------------------------------------------------------------
(* Counters *)

LEMMA CountersInit == Init => Counters
  BY RingAreas, OpsAssumption DEF Init, ResetState, FreshVq, Counters

LEMMA CountersStep ==
  ASSUME TypeOK, Counters, [Next]_vars
  PROVE  Counters'
<1>0. n \in Nat /\ n' \in Nat /\ g \in States
  BY TypeStep, OpsAssumption DEF TypeOK
<1> SUFFICES ASSUME NEW i \in Queues
             PROVE  /\ g'.vqs[i].desc_gpa = DescGpa(i)
                    /\ g'.vqs[i].avail_gpa = AvailGpa(i)
                    /\ g'.vqs[i].next_desc_idx <= n'
  BY DEF Counters
<1>1. /\ g.vqs[i].desc_gpa = DescGpa(i) /\ g.vqs[i].avail_gpa = AvailGpa(i)
      /\ g.vqs[i].next_desc_idx <= n /\ g.vqs[i].next_desc_idx \in Nat
  BY <1>0 DEF Counters, States, VqStates
<1>2. CASE g' = ResetState
  BY <1>0, <1>2 DEF ResetState, FreshVq
<1>3. CASE g' = g /\ n <= n'
  BY <1>0, <1>1, <1>3
<1>4. ASSUME NEW j \in Queues, NEW size \in 1 .. QueueNumMax,
             g' = WithSize(g, j, size), n <= n'
      PROVE  g'.vqs[i] = [g.vqs[i] EXCEPT !.size = g'.vqs[i].size]
  BY <1>0, <1>4 DEF WithSize, States, VqStates
<1>5. ASSUME NEW id \in BufIds, NEW len \in 0 .. MaxData,
             g' = WithBuffer(g, id, len), n <= n'
      PROVE  g'.vqs[i] = g.vqs[i]
  BY <1>0, <1>5 DEF WithBuffer, States
<1>6. ASSUME NEW j \in Queues, NEW more \in BOOLEAN, GrownBy(j, more)
      PROVE  /\ g'.vqs[i].desc_gpa = g.vqs[i].desc_gpa
             /\ g'.vqs[i].avail_gpa = g.vqs[i].avail_gpa
             /\ g'.vqs[i].next_desc_idx <= g.vqs[i].next_desc_idx + 1
             /\ n' = n + 1
  BY <1>0, <1>1, <1>6 DEF GrownBy, AfterAddDesc, States, VqStates
<1>7. g.vqs[i] \in VqStates
  BY <1>0 DEF States
<1>8. ASSUME NEW x, g'.vqs[i] = [g.vqs[i] EXCEPT !.size = x]
      PROVE  /\ g'.vqs[i].desc_gpa = g.vqs[i].desc_gpa
             /\ g'.vqs[i].avail_gpa = g.vqs[i].avail_gpa
             /\ g'.vqs[i].next_desc_idx = g.vqs[i].next_desc_idx
  BY <1>7, <1>8 DEF VqStates
<1>9. ASSUME NEW j \in Queues, NEW more \in BOOLEAN, GrownBy(j, more)
      PROVE  /\ g'.vqs[i].desc_gpa = DescGpa(i)
             /\ g'.vqs[i].avail_gpa = AvailGpa(i)
             /\ g'.vqs[i].next_desc_idx <= n'
  <2>1. g'.vqs[i].next_desc_idx \in Nat
    BY TypeStep DEF TypeOK, States, VqStates
  <2> QED
    BY <1>0, <1>1, <1>6, <1>9, <2>1
<1> QED
  BY <1>0, <1>1, <1>2, <1>3, <1>4, <1>5, <1>8, <1>9, StateStep

----------------------------------------------------------------------------
(* Buffers *)

LEMMA BuffersInit == Init => BuffersDisjoint
<1> SUFFICES ASSUME g = ResetState PROVE BuffersDisjoint
  BY DEF Init
<1>1. \A b \in BufIds : g.bufs[b] = NoBuf
  BY DEF ResetState
<1>2. g.buf_alloc = BufPoolBase
  BY DEF ResetState
<1> QED
  BY <1>1, <1>2, Layout, PoolAssumption DEF BuffersDisjoint

LEMMA BuffersStep ==
  ASSUME TypeOK, BuffersDisjoint, [Next]_vars
  PROVE  BuffersDisjoint'
<1>0. g \in States
  BY DEF TypeOK
<1>1. CASE g'.bufs = g.bufs /\ g'.buf_alloc = g.buf_alloc
  BY <1>1 DEF BuffersDisjoint
<1>2. CASE g' = ResetState
  BY <1>2, Layout DEF ResetState, BuffersDisjoint
<1>3. ASSUME NEW i \in Queues, NEW size \in 1 .. QueueNumMax,
             g' = WithSize(g, i, size)
      PROVE  g'.bufs = g.bufs /\ g'.buf_alloc = g.buf_alloc
  BY <1>0, <1>3 DEF WithSize, States
<1>4. ASSUME NEW i \in Queues, NEW more \in BOOLEAN, GrownBy(i, more)
      PROVE  g'.bufs = g.bufs /\ g'.buf_alloc = g.buf_alloc
  BY <1>0, <1>4 DEF GrownBy, AfterAddDesc, States
<1>5. ASSUME NEW id \in BufIds, NEW len \in 0 .. MaxData,
             AllocFits(g.buf_alloc, len), g' = WithBuffer(g, id, len)
      PROVE  BuffersDisjoint'
  <2> DEFINE alloc == g.buf_alloc
             new == [gpa |-> alloc, len |-> len]
  <2>1. /\ alloc \in BufPoolBase .. BufPoolEnd
        /\ alloc \in Nat /\ len \in Nat /\ BufPoolBase \in Nat
    BY <1>0, Layout, PoolAssumption DEF BuffersDisjoint, States
  <2>2. /\ g'.buf_alloc \in BufPoolBase .. BufPoolEnd
        /\ g'.buf_alloc % 16 = 0 /\ alloc + len < g'.buf_alloc
    BY <1>0, <1>5, <2>1, Allocation DEF WithBuffer, States
  <2>3. \A b \in BufIds : g'.bufs[b] = IF b = id THEN new ELSE g.bufs[b]
    BY <1>0, <1>5 DEF WithBuffer, States
  <2>4. \A b \in BufIds : g.bufs[b] # NoBuf =>
          /\ g.bufs[b].gpa \in Nat /\ g.bufs[b].len \in Nat
          /\ g.bufs[b].gpa >= BufPoolBase
          /\ g.bufs[b].gpa + g.bufs[b].len < alloc
    BY <1>0 DEF BuffersDisjoint, States, Bufs
  <2>5. \A b \in BufIds : g'.bufs[b] # NoBuf =>
          /\ g'.bufs[b].gpa >= BufPoolBase
          /\ g'.bufs[b].gpa + g'.bufs[b].len < g'.buf_alloc
    <3> SUFFICES ASSUME NEW b \in BufIds, g'.bufs[b] # NoBuf
                 PROVE  /\ g'.bufs[b].gpa >= BufPoolBase
                        /\ g'.bufs[b].gpa + g'.bufs[b].len < g'.buf_alloc
      OBVIOUS
    <3>1. CASE b = id
      BY <2>1, <2>2, <2>3, <3>1
    <3>2. CASE b # id
      BY <2>1, <2>2, <2>3, <2>4, <3>2, Layout, PoolAssumption
    <3> QED
      BY <3>1, <3>2
  <2>6. \A a, b \in BufIds : a # b /\ g'.bufs[a] # NoBuf /\ g'.bufs[b] # NoBuf =>
          \/ g'.bufs[a].gpa + g'.bufs[a].len < g'.bufs[b].gpa
          \/ g'.bufs[b].gpa + g'.bufs[b].len < g'.bufs[a].gpa
    <3> SUFFICES ASSUME NEW a \in BufIds, NEW b \in BufIds, a # b,
                        g'.bufs[a] # NoBuf, g'.bufs[b] # NoBuf
                 PROVE  \/ g'.bufs[a].gpa + g'.bufs[a].len < g'.bufs[b].gpa
                        \/ g'.bufs[b].gpa + g'.bufs[b].len < g'.bufs[a].gpa
      OBVIOUS
    <3>1. CASE a = id
      BY <2>3, <2>4, <3>1
    <3>2. CASE b = id
      BY <2>3, <2>4, <3>2
    <3>3. CASE a # id /\ b # id
      BY <2>3, <3>3 DEF BuffersDisjoint
    <3> QED
      BY <3>1, <3>2, <3>3
  <2> QED
    BY <2>2, <2>5, <2>6 DEF BuffersDisjoint
<1> QED
  BY <1>1, <1>2, <1>3, <1>4, <1>5, StateStep

\* Over any sequence of buffer writes, resets and other operations, in any
\* number of inputs, GuestMemWrite never hands out a byte twice and never
\* leaves the pool.
THEOREM BuffersNeverOverlap == Spec => []BuffersDisjoint
<1>1. Init => TypeOK /\ BuffersDisjoint
  BY TypeInit, BuffersInit
<1>2. TypeOK /\ BuffersDisjoint /\ [Next]_vars => (TypeOK /\ BuffersDisjoint)'
  BY TypeStep, BuffersStep
<1> QED
  BY <1>1, <1>2, PTL DEF Spec

----------------------------------------------------------------------------
(* Writes *)

\* Descriptors placed by the operations of one input stay in their table.
LEMMA DescConfined ==
  ASSUME NEW i \in Queues, NEW slot \in Nat, slot < MaxOps
  PROVE  Confined(Write("desc", DescGpa(i) + 16 * slot, 16))
<1>1. 16 * slot + 16 <= VqDescSize
  BY OpsAssumption, PoolAssumption
<1> QED
  BY <1>1, TableConfined

LEMMA ConfigConfined ==
  ASSUME NEW off \in Nat, NEW k \in Nat, off + 4 * k + 4 <= 256
  PROVE  Confined(Write("mmio", MmioBase + R_CONFIG + off + 4 * k, 4))
  BY DeviceAssumption DEF Write, Confined, R_CONFIG, MmioSize

LEMMA RegisterOpConfined ==
  ASSUME WritesConfined, RegisterOp
  PROVE  WritesConfined'
<1>1. CASE touched' = {}
  BY <1>1 DEF WritesConfined
<1>2. ASSUME NEW offset \in ConfigOffs, NEW size \in DataLens,
             ConfigWrite(offset, size)
      PROVE  WritesConfined'
  <2> DEFINE off == offset % 256
  <2>1. off \in Nat
    BY InputAssumption, Z3
  <2>2. \A w \in touched' : \E k \in 0 .. 63 :
          /\ off + 4 * k + 4 <= 256
          /\ w = Write("mmio", MmioBase + R_CONFIG + off + 4 * k, 4)
    <3> HIDE DEF off
    <3> QED
      BY <1>2, <2>1 DEF ConfigWrite, off
  <2> HIDE DEF off
  <2> SUFFICES ASSUME NEW w \in touched' PROVE Confined(w)
    BY DEF WritesConfined
  <2>3. PICK k \in 0 .. 63 :
          /\ off + 4 * k + 4 <= 256
          /\ w = Write("mmio", MmioBase + R_CONFIG + off + 4 * k, 4)
    BY <2>2
  <2> QED
    BY <2>1, <2>3, ConfigConfined
<1>3. ASSUME NEW c \in Corruptions, MmioCorrupt(c)
      PROVE  WritesConfined'
  BY <1>3 DEF MmioCorrupt, WritesConfined, Write, Confined
<1>4. ASSUME NEW gpa \in Gpas, NEW size \in DataLens,
             MemwriteAbsolute(gpa, size)
      PROVE  WritesConfined'
  <2> DEFINE len == Lesser(size, MaxData)
  <2>1. len \in 0 .. MaxData
    BY InputAssumption, PoolAssumption DEF Lesser
  <2>2. gpa \in Nat
    BY InputAssumption, WordAssumption
  <2>3. touched' = {} \/ touched' = {Write("buffer", ClampGpa(gpa, len), len)}
    BY <1>4 DEF MemwriteAbsolute, NoEffect
  <2> HIDE DEF len
  <2>4. Confined(Write("buffer", ClampGpa(gpa, len), len))
    BY <2>1, <2>2, Clamp, BufferConfined
  <2> QED
    BY <2>3, <2>4 DEF WritesConfined
<1>5. \/ touched' = {}
      \/ \E offset \in ConfigOffs, size \in DataLens : ConfigWrite(offset, size)
      \/ \E c \in Corruptions : MmioCorrupt(c)
      \/ \E gpa \in Gpas, size \in DataLens : MemwriteAbsolute(gpa, size)
  BY DEF RegisterOp, ReadOnlyOp, NoEffect, SetFeatures, VqWaitUsed, VqSelect,
         VqKick, SetStatus
<1> QED
  BY <1>1, <1>2, <1>3, <1>4, <1>5

LEMMA WritesInit == Init => WritesConfined
  BY DEF Init, WritesConfined

LEMMA WritesStep ==
  ASSUME TypeOK, Counters, BuffersDisjoint, WritesConfined, [Next]_vars
  PROVE  WritesConfined'
<1>1. ASSUME UNCHANGED vars \/ EndInput PROVE WritesConfined'
  BY <1>1 DEF vars, EndInput, WritesConfined
<1>2. ASSUME StartInput \/ Reset PROVE WritesConfined'
  BY <1>2 DEF StartInput, Reset, ResetIteration, WritesConfined
<1>3. ASSUME NEW i \in VqIdxs, NEW size \in Sizes, VqSetup(i, size)
      PROVE  WritesConfined'
  BY <1>3 DEF VqSetup, WritesConfined
<1>4. ASSUME NEW id \in BufIds, NEW size \in DataLens, GuestMemWrite(id, size)
      PROVE  WritesConfined'
  <2> DEFINE len == Lesser(size, MaxData)
  <2>1. \/ touched' = {}
        \/ /\ AllocFits(g.buf_alloc, len)
           /\ touched' = {Write("buffer", g.buf_alloc, len)}
    BY <1>4 DEF GuestMemWrite, NoEffect
  <2>2. len \in Nat
    BY InputAssumption, PoolAssumption DEF Lesser
  <2> HIDE DEF len
  <2>3. ASSUME AllocFits(g.buf_alloc, len)
        PROVE  Confined(Write("buffer", g.buf_alloc, len))
    <3>1. g.buf_alloc \in BufPoolBase .. BufPoolEnd
      BY DEF BuffersDisjoint
    <3>2. g.buf_alloc >= BufPoolBase /\ g.buf_alloc + len <= BufPoolEnd
      BY <2>2, <2>3, <3>1, Layout, Allocation
    <3> QED
      BY <3>2, BufferConfined
  <2> QED
    BY <2>1, <2>3 DEF WritesConfined
<1>5. ASSUME NEW i \in VqIdxs, NEW id \in BufIds, NEW len \in DescLens,
             NEW writable \in BOOLEAN, NEW more \in BOOLEAN,
             NEW region \in Regions,
             VqAddDesc(i, id, len, writable, more, region)
      PROVE  WritesConfined'
  <2>1. CASE ~CanAddDesc(g, i, id, region)
    BY <1>5, <2>1 DEF VqAddDesc, WritesConfined
  <2>2. CASE CanAddDesc(g, i, id, region)
    <3> DEFINE q == g.vqs[i]
    <3>1. g \in States /\ n \in Nat /\ n < MaxOps /\ MaxOps \in Nat
      BY <1>5, OpsAssumption DEF VqAddDesc, Dispatch, TypeOK
    <3>2. i \in Nat /\ id \in Nat /\ len \in Nat /\ region \in Nat
      BY InputAssumption
    <3>3. /\ i \in Queues /\ q \in VqStates /\ Slot(q) \in Slots
          /\ Slot(q) <= q.next_desc_idx /\ RingSlot(q) \in Slots
      BY <2>2, <3>1, <3>2, AddDescParts
    <3>4. /\ q.desc_gpa = DescGpa(i) /\ q.avail_gpa = AvailGpa(i)
          /\ q.next_desc_idx <= n
      BY <3>3 DEF Counters
    <3>5. Slot(q) \in Nat /\ Slot(q) < MaxOps
      BY <3>1, <3>3, <3>4 DEF Slots, VqStates
    <3>6. \A w \in touched' :
            \/ w = Write("desc", DescGpa(i) + 16 * Slot(q), 16)
            \/ w = Write("avail", AvailGpa(i) + 4 + 2 * RingSlot(q), 2)
            \/ w = Write("avail", AvailGpa(i) + 2, 2)
      BY <1>5, <2>2, <3>4 DEF VqAddDesc
    <3> HIDE DEF q
    <3> QED
      BY <3>3, <3>5, <3>6, DescConfined, AvailConfined DEF WritesConfined
  <2> QED
    BY <2>1, <2>2
<1> QED
  BY <1>1, <1>2, <1>3, <1>4, <1>5, RegisterOpConfined, NextCases

\* The harness never writes outside the area a write is meant for.  The cap on
\* operations is used exactly once, for descriptors (DescConfined).
THEOREM WritesStayConfined == Spec => []WritesConfined
<1>1. Init => TypeOK /\ Counters /\ BuffersDisjoint /\ WritesConfined
  BY TypeInit, CountersInit, BuffersInit, WritesInit
<1>2. TypeOK /\ Counters /\ BuffersDisjoint /\ WritesConfined /\ [Next]_vars
        => (TypeOK /\ Counters /\ BuffersDisjoint /\ WritesConfined)'
  BY TypeStep, CountersStep, BuffersStep, WritesStep
<1> QED
  BY <1>1, <1>2, PTL DEF Spec

----------------------------------------------------------------------------
(* What descriptors point at *)

OffRings(d) == \/ d.addr + d.len <= PoolBase
               \/ d.addr >= BufPoolBase /\ d.addr + d.len <= BufPoolEnd

LEMMA TargetOffRings ==
  ASSUME TypeOK, BuffersDisjoint, NEW i \in Nat, NEW id \in BufIds,
         NEW len \in Nat, NEW region \in Nat, CanAddDesc(g, i, id, region),
         NEW writable \in BOOLEAN, NEW more \in BOOLEAN
  PROVE  OffRings(Descriptor(g.vqs[i], Target(g, id, len, region),
                             writable, more))
<1> DEFINE t == Target(g, id, len, region)
<1>1. CASE region # 0
  <2>1. t.addr + t.len <= PoolBase
    BY <1>1, ExoticTarget, InputAssumption DEF Target
  <2> QED
    BY <2>1 DEF Descriptor, OffRings
<1>2. CASE region = 0
  <2> DEFINE buf == g.bufs[id]
  <2>1. buf # NoBuf /\ buf \in Bufs
    BY <1>2 DEF CanAddDesc, TypeOK, States
  <2>2. /\ buf.gpa >= BufPoolBase /\ buf.gpa + buf.len < g.buf_alloc
        /\ g.buf_alloc \in BufPoolBase .. BufPoolEnd
    BY <2>1 DEF BuffersDisjoint
  <2>3. t = [addr |-> buf.gpa, len |-> Lesser(len, buf.len)]
    BY <1>2 DEF Target
  <2> HIDE DEF buf
  <2>4. /\ Lesser(len, buf.len) \in Nat /\ Lesser(len, buf.len) <= buf.len
        /\ buf.gpa \in Nat /\ buf.len \in Nat
    BY <2>1 DEF Lesser, Bufs
  <2>5. t.addr >= BufPoolBase /\ t.addr + t.len <= BufPoolEnd
    BY <2>2, <2>3, <2>4, Layout
  <2> HIDE DEF t
  <2> QED
    BY <2>5 DEF Descriptor, OffRings, t
<1> QED
  BY <1>1, <1>2

\* The only table entry an operation can change is the one VqAddDesc writes.
LEMMA TablesStep ==
  ASSUME TypeOK, BuffersDisjoint, [Next]_vars
  PROVE  \/ ram'.desc = ram.desc
         \/ \E table \in DescAreas, slot \in Slots, d \in Descriptors :
              /\ OffRings(d)
              /\ ram'.desc = [ram.desc EXCEPT ![table][slot] = d]
<1> DEFINE Goal ==
       \/ ram'.desc = ram.desc
       \/ \E table \in DescAreas, slot \in Slots, d \in Descriptors :
            /\ OffRings(d)
            /\ ram'.desc = [ram.desc EXCEPT ![table][slot] = d]
<1>1. ASSUME \/ UNCHANGED vars \/ EndInput \/ StartInput \/ Reset
      PROVE  Goal
  BY <1>1 DEF vars, EndInput, StartInput, Reset, ResetIteration
<1>2. ASSUME RegisterOp PROVE Goal
  BY <1>2, RegisterOpsType DEF Kept
<1>3. ASSUME NEW i \in VqIdxs, NEW size \in Sizes, VqSetup(i, size) PROVE Goal
  BY <1>3 DEF VqSetup
<1>4. ASSUME NEW id \in BufIds, NEW size \in DataLens, GuestMemWrite(id, size)
      PROVE  Goal
  BY <1>4, GuestMemWriteType, InputAssumption
<1>5. ASSUME NEW i \in VqIdxs, NEW id \in BufIds, NEW len \in DescLens,
             NEW writable \in BOOLEAN, NEW more \in BOOLEAN,
             NEW region \in Regions,
             VqAddDesc(i, id, len, writable, more, region)
      PROVE  Goal
  <2>1. CASE ~CanAddDesc(g, i, id, region)
    BY <1>5, <2>1 DEF VqAddDesc
  <2>2. CASE CanAddDesc(g, i, id, region)
    <3> DEFINE q    == g.vqs[i]
               d    == Descriptor(q, Target(g, id, len, region), writable, more)
               ram1 == PutDesc(ram, q.desc_gpa, Slot(q), d)
               ram2 == PutRing(ram1, q.avail_gpa, RingSlot(q), PublishedHead(q))
               ram3 == PutIdx(ram2, q.avail_gpa, PublishedIdx(q))
    <3>1. g \in States /\ ram \in Rams
      BY DEF TypeOK
    <3>2. i \in Nat /\ id \in Nat /\ len \in Nat /\ region \in Nat
      BY InputAssumption
    <3>3. /\ Slot(q) \in Slots /\ RingSlot(q) \in Slots /\ d \in Descriptors
          /\ PublishedHead(q) \in Nat
      BY <2>2, <3>1, <3>2, AddDescParts
    <3>4. OffRings(d)
      BY <2>2, <3>2, TargetOffRings
    <3>5. ram' = ram1 \/ ram' = ram3
      BY <1>5, <2>2 DEF VqAddDesc
    <3> HIDE DEF d
    <3>6. ram1 \in Rams
      BY <3>1, <3>3, PutType
    <3>7. \/ ram1.desc = ram.desc
          \/ /\ q.desc_gpa \in DescAreas
             /\ ram1.desc = [ram.desc EXCEPT ![q.desc_gpa][Slot(q)] = d]
      BY <3>1 DEF PutDesc, Rams
    <3> HIDE DEF ram1
    <3>8. ram2 \in Rams /\ ram2.desc = ram1.desc
      BY <3>3, <3>6, PutType DEF PutRing, Rams
    <3> HIDE DEF ram2
    <3>9. ram3.desc = ram1.desc
      BY <3>8 DEF PutIdx, Rams
    <3> HIDE DEF ram3
    <3> QED
      BY <3>3, <3>4, <3>5, <3>7, <3>9
  <2> QED
    BY <2>1, <2>2
<1>6. Goal
  <2> HIDE DEF Goal
  <2> QED
    BY <1>1, <1>2, <1>3, <1>4, <1>5, NextCases
<1> QED
  BY <1>6

LEMMA TargetsInit == Init => DescTargetsOffRings
  BY PoolAssumption DEF Init, RamInit, Blank, DescTargetsOffRings

LEMMA TargetsStep ==
  ASSUME TypeOK, BuffersDisjoint, DescTargetsOffRings, [Next]_vars
  PROVE  DescTargetsOffRings'
<1>0. ram \in Rams
  BY DEF TypeOK
<1>1. CASE ram'.desc = ram.desc
  BY <1>1 DEF DescTargetsOffRings
<1>2. ASSUME NEW table \in DescAreas, NEW slot \in Slots, NEW d \in Descriptors,
             OffRings(d), ram'.desc = [ram.desc EXCEPT ![table][slot] = d]
      PROVE  DescTargetsOffRings'
  <2>1. ASSUME NEW a \in DescAreas, NEW s \in Slots
        PROVE  OffRings(ram'.desc[a][s])
    <3>1. ram'.desc[a][s] = d \/ ram'.desc[a][s] = ram.desc[a][s]
      BY <1>0, <1>2 DEF Rams
    <3>2. OffRings(ram.desc[a][s])
      BY DEF DescTargetsOffRings, OffRings
    <3> QED
      BY <1>2, <3>1, <3>2
  <2> QED
    BY <2>1 DEF DescTargetsOffRings, OffRings
<1> QED
  BY <1>1, <1>2, TablesStep

\* The conjunction is inductive: each part rests on TypeOK and on the parts
\* before it.
LEMMA IInvInductive ==
  /\ Init => IInv
  /\ IInv /\ [Next]_vars => IInv'
  BY TypeInit, CountersInit, BuffersInit, WritesInit, TargetsInit,
     TypeStep, CountersStep, BuffersStep, WritesStep, TargetsStep DEF IInv

\* No descriptor in guest memory ever gives the device a ring area or anything
\* behind the pool, however stale the table it is found in.
THEOREM DescriptorsStayOffRings == Spec => []DescTargetsOffRings
<1>1. IInv => DescTargetsOffRings
  BY DEF IInv
<1> QED
  BY <1>1, IInvInductive, PTL DEF Spec

============================================================================
