------------------------ MODULE VirtioBlkQueueProofs -------------------------
(***************************************************************************)
(* What the driver and the device know of a queue: chains of descriptors,  *)
(* the queue's registers, and the two counters of its avail ring.          *)
(***************************************************************************)
EXTENDS VirtioBlkProofs

----------------------------------------------------------------------------
(* A chain under construction *)

Tables == [Slots -> Descriptors]

\* The k-th descriptor of chain c of queue q is linked to the one after it.
LinkAt(q, c, t, k) ==
  /\ t[c[k]].more
  /\ t[c[k]].next = IF k < Len(c) THEN c[k + 1] ELSE Slot(q)

\* The chain is made of the last slots next_desc_idx went through, and linked
\* while it does not come back on itself.
ChainOf(q, c, t) ==
  /\ Len(c) <= q.next_desc_idx
  /\ c # <<>> => q.size # 0
  /\ \A k \in 1 .. Len(c) : c[k] = ((q.next_desc_idx - Len(c)) + (k - 1)) % q.size
  /\ Len(c) <= q.size => \A k \in 1 .. Len(c) : LinkAt(q, c, t, k)

LEMMA EmptyChain ==
  ASSUME NEW q \in VqStates, NEW t
  PROVE  ChainOf(q, <<>>, t)
  BY DEF ChainOf, VqStates

\* A descriptor more at the end of a chain.
LEMMA LongerChain ==
  ASSUME NEW q \in VqStates, NEW c \in Seq(Slots), NEW t \in Tables,
         ChainOf(q, c, t), q.size # 0,
         NEW d \in Descriptors, d.more, d.next = (Slot(q) + 1) % q.size,
         NEW u \in VqStates, u.size = q.size,
         u.next_desc_idx = q.next_desc_idx + 1,
         Slot(q) \in Slots
  PROVE  ChainOf(u, Append(c, Slot(q)), [t EXCEPT ![Slot(q)] = d])
<1> DEFINE len == Len(c)
           x == q.next_desc_idx
           s == q.size
           e == Append(c, Slot(q))
           v == [t EXCEPT ![Slot(q)] = d]
<1>1. /\ len \in Nat /\ x \in Nat /\ s \in Nat \ {0} /\ len <= x
      /\ \A k \in 1 .. len : c[k] = ((x - len) + (k - 1)) % s
      /\ u.size = s /\ u.next_desc_idx = x + 1
  BY DEF ChainOf, VqStates
<1>2. /\ e \in Seq(Slots) /\ Len(e) = len + 1 /\ e[len + 1] = Slot(q)
      /\ \A k \in 1 .. len : e[k] = c[k]
  BY <1>1
<1>3. Slot(q) = x % s /\ Slot(u) = (x + 1) % s
  BY <1>1 DEF Slot
<1>4. d.next = Slot(u)
  <2>1. d.next = ((x % s) + 1) % s
    BY <1>3
  <2> HIDE DEF x, s
  <2>2. ((x % s) + 1) % s = (x + 1) % s
    BY <1>1, NextSlot
  <2> QED
    BY <1>3, <2>1, <2>2
<1> HIDE DEF len, x, s, e
<1>5. e # <<>>
  BY <1>1, <1>2
<1>6. \A k \in 1 .. len + 1 : e[k] = (((x + 1) - (len + 1)) + (k - 1)) % s
  <2> SUFFICES ASSUME NEW k \in 1 .. len + 1
               PROVE  e[k] = (((x + 1) - (len + 1)) + (k - 1)) % s
    OBVIOUS
  <2>1. (x + 1) - (len + 1) = x - len
    BY <1>1
  <2>2. CASE k \in 1 .. len
    BY <1>1, <1>2, <2>1, <2>2
  <2>3. CASE k = len + 1
    <3>1. (x - len) + (k - 1) = x
      BY <1>1, <2>3
    <3> QED
      BY <1>2, <1>3, <2>1, <2>3, <3>1
  <2> QED
    BY <1>1, <2>2, <2>3
<1>7. ASSUME len + 1 <= s, NEW k \in 1 .. len + 1
      PROVE  LinkAt(u, e, v, k)
  <2>1. CASE k = len + 1
    <3>1. v[Slot(q)] = d
      BY DEF Tables
    <3> QED
      BY <1>1, <1>2, <1>4, <2>1, <3>1 DEF LinkAt
  <2>2. CASE k \in 1 .. len
    <3>1. LinkAt(q, c, t, k) /\ Len(c) = len
      BY <1>1, <1>7, <2>2 DEF ChainOf, len, s
    <3>2. e[k] = c[k] /\ k < len + 1 /\ k \in Nat
      BY <1>1, <1>2, <2>2
    <3>3. c[k] # Slot(q)
      <4> DEFINE a == (x - len) + (k - 1)
      <4>1. a \in Nat /\ a < x /\ x < a + s
        BY <1>1, <1>7, <2>2
      <4>2. c[k] = a % s
        BY <1>1, <2>2
      <4> HIDE DEF a
      <4>3. a % s # x % s
        BY <1>1, <4>1, SlotsApart
      <4> QED
        BY <1>3, <4>2, <4>3
    <3>4. v[e[k]] = t[c[k]]
      <4>1. c[k] \in Slots
        BY <2>2 DEF len
      <4> QED
        BY <3>2, <3>3, <4>1 DEF Tables
    <3>5. CASE k < len
      BY <1>1, <1>2, <3>1, <3>2, <3>4, <3>5 DEF LinkAt
    <3>6. CASE k = len
      <4>1. t[c[k]].next = Slot(q) /\ e[k + 1] = Slot(q)
        BY <1>1, <1>2, <3>1, <3>6 DEF LinkAt
      <4> QED
        BY <1>1, <1>2, <3>1, <3>2, <3>4, <4>1 DEF LinkAt
    <3> QED
      BY <1>1, <2>2, <3>5, <3>6
  <2> QED
    BY <1>1, <2>1, <2>2
<1>8. /\ Len(e) <= u.next_desc_idx /\ u.size # 0
      /\ \A k \in 1 .. Len(e) :
           e[k] = ((u.next_desc_idx - Len(e)) + (k - 1)) % u.size
      /\ Len(e) <= u.size => \A k \in 1 .. Len(e) : LinkAt(u, e, v, k)
  <2>1. Len(e) <= u.next_desc_idx /\ u.size # 0
    BY <1>1, <1>2
  <2>2. /\ 1 .. Len(e) = 1 .. len + 1 /\ u.size = s
        /\ u.next_desc_idx - Len(e) = (x + 1) - (len + 1)
    BY <1>1, <1>2
  <2>3. Len(e) <= u.size => len + 1 <= s
    BY <1>1, <1>2
  <2> HIDE DEF v
  <2> QED
    BY <1>6, <1>7, <2>1, <2>2, <2>3
<1> HIDE DEF v
<1> QED
  BY <1>5, <1>8 DEF ChainOf, e, v

\* Only the size and the descriptor counter of a queue matter.
LEMMA SameChain ==
  ASSUME NEW q, NEW c, NEW t, ChainOf(q, c, t), NEW u,
         u.size = q.size, u.next_desc_idx = q.next_desc_idx
  PROVE  ChainOf(u, c, t)
  BY DEF ChainOf, LinkAt, Slot

----------------------------------------------------------------------------
(* What a step that adds a descriptor writes *)

\* Everything an operation that adds a descriptor writes.
Added(i, more) ==
  LET q == g.vqs[i]
      t == ram.desc[DescGpa(i)]
  IN  /\ i \in Queues /\ q \in VqStates /\ q.size # 0
      /\ Slot(q) \in Slots /\ PublishedIdx(q) \in Nat
      /\ g' = AfterAddDesc(g, i, more) /\ g' \in States
      /\ chain' = [chain EXCEPT ![i] = IF more THEN Append(@, Slot(q))
                                       ELSE <<>>]
      /\ \E d \in Descriptors :
           /\ d.more = more /\ d.next = (Slot(q) + 1) % q.size
           /\ ram'.desc = [ram.desc EXCEPT
                             ![DescGpa(i)] = [t EXCEPT ![Slot(q)] = d]]
      /\ ram'.idx = IF more THEN ram.idx
                    ELSE [ram.idx EXCEPT ![AvailGpa(i)] = PublishedIdx(q)]

LEMMA AddDescEffect ==
  ASSUME TypeOK, Counters, NEW i \in VqIdxs, NEW id \in BufIds,
         NEW len \in DescLens, NEW writable \in BOOLEAN, NEW more \in BOOLEAN,
         NEW region \in Regions,
         VqAddDesc(i, id, len, writable, more, region),
         CanAddDesc(g, i, id, region)
  PROVE  Added(i, more)
<1> DEFINE q    == g.vqs[i]
           d    == Descriptor(q, Target(g, id, len, region), writable, more)
           ram1 == PutDesc(ram, q.desc_gpa, Slot(q), d)
           ram2 == PutRing(ram1, q.avail_gpa, RingSlot(q), PublishedHead(q))
           ram3 == PutIdx(ram2, q.avail_gpa, PublishedIdx(q))
<1>1. /\ g \in States /\ ram \in Rams
      /\ i \in Nat /\ id \in Nat /\ len \in Nat /\ region \in Nat
  BY InputAssumption DEF TypeOK
<1>2. /\ i \in Queues /\ q \in VqStates /\ Slot(q) \in Slots
      /\ RingSlot(q) \in Slots /\ d \in Descriptors
      /\ PublishedHead(q) \in Nat /\ PublishedIdx(q) \in Nat
      /\ AfterAddDesc(g, i, more) \in States
  BY <1>1, AddDescParts
<1>3. q.size # 0 /\ d.more = more /\ d.next = (Slot(q) + 1) % q.size
  BY DEF CanAddDesc, Descriptor
<1>4. /\ q.desc_gpa = DescGpa(i) /\ q.avail_gpa = AvailGpa(i)
      /\ DescGpa(i) \in DescAreas /\ AvailGpa(i) \in AvailAreas
  BY <1>2 DEF Counters, DescAreas, AvailAreas
<1>5. /\ g' = AfterAddDesc(g, i, more)
      /\ ram' = IF more THEN ram1 ELSE ram3
      /\ chain' = [chain EXCEPT ![i] = IF more THEN Append(@, Slot(q))
                                       ELSE <<>>]
  BY DEF VqAddDesc
<1> HIDE DEF d
<1>6. /\ ram1 \in Rams /\ ram1.idx = ram.idx
      /\ ram1.desc = [ram.desc EXCEPT ![DescGpa(i)] =
                        [ram.desc[DescGpa(i)] EXCEPT ![Slot(q)] = d]]
  <2>1. ram1 \in Rams
    BY <1>1, <1>2, PutType
  <2> QED
    BY <1>1, <1>4, <2>1 DEF PutDesc, Rams
<1> HIDE DEF ram1
<1>7. ram2 \in Rams /\ ram2.idx = ram1.idx /\ ram2.desc = ram1.desc
  <2>1. ram2 \in Rams
    BY <1>2, <1>6, PutType
  <2> QED
    BY <1>6, <2>1 DEF PutRing, Rams
<1> HIDE DEF ram2
<1>8. /\ ram3.desc = ram2.desc
      /\ ram3.idx = [ram2.idx EXCEPT ![AvailGpa(i)] = PublishedIdx(q)]
  BY <1>4, <1>7 DEF PutIdx, Rams
<1> HIDE DEF ram3
<1>9. /\ ram'.desc = [ram.desc EXCEPT ![DescGpa(i)] =
                        [ram.desc[DescGpa(i)] EXCEPT ![Slot(q)] = d]]
      /\ ram'.idx = IF more THEN ram.idx
                    ELSE [ram.idx EXCEPT ![AvailGpa(i)] = PublishedIdx(q)]
  BY <1>5, <1>6, <1>7, <1>8
<1> HIDE DEF q
<1> QED
  BY <1>2, <1>3, <1>5, <1>9 DEF q, Added

----------------------------------------------------------------------------
(* Open chains stay linked *)

OpenChains ==
  \A i \in Queues : ChainOf(g.vqs[i], chain[i], ram.desc[DescGpa(i)])

LEMMA OpenChainsInit == Init => OpenChains
<1> SUFFICES ASSUME Init, NEW i \in Queues
             PROVE  ChainOf(g.vqs[i], chain[i], ram.desc[DescGpa(i)])
  BY DEF OpenChains
<1>1. g \in States /\ g.vqs[i] \in VqStates /\ chain[i] = <<>>
  BY ResetStateType DEF Init, States, NoChains
<1> QED
  BY <1>1, EmptyChain

LEMMA OpenChainsStep ==
  ASSUME TypeOK, Counters, OpenChains, [Next]_vars
  PROVE  OpenChains'
<1> DEFINE Goal == OpenChains'
<1>0. /\ g \in States /\ g' \in States /\ ram \in Rams
      /\ chain \in [Queues -> Seq(Slots)]
  BY TypeStep DEF TypeOK
<1>1. ASSUME /\ \A i \in Queues : /\ g'.vqs[i].size = g.vqs[i].size
                                  /\ g'.vqs[i].next_desc_idx
                                       = g.vqs[i].next_desc_idx
             /\ UNCHANGED <<ram, chain>>
      PROVE  Goal
  <2> SUFFICES ASSUME NEW i \in Queues
               PROVE  ChainOf(g'.vqs[i], chain'[i], ram'.desc[DescGpa(i)])
    BY DEF OpenChains
  <2>1. ChainOf(g.vqs[i], chain[i], ram.desc[DescGpa(i)])
    BY DEF OpenChains
  <2> QED
    BY <1>1, <2>1, SameChain
<1>2. ASSUME UNCHANGED vars \/ EndInput \/ RegisterOp PROVE Goal
  BY <1>1, <1>2, RegisterOpsType DEF vars, EndInput, Kept
<1>3. ASSUME StartInput \/ Reset PROVE Goal
  <2> SUFFICES ASSUME NEW i \in Queues
               PROVE  ChainOf(g'.vqs[i], chain'[i], ram'.desc[DescGpa(i)])
    BY DEF OpenChains
  <2>1. chain'[i] = <<>> /\ g'.vqs[i] \in VqStates
    BY <1>0, <1>3 DEF StartInput, Reset, ResetIteration, NoChains, States
  <2> QED
    BY <2>1, EmptyChain
<1>4. ASSUME NEW i \in VqIdxs, NEW size \in Sizes, VqSetup(i, size) PROVE Goal
  <2> DEFINE s == SizeFor(size)
  <2>1. ram' = ram /\ s \in 1 .. QueueNumMax
    BY <1>4, QueueSize, InputAssumption DEF VqSetup
  <2>2. CASE g' = g /\ chain' = chain
    BY <1>1, <2>1, <2>2
  <2>3. CASE /\ i \in Queues /\ g' = WithSize(g, i, s)
             /\ chain' = IF s = g.vqs[i].size THEN chain
                         ELSE [chain EXCEPT ![i] = <<>>]
    <3> SUFFICES ASSUME NEW j \in Queues
                 PROVE  ChainOf(g'.vqs[j], chain'[j], ram'.desc[DescGpa(j)])
      BY DEF OpenChains
    <3>1. /\ g'.vqs[j] \in VqStates
          /\ g'.vqs[j].next_desc_idx = g.vqs[j].next_desc_idx
          /\ g'.vqs[j].size = IF j = i THEN s ELSE g.vqs[j].size
      <4> HIDE DEF s
      <4>1. CASE j = i
        BY <1>0, <2>1, <2>3, <4>1, SizedQueue
      <4>2. CASE j # i
        <5>1. g'.vqs[j] = g.vqs[j]
          BY <1>0, <2>1, <2>3, <4>2, SizedQueue
        <5>2. g'.vqs[j] \in VqStates
          BY <1>0 DEF States
        <5> QED
          BY <4>2, <5>1, <5>2
      <4> QED
        BY <4>1, <4>2
    <3>2. ChainOf(g.vqs[j], chain[j], ram.desc[DescGpa(j)])
      BY DEF OpenChains
    <3>3. CASE chain'[j] = <<>>
      BY <3>1, <3>3, EmptyChain
    <3>4. CASE chain'[j] = chain[j] /\ g'.vqs[j].size = g.vqs[j].size
      BY <2>1, <3>1, <3>2, <3>4, SameChain
    <3>5. \/ chain'[j] = <<>>
          \/ chain'[j] = chain[j] /\ g'.vqs[j].size = g.vqs[j].size
      BY <1>0, <2>3, <3>1
    <3> QED
      BY <3>3, <3>4, <3>5
  <2> QED
    BY <1>4, <2>2, <2>3 DEF VqSetup
<1>5. ASSUME NEW id \in BufIds, NEW size \in DataLens, GuestMemWrite(id, size)
      PROVE  Goal
  <2>1. g'.vqs = g.vqs
    BY <1>0, <1>5 DEF GuestMemWrite, NoEffect, WithBuffer, States
  <2> QED
    BY <1>1, <1>5, <2>1, GuestMemWriteType, InputAssumption
<1>6. ASSUME NEW i \in VqIdxs, NEW id \in BufIds, NEW len \in DescLens,
             NEW writable \in BOOLEAN, NEW more \in BOOLEAN,
             NEW region \in Regions,
             VqAddDesc(i, id, len, writable, more, region)
      PROVE  Goal
  <2>1. CASE ~CanAddDesc(g, i, id, region)
    BY <1>1, <1>6, <2>1 DEF VqAddDesc
  <2>2. CASE CanAddDesc(g, i, id, region)
    <3> SUFFICES ASSUME NEW j \in Queues
                 PROVE  ChainOf(g'.vqs[j], chain'[j], ram'.desc[DescGpa(j)])
      BY DEF OpenChains
    <3> DEFINE q == g.vqs[i]
               t == ram.desc[DescGpa(i)]
    <3>1. /\ i \in Queues /\ q \in VqStates /\ q.size # 0 /\ Slot(q) \in Slots
          /\ g' = AfterAddDesc(g, i, more)
          /\ chain' = [chain EXCEPT ![i] = IF more THEN Append(@, Slot(q))
                                           ELSE <<>>]
          /\ \E d \in Descriptors :
               /\ d.more = more /\ d.next = (Slot(q) + 1) % q.size
               /\ ram'.desc = [ram.desc EXCEPT
                                 ![DescGpa(i)] = [t EXCEPT ![Slot(q)] = d]]
      <4>1. Added(i, more)
        BY <1>6, <2>2, AddDescEffect
      <4> QED
        BY <4>1 DEF Added
    <3>2. PICK d \in Descriptors :
            /\ d.more = more /\ d.next = (Slot(q) + 1) % q.size
            /\ ram'.desc = [ram.desc EXCEPT
                              ![DescGpa(i)] = [t EXCEPT ![Slot(q)] = d]]
      BY <3>1
    <3>3. /\ g'.vqs[i] \in VqStates /\ g'.vqs[i].size = q.size
          /\ g'.vqs[i].next_desc_idx = q.next_desc_idx + 1
          /\ j # i => g'.vqs[j] = g.vqs[j]
      BY <1>0, <3>1, AddedQueue
    <3>4. ChainOf(g.vqs[j], chain[j], ram.desc[DescGpa(j)])
      BY DEF OpenChains
    <3>5. DescGpa(j) \in DescAreas /\ ram.desc \in [DescAreas -> Tables]
      BY <1>0 DEF DescAreas, Rams, Tables
    <3>6. CASE j # i
      <4>1. DescGpa(j) # DescGpa(i)
        BY <3>1, <3>6, AreasApart
      <4>2. ram'.desc[DescGpa(j)] = ram.desc[DescGpa(j)] /\ chain'[j] = chain[j]
        BY <1>0, <3>1, <3>2, <3>5, <3>6, <4>1
      <4> QED
        BY <3>3, <3>4, <3>6, <4>2
    <3>7. CASE j = i /\ more
      <4>1. /\ ram'.desc[DescGpa(j)] = [t EXCEPT ![Slot(q)] = d]
            /\ chain'[j] = Append(chain[i], Slot(q))
        BY <1>0, <3>1, <3>2, <3>5, <3>7
      <4>2. t \in Tables /\ chain[i] \in Seq(Slots) /\ ChainOf(q, chain[i], t)
        BY <1>0, <3>1, <3>4, <3>5, <3>7
      <4> HIDE DEF q, t
      <4>3. ChainOf(g'.vqs[i], Append(chain[i], Slot(q)),
                    [t EXCEPT ![Slot(q)] = d])
        BY <3>1, <3>2, <3>3, <3>7, <4>2, LongerChain
      <4> QED
        BY <3>7, <4>1, <4>3
    <3>8. CASE j = i /\ ~more
      <4>1. chain'[j] = <<>>
        BY <1>0, <3>1, <3>8
      <4> QED
        BY <3>3, <3>8, <4>1, EmptyChain
    <3> QED
      BY <3>6, <3>7, <3>8
  <2> QED
    BY <2>1, <2>2
<1>7. Goal
  <2> HIDE DEF Goal
  <2> QED
    BY <1>2, <1>3, <1>4, <1>5, <1>6, NextCases
<1> QED
  BY <1>7

\* However operations follow one another, resets and setups included, a chain
\* that fits its queue is linked in the order its descriptors were added, and
\* no operation in between disturbs a link.
THEOREM OpenChainsLinked == Spec => []OpenChainLinked
<1>1. Init => TypeOK /\ Counters /\ OpenChains
  BY TypeInit, CountersInit, OpenChainsInit
<1>2. TypeOK /\ Counters /\ OpenChains /\ [Next]_vars
        => (TypeOK /\ Counters /\ OpenChains)'
  BY TypeStep, CountersStep, OpenChainsStep
<1>3. OpenChains => OpenChainLinked
  BY DEF OpenChains, OpenChainLinked, ChainOf, LinkAt
<1> QED
  BY <1>1, <1>2, <1>3, PTL DEF Spec

----------------------------------------------------------------------------
(* What VqSetup leaves in the device *)

\* The state of a device queue after the eight register writes of a setup.
Programmed(p, vq, size) ==
  LET W(x, off, v) == Registered(x, off, v)
      p1 == W(p, R_QUEUE_NUM, size)
      p2 == W(W(p1, R_QDESC_LO, Lo(vq.desc_gpa)), R_QDESC_HI, Hi(vq.desc_gpa))
      p3 == W(W(p2, R_QDRV_LO, Lo(vq.avail_gpa)), R_QDRV_HI, Hi(vq.avail_gpa))
      p4 == W(W(p3, R_QDEV_LO, Lo(vq.used_gpa)), R_QDEV_HI, Hi(vq.used_gpa))
  IN  W(p4, R_QUEUE_READY, 1)

LEMMA SetupRegs ==
  /\ R_QUEUE_NUM \in QueueRegs /\ R_QUEUE_READY \in QueueRegs
  /\ R_QDESC_LO \in QueueRegs /\ R_QDESC_HI \in QueueRegs
  /\ R_QDRV_LO \in QueueRegs /\ R_QDRV_HI \in QueueRegs
  /\ R_QDEV_LO \in QueueRegs /\ R_QDEV_HI \in QueueRegs
  BY DEF QueueRegs, QueueConfig

\* An address goes through two 32-bit registers and comes out as it was.
LEMMA ProgrammedFields ==
  ASSUME NEW p \in DevQueueStates, NEW vq \in VqStates,
         NEW size \in 1 .. QueueNumMax
  PROVE  LET r == Programmed(p, vq, size)
         IN  /\ r \in DevQueueStates
             /\ r.ready /\ r.num = size /\ r.last = p.last
             /\ Addr(r.desc) = vq.desc_gpa /\ Addr(r.drv) = vq.avail_gpa
             /\ Addr(r.dvc) = vq.used_gpa
<1> DEFINE W(x, off, v) == Registered(x, off, v)
           p1 == W(p, R_QUEUE_NUM, size)
           p2 == W(p1, R_QDESC_LO, Lo(vq.desc_gpa))
           p3 == W(p2, R_QDESC_HI, Hi(vq.desc_gpa))
           p4 == W(p3, R_QDRV_LO, Lo(vq.avail_gpa))
           p5 == W(p4, R_QDRV_HI, Hi(vq.avail_gpa))
           p6 == W(p5, R_QDEV_LO, Lo(vq.used_gpa))
           p7 == W(p6, R_QDEV_HI, Hi(vq.used_gpa))
           p8 == W(p7, R_QUEUE_READY, 1)
<1>1. /\ vq.desc_gpa \in Nat /\ vq.avail_gpa \in Nat /\ vq.used_gpa \in Nat
      /\ size \in Nat /\ 1 \in Nat
  BY SizeAssumption DEF VqStates
<1>2. ASSUME NEW a \in Nat PROVE Lo(a) \in Nat /\ Hi(a) \in Nat
  BY WordAssumption, Z3 DEF Lo, Hi
<1>3. p1 \in DevQueueStates /\ p1 = [p EXCEPT !.num = size]
  <2>1. p1 \in DevQueueStates
    BY <1>1, SetupRegs, RegisteredType
  <2>2. p1 = [p EXCEPT !.num = size]
    BY RegisteredFields
  <2> QED
    BY <2>1, <2>2
<1> HIDE DEF p1
<1>4. p2 \in DevQueueStates /\ p2 = [p1 EXCEPT !.desc.lo = Lo(vq.desc_gpa)]
  <2>1. p2 \in DevQueueStates
    BY <1>1, <1>2, <1>3, SetupRegs, RegisteredType
  <2>2. p2 = [p1 EXCEPT !.desc.lo = Lo(vq.desc_gpa)]
    BY RegisteredFields
  <2> QED
    BY <2>1, <2>2
<1> HIDE DEF p2
<1>5. p3 \in DevQueueStates /\ p3 = [p2 EXCEPT !.desc.hi = Hi(vq.desc_gpa)]
  <2>1. p3 \in DevQueueStates
    BY <1>1, <1>2, <1>4, SetupRegs, RegisteredType
  <2>2. p3 = [p2 EXCEPT !.desc.hi = Hi(vq.desc_gpa)]
    BY RegisteredFields
  <2> QED
    BY <2>1, <2>2
<1> HIDE DEF p3
<1>6. p4 \in DevQueueStates /\ p4 = [p3 EXCEPT !.drv.lo = Lo(vq.avail_gpa)]
  <2>1. p4 \in DevQueueStates
    BY <1>1, <1>2, <1>5, SetupRegs, RegisteredType
  <2>2. p4 = [p3 EXCEPT !.drv.lo = Lo(vq.avail_gpa)]
    BY RegisteredFields
  <2> QED
    BY <2>1, <2>2
<1> HIDE DEF p4
<1>7. p5 \in DevQueueStates /\ p5 = [p4 EXCEPT !.drv.hi = Hi(vq.avail_gpa)]
  <2>1. p5 \in DevQueueStates
    BY <1>1, <1>2, <1>6, SetupRegs, RegisteredType
  <2>2. p5 = [p4 EXCEPT !.drv.hi = Hi(vq.avail_gpa)]
    BY RegisteredFields
  <2> QED
    BY <2>1, <2>2
<1> HIDE DEF p5
<1>8. p6 \in DevQueueStates /\ p6 = [p5 EXCEPT !.dvc.lo = Lo(vq.used_gpa)]
  <2>1. p6 \in DevQueueStates
    BY <1>1, <1>2, <1>7, SetupRegs, RegisteredType
  <2>2. p6 = [p5 EXCEPT !.dvc.lo = Lo(vq.used_gpa)]
    BY RegisteredFields
  <2> QED
    BY <2>1, <2>2
<1> HIDE DEF p6
<1>9. p7 \in DevQueueStates /\ p7 = [p6 EXCEPT !.dvc.hi = Hi(vq.used_gpa)]
  <2>1. p7 \in DevQueueStates
    BY <1>1, <1>2, <1>8, SetupRegs, RegisteredType
  <2>2. p7 = [p6 EXCEPT !.dvc.hi = Hi(vq.used_gpa)]
    BY RegisteredFields
  <2> QED
    BY <2>1, <2>2
<1> HIDE DEF p7
<1>10. p8 \in DevQueueStates /\ p8 = [p7 EXCEPT !.ready = (1 = 1)]
  <2>1. p8 \in DevQueueStates
    BY <1>1, <1>9, SetupRegs, RegisteredType
  <2>2. p8 = [p7 EXCEPT !.ready = (1 = 1)]
    BY RegisteredFields
  <2> QED
    BY <2>1, <2>2
<1> HIDE DEF p8
<1>11. p1.num = size /\ p1.last = p.last
  BY <1>3 DEF DevQueueStates
<1>12. /\ p3.num = size /\ p3.last = p.last
       /\ p3.desc.lo = Lo(vq.desc_gpa) /\ p3.desc.hi = Hi(vq.desc_gpa)
  BY <1>3, <1>4, <1>5, <1>11 DEF DevQueueStates, Halves
<1>13. /\ p5.num = size /\ p5.last = p.last /\ p5.desc = p3.desc
       /\ p5.drv.lo = Lo(vq.avail_gpa) /\ p5.drv.hi = Hi(vq.avail_gpa)
  BY <1>5, <1>6, <1>7, <1>12 DEF DevQueueStates, Halves
<1>14. /\ p8.num = size /\ p8.last = p.last /\ p8.desc = p3.desc /\ p8.ready
       /\ p8.drv = p5.drv
       /\ p8.dvc.lo = Lo(vq.used_gpa) /\ p8.dvc.hi = Hi(vq.used_gpa)
  BY <1>7, <1>8, <1>9, <1>10, <1>13 DEF DevQueueStates, Halves
<1>15. Programmed(p, vq, size) = p8
  BY DEF Programmed, p1, p2, p3, p4, p5, p6, p7, p8
<1>16. /\ Addr(p8.desc) = vq.desc_gpa /\ Addr(p8.drv) = vq.avail_gpa
       /\ Addr(p8.dvc) = vq.used_gpa
  BY <1>1, <1>12, <1>13, <1>14, HalvesJoin DEF Addr
<1> QED
  BY <1>10, <1>14, <1>15, <1>16

\* The eight writes go to the queue that was selected before them.
LEMMA ProgramQueueEffect ==
  ASSUME NEW d \in Devices, NEW i \in DevQueues, d.sel = i,
         NEW vq \in VqStates, NEW size \in 1 .. QueueNumMax
  PROVE  ProgramQueue(d, vq, size)
           = WithQueue(d, i, Programmed(d.q[i], vq, size))
<1> DEFINE W(x, off, v) == Registered(x, off, v)
           M(x, off, v) == MmioWrite(x, ram, off, v)
           To(x) == WithQueue(d, i, x)
           p0 == d.q[i]
           p1 == W(p0, R_QUEUE_NUM, size)
           p2 == W(p1, R_QDESC_LO, Lo(vq.desc_gpa))
           p3 == W(p2, R_QDESC_HI, Hi(vq.desc_gpa))
           p4 == W(p3, R_QDRV_LO, Lo(vq.avail_gpa))
           p5 == W(p4, R_QDRV_HI, Hi(vq.avail_gpa))
           p6 == W(p5, R_QDEV_LO, Lo(vq.used_gpa))
           p7 == W(p6, R_QDEV_HI, Hi(vq.used_gpa))
           p8 == W(p7, R_QUEUE_READY, 1)
<1>1. /\ vq.desc_gpa \in Nat /\ vq.avail_gpa \in Nat /\ vq.used_gpa \in Nat
      /\ size \in Nat /\ 1 \in Nat
  BY SizeAssumption DEF VqStates
<1>2. ASSUME NEW a \in Nat PROVE Lo(a) \in Nat /\ Hi(a) \in Nat
  BY WordAssumption, Z3 DEF Lo, Hi
<1>3. p0 \in DevQueueStates /\ d = To(p0)
  BY DEF Devices, WithQueue
<1> HIDE DEF p0
<1>4. ASSUME NEW x \in DevQueueStates, NEW v \in Nat, NEW off \in QueueRegs
      PROVE  /\ M(To(x), off, v) = To(W(x, off, v))
             /\ W(x, off, v) \in DevQueueStates
  BY FieldStep
<1> HIDE DEF To, M, W
<1>6. p1 \in DevQueueStates /\ M(d, R_QUEUE_NUM, size) = To(p1)
  BY <1>1, <1>3, <1>4, SetupRegs
<1> HIDE DEF p1
<1>7. /\ p2 \in DevQueueStates
      /\ M(To(p1), R_QDESC_LO, Lo(vq.desc_gpa)) = To(p2)
  BY <1>1, <1>2, <1>4, SetupRegs, <1>6
<1> HIDE DEF p2
<1>8. /\ p3 \in DevQueueStates
      /\ M(To(p2), R_QDESC_HI, Hi(vq.desc_gpa)) = To(p3)
  BY <1>1, <1>2, <1>4, SetupRegs, <1>7
<1> HIDE DEF p3
<1>9. /\ p4 \in DevQueueStates
      /\ M(To(p3), R_QDRV_LO, Lo(vq.avail_gpa)) = To(p4)
  BY <1>1, <1>2, <1>4, SetupRegs, <1>8
<1> HIDE DEF p4
<1>10. /\ p5 \in DevQueueStates
       /\ M(To(p4), R_QDRV_HI, Hi(vq.avail_gpa)) = To(p5)
  BY <1>1, <1>2, <1>4, SetupRegs, <1>9
<1> HIDE DEF p5
<1>11. /\ p6 \in DevQueueStates
       /\ M(To(p5), R_QDEV_LO, Lo(vq.used_gpa)) = To(p6)
  BY <1>1, <1>2, <1>4, SetupRegs, <1>10
<1> HIDE DEF p6
<1>12. /\ p7 \in DevQueueStates
       /\ M(To(p6), R_QDEV_HI, Hi(vq.used_gpa)) = To(p7)
  BY <1>1, <1>2, <1>4, SetupRegs, <1>11
<1> HIDE DEF p7
<1>13. M(To(p7), R_QUEUE_READY, 1) = To(p8)
  BY <1>1, <1>4, SetupRegs, <1>12
<1>14. ProgramQueue(d, vq, size)
         = M(M(M(M(M(M(M(M(d, R_QUEUE_NUM, size),
                       R_QDESC_LO, Lo(vq.desc_gpa)),
                     R_QDESC_HI, Hi(vq.desc_gpa)),
                   R_QDRV_LO, Lo(vq.avail_gpa)),
                 R_QDRV_HI, Hi(vq.avail_gpa)),
               R_QDEV_LO, Lo(vq.used_gpa)),
             R_QDEV_HI, Hi(vq.used_gpa)),
           R_QUEUE_READY, 1)
  BY DEF ProgramQueue, M
<1>15. Programmed(d.q[i], vq, size) = p8
  BY DEF Programmed, W, p0, p1, p2, p3, p4, p5, p6, p7
<1>16. ProgramQueue(d, vq, size) = To(p8)
  <2> HIDE DEF p8
  <2> QED
    BY <1>6, <1>7, <1>8, <1>9, <1>10, <1>11, <1>12, <1>13, <1>14
<1> QED
  BY <1>15, <1>16 DEF To

----------------------------------------------------------------------------
(* A ready queue holds what the harness keeps for it *)

\* The device keeps its shape, and queues have the used ring of their own area.
DevOK == /\ dev \in Devices
         /\ \A i \in Queues : g.vqs[i].used_gpa = UsedGpa(i)

\* What the device has for a queue is what the harness has.
Agree(p, vq) ==
  p.ready => /\ p.num = vq.size /\ vq.size > 0
             /\ Addr(p.desc) = vq.desc_gpa
             /\ Addr(p.drv) = vq.avail_gpa
             /\ Addr(p.dvc) = vq.used_gpa

\* The device's place in an avail ring: as it was, at the start, or where
\* avail.idx is.
Moved(i) ==
  \/ dev'.q[i].last = dev.q[i].last
  \/ dev'.q[i].last = 0
  \/ dev'.q[i].last = ram.idx[AvailGpa(i)]

LEMMA DevOKInit == Init => DevOK /\ RingsProgrammed
<1> SUFFICES ASSUME Init PROVE DevOK /\ RingsProgrammed
  OBVIOUS
<1>1. DevOK
  BY DevInitType DEF Init, DevOK, ResetState, FreshVq
<1>2. RingsProgrammed
  BY DevInitType DEF Init, RingsProgrammed
<1> QED
  BY <1>1, <1>2

LEMMA UsedStep ==
  ASSUME TypeOK, DevOK, [Next]_vars, NEW i \in Queues
  PROVE  g'.vqs[i].used_gpa = UsedGpa(i)
<1>1. g \in States /\ g' \in States /\ g.vqs[i].used_gpa = UsedGpa(i)
  BY TypeStep DEF TypeOK, DevOK
<1>2. CASE g' = ResetState
  BY <1>2 DEF ResetState, FreshVq
<1>3. CASE g' = g
  BY <1>1, <1>3
<1>4. ASSUME NEW j \in Queues, NEW size \in 1 .. QueueNumMax,
             g' = WithSize(g, j, size)
      PROVE  g'.vqs[i].used_gpa = UsedGpa(i)
  BY <1>1, <1>4, SizedQueue
<1>5. ASSUME NEW id \in BufIds, NEW len \in 0 .. MaxData,
             g' = WithBuffer(g, id, len)
      PROVE  g'.vqs = g.vqs
  BY <1>1, <1>5 DEF WithBuffer, States
<1>6. ASSUME NEW j \in Queues, NEW more \in BOOLEAN, GrownBy(j, more)
      PROVE  g'.vqs[i].used_gpa = UsedGpa(i)
  BY <1>1, <1>6, AddedQueue DEF GrownBy
<1> QED
  BY <1>1, <1>2, <1>3, <1>4, <1>5, <1>6, StateStep

\* An operation on registers keeps the device's shape and programs no queue.
LEMMA RegisterOpDevice ==
  ASSUME TypeOK, DevOK, QuietCorruptions, RegisterOp
  PROVE  dev' \in Devices /\ QuietStep(dev, dev', ram)
<1> DEFINE Goal == dev' \in Devices /\ QuietStep(dev, dev', ram)
<1>0. /\ dev \in Devices /\ ram \in Rams /\ dev.status \in SUBSET StatusBits
      /\ \A i \in VqIdxs : i \in Nat
      /\ \A bits \in StatusArgs : bits \in SUBSET StatusBits
  BY InputAssumption DEF TypeOK, DevOK, Devices
<1>1. ASSUME dev' = dev PROVE Goal
  BY <1>0, <1>1, SameQuiet
<1>2. ASSUME NEW bits \in SUBSET StatusBits, dev' = SetDevStatus(dev, bits)
      PROVE  Goal
  BY <1>0, <1>2, SetDevStatusQuiet
<1>3. ASSUME NEW off \in Nat, NEW v \in Nat, Quiet(off, v),
             dev' = MmioWrite(dev, ram, off, v)
      PROVE  Goal
  BY <1>0, <1>3, MmioWriteType
<1>4. /\ \A v : Quiet(R_QUEUE_SEL, v) /\ Quiet(R_QUEUE_NOTIFY, v)
                /\ Quiet(R_INT_ACK, v)
      /\ R_QUEUE_SEL \in Nat /\ R_QUEUE_NOTIFY \in Nat /\ R_INT_ACK \in Nat
  <2>1. R_QUEUE_SEL \in Nat /\ R_QUEUE_NOTIFY \in Nat /\ R_INT_ACK \in Nat
    BY DEF R_QUEUE_SEL, R_QUEUE_NOTIFY, R_INT_ACK
  <2> QED
    BY <2>1, QueueRegsApart DEF Quiet, QueueRegs
<1>5. ASSUME ReadOnlyOp PROVE Goal
  BY <1>1, <1>5 DEF ReadOnlyOp, NoEffect
<1>6. ASSUME SetFeatures PROVE Goal
  <2>1. dev.status \cup {kStatusFeaturesOk} \in SUBSET StatusBits
    BY <1>0 DEF StatusBits
  <2> QED
    BY <1>2, <1>6, <2>1 DEF SetFeatures
<1>7. ASSUME VqWaitUsed PROVE Goal
  <2>1. dev' = dev \/ dev' = MmioWrite(dev, ram, R_INT_ACK, 1)
    BY <1>7 DEF VqWaitUsed
  <2> QED
    BY <1>1, <1>3, <1>4, <2>1
<1>8. ASSUME NEW offset \in ConfigOffs, NEW size \in DataLens,
             ConfigWrite(offset, size)
      PROVE  Goal
  BY <1>1, <1>8 DEF ConfigWrite
<1>9. ASSUME NEW i \in VqIdxs, VqSelect(i) PROVE Goal
  <2>1. i % 256 \in Nat
    BY <1>0, Z3
  <2> QED
    BY <1>3, <1>4, <1>9, <2>1 DEF VqSelect
<1>10. ASSUME NEW i \in VqIdxs, VqKick(i) PROVE Goal
  BY <1>0, <1>3, <1>4, <1>10 DEF VqKick
<1>11. ASSUME NEW bits \in StatusArgs, SetStatus(bits) PROVE Goal
  <2>1. dev.status \cup bits \in SUBSET StatusBits /\ {} \in SUBSET StatusBits
    BY <1>0
  <2>2. dev' = SetDevStatus(dev, {}) \/ dev' = SetDevStatus(dev, dev.status \cup bits)
    BY <1>11 DEF SetStatus
  <2> QED
    BY <1>2, <2>1, <2>2
<1>12. ASSUME NEW c \in Corruptions, MmioCorrupt(c) PROVE Goal
  <2> DEFINE off == c.off % MmioSize
  <2>1. c.off \in Nat /\ c.value \in Nat
    BY InputAssumption
  <2>2. off \in Nat
    BY <2>1, Z3 DEF MmioSize
  <2>3. \/ dev' = dev
        \/ /\ c.size \notin {1, 2} /\ off \in Registers
           /\ dev' = MmioWrite(dev, ram, off, c.value)
    BY <1>12 DEF MmioCorrupt
  <2>4. c.size \notin {1, 2} /\ off \in Registers => Quiet(off, c.value)
    BY DEF QuietCorruptions
  <2> HIDE DEF off
  <2> QED
    BY <1>1, <1>3, <2>1, <2>2, <2>3, <2>4
<1>13. ASSUME NEW gpa \in Gpas, NEW size \in DataLens,
              MemwriteAbsolute(gpa, size)
       PROVE  Goal
  BY <1>1, <1>13 DEF MemwriteAbsolute, NoEffect
<1>14. Goal
  <2> HIDE DEF Goal
  <2>1. CASE ReadOnlyOp \/ SetFeatures \/ VqWaitUsed
    BY <1>5, <1>6, <1>7, <2>1
  <2>2. CASE \E offset \in ConfigOffs, size \in DataLens :
               ConfigWrite(offset, size)
    BY <1>8, <2>2
  <2>3. CASE \E i \in VqIdxs : VqSelect(i) \/ VqKick(i)
    BY <1>9, <1>10, <2>3
  <2>4. CASE \E bits \in StatusArgs : SetStatus(bits)
    BY <1>11, <2>4
  <2>5. CASE \E c \in Corruptions : MmioCorrupt(c)
    BY <1>12, <2>5
  <2>6. CASE \E gpa \in Gpas, size \in DataLens : MemwriteAbsolute(gpa, size)
    BY <1>13, <2>6
  <2> QED
    BY <2>1, <2>2, <2>3, <2>4, <2>5, <2>6 DEF RegisterOp
<1> QED
  BY <1>14

\* The reset that opens an input leaves no queue ready.
LEMMA ResetDevice ==
  ASSUME DevOK, ResetIteration
  PROVE  /\ dev' \in Devices
         /\ \A i \in DevQueues : ~dev'.q[i].ready /\ dev'.q[i].last = 0
<1> DEFINE d == SetDevStatus(dev, {})
           bits == {kStatusAck, kStatusDriver}
<1>1. d = DevInit /\ d \in Devices
  BY DevInitType DEF SetDevStatus
<1>2. bits \in SUBSET StatusBits
  BY DEF StatusBits
<1>3. dev' = SetDevStatus(d, bits)
  BY DEF ResetIteration
<1>4. dev' \in Devices /\ dev'.q = d.q
  BY <1>1, <1>2, <1>3, SetDevStatusQuiet DEF SetDevStatus, Devices
<1> QED
  BY <1>1, <1>4, DevInitType

\* A setup selects the queue and, if the device has it, programs it whole.
LEMMA VqSetupDevice ==
  ASSUME TypeOK, DevOK, NEW i \in VqIdxs, NEW size \in Sizes, VqSetup(i, size)
  PROVE  /\ dev' \in Devices
         /\ \/ g' = g /\ QuietStep(dev, dev', ram)
            \/ /\ i \in DevQueues /\ g' = WithSize(g, i, SizeFor(size))
               /\ dev'.q[i].last = dev.q[i].last
               /\ Agree(dev'.q[i], g'.vqs[i])
               /\ \A j \in DevQueues \ {i} : /\ dev'.q[j] = dev.q[j]
                                             /\ g'.vqs[j] = g.vqs[j]
<1> DEFINE d == MmioWrite(dev, ram, R_QUEUE_SEL, i)
           s == SizeFor(size)
<1>0. dev \in Devices /\ ram \in Rams /\ g \in States /\ i \in Nat
  BY InputAssumption DEF TypeOK, DevOK
<1>1. /\ d = [dev EXCEPT !.sel = i]
      /\ d \in Devices /\ d.sel = i /\ d.q = dev.q
  BY <1>0, OtherOffsets DEF Devices
<1>2. QuietStep(dev, d, ram)
  BY <1>1 DEF QuietStep, Undisturbed
<1>3. s \in 1 .. QueueNumMax
  BY QueueSize, InputAssumption
<1>4. NumMax(d) = 0 <=> i \notin DevQueues
  BY <1>1, SizeAssumption DEF NumMax
<1>5. CASE i \notin Queues
  <2>1. g' = g /\ dev' = dev
    BY <1>5 DEF VqSetup
  <2> QED
    BY <1>0, <2>1, SameQuiet
<1>6. CASE i \in Queues /\ i \notin DevQueues
  <2>1. g' = g /\ dev' = d
    BY <1>4, <1>6 DEF VqSetup
  <2> QED
    BY <1>1, <1>2, <2>1
<1>7. CASE i \in DevQueues
  <2> DEFINE vq == g.vqs[i]
             p == Programmed(dev.q[i], vq, s)
  <2>1. i \in Queues /\ vq \in VqStates /\ dev.q[i] \in DevQueueStates
    BY <1>0, <1>7, DeviceAssumption DEF States, Devices
  <2>2. g' = WithSize(g, i, s) /\ dev' = ProgramQueue(d, vq, s)
    BY <1>4, <1>7, <2>1 DEF VqSetup
  <2> HIDE DEF s, d
  <2>3. dev' = WithQueue(d, i, p)
    <3>1. d \in Devices /\ d.sel = i /\ d.q[i] = dev.q[i]
      BY <1>1
    <3> HIDE DEF vq
    <3>2. ProgramQueue(d, vq, s) = WithQueue(d, i, Programmed(d.q[i], vq, s))
      BY <1>3, <1>7, <2>1, <3>1, ProgramQueueEffect
    <3> QED
      BY <2>2, <3>1, <3>2
  <2>4. /\ p \in DevQueueStates
        /\ p.ready /\ p.num = s /\ p.last = dev.q[i].last
        /\ Addr(p.desc) = vq.desc_gpa /\ Addr(p.drv) = vq.avail_gpa
        /\ Addr(p.dvc) = vq.used_gpa
    BY <1>3, <2>1, ProgrammedFields
  <2> HIDE DEF p
  <2>5. /\ dev' \in Devices /\ dev'.q[i] = p
        /\ \A j \in DevQueues \ {i} : dev'.q[j] = dev.q[j]
    <3>1. d \in Devices /\ d.q = dev.q
      BY <1>1
    <3>2. LET e == WithQueue(d, i, p)
          IN  /\ e \in Devices /\ e.q[i] = p
              /\ \A j \in DevQueues \ {i} : e.q[j] = d.q[j]
      BY <1>7, <2>4, <3>1, WithQueueType
    <3> QED
      BY <2>3, <3>1, <3>2
  <2>6. /\ g'.vqs[i].desc_gpa = vq.desc_gpa
        /\ g'.vqs[i].avail_gpa = vq.avail_gpa
        /\ g'.vqs[i].used_gpa = vq.used_gpa /\ g'.vqs[i].size = s
        /\ \A j \in Queues \ {i} : g'.vqs[j] = g.vqs[j]
    BY <1>0, <1>3, <2>1, <2>2, SizedQueue
  <2>7. s > 0
    BY <1>3, SizeAssumption
  <2>8. Agree(dev'.q[i], g'.vqs[i])
    BY <2>4, <2>5, <2>6, <2>7 DEF Agree
  <2> QED
    BY <1>7, <2>2, <2>4, <2>5, <2>6, <2>8, DeviceAssumption DEF s
<1> QED
  BY <1>5, <1>6, <1>7, DeviceAssumption

\* A queue the step left alone agrees with the harness as it did before.
LEMMA QuietRings ==
  ASSUME Counters, DevOK, RingsProgrammed, QuietStep(dev, dev', ram),
         NEW i \in DevQueues,
         g'.vqs[i].size = g.vqs[i].size,
         g'.vqs[i].desc_gpa = g.vqs[i].desc_gpa,
         g'.vqs[i].avail_gpa = g.vqs[i].avail_gpa,
         g'.vqs[i].used_gpa = g.vqs[i].used_gpa
  PROVE  Agree(dev'.q[i], g'.vqs[i]) /\ Moved(i)
<1>1. Undisturbed(dev.q[i], dev'.q[i], ram)
  BY DEF QuietStep
<1>2. Agree(dev.q[i], g.vqs[i])
  BY DEF RingsProgrammed, Agree
<1>3. g.vqs[i].avail_gpa = AvailGpa(i)
  BY DeviceAssumption DEF Counters
<1> QED
  BY <1>1, <1>2, <1>3 DEF Undisturbed, Agree, Moved

LEMMA DeviceStep ==
  ASSUME TypeOK, Counters, DevOK, RingsProgrammed, QuietCorruptions,
         [Next]_vars
  PROVE  /\ dev' \in Devices
         /\ \A i \in DevQueues : Agree(dev'.q[i], g'.vqs[i]) /\ Moved(i)
<1> DEFINE Goal == /\ dev' \in Devices
                   /\ \A i \in DevQueues : /\ Agree(dev'.q[i], g'.vqs[i])
                                           /\ Moved(i)
<1>0. dev \in Devices /\ g \in States /\ DevQueues \subseteq Queues
  BY DeviceAssumption DEF TypeOK, DevOK
<1>1. ASSUME g'.vqs = g.vqs, dev' \in Devices, QuietStep(dev, dev', ram)
      PROVE  Goal
  BY <1>1, QuietRings
<1>2. ASSUME UNCHANGED vars \/ EndInput PROVE Goal
  BY <1>0, <1>1, <1>2, SameQuiet DEF vars, EndInput
<1>3. ASSUME StartInput \/ Reset PROVE Goal
  <2>1. ResetIteration
    BY <1>3 DEF StartInput, Reset
  <2> QED
    BY <2>1, ResetDevice DEF Agree, Moved
<1>4. ASSUME RegisterOp PROVE Goal
  BY <1>1, <1>4, RegisterOpDevice, RegisterOpsType DEF Kept
<1>5. ASSUME NEW i \in VqIdxs, NEW size \in Sizes, VqSetup(i, size) PROVE Goal
  <2>1. CASE g' = g /\ QuietStep(dev, dev', ram)
    BY <1>1, <1>5, <2>1, VqSetupDevice
  <2>2. CASE /\ i \in DevQueues
             /\ dev'.q[i].last = dev.q[i].last
             /\ Agree(dev'.q[i], g'.vqs[i])
             /\ \A j \in DevQueues \ {i} : /\ dev'.q[j] = dev.q[j]
                                           /\ g'.vqs[j] = g.vqs[j]
    <3>1. ASSUME NEW j \in DevQueues
          PROVE  Agree(dev'.q[j], g'.vqs[j]) /\ Moved(j)
      BY <2>2 DEF RingsProgrammed, Agree, Moved
    <3> QED
      BY <1>5, <3>1, VqSetupDevice
  <2> QED
    BY <1>5, <2>1, <2>2, VqSetupDevice
<1>6. ASSUME NEW id \in BufIds, NEW size \in DataLens, GuestMemWrite(id, size)
      PROVE  Goal
  <2>1. dev' = dev /\ g'.vqs = g.vqs
    BY <1>0, <1>6 DEF GuestMemWrite, NoEffect, WithBuffer, States
  <2> QED
    BY <1>0, <1>1, <2>1, SameQuiet
<1>7. ASSUME NEW i \in VqIdxs, NEW id \in BufIds, NEW len \in DescLens,
             NEW writable \in BOOLEAN, NEW more \in BOOLEAN,
             NEW region \in Regions,
             VqAddDesc(i, id, len, writable, more, region)
      PROVE  Goal
  <2>1. dev' = dev /\ QuietStep(dev, dev', ram)
    BY <1>7, SameQuiet DEF VqAddDesc
  <2>2. CASE ~CanAddDesc(g, i, id, region)
    BY <1>0, <1>1, <1>7, <2>1, <2>2 DEF VqAddDesc
  <2>3. CASE CanAddDesc(g, i, id, region)
    <3>1. i \in Queues /\ g' = AfterAddDesc(g, i, more) /\ g' \in States
      BY <1>7, <2>3, AddDescEffect DEF Added
    <3>2. ASSUME NEW j \in DevQueues
          PROVE  /\ g'.vqs[j].size = g.vqs[j].size
                 /\ g'.vqs[j].desc_gpa = g.vqs[j].desc_gpa
                 /\ g'.vqs[j].avail_gpa = g.vqs[j].avail_gpa
                 /\ g'.vqs[j].used_gpa = g.vqs[j].used_gpa
      BY <1>0, <3>1, AddedQueue
    <3> QED
      BY <1>0, <2>1, <3>2, QuietRings
  <2> QED
    BY <2>2, <2>3
<1>8. Goal
  <2> HIDE DEF Goal
  <2> QED
    BY <1>2, <1>3, <1>4, <1>5, <1>6, <1>7, NextCases
<1> QED
  BY <1>8

LEMMA RingsStep ==
  ASSUME TypeOK, Counters, DevOK, RingsProgrammed, QuietCorruptions,
         [Next]_vars
  PROVE  DevOK' /\ RingsProgrammed'
<1>1. DevOK'
  BY DeviceStep, UsedStep DEF DevOK
<1>2. RingsProgrammed'
  BY DeviceStep DEF RingsProgrammed, Agree
<1> QED
  BY <1>1, <1>2

\* Whatever inputs, resets by either side and repeated setups do, a queue the
\* device takes to be ready has the size and the addresses the harness keeps,
\* unless an input writes the queue's registers behind the harness's back.
THEOREM RingsStayProgrammed == QuietCorruptions => (Spec => []RingsProgrammed)
<1> SUFFICES ASSUME QuietCorruptions PROVE Spec => []RingsProgrammed
  OBVIOUS
<1>1. Init => TypeOK /\ Counters /\ DevOK /\ RingsProgrammed
  BY TypeInit, CountersInit, DevOKInit
<1>2. TypeOK /\ Counters /\ DevOK /\ RingsProgrammed /\ [Next]_vars
        => (TypeOK /\ Counters /\ DevOK /\ RingsProgrammed)'
  BY TypeStep, CountersStep, RingsStep
<1> QED
  BY <1>1, <1>2, PTL DEF Spec

----------------------------------------------------------------------------
(* The driver's counter, avail.idx and the device *)

InStep ==
  \A i \in Queues : ram.idx[AvailGpa(i)] = g.vqs[i].next_avail_idx % IdxSpace

NotAhead ==
  \A i \in DevQueues : dev.q[i].last <= g.vqs[i].next_avail_idx

\* Before the input nothing was published.
NotYet ==
  inputs = 0 => /\ phase = "idle"
                /\ \A i \in Queues : g.vqs[i].next_avail_idx = 0

\* What was published is the counter modulo IdxSpace.
LEMMA IdxMod ==
  /\ 0 % IdxSpace = 0
  /\ \A x \in Nat : x % IdxSpace \in Nat /\ x % IdxSpace <= x
  BY DeviceAssumption, Z3

LEMMA InStepInit == Init => InStep /\ NotAhead /\ NotYet
<1> SUFFICES ASSUME Init PROVE InStep /\ NotAhead /\ NotYet
  OBVIOUS
<1>1. /\ \A i \in Queues : g.vqs[i].next_avail_idx = 0
      /\ \A i \in Queues : ram.idx[AvailGpa(i)] = 0
      /\ \A i \in DevQueues : dev.q[i].last = 0
      /\ phase = "idle"
  BY DevInitType DEF Init, ResetState, FreshVq, RamInit, AvailAreas
<1>2. DevQueues \subseteq Queues
  BY DeviceAssumption
<1> QED
  BY <1>1, <1>2, IdxMod DEF InStep, NotAhead, NotYet

\* How a step moves the counter and avail.idx of a queue.
LEMMA IdxStep ==
  ASSUME TypeOK, Counters, InStep, NotYet, OneInput, [Next]_vars,
         NEW i \in Queues
  PROVE  /\ ram'.idx[AvailGpa(i)] = g'.vqs[i].next_avail_idx % IdxSpace
         /\ g.vqs[i].next_avail_idx <= g'.vqs[i].next_avail_idx
<1> DEFINE Goal ==
      /\ ram'.idx[AvailGpa(i)] = g'.vqs[i].next_avail_idx % IdxSpace
      /\ g.vqs[i].next_avail_idx <= g'.vqs[i].next_avail_idx
<1>0. /\ g \in States /\ g' \in States /\ ram \in Rams
      /\ g.vqs[i].next_avail_idx \in Nat
      /\ ram.idx[AvailGpa(i)] = g.vqs[i].next_avail_idx % IdxSpace
  BY TypeStep DEF TypeOK, States, VqStates, InStep
<1>1. ASSUME ram' = ram, g'.vqs[i].next_avail_idx = g.vqs[i].next_avail_idx
      PROVE  Goal
  BY <1>0, <1>1
<1>2. ASSUME UNCHANGED vars \/ EndInput \/ RegisterOp PROVE Goal
  BY <1>1, <1>2, RegisterOpsType DEF vars, EndInput, Kept
<1>3. ASSUME StartInput PROVE Goal
  <2>1. inputs = 0
    BY <1>3, OpsAssumption DEF StartInput, OneInput, TypeOK
  <2>2. g.vqs[i].next_avail_idx = 0
    BY <2>1 DEF NotYet
  <2>3. g'.vqs[i].next_avail_idx = 0 /\ ram' = ram
    BY <1>3 DEF StartInput, ResetIteration, ResetState, FreshVq
  <2> QED
    BY <1>1, <2>2, <2>3
<1>4. ~Reset
  BY DEF Reset, Dispatch, OneInput
<1>5. ASSUME NEW j \in VqIdxs, NEW size \in Sizes, VqSetup(j, size) PROVE Goal
  <2>1. ram' = ram
    BY <1>5 DEF VqSetup
  <2>2. CASE g' = g
    BY <1>1, <2>1, <2>2
  <2>3. CASE j \in Queues /\ g' = WithSize(g, j, SizeFor(size))
    <3>1. g'.vqs[i].next_avail_idx = g.vqs[i].next_avail_idx
      BY <1>0, <2>3, QueueSize, InputAssumption, SizedQueue
    <3> QED
      BY <1>1, <2>1, <3>1
  <2> QED
    BY <1>5, <2>2, <2>3 DEF VqSetup
<1>6. ASSUME NEW id \in BufIds, NEW size \in DataLens, GuestMemWrite(id, size)
      PROVE  Goal
  <2>1. g'.vqs = g.vqs /\ ram' = ram
    BY <1>0, <1>6 DEF GuestMemWrite, NoEffect, WithBuffer, States
  <2> QED
    BY <1>1, <2>1
<1>7. ASSUME NEW j \in VqIdxs, NEW id \in BufIds, NEW len \in DescLens,
             NEW writable \in BOOLEAN, NEW more \in BOOLEAN,
             NEW region \in Regions,
             VqAddDesc(j, id, len, writable, more, region)
      PROVE  Goal
  <2>1. CASE ~CanAddDesc(g, j, id, region)
    BY <1>1, <1>7, <2>1 DEF VqAddDesc
  <2>2. CASE CanAddDesc(g, j, id, region)
    <3>1. /\ j \in Queues /\ g' = AfterAddDesc(g, j, more)
          /\ ram'.idx = IF more THEN ram.idx
                        ELSE [ram.idx EXCEPT
                                ![AvailGpa(j)] = PublishedIdx(g.vqs[j])]
      <4>1. Added(j, more)
        BY <1>7, <2>2, AddDescEffect
      <4> QED
        BY <4>1 DEF Added
    <3>2. /\ g'.vqs[j].next_avail_idx =
               IF more THEN g.vqs[j].next_avail_idx
               ELSE g.vqs[j].next_avail_idx + 1
          /\ i # j => g'.vqs[i] = g.vqs[i]
      BY <1>0, <3>1, AddedQueue
    <3>3. CASE i # j
      <4>1. AvailGpa(i) # AvailGpa(j)
        BY <3>1, <3>3, AreasApart
      <4>2. ram'.idx[AvailGpa(i)] = ram.idx[AvailGpa(i)]
        BY <1>0, <3>1, <4>1 DEF Rams, AvailAreas
      <4> QED
        BY <1>0, <3>2, <3>3, <4>2
    <3>4. CASE i = j /\ more
      <4>1. /\ ram'.idx = ram.idx
            /\ g'.vqs[i].next_avail_idx = g.vqs[i].next_avail_idx
        BY <3>1, <3>2, <3>4
      <4> QED
        BY <1>0, <4>1
    <3>5. CASE i = j /\ ~more
      <4>1. ram'.idx[AvailGpa(i)] = PublishedIdx(g.vqs[i])
        BY <1>0, <3>1, <3>5 DEF Rams, AvailAreas
      <4>2. PublishedIdx(g.vqs[i]) = g'.vqs[i].next_avail_idx % IdxSpace
        BY <3>2, <3>5 DEF PublishedIdx
      <4> QED
        BY <1>0, <3>2, <3>5, <4>1, <4>2
    <3> QED
      BY <3>3, <3>4, <3>5
  <2> QED
    BY <2>1, <2>2
<1>8. Goal
  <2> HIDE DEF Goal
  <2> QED
    BY <1>2, <1>3, <1>4, <1>5, <1>6, <1>7, NextCases
<1> QED
  BY <1>8

LEMMA NotAheadStep ==
  ASSUME TypeOK, Counters, DevOK, RingsProgrammed, InStep, NotAhead, NotYet,
         OneInput, QuietCorruptions, [Next]_vars
  PROVE  NotAhead'
<1> SUFFICES ASSUME NEW i \in DevQueues
             PROVE  dev'.q[i].last <= g'.vqs[i].next_avail_idx
  BY DEF NotAhead
<1>1. i \in Queues
  BY DeviceAssumption
<1>2. /\ g.vqs[i].next_avail_idx \in Nat /\ g'.vqs[i].next_avail_idx \in Nat
      /\ dev.q[i].last \in Nat
  BY <1>1, TypeStep DEF TypeOK, States, VqStates, DevOK, Devices, DevQueueStates
<1>3. g.vqs[i].next_avail_idx <= g'.vqs[i].next_avail_idx
  BY <1>1, IdxStep
<1>4. /\ dev.q[i].last <= g.vqs[i].next_avail_idx
      /\ ram.idx[AvailGpa(i)] = g.vqs[i].next_avail_idx % IdxSpace
  BY <1>1 DEF NotAhead, InStep
<1>5. /\ ram.idx[AvailGpa(i)] \in Nat
      /\ ram.idx[AvailGpa(i)] <= g.vqs[i].next_avail_idx
  BY <1>2, <1>4, IdxMod
<1>6. Moved(i)
  BY DeviceStep
<1> QED
  BY <1>2, <1>3, <1>4, <1>5, <1>6 DEF Moved

LEMMA NotYetStep ==
  ASSUME TypeOK, NotYet, [Next]_vars
  PROVE  NotYet'
<1>1. inputs \in Nat
  BY OpsAssumption DEF TypeOK
<1>2. CASE UNCHANGED vars
  BY <1>2 DEF vars, NotYet
<1>3. CASE StartInput
  BY <1>1, <1>3 DEF StartInput, NotYet
<1>4. CASE phase = "run" /\ inputs' = inputs
  BY <1>4 DEF NotYet
<1>5. \/ UNCHANGED vars \/ StartInput \/ EndInput
      \/ \E kind : Dispatch(kind)
  <2>1. RegisterOp \/ Reset => \E kind : Dispatch(kind)
    BY DEF RegisterOp, ReadOnlyOp, SetFeatures, ConfigWrite, VqSelect,
           SetStatus, VqKick, VqWaitUsed, MmioCorrupt, MemwriteAbsolute, Reset
  <2>2. ASSUME NEW i, NEW size, VqSetup(i, size) PROVE \E kind : Dispatch(kind)
    BY <2>2 DEF VqSetup
  <2>3. ASSUME NEW id, NEW size, GuestMemWrite(id, size)
        PROVE  \E kind : Dispatch(kind)
    BY <2>3 DEF GuestMemWrite
  <2>4. ASSUME NEW i, NEW id, NEW len, NEW writable, NEW more, NEW region,
               VqAddDesc(i, id, len, writable, more, region)
        PROVE  \E kind : Dispatch(kind)
    BY <2>4 DEF VqAddDesc
  <2> QED
    BY <2>1, <2>2, <2>3, <2>4, NextCases
<1>6. EndInput \/ (\E kind : Dispatch(kind))
        => phase = "run" /\ inputs' = inputs
  BY DEF EndInput, Dispatch
<1> QED
  BY <1>2, <1>3, <1>4, <1>5, <1>6

\* Within an input that resets nothing with the Reset operation, and that writes
\* no queue register behind the harness's back, avail.idx is the driver's
\* counter and the device never ahead of it, however often a queue is set up
\* again, with whatever size, and however the device's status is changed.
THEOREM RingStaysInStep ==
  OneInput /\ QuietCorruptions => (Spec => []RingInStep)
<1> SUFFICES ASSUME OneInput, QuietCorruptions PROVE Spec => []RingInStep
  OBVIOUS
<1> DEFINE I == /\ TypeOK /\ Counters /\ DevOK /\ RingsProgrammed
                /\ InStep /\ NotAhead /\ NotYet
<1>1. Init => I
  BY TypeInit, CountersInit, DevOKInit, InStepInit
<1>2. I /\ [Next]_vars => I'
  <2> SUFFICES ASSUME I, [Next]_vars PROVE I'
    OBVIOUS
  <2>1. TypeOK' /\ Counters' /\ DevOK' /\ RingsProgrammed'
    BY TypeStep, CountersStep, RingsStep
  <2>2. InStep'
    BY IdxStep DEF InStep
  <2> QED
    BY <2>1, <2>2, NotAheadStep, NotYetStep
<1>3. I => RingInStep
  BY DeviceAssumption DEF InStep, NotAhead, RingInStep
<1> QED
  BY <1>1, <1>2, <1>3, PTL DEF Spec

============================================================================
