------------------------ MODULE BlkThreadsQueueProofs ------------------------
(***************************************************************************)
(* The publications of thread A implement AvailQueue, for every layout and *)
(* any interleaving with thread B.  The code does nothing against a driver *)
(* that publishes more than a ring holds, so the theorem is about programs *)
(* of thread A that go around each ring at most once, and reset nothing.   *)
(***************************************************************************)
EXTENDS BlkThreadsProofs, FiniteSetTheorems

----------------------------------------------------------------------------
(* The invariant *)

\* s is the size of queue i once p has set it up.
Programmed(p, i, s) ==
  \E k \in 1 .. Len(p) : SetsUp(p[k], i) /\ s = SizeFor(p[k].size)

\* What thread A of such a program has to do.
LapAccs(p) ==
  {a \in Accs : /\ a.do = "num_max" => Programmed(p, a.i, SizeFor(a.size))
                /\ a.do = "reg" => a.off # R_STATUS
                /\ a.do \in {"or_status", "put_status"} => a.bits # {}}

NoStores == {a \in Accs : a.do \notin {"desc", "ring", "idx"}}

MakesReady == Reg(R_QUEUE_READY, 1)

\* QUEUE_READY is the last register of a setup.
ReadyLast(s) == \A k \in 1 .. Len(s) : s[k] = MakesReady => k = Len(s)

\* A ready queue reads the ring thread A writes, while it is set up again too.
RightRing(j) ==
  dev.q[j].ready =>
    dev.q[j].drv = [lo |-> Lo(AvailGpa(j)), hi |-> Hi(AvailGpa(j))]

\* Published is what was added, added what the program says.
Counters(i) ==
  LET q == g[A].vqs[i]
  IN  /\ q.next_avail_idx <= q.next_desc_idx
      /\ q.next_desc_idx <= Cardinality(Adds(prog[A], i, at[A]))
      /\ q.size = 0 => q.next_desc_idx = 0
      /\ q.size # 0 => Programmed(prog[A], i, q.size)

\* e entries of queue i are visible, of which the device has taken no more than
\* that, and they name the first n descriptors.
Visible(i, e, n) ==
  /\ ram.idx[AvailGpa(i)] = e
  /\ i \in DevQueues => dev.q[i].last <= e
  /\ \A k \in 0 .. e - 1 : ram.ring[AvailGpa(i)][k] < n

\* Everything published is visible.
Level(i) == Visible(i, g[A].vqs[i].next_avail_idx, g[A].vqs[i].next_desc_idx)

DescAt(j, n, d) == [do |-> "desc", table |-> DescGpa(j), slot |-> n, d |-> d]
RingAt(j, k, n) == [do |-> "ring", avail |-> AvailGpa(j), slot |-> k, v |-> n]
IdxAt(j, e)     == [do |-> "idx", avail |-> AvailGpa(j), v |-> e]

\* Thread A is adding descriptor n to queue j, which it has counted already: it
\* has to write the descriptor of a chain that goes on, or the descriptor, the
\* entry and the index of one that ends, or what is left of these three.
Storing(j, n, e) ==
  \/ \E d \in Descriptors :
       todo[A] = <<DescAt(j, n, d)>> /\ Visible(j, e, n)
  \/ \E d \in Descriptors :
       /\ e > 0 /\ Visible(j, e - 1, n)
       /\ todo[A] = <<DescAt(j, n, d), RingAt(j, e - 1, n), IdxAt(j, e)>>
  \/ /\ e > 0 /\ Visible(j, e - 1, n + 1)
     /\ todo[A] = <<RingAt(j, e - 1, n), IdxAt(j, e)>>
  \/ /\ e > 0 /\ Visible(j, e - 1, n + 1)
     /\ ram.ring[AvailGpa(j)][e - 1] = n
     /\ todo[A] = <<IdxAt(j, e)>>

Adding ==
  \E j \in Queues :
    LET q == g[A].vqs[j]
    IN  /\ q.size # 0 /\ q.next_desc_idx > 0
        /\ Storing(j, q.next_desc_idx - 1, q.next_avail_idx)
        /\ \A i \in Queues \ {j} : Level(i)

Settled == todo[A] \in Seq(NoStores) /\ \A i \in Queues : Level(i)

\* What the threads have left to do.
LapTodo == /\ todo[A] \in Seq(LapAccs(prog[A])) /\ ReadyLast(todo[A])
           /\ todo[B] \in Seq(NoStores)

LapInv == /\ PInv /\ WInv /\ LapTodo
          /\ \A j \in DevQueues : RightRing(j)
          /\ \A i \in Queues : Counters(i)
          /\ Settled \/ Adding

----------------------------------------------------------------------------
(* Counting descriptors *)

LEMMA AddsCount ==
  ASSUME NEW p, NEW i, NEW n \in Nat
  PROVE  /\ IsFiniteSet(Adds(p, i, n)) /\ Cardinality(Adds(p, i, n)) \in Nat
         /\ Cardinality(Adds(p, i, n + 1)) =
              IF p[n + 1].kind = "VqAddDesc" /\ p[n + 1].i = i
              THEN Cardinality(Adds(p, i, n)) + 1 ELSE Cardinality(Adds(p, i, n))
<1>1. IsFiniteSet(Adds(p, i, n))
  <2>1. IsFiniteSet(1 .. n)
    BY FS_Interval
  <2>2. Adds(p, i, n) \in SUBSET (1 .. n)
    BY DEF Adds
  <2> QED
    BY <2>1, <2>2, FS_Subset
<1>2. Cardinality(Adds(p, i, n)) \in Nat
  BY <1>1, FS_CardinalityType
<1>3. 1 .. n + 1 = (1 .. n) \cup {n + 1} /\ n + 1 \notin 1 .. n
  OBVIOUS
<1>4. CASE p[n + 1].kind = "VqAddDesc" /\ p[n + 1].i = i
  <2>1. /\ Adds(p, i, n + 1) = Adds(p, i, n) \cup {n + 1}
        /\ n + 1 \notin Adds(p, i, n)
    BY <1>3, <1>4 DEF Adds
  <2> QED
    BY <1>1, <1>2, <1>4, <2>1, FS_AddElement
<1>5. CASE ~(p[n + 1].kind = "VqAddDesc" /\ p[n + 1].i = i)
  <2>1. Adds(p, i, n + 1) = Adds(p, i, n)
    BY <1>3, <1>5 DEF Adds
  <2> QED
    BY <1>1, <1>2, <1>5, <2>1
<1> QED
  BY <1>4, <1>5

LEMMA AddsNone == ASSUME NEW p, NEW i PROVE Cardinality(Adds(p, i, 0)) = 0
<1>1. Adds(p, i, 0) = {}
  BY DEF Adds
<1> QED
  BY <1>1, FS_EmptySet

LEMMA AddsBound ==
  ASSUME NEW p, NEW i, NEW n \in Nat, NEW l \in Nat, n <= l
  PROVE  Cardinality(Adds(p, i, n)) <= Cardinality(Adds(p, i, l))
<1>1. Adds(p, i, n) \in SUBSET Adds(p, i, l)
  BY DEF Adds
<1> QED
  BY <1>1, AddsCount, FS_Subset

\* A queue with a size has room for everything the program adds to it.
LEMMA RoomForAll ==
  ASSUME NEW p, OneLap(p), Len(p) \in Nat, NEW i \in Queues, NEW s \in Nat,
         Programmed(p, i, s), NEW n \in Nat, n <= Len(p)
  PROVE  /\ Cardinality(Adds(p, i, n)) <= s
         /\ \A t : Programmed(p, i, t) => t = s
<1>1. PICK k \in 1 .. Len(p) : SetsUp(p[k], i) /\ s = SizeFor(p[k].size)
  BY DEF Programmed
<1>2. Cardinality(Adds(p, i, Len(p))) <= s
  BY <1>1 DEF OneLap
<1>3. /\ Cardinality(Adds(p, i, n)) \in Nat
      /\ Cardinality(Adds(p, i, Len(p))) \in Nat
      /\ Cardinality(Adds(p, i, n)) <= Cardinality(Adds(p, i, Len(p)))
  BY AddsCount, AddsBound
<1>4. ASSUME NEW t, Programmed(p, i, t) PROVE t = s
  <2>1. PICK j \in 1 .. Len(p) : SetsUp(p[j], i) /\ t = SizeFor(p[j].size)
    BY <1>4 DEF Programmed
  <2> QED
    BY <1>1, <2>1 DEF OneLap
<1> QED
  BY <1>2, <1>3, <1>4

----------------------------------------------------------------------------
(* What waits in a ring *)

\* The descriptor entry k of queue i names.
Entry(r, i, k) == r.desc[DescGpa(i)][r.ring[AvailGpa(i)][k]]

\* Pending(i), of memory r, for a device at l and a ring of z entries.
Line(r, l, z, i) ==
  [k \in 1 .. r.idx[AvailGpa(i)] - l |-> Entry(r, i, (l + k - 1) % z)]

LEMMA PendingLine ==
  /\ \A i \in DevQueues : Pending(i) = Line(ram, dev.q[i].last, g[A].vqs[i].size, i)
  /\ \A i \in DevQueues :
       Pending(i)' = Line(ram', dev'.q[i].last, g'[A].vqs[i].size, i)
  BY DEF Pending, Line, Entry

LEMMA SmallMod == ASSUME NEW x \in Nat, NEW z \in Nat, x < z PROVE x % z = x
  BY Z3

\* Within the first lap no slot is reused.
LEMMA LineEntries ==
  ASSUME NEW r \in Rams, NEW i \in Queues, NEW l \in Nat, NEW z \in Nat,
         r.idx[AvailGpa(i)] <= z, l <= r.idx[AvailGpa(i)]
  PROVE  Line(r, l, z, i) =
           [k \in 1 .. r.idx[AvailGpa(i)] - l |-> Entry(r, i, l + k - 1)]
<1> DEFINE e == r.idx[AvailGpa(i)]
<1>1. e \in Nat
  BY DEF Rams, AvailAreas
<1>2. ASSUME NEW k \in 1 .. e - l PROVE (l + k - 1) % z = l + k - 1
  <2>1. l + k - 1 \in Nat /\ l + k - 1 < z
    BY <1>1
  <2> QED
    BY <2>1, SmallMod
<1> QED
  BY <1>2 DEF Line

LEMMA LineSame ==
  ASSUME NEW r \in Rams, NEW s \in Rams, NEW i \in Queues, NEW l \in Nat,
         NEW z \in Nat, NEW y \in Nat,
         s.idx[AvailGpa(i)] = r.idx[AvailGpa(i)],
         l <= r.idx[AvailGpa(i)], r.idx[AvailGpa(i)] <= z,
         r.idx[AvailGpa(i)] <= y,
         \A k \in 0 .. r.idx[AvailGpa(i)] - 1 : Entry(s, i, k) = Entry(r, i, k)
  PROVE  Line(s, l, y, i) = Line(r, l, z, i)
<1> DEFINE e == r.idx[AvailGpa(i)]
<1>1. e \in Nat
  BY DEF Rams, AvailAreas
<1>2. /\ Line(r, l, z, i) = [k \in 1 .. e - l |-> Entry(r, i, l + k - 1)]
      /\ Line(s, l, y, i) = [k \in 1 .. e - l |-> Entry(s, i, l + k - 1)]
  BY LineEntries
<1>3. ASSUME NEW k \in 1 .. e - l
      PROVE  Entry(s, i, l + k - 1) = Entry(r, i, l + k - 1)
  <2>1. l + k - 1 \in 0 .. e - 1
    BY <1>1
  <2> QED
    BY <2>1
<1> HIDE DEF e
<1> QED
  BY <1>2, <1>3

LEMMA LineTaken ==
  ASSUME NEW r \in Rams, NEW i \in Queues, NEW z
  PROVE  Line(r, r.idx[AvailGpa(i)], z, i) = <<>>
<1> DEFINE e == r.idx[AvailGpa(i)]
<1>1. e \in Nat
  BY DEF Rams, AvailAreas
<1>2. 1 .. e - e = {}
  BY <1>1
<1> QED
  BY <1>2 DEF Line

LEMMA LineMore ==
  ASSUME NEW r \in Rams, NEW s \in Rams, NEW i \in Queues, NEW l \in Nat,
         NEW z \in Nat, s.idx[AvailGpa(i)] = r.idx[AvailGpa(i)] + 1,
         s.ring = r.ring, s.desc = r.desc,
         l <= r.idx[AvailGpa(i)], s.idx[AvailGpa(i)] <= z, z <= QueueNumMax,
         r.ring[AvailGpa(i)][r.idx[AvailGpa(i)]] \in Slots
  PROVE  LET a == Line(r, l, z, i)
             b == Line(s, l, z, i)
             n == Len(a)
         IN  /\ n < QueueNumMax /\ Len(b) = n + 1 /\ SubSeq(b, 1, n) = a
             /\ b[n + 1] \in Descriptors
<1> DEFINE e == r.idx[AvailGpa(i)]
           a == [k \in 1 .. e - l |-> Entry(r, i, l + k - 1)]
           b == [k \in 1 .. e + 1 - l |-> Entry(r, i, l + k - 1)]
<1>1. e \in Nat /\ QueueNumMax \in Nat
  BY SizeAssumption DEF Rams, AvailAreas
<1>2. \A k : Entry(s, i, k) = Entry(r, i, k)
  BY DEF Entry
<1>3. Line(r, l, z, i) = a /\ Line(s, l, z, i) = b
  <2>1. e <= z /\ l <= s.idx[AvailGpa(i)]
    BY <1>1
  <2>2. Line(r, l, z, i) = a
    BY <2>1, LineEntries
  <2> DEFINE c == s.idx[AvailGpa(i)] - l
  <2>3. Line(s, l, z, i) = [k \in 1 .. c |-> Entry(s, i, l + k - 1)]
    BY <2>1, LineEntries
  <2>4. c = e + 1 - l
    BY <1>1
  <2> HIDE DEF c
  <2>5. Line(s, l, z, i) = b
    <3> HIDE DEF e
    <3> QED
      BY <1>2, <2>3, <2>4
  <2> QED
    BY <2>2, <2>5
<1>4. Len(a) = e - l /\ Len(b) = e - l + 1 /\ e - l \in Nat
  BY <1>1
<1>5. SubSeq(b, 1, e - l) = a
  BY <1>1
<1>6. b[e - l + 1] \in Descriptors
  <2>1. b[e - l + 1] = Entry(r, i, e)
    <3>1. e - l + 1 \in 1 .. e + 1 - l /\ l + (e - l + 1) - 1 = e
      BY <1>1
    <3> HIDE DEF e
    <3> QED
      BY <3>1
  <2>2. Entry(r, i, e) \in Descriptors
    BY DEF Entry, Rams, DescAreas
  <2> QED
    BY <2>1, <2>2
<1> HIDE DEF a, b
<1>7. e - l < QueueNumMax
  BY <1>1
<1> QED
  BY <1>3, <1>4, <1>5, <1>6, <1>7

----------------------------------------------------------------------------
(* Where the device is in a ring *)

\* It is where it was, or has taken what memory m shows.
Taken(p, q, m) ==
  \/ q.last = p.last
  \/ /\ p.ready /\ Addr(p.drv) \in AvailAreas
     /\ q.last = m.idx[Addr(p.drv)]

\* A register of a queue is not its position.
LEMMA RegisteredLast ==
  ASSUME NEW q \in DevQueueStates, NEW off \in QueueRegs, NEW v
  PROVE  Registered(q, off, v).last = q.last
<1> DEFINE Same(x) == Registered(q, x, v).last = q.last
<1>1. /\ Same(R_QUEUE_NUM) /\ Same(R_QUEUE_READY)
      /\ Same(R_QDESC_LO) /\ Same(R_QDESC_HI)
      /\ Same(R_QDRV_LO) /\ Same(R_QDRV_HI)
      /\ Same(R_QDEV_LO) /\ Same(R_QDEV_HI)
  BY RegisteredFields DEF DevQueueStates
<1>2. Same(off)
  <2> HIDE DEF Same
  <2> QED
    BY <1>1 DEF QueueRegs, QueueConfig
<1> QED
  BY <1>2

LEMMA WriteTakes ==
  ASSUME NEW d \in Devices, NEW m \in Rams, NEW off \in Nat, NEW v \in Nat,
         off # R_STATUS, NEW j \in DevQueues
  PROVE  Taken(d.q[j], MmioWrite(d, m, off, v).q[j], m)
<1> DEFINE e == MmioWrite(d, m, off, v)
<1>1. CASE off = R_QUEUE_SEL
  <2>1. e = [d EXCEPT !.sel = v]
    BY <1>1, OtherOffsets
  <2> QED
    BY <2>1 DEF Devices, Taken
<1>2. CASE off = R_QUEUE_NOTIFY
  <2>1. e = Notify(d, m, v)
    BY <1>2, OtherOffsets
  <2> HIDE DEF e
  <2>2. CASE /\ v \in DevQueues /\ d.q[v].ready
             /\ Addr(d.q[v].drv) \in AvailAreas
    <3> DEFINE idx == m.idx[Addr(d.q[v].drv)]
    <3>1. e.q = [d.q EXCEPT ![v] = [d.q[v] EXCEPT !.last = idx]]
      BY <2>1, <2>2 DEF Notify, Devices
    <3> HIDE DEF idx
    <3>2. v = j => e.q[j].last = idx
      BY <3>1 DEF Devices, DevQueueStates
    <3>3. v # j => e.q[j] = d.q[j]
      BY <3>1 DEF Devices
    <3> QED
      BY <2>2, <3>2, <3>3 DEF Taken, idx, e
  <2>3. CASE ~(/\ v \in DevQueues /\ d.q[v].ready
               /\ Addr(d.q[v].drv) \in AvailAreas)
    BY <2>1, <2>3 DEF Notify, Taken, e
  <2> QED
    BY <2>2, <2>3
<1>3. CASE off = R_INT_ACK
  <2>1. e = [d EXCEPT !.isr = (d.isr /\ v = 0)]
    BY <1>3, OtherOffsets
  <2> QED
    BY <2>1 DEF Devices, Taken
<1>4. CASE off \notin {R_QUEUE_SEL, R_QUEUE_NOTIFY, R_INT_ACK}
  <2>1. CASE d.sel \notin DevQueues
    <3>1. e = d
      BY <1>4, <2>1, QueueOffsets
    <3> QED
      BY <3>1 DEF Taken
  <2>2. CASE d.sel \in DevQueues /\ off \notin QueueRegs
    <3>1. e = Selected(d, off, v)
      BY <1>4, <2>2, QueueOffsets
    <3>2. e = d
      BY <2>2, <3>1 DEF Selected, QueueRegs, QueueConfig
    <3> QED
      BY <3>2 DEF Taken
  <2>3. CASE d.sel \in DevQueues /\ off \in QueueRegs
    <3> DEFINE q == d.q[d.sel]
               p == Registered(q, off, v)
    <3>1. e = WithQueue(d, d.sel, p) /\ p \in DevQueueStates /\ q \in DevQueueStates
      BY <1>4, <2>3, QueueOffsets, SelectedField, RegisteredType DEF Devices
    <3>2. p.last = q.last
      BY <2>3, <3>1, RegisteredLast
    <3>3. /\ e.q[d.sel] = p
          /\ \A i \in DevQueues \ {d.sel} : e.q[i] = d.q[i]
      <4> HIDE DEF p
      <4> QED
        BY <2>3, <3>1, WithQueueType
    <3> HIDE DEF p, e
    <3> QED
      BY <3>2, <3>3 DEF Taken, e
  <2> QED
    BY <2>1, <2>2, <2>3
<1> QED
  BY <1>1, <1>2, <1>3, <1>4

----------------------------------------------------------------------------
(* What a step leaves as it was *)

\* The counters of thread A fit the ring.
LEMMA Fits ==
  ASSUME LapPrograms, LapInv, NEW i \in Queues
  PROVE  LET q == g[A].vqs[i]
         IN  /\ q \in VqStates /\ q.avail_gpa = AvailGpa(i)
             /\ q.desc_gpa = DescGpa(i)
             /\ q.next_avail_idx <= q.next_desc_idx
             /\ q.next_desc_idx <= q.size
<1> DEFINE q == g[A].vqs[i]
<1>1. q \in VqStates /\ q.avail_gpa = AvailGpa(i) /\ q.desc_gpa = DescGpa(i)
  BY ThreadsApart DEF LapInv, WInv, DataOK, OwnTables, States
<1>2. Counters(i)
  BY DEF LapInv
<1>3. /\ prog[A] \in ProgramsA /\ at[A] \in Nat /\ at[A] <= Len(prog[A])
      /\ Len(prog[A]) \in Nat
  <2>1. ControlOK
    BY DEF LapInv, PInv
  <2>2. prog[A] \in ProgramsA /\ at[A] \in Nat /\ at[A] <= OpsOf(A)
    BY <2>1, ThreadsApart DEF ControlOK
  <2>3. Len(prog[A]) \in Nat
    BY <2>2, ProgramsAssumption
  <2> QED
    BY <2>2, <2>3, ThreadsApart DEF OpsOf, Lesser
<1>4. q.next_desc_idx <= q.size
  <2>1. CASE q.size = 0
    BY <1>1, <1>2, <2>1 DEF Counters, VqStates
  <2>2. CASE q.size # 0
    <3>1. OneLap(prog[A]) /\ Programmed(prog[A], i, q.size) /\ q.size \in Nat
      BY <1>1, <1>2, <1>3, <2>2 DEF LapPrograms, Counters, VqStates
    <3>2. Cardinality(Adds(prog[A], i, at[A])) <= q.size
      BY <1>3, <3>1, RoomForAll
    <3>3. Cardinality(Adds(prog[A], i, at[A])) \in Nat
      BY <1>3, AddsCount
    <3> QED
      BY <1>1, <1>2, <3>1, <3>2, <3>3 DEF Counters, VqStates
  <2> QED
    BY <2>1, <2>2
<1> QED
  BY <1>1, <1>2, <1>4 DEF Counters

\* The device of a ready queue looks where thread A publishes.
LEMMA LooksThere ==
  ASSUME LapInv, NEW i \in DevQueues, dev.q[i].ready
  PROVE  Addr(dev.q[i].drv) = AvailGpa(i)
<1>1. dev.q[i].drv = [lo |-> Lo(AvailGpa(i)), hi |-> Hi(AvailGpa(i))]
  BY DEF LapInv, RightRing
<1>2. AvailGpa(i) \in Nat
  BY RingAreas, DeviceAssumption
<1> QED
  BY <1>1, <1>2, HalvesJoin DEF Addr

\* The device takes what is visible, or nothing.
LEMMA VisibleKept ==
  ASSUME LapInv, ram' = ram, NEW i \in Queues, NEW e \in Nat, NEW n \in Nat,
         i \in DevQueues => Taken(dev.q[i], dev'.q[i], ram), Visible(i, e, n)
  PROVE  Visible(i, e, n)'
<1>1. ASSUME i \in DevQueues PROVE dev'.q[i].last <= e
  BY <1>1, LooksThere DEF Taken, Visible
<1> QED
  BY <1>1 DEF Visible

\* Thread A's side of a step that publishes nothing.
LEMMA TakeStep ==
  ASSUME LapInv, NEW i \in DevQueues, ram' = ram,
         Taken(dev.q[i], dev'.q[i], ram), NEW e \in Nat, NEW n, Visible(i, e, n),
         NEW y \in Nat, NEW z \in Nat,
         g[A].vqs[i].size = y, g'[A].vqs[i].size = z, e <= y, e <= z
  PROVE  Pending(i)' = Pending(i) \/ Pending(i)' = <<>>
<1>1. ram \in Rams /\ dev.q[i].last \in Nat /\ i \in Queues
  BY DeviceAssumption DEF LapInv, PInv, DataOK, Devices, DevQueueStates
<1>2. ram.idx[AvailGpa(i)] = e /\ dev.q[i].last <= e
  BY DEF Visible
<1>3. /\ Pending(i) = Line(ram, dev.q[i].last, y, i)
      /\ Pending(i)' = Line(ram, dev'.q[i].last, z, i)
  BY PendingLine
<1>4. CASE dev'.q[i].last = dev.q[i].last
  BY <1>1, <1>2, <1>3, <1>4, LineSame
<1>5. CASE dev'.q[i].last # dev.q[i].last
  <2>1. dev'.q[i].last = ram.idx[AvailGpa(i)]
    BY <1>5, LooksThere DEF Taken
  <2> QED
    BY <1>1, <1>3, <2>1, LineTaken
<1> QED
  BY <1>4, <1>5

----------------------------------------------------------------------------
(* An access to the device *)

LEMMA LapHead ==
  ASSUME LapInv, NEW t \in Threads, Access(t)
  PROVE  LET a == Head(todo[t])
         IN  /\ a \in Accs
             /\ a.do = "reg" => a.off \in Nat /\ a.v \in Nat /\ a.off # R_STATUS
             /\ a.do \in {"or_status", "put_status"} =>
                  a.bits \in SUBSET StatusBits /\ a.bits # {}
             /\ t = A => a \in LapAccs(prog[A])
             /\ t = B => a \in CalmAccs /\ a \in NoStores
<1> DEFINE a == Head(todo[t])
<1>1. todo[t] # <<>>
  BY AccessEffect
<1>2. CASE t = A
  <2>1. todo[A] \in Seq(LapAccs(prog[A]))
    BY DEF LapInv, LapTodo
  <2>2. a \in LapAccs(prog[A])
    <3> DEFINE S == LapAccs(prog[A])
    <3> HIDE DEF S
    <3> QED
      BY <1>1, <1>2, <2>1, HeadTailProperties DEF S
  <2>3. /\ a \in Accs /\ (a.do = "reg" => a.off # R_STATUS)
        /\ a.do \in {"or_status", "put_status"} => a.bits # {}
    BY <2>2 DEF LapAccs
  <2> HIDE DEF a
  <2> QED
    BY <1>2, <2>2, <2>3, AccFields, ThreadsApart DEF a
<1>3. CASE t = B
  <2>1. todo[B] \in Seq(CalmAccs) /\ todo[B] \in Seq(NoStores)
    BY DEF LapInv, PInv, LapTodo
  <2>2. a \in CalmAccs /\ a \in NoStores
    <3> DEFINE S == CalmAccs
               T == NoStores
    <3> HIDE DEF S, T
    <3> QED
      BY <1>1, <1>3, <2>1, HeadTailProperties DEF S, T
  <2>3. /\ a \in Accs /\ (a.do = "reg" => a.off # R_STATUS)
        /\ a.do \in {"or_status", "put_status"} => a.bits # {}
    BY <2>2 DEF CalmAccs
  <2> HIDE DEF a
  <2> QED
    BY <1>3, <2>2, <2>3, AccFields, ThreadsApart DEF a
<1> QED
  BY <1>2, <1>3 DEF Threads

LEMMA AccessTakes ==
  ASSUME LapInv, NEW t \in Threads, Access(t)
  PROVE  \A j \in DevQueues : Taken(dev.q[j], dev'.q[j], ram)
<1> DEFINE a == Head(todo[t])
<1>1. /\ a.do = "reg" => a.off \in Nat /\ a.v \in Nat /\ a.off # R_STATUS
      /\ a.do = "put_status" => a.bits # {}
  BY LapHead
<1>2. \/ dev' = dev
      \/ a.do = "reg" /\ dev' = MmioWrite(dev, ram, a.off, a.v)
      \/ a.do = "put_status" /\ dev' = SetDevStatus(dev, a.bits)
  BY AccessEffect
<1>3. dev \in Devices /\ ram \in Rams
  BY DEF LapInv, PInv, DataOK
<1> HIDE DEF a
<1> SUFFICES ASSUME NEW j \in DevQueues PROVE Taken(dev.q[j], dev'.q[j], ram)
  OBVIOUS
<1>4. CASE dev' = dev
  BY <1>4 DEF Taken
<1>5. CASE a.do = "reg" /\ dev' = MmioWrite(dev, ram, a.off, a.v)
  BY <1>1, <1>3, <1>5, WriteTakes
<1>6. CASE a.do = "put_status" /\ dev' = SetDevStatus(dev, a.bits)
  BY <1>1, <1>3, <1>6 DEF SetDevStatus, Devices, Taken
<1> QED
  BY <1>2, <1>4, <1>5, <1>6

\* The two registers of the avail ring.
LEMMA RingFields ==
  ASSUME NEW p \in DevQueueStates, NEW lo, NEW hi
  PROVE  /\ Field(p, R_QDRV_LO) = lo /\ Field(p, R_QDRV_HI) = hi
              => p.drv = [lo |-> lo, hi |-> hi]
         /\ p.drv = [lo |-> lo, hi |-> hi]
              => Field(p, R_QDRV_LO) = lo /\ Field(p, R_QDRV_HI) = hi
  BY FieldOf DEF DevQueueStates, Halves

LEMMA RegisteredReady ==
  ASSUME NEW q \in DevQueueStates, NEW off \in QueueConfig, NEW v
  PROVE  Registered(q, off, v).ready = q.ready
<1> DEFINE Same(x) == Registered(q, x, v).ready = q.ready
<1>1. /\ Same(R_QUEUE_NUM)
      /\ Same(R_QDESC_LO) /\ Same(R_QDESC_HI)
      /\ Same(R_QDRV_LO) /\ Same(R_QDRV_HI)
      /\ Same(R_QDEV_LO) /\ Same(R_QDEV_HI)
  BY RegisteredFields DEF DevQueueStates
<1>2. Same(off)
  <2> HIDE DEF Same
  <2> QED
    BY <1>1 DEF QueueConfig
<1> QED
  BY <1>2

\* An access that programs no queue.
LEMMA QuietRing ==
  ASSUME LapInv, NEW t \in Threads, Access(t),
         Head(todo[t]).do = "reg" => Head(todo[t]).off \notin QueueRegs
  PROVE  \A j \in DevQueues : RightRing(j)'
<1> DEFINE a == Head(todo[t])
<1>1. /\ a.do = "reg" => a.off \in Nat /\ a.v \in Nat
      /\ a.do = "put_status" => a.bits \in SUBSET StatusBits
  BY LapHead
<1>2. \/ dev' = dev
      \/ a.do = "reg" /\ dev' = MmioWrite(dev, ram, a.off, a.v)
      \/ a.do = "put_status" /\ dev' = SetDevStatus(dev, a.bits)
  BY AccessEffect
<1>3. dev \in Devices /\ ram \in Rams /\ (a.do = "reg" => Quiet(a.off, a.v))
  BY DEF LapInv, PInv, DataOK, Quiet, QueueRegs
<1> HIDE DEF a
<1>4. QuietStep(dev, dev', ram)
  <2>1. CASE a.do = "reg" /\ dev' = MmioWrite(dev, ram, a.off, a.v)
    BY <1>1, <1>3, <2>1, MmioWriteType
  <2>2. CASE a.do = "put_status" /\ dev' = SetDevStatus(dev, a.bits)
    BY <1>1, <1>3, <2>2, SetDevStatusQuiet
  <2> QED
    BY <1>2, <2>1, <2>2, SameQuiet
<1>5. \A j \in DevQueues : RightRing(j)
  BY DEF LapInv
<1> QED
  BY <1>4, <1>5 DEF QuietStep, Undisturbed, RightRing

\* A setup makes its queue ready when everything else is written.
LEMMA FillingRing ==
  ASSUME LapInv, NEW i \in DevQueues, Filling(i), Access(A)
  PROVE  \A j \in DevQueues : RightRing(j)'
<1> DEFINE q == g[A].vqs[i]
           p == dev.q[i]
           lo == Lo(AvailGpa(i))
           hi == Hi(AvailGpa(i))
<1>1. PICK off \in QueueRegs, v \in Nat :
        /\ Head(todo[A]) = Reg(off, v) /\ (off \in QueueConfig => v = Value(q, off))
        /\ dev'.q[i] = Registered(p, off, v)
        /\ \A j \in DevQueues \ {i} : dev'.q[j] = dev.q[j]
  BY FillingWrite DEF LapInv
<1> DEFINE r == Registered(p, off, v)
<1>2. /\ p \in DevQueueStates /\ r \in DevQueueStates /\ i \in Queues
      /\ RightRing(i) /\ q.avail_gpa = AvailGpa(i)
      /\ todo[A] \in Seq(Accs) /\ todo[A] # <<>> /\ ReadyLast(todo[A])
  <2>1. p \in DevQueueStates /\ i \in Queues /\ todo[A] \in Seq(Accs)
    BY DeviceAssumption, ThreadsApart DEF LapInv, PInv, DataOK, Devices
  <2>2. r \in DevQueueStates
    BY <2>1, RegisteredType
  <2>3. RightRing(i) /\ q.avail_gpa = AvailGpa(i) /\ ReadyLast(todo[A])
    BY <2>1 DEF LapInv, WInv, OwnTables, LapTodo
  <2>4. todo[A] # <<>>
    BY FillingWrite DEF LapInv
  <2> QED
    BY <2>1, <2>2, <2>3, <2>4
<1>3. /\ R_QDRV_LO \in QueueConfig /\ R_QDRV_HI \in QueueConfig
      /\ Value(q, R_QDRV_LO) = lo /\ Value(q, R_QDRV_HI) = hi
  BY <1>2, ValueOf DEF QueueConfig
<1>4. \A x \in QueueConfig : Field(r, x) = IF x = off THEN v ELSE Field(p, x)
  BY <1>2, FieldSet
<1>5. CASE off \in QueueConfig
  <2>1. r.ready = p.ready
    BY <1>2, <1>5, RegisteredReady
  <2>2. ASSUME p.ready PROVE r.drv = [lo |-> lo, hi |-> hi]
    <3>1. Field(p, R_QDRV_LO) = lo /\ Field(p, R_QDRV_HI) = hi
      BY <1>2, <2>2, RingFields DEF RightRing
    <3>2. Field(r, R_QDRV_LO) = lo /\ Field(r, R_QDRV_HI) = hi
      BY <1>1, <1>3, <1>4, <1>5, <3>1
    <3> HIDE DEF r
    <3> QED
      BY <1>2, <3>2, RingFields
  <2> QED
    BY <1>1, <1>2, <2>1, <2>2 DEF RightRing, LapInv
<1>6. CASE off \notin QueueConfig /\ v = 1
  <2>1. off = R_QUEUE_READY
    BY <1>6 DEF QueueRegs
  <2>2. Len(todo[A]) = 1 /\ todo[A][1] = MakesReady
    <3>1. Len(todo[A]) \in Nat /\ Len(todo[A]) # 0 /\ todo[A][1] = Head(todo[A])
      BY <1>2
    <3>2. todo[A][1] = MakesReady
      BY <1>1, <1>6, <2>1, <3>1 DEF MakesReady
    <3>3. 1 \in 1 .. Len(todo[A])
      BY <3>1
    <3>4. \A k \in 1 .. Len(todo[A]) : todo[A][k] = MakesReady => k = Len(todo[A])
      BY <1>2 DEF ReadyLast
    <3> QED
      BY <3>2, <3>3, <3>4
  <2>3. \A x \in QueueConfig : Field(p, x) = Value(q, x)
    <3> SUFFICES ASSUME NEW x \in QueueConfig PROVE Field(p, x) = Value(q, x)
      OBVIOUS
    <3>1. MakesReady # Reg(x, Value(q, x))
      BY DEF MakesReady, Reg, QueueConfig, R_QUEUE_NUM, R_QUEUE_READY,
             R_QDESC_LO, R_QDESC_HI, R_QDRV_LO, R_QDRV_HI, R_QDEV_LO, R_QDEV_HI
    <3>2. ~Has(todo[A], Reg(x, Value(q, x)))
      BY <2>2, <3>1 DEF Has
    <3> QED
      BY <3>2 DEF Filling
  <2>4. Field(r, R_QDRV_LO) = lo /\ Field(r, R_QDRV_HI) = hi
    BY <1>3, <1>4, <1>6, <2>3
  <2>5. r.drv = [lo |-> lo, hi |-> hi]
    <3> HIDE DEF r
    <3> QED
      BY <1>2, <2>4, RingFields
  <2> QED
    BY <1>1, <2>5 DEF RightRing, LapInv
<1>7. CASE off \notin QueueConfig /\ v # 1
  <2>1. off = R_QUEUE_READY
    BY <1>7 DEF QueueRegs
  <2>2. ~r.ready
    BY <1>2, <1>7, <2>1, RegisteredFields DEF DevQueueStates
  <2> QED
    BY <1>1, <2>2 DEF RightRing, LapInv
<1> QED
  BY <1>5, <1>6, <1>7

----------------------------------------------------------------------------
(* What is left to do after an access *)

LapQuiet == {a \in LapAccs(prog[A]) : a \in NoStores}

LEMMA SetupLap ==
  ASSUME NEW q \in VqStates, NEW size \in 1 .. QueueNumMax, NEW p
  PROVE  /\ \A k \in 1 .. Len(QueueRegisters(q, size)) :
              LET a == QueueRegisters(q, size)[k]
              IN  a \in LapAccs(p) /\ a \in NoStores
         /\ QueueRegisters(q, size) \in Seq(Accs)
         /\ ReadyLast(QueueRegisters(q, size))
<1> DEFINE s == QueueRegisters(q, size)
<1>1. s \in Seq(Accs)
  BY QueueRegistersAccs
<1>2. /\ Len(s) = 8 /\ s[1] = Reg(R_QUEUE_NUM, size)
      /\ s[2] = Reg(R_QDESC_LO, Lo(q.desc_gpa))
      /\ s[3] = Reg(R_QDESC_HI, Hi(q.desc_gpa))
      /\ s[4] = Reg(R_QDRV_LO, Lo(q.avail_gpa))
      /\ s[5] = Reg(R_QDRV_HI, Hi(q.avail_gpa))
      /\ s[6] = Reg(R_QDEV_LO, Lo(q.used_gpa))
      /\ s[7] = Reg(R_QDEV_HI, Hi(q.used_gpa))
      /\ s[8] = Reg(R_QUEUE_READY, 1)
  BY DEF QueueRegisters
<1> HIDE DEF s
<1>3. \A k \in 1 .. 8 :
        \E off \in QueueRegs : \E v :
          s[k] = Reg(off, v) /\ (off = R_QUEUE_READY => k = 8)
  <2>1. /\ R_QUEUE_NUM \in QueueRegs /\ R_QUEUE_READY \in QueueRegs
        /\ R_QDESC_LO \in QueueRegs /\ R_QDESC_HI \in QueueRegs
        /\ R_QDRV_LO \in QueueRegs /\ R_QDRV_HI \in QueueRegs
        /\ R_QDEV_LO \in QueueRegs /\ R_QDEV_HI \in QueueRegs
    BY DEF QueueRegs, QueueConfig
  <2>2. R_QUEUE_READY \notin {R_QUEUE_NUM, R_QDESC_LO, R_QDESC_HI, R_QDRV_LO,
                              R_QDRV_HI, R_QDEV_LO, R_QDEV_HI}
    BY DEF R_QUEUE_NUM, R_QUEUE_READY, R_QDESC_LO, R_QDESC_HI, R_QDRV_LO,
           R_QDRV_HI, R_QDEV_LO, R_QDEV_HI
  <2> SUFFICES ASSUME NEW k \in 1 .. 8
               PROVE  \E off \in QueueRegs : \E v :
                        s[k] = Reg(off, v) /\ (off = R_QUEUE_READY => k = 8)
    OBVIOUS
  <2>3. \/ k = 1 \/ k = 2 \/ k = 3 \/ k = 4 \/ k = 5 \/ k = 6 \/ k = 7 \/ k = 8
    OBVIOUS
  <2> QED
    BY <1>2, <2>1, <2>2, <2>3, Zenon
<1>4. ASSUME NEW k \in 1 .. 8
      PROVE  s[k] \in LapAccs(p) /\ s[k] \in NoStores /\ (s[k] = MakesReady => k = 8)
  <2>1. PICK off \in QueueRegs : \E v :
          s[k] = Reg(off, v) /\ (off = R_QUEUE_READY => k = 8)
    BY <1>3
  <2>2. s[k] \in Accs /\ s[k].do = "reg" /\ s[k].off = off
    <3>1. s[k] \in Accs
      <4>1. k \in 1 .. Len(s)
        BY <1>2
      <4> DEFINE S == Accs
      <4>2. s \in Seq(S)
        BY <1>1
      <4> HIDE DEF S
      <4> QED
        BY <4>1, <4>2 DEF S
    <3>2. s[k].do = "reg" /\ s[k].off = off
      BY <2>1 DEF Reg
    <3> QED
      BY <3>1, <3>2
  <2>3. off # R_STATUS
    BY QueueRegsApart
  <2>4. s[k] = MakesReady => off = R_QUEUE_READY
    BY <2>2 DEF MakesReady, Reg
  <2> QED
    BY <2>1, <2>2, <2>3, <2>4 DEF LapAccs, NoStores
<1> QED
  BY <1>1, <1>2, <1>4 DEF s, ReadyLast

LEMMA LapMore ==
  ASSUME LapInv, NEW t \in Threads, Access(t)
  PROVE  \E more \in Seq(LapQuiet) : GoOn(t, more)
<1> DEFINE a == Head(todo[t])
<1>1. /\ dev \in Devices /\ g \in [Threads -> States]
      /\ a \in Accs
      /\ a.do \in {"or_status", "put_status"} =>
           a.bits \in SUBSET StatusBits /\ a.bits # {}
  BY LapHead DEF LapInv, PInv, DataOK
<1>2. <<>> \in Seq(LapQuiet)
  OBVIOUS
<1>3. <<Reg(R_INT_ACK, 1)>> \in Seq(LapQuiet)
  <2>1. Reg(R_INT_ACK, 1) \in Accs
    BY RegAcc DEF R_INT_ACK
  <2>2. Reg(R_INT_ACK, 1) \in LapQuiet
    BY <2>1 DEF LapQuiet, LapAccs, NoStores, Reg, R_INT_ACK, R_STATUS
  <2> QED
    BY <2>2, SeqOf
<1>4. a.do = "or_status" => <<PutStatus(dev.status \cup a.bits)>> \in Seq(LapQuiet)
  <2> SUFFICES ASSUME a.do = "or_status"
               PROVE  <<PutStatus(dev.status \cup a.bits)>> \in Seq(LapQuiet)
    OBVIOUS
  <2>1. /\ dev.status \cup a.bits \in SUBSET StatusBits
        /\ dev.status \cup a.bits # {}
    BY <1>1 DEF Devices
  <2>2. PutStatus(dev.status \cup a.bits) \in Accs
    BY <2>1, StatusAcc
  <2>3. PutStatus(dev.status \cup a.bits) \in LapQuiet
    BY <2>1, <2>2 DEF LapQuiet, LapAccs, NoStores, PutStatus
  <2> QED
    BY <2>3, SeqOf
<1>5. a.do = "num_max"
        => QueueRegisters(g[t].vqs[a.i], SizeFor(a.size)) \in Seq(LapQuiet)
  <2> SUFFICES ASSUME a.do = "num_max"
               PROVE  QueueRegisters(g[t].vqs[a.i], SizeFor(a.size)) \in Seq(LapQuiet)
    OBVIOUS
  <2>1. a.i \in Queues /\ a.size \in Nat
    BY <1>1, AccFields
  <2>2. g[t].vqs[a.i] \in VqStates /\ SizeFor(a.size) \in 1 .. QueueNumMax
    BY <1>1, <2>1, QueueSize DEF States
  <2> DEFINE s == QueueRegisters(g[t].vqs[a.i], SizeFor(a.size))
  <2>3. s \in Seq(Accs) /\ \A k \in 1 .. Len(s) : s[k] \in LapQuiet
    <3> HIDE DEF a
    <3> QED
      BY <2>2, SetupLap DEF LapQuiet
  <2> HIDE DEF s
  <2>4. s \in Seq(LapQuiet)
    BY <2>3
  <2> QED
    BY <2>4 DEF s
<1>6. \/ GoOn(t, <<>>)
      \/ a.do = "or_status" /\ GoOn(t, <<PutStatus(dev.status \cup a.bits)>>)
      \/ GoOn(t, <<Reg(R_INT_ACK, 1)>>)
      \/ /\ a.do = "num_max"
         /\ GoOn(t, QueueRegisters(g[t].vqs[a.i], SizeFor(a.size)))
  BY AccessEffect
<1> HIDE DEF a
<1> QED
  BY <1>2, <1>3, <1>4, <1>5, <1>6

\* None of these makes a queue ready.
LEMMA NoReady ==
  ASSUME NEW s, NEW S, s \in Seq(S), MakesReady \notin S
  PROVE  ReadyLast(s)
  BY DEF ReadyLast

LEMMA QuietReady == MakesReady \notin QuietAccs
<1>1. R_QUEUE_READY \in QueueRegs
  BY DEF QueueRegs
<1> QED
  BY <1>1 DEF QuietAccs, MakesReady, Reg

\* After an access of thread A.
LEMMA ReadyAccess ==
  ASSUME LapInv, Access(A)
  PROVE  ReadyLast(todo'[A]) /\ \A j \in DevQueues : RightRing(j)'
<1> DEFINE a == Head(todo[A])
<1>1. Outside \/ Clearing \/ Selecting \/ Asking \/ Programming
  BY DEF LapInv, PInv, Phase
<1>2. PInv /\ a \in LapAccs(prog[A]) /\ a \in Accs
  BY LapHead, ThreadsApart DEF LapInv
<1>3. CASE Outside
  <2>1. ReadyLast(todo'[A])
    BY <1>2, <1>3, OutsideAccess, NoReady, QuietReady DEF Outside
  <2>2. a \in QuietAccs
    <3>1. todo[A] \in Seq(QuietAccs) /\ todo[A] # <<>>
      BY <1>3, AccessEffect, ThreadsApart DEF Outside
    <3> QED
      BY <3>1, HeadTailProperties
  <2>3. a.do = "reg" => a.off \notin QueueRegs
    BY <2>2 DEF QuietAccs
  <2> QED
    BY <2>1, <2>3, QuietRing, ThreadsApart
<1>4. CASE Clearing
  <2>1. a = PutStatus({})
    BY <1>4 DEF Clearing
  <2>2. FALSE
    BY <1>2, <2>1 DEF LapAccs, PutStatus
  <2> QED
    BY <2>2
<1>5. CASE Selecting
  <2>1. PICK i \in Queues, size \in Nat : todo'[A] = <<AskNumMax(i, size)>>
    BY <1>2, <1>5, SelectingAccess DEF Asking
  <2>2. ReadyLast(todo'[A])
    BY <2>1 DEF ReadyLast
  <2>3. PICK j \in Queues : a = Reg(R_QUEUE_SEL, j)
    BY <1>5 DEF Selecting
  <2>4. a.off \notin QueueRegs
    BY <2>3, QueueRegsApart DEF Reg
  <2> QED
    BY <2>2, <2>4, QuietRing, ThreadsApart
<1>6. CASE Asking
  <2>1. PICK i \in Queues, size \in Nat : todo[A] = <<AskNumMax(i, size)>>
    BY <1>6 DEF Asking
  <2>2. a.do = "num_max" /\ a.i = i /\ a.size = size /\ Tail(todo[A]) = <<>>
    BY <2>1 DEF AskNumMax
  <2>3. /\ todo \in [Threads -> Seq(Accs)] /\ g[A].vqs[i] \in VqStates
        /\ SizeFor(size) \in 1 .. QueueNumMax
    BY QueueSize, ThreadsApart DEF LapInv, PInv, DataOK, States
  <2> DEFINE s == QueueRegisters(g[A].vqs[i], SizeFor(size))
  <2>4. GoOn(A, <<>>) \/ GoOn(A, s)
    BY <2>2, AccessEffect, ThreadsApart
  <2>5. s \in Seq(Accs) /\ ReadyLast(s)
    BY <2>3, SetupLap
  <2> HIDE DEF s
  <2>6. todo'[A] = <<>> \/ todo'[A] = s
    <3>1. s \o <<>> = s
      BY <2>5, ConcatEmptySeq
    <3>2. <<>> \o <<>> = <<>>
      OBVIOUS
    <3> QED
      BY <2>2, <2>3, <2>4, <3>1, <3>2, ThreadsApart DEF GoOn
  <2>7. ReadyLast(<<>>)
    BY DEF ReadyLast
  <2> QED
    BY <2>2, <2>5, <2>6, <2>7, QuietRing, ThreadsApart
<1>7. CASE Programming
  <2>1. PICK i \in DevQueues : Filling(i)
    BY <1>7 DEF Programming
  <2>2. todo'[A] = Tail(todo[A]) /\ todo[A] # <<>> /\ todo[A] \in Seq(Accs)
    BY <1>2, <2>1, FillingWrite, ThreadsApart DEF PInv, DataOK
  <2>3. ReadyLast(todo[A])
    BY DEF LapInv, LapTodo
  <2>4. ReadyLast(Tail(todo[A]))
    <3> DEFINE u == Tail(todo[A])
    <3>1. /\ u \in Seq(Accs) /\ Len(u) = Len(todo[A]) - 1 /\ Len(todo[A]) \in Nat
          /\ \A k \in 1 .. Len(u) : u[k] = todo[A][k + 1]
      BY <2>2, HeadTailProperties, LenProperties
    <3> HIDE DEF u
    <3>2. ASSUME NEW k \in 1 .. Len(u), u[k] = MakesReady PROVE k = Len(u)
      <4>1. k + 1 \in 1 .. Len(todo[A]) /\ todo[A][k + 1] = MakesReady
        BY <3>1, <3>2
      <4>2. k + 1 = Len(todo[A])
        BY <2>3, <4>1 DEF ReadyLast
      <4> QED
        BY <3>1, <4>2
    <3> QED
      BY <3>2 DEF ReadyLast, u
  <2> QED
    BY <2>1, <2>2, <2>4, FillingRing
<1> QED
  BY <1>1, <1>3, <1>4, <1>5, <1>6, <1>7

\* After any access.
LEMMA AccessTodo ==
  ASSUME LapInv, NEW t \in Threads, Access(t)
  PROVE  LapTodo' /\ \A j \in DevQueues : RightRing(j)'
<1> DEFINE S == LapAccs(prog[A])
           T == NoStores
<1>1. PICK more \in Seq(LapQuiet) : GoOn(t, more)
  BY LapMore
<1>2. /\ todo \in [Threads -> Seq(Accs)] /\ todo[t] # <<>>
      /\ todo[A] \in Seq(S) /\ todo[B] \in Seq(T) /\ ReadyLast(todo[A])
  BY AccessEffect DEF LapInv, PInv, DataOK, LapTodo
<1>3. more \in Seq(S) /\ more \in Seq(T) /\ prog' = prog
  BY <1>1 DEF LapQuiet, GoOn
<1> HIDE DEF S, T
<1>4. CASE t = A
  <2>1. todo'[A] \in Seq(S) /\ todo'[B] = todo[B]
    BY <1>1, <1>2, <1>3, <1>4, GoOnIn, ThreadsApart
  <2>2. ReadyLast(todo'[A]) /\ \A j \in DevQueues : RightRing(j)'
    BY <1>4, ReadyAccess
  <2> QED
    BY <1>2, <1>3, <2>1, <2>2 DEF LapTodo, S, T
<1>5. CASE t = B
  <2>1. todo'[B] \in Seq(T) /\ todo'[A] = todo[A]
    BY <1>1, <1>2, <1>3, <1>5, GoOnIn, ThreadsApart
  <2>2. Head(todo[B]) \in CalmAccs
    BY <1>5, LapHead
  <2>3. Head(todo[B]).do = "reg" => Head(todo[B]).off \notin QueueRegs
    BY <2>2 DEF CalmAccs
  <2> QED
    BY <1>2, <1>3, <1>5, <2>1, <2>3, QuietRing DEF LapTodo, S, T
<1> QED
  BY <1>4, <1>5 DEF Threads

----------------------------------------------------------------------------
(* An access that writes no ring *)

\* Thread A's queues after any access: counted as before, and either as large
\* as before or of the size the program says.
LEMMA AccessSizes ==
  ASSUME LapInv, NEW t \in Threads, Access(t), NEW i \in Queues
  PROVE  LET q == g[A].vqs[i]
             u == g'[A].vqs[i]
         IN  /\ q \in VqStates /\ u \in VqStates
             /\ u.next_desc_idx = q.next_desc_idx
             /\ u.next_avail_idx = q.next_avail_idx
             /\ \/ u.size = q.size
                \/ u.size # 0 /\ Programmed(prog[A], i, u.size)
<1> DEFINE a == Head(todo[t])
           z == SizeFor(a.size)
<1>1. /\ g \in [Threads -> States] /\ g[A] \in States /\ g[A].vqs[i] \in VqStates
  BY ThreadsApart DEF LapInv, PInv, DataOK, States
<1>2. CASE g' = g
  BY <1>1, <1>2
<1>3. CASE a.do = "num_max" /\ g' = [g EXCEPT ![t] = WithSize(g[t], a.i, z)]
  <2>1. t = A /\ a \in LapAccs(prog[A]) /\ a \in Accs
    <3>1. t = B => a \in CalmAccs
      BY LapHead
    <3>2. t # B
      BY <1>3, <3>1 DEF CalmAccs
    <3>3. t = A
      BY <3>2 DEF Threads
    <3> QED
      BY <3>3, LapHead
  <2>2. /\ a.i \in Queues /\ a.size \in Nat
        /\ Programmed(prog[A], a.i, SizeFor(a.size))
    BY <1>3, <2>1, AccFields DEF LapAccs
  <2>3. z \in 1 .. QueueNumMax
    BY <2>2, QueueSize
  <2>4. g'[A] = WithSize(g[A], a.i, z)
    BY <1>1, <1>3, <2>1
  <2>5. Programmed(prog[A], a.i, z)
    BY <2>2
  <2>6. a.i \in Queues
    BY <2>2
  <2> HIDE DEF z, a
  <2>7. CASE i = a.i
    <3>1. /\ g'[A].vqs[i] \in VqStates /\ g'[A].vqs[i].size = z
          /\ g'[A].vqs[i].next_desc_idx = g[A].vqs[i].next_desc_idx
          /\ g'[A].vqs[i].next_avail_idx = g[A].vqs[i].next_avail_idx
      BY <1>1, <2>3, <2>4, <2>7, SizedQueue
    <3> QED
      BY <1>1, <2>3, <2>5, <2>7, <3>1
  <2>8. CASE i # a.i
    <3>1. g'[A].vqs[i] = g[A].vqs[i]
      BY <1>1, <2>3, <2>4, <2>6, <2>8, SizedQueue
    <3> QED
      BY <1>1, <3>1
  <2> QED
    BY <2>7, <2>8
<1>4. \/ g' = g
      \/ a.do = "num_max" /\ g' = [g EXCEPT ![t] = WithSize(g[t], a.i, z)]
  BY AccessEffect
<1> QED
  BY <1>2, <1>3, <1>4

\* A size is given once.
LEMMA SizeOnce ==
  ASSUME LapPrograms, LapInv, NEW t \in Threads, Access(t), NEW i \in Queues
  PROVE  g'[A].vqs[i].size = g[A].vqs[i].size \/ g[A].vqs[i].size = 0
<1> DEFINE q == g[A].vqs[i]
           u == g'[A].vqs[i]
<1>1. CASE u.size # q.size /\ q.size # 0
  <2>1. /\ q.size \in Nat /\ u.size \in Nat /\ Programmed(prog[A], i, u.size)
        /\ Programmed(prog[A], i, q.size)
    BY <1>1, AccessSizes DEF VqStates, LapInv, Counters
  <2>2. OneLap(prog[A]) /\ Len(prog[A]) \in Nat
    BY ProgramsAssumption DEF LapPrograms, LapInv, PInv, ControlOK
  <2> HIDE DEF q, u
  <2>3. u.size = q.size
    BY <2>1, <2>2, RoomForAll
  <2> QED
    BY <1>1, <2>3
<1> QED
  BY <1>1

LEMMA AccessCounters ==
  ASSUME LapInv, NEW t \in Threads, Access(t), NEW i \in Queues
  PROVE  Counters(i)'
<1>1. prog' = prog /\ at' = at
  <2>1. \E more : GoOn(t, more)
    BY LapMore
  <2> QED
    BY <2>1 DEF GoOn
<1>2. /\ g'[A].vqs[i].next_desc_idx = g[A].vqs[i].next_desc_idx
      /\ g'[A].vqs[i].next_avail_idx = g[A].vqs[i].next_avail_idx
      /\ \/ g'[A].vqs[i].size = g[A].vqs[i].size
         \/ /\ g'[A].vqs[i].size # 0
            /\ Programmed(prog[A], i, g'[A].vqs[i].size)
  BY AccessSizes
<1>3. Counters(i)
  BY DEF LapInv
<1> QED
  BY <1>1, <1>2, <1>3 DEF Counters

\* Some of what is published is visible.
LEMMA SomeVisible ==
  ASSUME LapPrograms, LapInv, NEW i \in Queues
  PROVE  \E e \in Nat, n \in Nat : Visible(i, e, n) /\ e <= g[A].vqs[i].size
<1> DEFINE q == g[A].vqs[i]
<1>1. /\ q \in VqStates /\ q.next_avail_idx <= q.next_desc_idx
      /\ q.next_desc_idx <= q.size
  BY Fits
<1>2. ASSUME Level(i) PROVE \E e \in Nat, n \in Nat : Visible(i, e, n) /\ e <= q.size
  BY <1>1, <1>2 DEF Level, VqStates
<1>3. CASE Settled
  BY <1>2, <1>3 DEF Settled
<1>4. CASE Adding
  <2>1. PICK j \in Queues :
          /\ g[A].vqs[j].next_desc_idx > 0
          /\ Storing(j, g[A].vqs[j].next_desc_idx - 1, g[A].vqs[j].next_avail_idx)
          /\ \A k \in Queues \ {j} : Level(k)
    BY <1>4 DEF Adding
  <2>2. CASE i = j
    <3> DEFINE e == q.next_avail_idx
               n == q.next_desc_idx - 1
    <3>1. e \in Nat /\ n \in Nat /\ e <= q.size
      BY <1>1, <2>1, <2>2 DEF VqStates
    <3>2. \/ Visible(i, e, n)
          \/ e > 0 /\ Visible(i, e - 1, n)
          \/ e > 0 /\ Visible(i, e - 1, n + 1)
      BY <2>1, <2>2 DEF Storing
    <3>3. q.size \in Nat
      BY <1>1 DEF VqStates
    <3> HIDE DEF e, n
    <3>4. CASE Visible(i, e, n)
      BY <3>1, <3>4
    <3>5. e > 0 => e - 1 \in Nat /\ e - 1 <= q.size /\ n + 1 \in Nat
      BY <3>1, <3>3
    <3>6. CASE e > 0 /\ Visible(i, e - 1, n)
      BY <3>1, <3>5, <3>6
    <3>7. CASE e > 0 /\ Visible(i, e - 1, n + 1)
      BY <3>5, <3>7
    <3> QED
      BY <3>2, <3>4, <3>6, <3>7
  <2> QED
    BY <1>2, <2>1, <2>2
<1> QED
  BY <1>3, <1>4 DEF LapInv

\* The device may have taken what waits; nothing is published.
Quietly(i) == Pending(i)' = Pending(i) \/ Pending(i)' = <<>>

LEMMA QuietAccess ==
  ASSUME LapPrograms, LapInv, NEW t \in Threads, Access(t), ram' = ram,
         NEW i \in DevQueues
  PROVE  Quietly(i)
<1> DEFINE y == g[A].vqs[i].size
           z == g'[A].vqs[i].size
<1>1. i \in Queues
  BY DeviceAssumption
<1>2. PICK e \in Nat, n \in Nat : Visible(i, e, n) /\ e <= y
  BY <1>1, SomeVisible
<1>3. y \in Nat /\ z \in Nat /\ (z = y \/ y = 0)
  BY <1>1, AccessSizes, SizeOnce DEF VqStates
<1>4. e <= z
  BY <1>2, <1>3
<1>5. Taken(dev.q[i], dev'.q[i], ram)
  BY AccessTakes
<1>6. g[A].vqs[i].size = y /\ g'[A].vqs[i].size = z
  OBVIOUS
<1> HIDE DEF y, z
<1> QED
  BY <1>2, <1>3, <1>4, <1>5, <1>6, TakeStep DEF Quietly

LEMMA LevelKept ==
  ASSUME LapInv, ram' = ram, NEW i \in Queues,
         i \in DevQueues => Taken(dev.q[i], dev'.q[i], ram),
         g'[A].vqs[i].next_desc_idx = g[A].vqs[i].next_desc_idx,
         g'[A].vqs[i].next_avail_idx = g[A].vqs[i].next_avail_idx, Level(i)
  PROVE  Level(i)'
<1>1. PICK e \in Nat, n \in Nat :
        e = g[A].vqs[i].next_avail_idx /\ n = g[A].vqs[i].next_desc_idx
  BY ThreadsApart DEF LapInv, PInv, DataOK, States, VqStates
<1>2. Visible(i, e, n)
  BY <1>1 DEF Level
<1>3. Visible(i, e, n)'
  BY <1>2, VisibleKept
<1> QED
  BY <1>1, <1>3 DEF Level

LEMMA StoringKept ==
  ASSUME LapInv, ram' = ram, NEW j \in Queues, NEW n \in Nat, NEW e \in Nat,
         j \in DevQueues => Taken(dev.q[j], dev'.q[j], ram),
         todo'[A] = todo[A], Storing(j, n, e)
  PROVE  Storing(j, n, e)'
<1>1. Visible(j, e, n) => Visible(j, e, n)'
  BY VisibleKept
<1>2. e > 0 /\ Visible(j, e - 1, n) => Visible(j, e - 1, n)'
  <2>1. e > 0 => e - 1 \in Nat
    OBVIOUS
  <2> QED
    BY <2>1, VisibleKept
<1>3. e > 0 /\ Visible(j, e - 1, n + 1) => Visible(j, e - 1, n + 1)'
  <2>1. n + 1 \in Nat /\ (e > 0 => e - 1 \in Nat)
    OBVIOUS
  <2> QED
    BY <2>1, VisibleKept
<1>4. CASE \E d \in Descriptors :
             todo[A] = <<DescAt(j, n, d)>> /\ Visible(j, e, n)
  <2>1. PICK d \in Descriptors : todo[A] = <<DescAt(j, n, d)>>
    BY <1>4
  <2>2. todo'[A] = <<DescAt(j, n, d)>> /\ Visible(j, e, n)'
    BY <1>1, <1>4, <2>1
  <2> QED
    BY <2>2 DEF Storing, DescAt
<1>5. CASE \E d \in Descriptors :
             /\ e > 0 /\ Visible(j, e - 1, n)
             /\ todo[A] = <<DescAt(j, n, d), RingAt(j, e - 1, n), IdxAt(j, e)>>
  <2>1. PICK d \in Descriptors :
          todo[A] = <<DescAt(j, n, d), RingAt(j, e - 1, n), IdxAt(j, e)>>
    BY <1>5
  <2>2. /\ todo'[A] = <<DescAt(j, n, d), RingAt(j, e - 1, n), IdxAt(j, e)>>
        /\ e > 0 /\ Visible(j, e - 1, n)'
    BY <1>2, <1>5, <2>1
  <2> QED
    BY <2>2 DEF Storing, DescAt, RingAt, IdxAt
<1>6. CASE /\ e > 0 /\ Visible(j, e - 1, n + 1)
           /\ todo[A] = <<RingAt(j, e - 1, n), IdxAt(j, e)>>
  BY <1>3, <1>6 DEF Storing, RingAt, IdxAt
<1>7. CASE /\ e > 0 /\ Visible(j, e - 1, n + 1)
           /\ ram.ring[AvailGpa(j)][e - 1] = n
           /\ todo[A] = <<IdxAt(j, e)>>
  BY <1>3, <1>7 DEF Storing, RingAt, IdxAt
<1> QED
  BY <1>4, <1>5, <1>6, <1>7 DEF Storing

\* While it is adding, thread A's next access is to a ring.
LEMMA AddingStores ==
  ASSUME Adding
  PROVE  todo[A] # <<>> /\ Head(todo[A]) \notin NoStores
<1>1. PICK j \in Queues :
        Storing(j, g[A].vqs[j].next_desc_idx - 1, g[A].vqs[j].next_avail_idx)
  BY DEF Adding
<1> DEFINE n == g[A].vqs[j].next_desc_idx - 1
           e == g[A].vqs[j].next_avail_idx
<1> HIDE DEF n, e
<1>2. Storing(j, n, e)
  BY <1>1 DEF n, e
<1>3. ASSUME NEW d, todo[A] = <<DescAt(j, n, d)>>
      PROVE  todo[A] # <<>> /\ Head(todo[A]) \notin NoStores
  BY <1>3 DEF DescAt, NoStores
<1>4. ASSUME NEW d,
             todo[A] = <<DescAt(j, n, d), RingAt(j, e - 1, n), IdxAt(j, e)>>
      PROVE  todo[A] # <<>> /\ Head(todo[A]) \notin NoStores
  BY <1>4 DEF DescAt, NoStores
<1>5. ASSUME todo[A] = <<RingAt(j, e - 1, n), IdxAt(j, e)>>
      PROVE  todo[A] # <<>> /\ Head(todo[A]) \notin NoStores
  BY <1>5 DEF RingAt, NoStores
<1>6. ASSUME todo[A] = <<IdxAt(j, e)>>
      PROVE  todo[A] # <<>> /\ Head(todo[A]) \notin NoStores
  BY <1>6 DEF IdxAt, NoStores
<1> QED
  BY <1>2, <1>3, <1>4, <1>5, <1>6 DEF Storing

LEMMA RamAccess ==
  ASSUME NEW t \in Threads, Access(t)
  PROVE  LET a == Head(todo[t])
         IN  \/ a.do \notin {"desc", "ring", "idx"} /\ ram' = ram
             \/ a.do = "desc" /\ ram' = PutDesc(ram, a.table, a.slot, a.d)
             \/ a.do = "ring" /\ ram' = PutRing(ram, a.avail, a.slot, a.v)
             \/ a.do = "idx" /\ ram' = PutIdx(ram, a.avail, a.v)
<1>1. CASE WriteRegister(t)
  BY <1>1 DEF WriteRegister, Do
<1>2. CASE ReadStatus(t)
  BY <1>2 DEF ReadStatus, Do
<1>3. CASE WriteStatus(t)
  BY <1>3 DEF WriteStatus, Do
<1>4. CASE ReadIsr(t)
  BY <1>4 DEF ReadIsr, Do
<1>5. CASE ReadNumMax(t)
  BY <1>5 DEF ReadNumMax, Do
<1>6. CASE StoreBuffer(t)
  BY <1>6 DEF StoreBuffer, Do
<1>7. CASE StoreDesc(t)
  BY <1>7 DEF StoreDesc, Do
<1>8. CASE StoreRing(t)
  BY <1>8 DEF StoreRing, Do
<1>9. CASE StoreIdx(t)
  BY <1>9 DEF StoreIdx, Do
<1> QED
  BY <1>1, <1>2, <1>3, <1>4, <1>5, <1>6, <1>7, <1>8, <1>9 DEF Access

LEMMA QuietAccessRings ==
  ASSUME LapPrograms, LapInv, NEW t \in Threads, Access(t),
         Head(todo[t]) \in NoStores
  PROVE  (Settled \/ Adding)' /\ \A i \in DevQueues : Quietly(i)
<1> DEFINE S == NoStores
<1>1. ram' = ram
  BY RamAccess DEF NoStores
<1>2. \A i \in DevQueues : Quietly(i)
  BY <1>1, QuietAccess
<1>3. \A i \in DevQueues : Taken(dev.q[i], dev'.q[i], ram)
  BY AccessTakes
<1>4. ASSUME NEW i \in Queues, Level(i) PROVE Level(i)'
  BY <1>1, <1>3, <1>4, AccessSizes, LevelKept
<1>5. PICK more \in Seq(LapQuiet) : GoOn(t, more)
  BY LapMore
<1>6. more \in Seq(S)
  BY <1>5 DEF LapQuiet
<1>7. /\ todo \in [Threads -> Seq(Accs)] /\ todo[t] # <<>>
      /\ g \in [Threads -> States]
  BY AccessEffect DEF LapInv, PInv, DataOK
<1> HIDE DEF S
<1>8. CASE t = A
  <2>1. Settled
    BY <1>8, AddingStores DEF LapInv
  <2>2. todo[A] \in Seq(S)
    BY <2>1 DEF Settled, S
  <2>3. todo'[A] \in Seq(S)
    BY <1>5, <1>6, <1>7, <1>8, <2>2, GoOnIn, ThreadsApart
  <2>4. Settled'
    BY <1>4, <2>1, <2>3 DEF Settled, S
  <2> QED
    BY <1>2, <2>4
<1>9. CASE t = B
  <2>1. g' = g
    <3>1. Head(todo[t]).do # "num_max"
      BY <1>9, LapHead DEF CalmAccs
    <3> QED
      BY <3>1, AccessEffect
  <2>2. todo'[A] = todo[A]
    BY <1>5, <1>7, <1>9, ThreadsApart DEF GoOn
  <2>3. CASE Settled
    BY <1>2, <1>4, <2>2, <2>3 DEF Settled
  <2>4. CASE Adding
    <3>1. PICK j \in Queues :
            LET q == g[A].vqs[j]
            IN  /\ q.size # 0 /\ q.next_desc_idx > 0
                /\ Storing(j, q.next_desc_idx - 1, q.next_avail_idx)
                /\ \A i \in Queues \ {j} : Level(i)
      BY <2>4 DEF Adding
    <3>2. PICK n \in Nat, e \in Nat :
            n = g[A].vqs[j].next_desc_idx - 1 /\ e = g[A].vqs[j].next_avail_idx
      <4>1. g[A].vqs[j] \in VqStates
        BY <1>7, ThreadsApart DEF States
      <4>2. /\ g[A].vqs[j].next_desc_idx - 1 \in Nat
            /\ g[A].vqs[j].next_avail_idx \in Nat
        BY <3>1, <4>1 DEF VqStates
      <4> QED
        BY <4>2
    <3>3. Storing(j, n, e)'
      BY <1>1, <1>3, <2>2, <3>1, <3>2, StoringKept
    <3>4. Adding'
      BY <1>4, <2>1, <3>1, <3>2, <3>3 DEF Adding
    <3> QED
      BY <1>2, <3>4
  <2> QED
    BY <2>3, <2>4 DEF LapInv
<1> QED
  BY <1>8, <1>9 DEF Threads

----------------------------------------------------------------------------
(* An access that writes one *)

LEMMA PutEffect ==
  ASSUME NEW m \in Rams, NEW j \in Queues, NEW k \in Slots
  PROVE  /\ \A d \in Descriptors :
              LET r == PutDesc(m, DescGpa(j), k, d)
              IN  /\ r.ring = m.ring /\ r.idx = m.idx
                  /\ \A x \in Slots \ {k} :
                       r.desc[DescGpa(j)][x] = m.desc[DescGpa(j)][x]
                  /\ \A i \in Queues \ {j} :
                       r.desc[DescGpa(i)] = m.desc[DescGpa(i)]
         /\ \A v \in Nat :
              LET r == PutRing(m, AvailGpa(j), k, v)
              IN  /\ r.desc = m.desc /\ r.idx = m.idx
                  /\ r.ring[AvailGpa(j)][k] = v
                  /\ \A x \in Slots \ {k} :
                       r.ring[AvailGpa(j)][x] = m.ring[AvailGpa(j)][x]
                  /\ \A i \in Queues \ {j} :
                       r.ring[AvailGpa(i)] = m.ring[AvailGpa(i)]
         /\ \A v \in Nat :
              LET r == PutIdx(m, AvailGpa(j), v)
              IN  /\ r.desc = m.desc /\ r.ring = m.ring
                  /\ r.idx[AvailGpa(j)] = v
                  /\ \A i \in Queues \ {j} : r.idx[AvailGpa(i)] = m.idx[AvailGpa(i)]
<1> DEFINE a == DescGpa(j)
           b == AvailGpa(j)
<1>1. a \in DescAreas /\ b \in AvailAreas
  BY DEF DescAreas, AvailAreas
<1>2. \A i \in Queues \ {j} : /\ DescGpa(i) \in DescAreas /\ DescGpa(i) # a
                              /\ AvailGpa(i) \in AvailAreas /\ AvailGpa(i) # b
  BY AreasApart DEF DescAreas, AvailAreas
<1> HIDE DEF a, b
<1>3. ASSUME NEW d \in Descriptors
      PROVE  LET r == PutDesc(m, a, k, d)
             IN  /\ r.ring = m.ring /\ r.idx = m.idx
                 /\ \A x \in Slots \ {k} : r.desc[a][x] = m.desc[a][x]
                 /\ \A i \in Queues \ {j} :
                      r.desc[DescGpa(i)] = m.desc[DescGpa(i)]
  <2>1. PutDesc(m, a, k, d) = [m EXCEPT !.desc[a][k] = d]
    BY <1>1 DEF PutDesc
  <2> QED
    BY <1>1, <1>2, <2>1 DEF Rams
<1>4. ASSUME NEW v \in Nat
      PROVE  LET r == PutRing(m, b, k, v)
             IN  /\ r.desc = m.desc /\ r.idx = m.idx /\ r.ring[b][k] = v
                 /\ \A x \in Slots \ {k} : r.ring[b][x] = m.ring[b][x]
                 /\ \A i \in Queues \ {j} :
                      r.ring[AvailGpa(i)] = m.ring[AvailGpa(i)]
  <2>1. PutRing(m, b, k, v) = [m EXCEPT !.ring[b][k] = v]
    BY <1>1 DEF PutRing
  <2> QED
    BY <1>1, <1>2, <2>1 DEF Rams
<1>5. ASSUME NEW v \in Nat
      PROVE  LET r == PutIdx(m, b, v)
             IN  /\ r.desc = m.desc /\ r.ring = m.ring /\ r.idx[b] = v
                 /\ \A i \in Queues \ {j} : r.idx[AvailGpa(i)] = m.idx[AvailGpa(i)]
  <2>1. PutIdx(m, b, v) = [m EXCEPT !.idx[b] = v]
    BY <1>1 DEF PutIdx
  <2> QED
    BY <1>1, <1>2, <2>1 DEF Rams
<1> QED
  BY <1>3, <1>4, <1>5 DEF a, b

\* Nothing that waits changes.
LEMMA PendingSame ==
  ASSUME LapPrograms, LapInv, NEW i \in DevQueues, dev' = dev, g' = g,
         ram' \in Rams, ram'.idx[AvailGpa(i)] = ram.idx[AvailGpa(i)],
         \A k \in 0 .. ram.idx[AvailGpa(i)] - 1 : Entry(ram', i, k) = Entry(ram, i, k)
  PROVE  Pending(i)' = Pending(i)
<1>1. i \in Queues /\ ram \in Rams /\ dev.q[i].last \in Nat
  BY DeviceAssumption DEF LapInv, PInv, DataOK, Devices, DevQueueStates
<1>2. PICK e \in Nat, n \in Nat : Visible(i, e, n) /\ e <= g[A].vqs[i].size
  BY <1>1, SomeVisible
<1>3. dev.q[i].last <= ram.idx[AvailGpa(i)] /\ ram.idx[AvailGpa(i)] <= g[A].vqs[i].size
  BY <1>2 DEF Visible
<1>4. g[A].vqs[i].size \in Nat
  BY <1>1, Fits DEF VqStates
<1>5. /\ Pending(i) = Line(ram, dev.q[i].last, g[A].vqs[i].size, i)
      /\ Pending(i)' = Line(ram', dev.q[i].last, g[A].vqs[i].size, i)
  BY PendingLine
<1> DEFINE s == ram'
<1>6. /\ s \in Rams /\ s.idx[AvailGpa(i)] = ram.idx[AvailGpa(i)]
      /\ \A k \in 0 .. ram.idx[AvailGpa(i)] - 1 : Entry(s, i, k) = Entry(ram, i, k)
  OBVIOUS
<1>7. Pending(i)' = Line(s, dev.q[i].last, g[A].vqs[i].size, i)
  BY <1>5
<1> HIDE DEF s
<1>8. Line(s, dev.q[i].last, g[A].vqs[i].size, i)
        = Line(ram, dev.q[i].last, g[A].vqs[i].size, i)
  BY <1>1, <1>3, <1>4, <1>6, LineSame
<1> QED
  BY <1>5, <1>7, <1>8

\* Thread A is adding descriptor n, the last one counted, and entry e.
AddingTo(j, n, e) ==
  LET q == g[A].vqs[j]
  IN  /\ q.size # 0 /\ q.next_desc_idx = n + 1 /\ q.next_avail_idx = e
      /\ Storing(j, n, e)
      /\ \A i \in Queues \ {j} : Level(i)

LEMMA AddingSomewhere ==
  ASSUME LapPrograms, LapInv, Adding
  PROVE  \E j \in Queues, n \in Slots, e \in Nat :
           /\ AddingTo(j, n, e)
           /\ e <= n + 1 /\ n + 1 <= g[A].vqs[j].size
           /\ g[A].vqs[j].size \in Nat /\ g[A].vqs[j].size <= QueueNumMax
<1>1. PICK j \in Queues :
        LET q == g[A].vqs[j]
        IN  /\ q.size # 0 /\ q.next_desc_idx > 0
            /\ Storing(j, q.next_desc_idx - 1, q.next_avail_idx)
            /\ \A i \in Queues \ {j} : Level(i)
  BY DEF Adding
<1> DEFINE q == g[A].vqs[j]
           n == q.next_desc_idx - 1
           e == q.next_avail_idx
<1>2. /\ q \in VqStates /\ q.next_avail_idx <= q.next_desc_idx
      /\ q.next_desc_idx <= q.size
  BY Fits
<1>3. QueueNumMax \in Nat
  BY SizeAssumption
<1>4. /\ n \in Slots /\ e \in Nat /\ q.next_desc_idx = n + 1
      /\ e <= n + 1 /\ n + 1 <= q.size /\ q.size \in Nat /\ q.size <= QueueNumMax
  BY <1>1, <1>2, <1>3 DEF VqStates, Slots
<1>5. AddingTo(j, n, e)
  <2>1. Storing(j, n, e)
    BY <1>1
  <2> HIDE DEF n
  <2> QED
    BY <1>1, <1>4, <2>1 DEF AddingTo
<1> HIDE DEF n, e
<1> QED
  BY <1>4, <1>5

LEMMA StoreRest ==
  ASSUME LapInv, Access(A), Head(todo[A]) \notin NoStores
  PROVE  /\ todo'[A] = Tail(todo[A]) /\ g' = g /\ dev' = dev
         /\ ram \in Rams /\ ram' \in Rams
<1> DEFINE a == Head(todo[A])
<1>1. a.do \in {"desc", "ring", "idx"}
  BY LapHead, ThreadsApart DEF NoStores
<1>2. dev' = dev /\ GoOn(A, <<>>) /\ g' = g /\ todo[A] # <<>>
  BY <1>1, AccessEffect, ThreadsApart
<1>3. DataOK /\ DataOK'
  BY DataAccess, ThreadsApart DEF LapInv, PInv
<1> QED
  BY <1>2, <1>3, GoOnTail, ThreadsApart DEF DataOK

LEMMA OtherLevel ==
  ASSUME NEW i \in Queues, Level(i), g' = g, dev' = dev,
         ram'.idx[AvailGpa(i)] = ram.idx[AvailGpa(i)],
         ram'.ring[AvailGpa(i)] = ram.ring[AvailGpa(i)]
  PROVE  Level(i)'
  BY DEF Level, Visible

\* The descriptor: no entry names it yet.
LEMMA DescStored ==
  ASSUME LapPrograms, LapInv, Access(A), NEW j \in Queues, NEW n \in Slots,
         NEW d \in Descriptors, NEW e, NEW c \in Nat, Visible(j, c, n), c <= QueueNumMax,
         Head(todo[A]) = DescAt(j, n, d),
         \A i \in Queues \ {j} : Level(i)
  PROVE  /\ todo'[A] = Tail(todo[A]) /\ g' = g
         /\ Visible(j, c, n + 1)'
         /\ \A i \in Queues \ {j} : Level(i)'
         /\ \A i \in DevQueues : Pending(i)' = Pending(i)
<1> DEFINE a == Head(todo[A])
<1>1. a.do = "desc" /\ a.table = DescGpa(j) /\ a.slot = n /\ a.d = d
  BY DEF DescAt
<1>2. /\ todo'[A] = Tail(todo[A]) /\ g' = g /\ dev' = dev
      /\ ram \in Rams /\ ram' \in Rams
  <2>1. Head(todo[A]) \notin NoStores
    BY <1>1 DEF NoStores
  <2> QED
    BY <2>1, StoreRest
<1>3. ram' = PutDesc(ram, DescGpa(j), n, d)
  BY <1>1, RamAccess, ThreadsApart
<1>4. /\ ram'.ring = ram.ring /\ ram'.idx = ram.idx
      /\ \A x \in Slots \ {n} : ram'.desc[DescGpa(j)][x] = ram.desc[DescGpa(j)][x]
      /\ \A i \in Queues \ {j} : ram'.desc[DescGpa(i)] = ram.desc[DescGpa(i)]
  BY <1>2, <1>3, PutEffect
<1>5. \A i \in Queues \ {j} : Level(i)'
  BY <1>2, <1>4, OtherLevel
<1>6. ram.ring[AvailGpa(j)] \in [Slots -> Nat] /\ n \in Nat
  BY <1>2 DEF Rams, AvailAreas, Slots
<1>7. \A k \in 0 .. c - 1 : k \in Slots /\ ram.ring[AvailGpa(j)][k] < n
  BY SizeAssumption DEF Visible, Slots
<1>8. Visible(j, c, n + 1)'
  <2>1. \A k \in 0 .. c - 1 : ram.ring[AvailGpa(j)][k] < n + 1
    BY <1>6, <1>7
  <2> QED
    BY <1>2, <1>4, <2>1 DEF Visible
<1>9. ASSUME NEW i \in DevQueues PROVE Pending(i)' = Pending(i)
  <2>1. i \in Queues /\ ram'.idx[AvailGpa(i)] = ram.idx[AvailGpa(i)]
    BY <1>4, DeviceAssumption
  <2>2. CASE i # j
    <3>1. \A k : Entry(ram', i, k) = Entry(ram, i, k)
      BY <1>4, <2>1, <2>2 DEF Entry
    <3> QED
      BY <1>2, <2>1, <3>1, PendingSame
  <2>3. CASE i = j
    <3>1. ASSUME NEW k \in 0 .. ram.idx[AvailGpa(i)] - 1
          PROVE  Entry(ram', i, k) = Entry(ram, i, k)
      <4>1. k \in 0 .. c - 1
        BY <2>3 DEF Visible
      <4>2. ram.ring[AvailGpa(j)][k] \in Slots \ {n}
        BY <1>6, <1>7, <4>1, SizeAssumption DEF Slots
      <4> QED
        BY <1>4, <2>3, <4>2 DEF Entry
    <3> QED
      BY <1>2, <2>1, <3>1, PendingSame
  <2> QED
    BY <2>2, <2>3
<1> QED
  BY <1>2, <1>5, <1>8, <1>9

\* The entry: the index does not cover it yet.
LEMMA RingStored ==
  ASSUME LapPrograms, LapInv, Access(A), NEW j \in Queues, NEW n \in Nat,
         NEW c \in Slots, Visible(j, c, n + 1), Head(todo[A]) = RingAt(j, c, n),
         \A i \in Queues \ {j} : Level(i)
  PROVE  /\ todo'[A] = Tail(todo[A]) /\ g' = g
         /\ Visible(j, c, n + 1)' /\ ram'.ring[AvailGpa(j)][c] = n
         /\ \A i \in Queues \ {j} : Level(i)'
         /\ \A i \in DevQueues : Pending(i)' = Pending(i)
<1> DEFINE a == Head(todo[A])
<1>1. a.do = "ring" /\ a.avail = AvailGpa(j) /\ a.slot = c /\ a.v = n
  BY DEF RingAt
<1>2. /\ todo'[A] = Tail(todo[A]) /\ g' = g /\ dev' = dev
      /\ ram \in Rams /\ ram' \in Rams
  <2>1. Head(todo[A]) \notin NoStores
    BY <1>1 DEF NoStores
  <2> QED
    BY <2>1, StoreRest
<1>3. ram' = PutRing(ram, AvailGpa(j), c, n)
  BY <1>1, RamAccess, ThreadsApart
<1>4. /\ ram'.desc = ram.desc /\ ram'.idx = ram.idx
      /\ ram'.ring[AvailGpa(j)][c] = n
      /\ \A x \in Slots \ {c} : ram'.ring[AvailGpa(j)][x] = ram.ring[AvailGpa(j)][x]
      /\ \A i \in Queues \ {j} : ram'.ring[AvailGpa(i)] = ram.ring[AvailGpa(i)]
  BY <1>2, <1>3, PutEffect
<1>5. \A i \in Queues \ {j} : Level(i)'
  BY <1>2, <1>4, OtherLevel
<1>6. \A k \in 0 .. c - 1 : k \in Slots \ {c}
  BY SizeAssumption DEF Slots
<1>7. Visible(j, c, n + 1)'
  <2>1. \A k \in 0 .. c - 1 : ram'.ring[AvailGpa(j)][k] < n + 1
    BY <1>4, <1>6 DEF Visible
  <2> QED
    BY <1>2, <1>4, <2>1 DEF Visible
<1>8. ASSUME NEW i \in DevQueues PROVE Pending(i)' = Pending(i)
  <2>1. i \in Queues /\ ram'.idx[AvailGpa(i)] = ram.idx[AvailGpa(i)]
    BY <1>4, DeviceAssumption
  <2>2. CASE i # j
    <3>1. \A k : Entry(ram', i, k) = Entry(ram, i, k)
      BY <1>4, <2>1, <2>2 DEF Entry
    <3> QED
      BY <1>2, <2>1, <3>1, PendingSame
  <2>3. CASE i = j
    <3>1. ASSUME NEW k \in 0 .. ram.idx[AvailGpa(i)] - 1
          PROVE  Entry(ram', i, k) = Entry(ram, i, k)
      <4>1. k \in Slots \ {c}
        BY <1>6, <2>3 DEF Visible
      <4> QED
        BY <1>4, <2>3, <4>1 DEF Entry
    <3> QED
      BY <1>2, <2>1, <3>1, PendingSame
  <2> QED
    BY <2>2, <2>3
<1> QED
  BY <1>2, <1>4, <1>5, <1>7, <1>8

\* One more complete entry waits.
Grows(i) ==
  LET m == Len(Pending(i))
  IN  /\ m < QueueNumMax
      /\ Len(Pending(i)') = m + 1
      /\ SubSeq(Pending(i)', 1, m) = Pending(i)
      /\ Pending(i)'[m + 1] \in Descriptors

\* The index: one more entry, complete.
LEMMA IdxStored ==
  ASSUME LapPrograms, LapInv, Access(A), NEW j \in Queues, NEW n \in Slots,
         NEW e \in Nat, e > 0, e <= g[A].vqs[j].size,
         Visible(j, e - 1, n + 1), ram.ring[AvailGpa(j)][e - 1] = n,
         Head(todo[A]) = IdxAt(j, e), \A i \in Queues \ {j} : Level(i)
  PROVE  /\ todo'[A] = Tail(todo[A]) /\ g' = g
         /\ Visible(j, e, n + 1)'
         /\ \A i \in Queues \ {j} : Level(i)'
         /\ \A i \in DevQueues : Quietly(i) \/ Grows(i)
<1> DEFINE a == Head(todo[A])
<1>1. a.do = "idx" /\ a.avail = AvailGpa(j) /\ a.v = e
  BY DEF IdxAt
<1>2. /\ todo'[A] = Tail(todo[A]) /\ g' = g /\ dev' = dev
      /\ ram \in Rams /\ ram' \in Rams /\ n \in Nat
  <2>1. Head(todo[A]) \notin NoStores
    BY <1>1 DEF NoStores
  <2> QED
    BY <2>1, StoreRest DEF Slots
<1>3. ram' = PutIdx(ram, AvailGpa(j), e)
  BY <1>1, RamAccess, ThreadsApart
<1>4. /\ ram'.desc = ram.desc /\ ram'.ring = ram.ring
      /\ ram'.idx[AvailGpa(j)] = e
      /\ \A i \in Queues \ {j} : ram'.idx[AvailGpa(i)] = ram.idx[AvailGpa(i)]
  <2>1. 0 \in Slots
    BY SizeAssumption DEF Slots
  <2> QED
    BY <1>2, <1>3, <2>1, PutEffect
<1>5. \A i \in Queues \ {j} : Level(i)'
  BY <1>2, <1>4, OtherLevel
<1>6. dev \in Devices
  BY DEF LapInv, PInv, DataOK
<1>7. Visible(j, e, n + 1)'
  <2>1. \A k \in 0 .. e - 1 : ram.ring[AvailGpa(j)][k] < n + 1
    <3> SUFFICES ASSUME NEW k \in 0 .. e - 1
                 PROVE  ram.ring[AvailGpa(j)][k] < n + 1
      OBVIOUS
    <3>1. CASE k = e - 1
      BY <1>2, <3>1
    <3>2. CASE k # e - 1
      <4>1. k \in 0 .. e - 1 - 1
        BY <3>2
      <4> QED
        BY <4>1 DEF Visible
    <3> QED
      BY <3>1, <3>2
  <2>2. j \in DevQueues => dev.q[j].last <= e
    BY <1>6 DEF Visible, Devices, DevQueueStates
  <2> QED
    BY <1>2, <1>4, <2>1, <2>2 DEF Visible
<1>8. ASSUME NEW i \in DevQueues PROVE Quietly(i) \/ Grows(i)
  <2>1. i \in Queues
    BY DeviceAssumption
  <2>2. CASE i # j
    <3>1. \A k : Entry(ram', i, k) = Entry(ram, i, k)
      BY <1>4 DEF Entry
    <3>2. ram'.idx[AvailGpa(i)] = ram.idx[AvailGpa(i)]
      BY <1>4, <2>1, <2>2
    <3> QED
      BY <1>2, <3>1, <3>2, PendingSame DEF Quietly
  <2>3. CASE i = j
    <3> DEFINE l == dev.q[i].last
               z == g[A].vqs[i].size
               s == ram'
    <3>1. Pending(i) = Line(ram, l, z, i) /\ Pending(i)' = Line(s, l, z, i)
      BY <1>2, PendingLine
    <3>2. /\ l \in Nat /\ z \in Nat /\ z <= QueueNumMax
          /\ ram.idx[AvailGpa(i)] = e - 1 /\ l <= e - 1 /\ e <= z
      <4>1. l \in Nat
        BY <1>6 DEF Devices, DevQueueStates
      <4>2. z \in 0 .. QueueNumMax
        BY <2>1, Fits DEF VqStates
      <4> QED
        BY <2>3, <4>1, <4>2, SizeAssumption DEF Visible
    <3>3. /\ s \in Rams /\ s.idx[AvailGpa(i)] = ram.idx[AvailGpa(i)] + 1
          /\ s.ring = ram.ring /\ s.desc = ram.desc
          /\ l <= ram.idx[AvailGpa(i)] /\ s.idx[AvailGpa(i)] <= z
          /\ ram.ring[AvailGpa(i)][ram.idx[AvailGpa(i)]] \in Slots
      BY <1>2, <1>4, <2>3, <3>2
    <3> HIDE DEF l, z, s
    <3>4. LET b == Line(ram, l, z, i)
              c == Line(s, l, z, i)
              m == Len(b)
          IN  /\ m < QueueNumMax /\ Len(c) = m + 1 /\ SubSeq(c, 1, m) = b
              /\ c[m + 1] \in Descriptors
      BY <1>2, <2>1, <3>2, <3>3, LineMore
    <3> QED
      BY <3>1, <3>4 DEF Grows
  <2> QED
    BY <2>2, <2>3
<1> QED
  BY <1>2, <1>5, <1>7, <1>8

\* Thread A goes on with what it was adding, or has added it.
LEMMA StillAdding ==
  ASSUME NEW j \in Queues, NEW n \in Nat, NEW e \in Nat, AddingTo(j, n, e),
         g' = g, Storing(j, n, e)', \A i \in Queues \ {j} : Level(i)'
  PROVE  Adding'
<1>1. /\ g'[A].vqs[j].size # 0 /\ g'[A].vqs[j].next_desc_idx > 0
      /\ g'[A].vqs[j].next_desc_idx - 1 = n /\ g'[A].vqs[j].next_avail_idx = e
  BY DEF AddingTo
<1>2. Storing(j, g[A].vqs[j].next_desc_idx - 1, g[A].vqs[j].next_avail_idx)'
  BY <1>1
<1> QED
  BY <1>1, <1>2 DEF Adding

LEMMA Added ==
  ASSUME NEW j \in Queues, NEW n \in Nat, NEW e \in Nat, AddingTo(j, n, e),
         g' = g, todo'[A] = <<>>, Visible(j, e, n + 1)',
         \A i \in Queues \ {j} : Level(i)'
  PROVE  Settled'
<1>1. g'[A].vqs[j].next_desc_idx = n + 1 /\ g'[A].vqs[j].next_avail_idx = e
  BY DEF AddingTo
<1>2. Level(j)'
  BY <1>1 DEF Level
<1> QED
  BY <1>2 DEF Settled

LEMMA StoreRings ==
  ASSUME LapPrograms, LapInv, Access(A), Head(todo[A]) \notin NoStores
  PROVE  /\ (Settled \/ Adding)'
         /\ \A i \in DevQueues : Quietly(i) \/ Grows(i)
<1>1. Adding
  <2>1. todo[A] # <<>>
    BY AccessEffect, ThreadsApart
  <2> DEFINE S == NoStores
  <2>2. Head(todo[A]) \notin S /\ (Settled => todo[A] \in Seq(S))
    BY DEF Settled
  <2> HIDE DEF S
  <2>3. ~Settled
    BY <2>1, <2>2, HeadTailProperties
  <2> QED
    BY <2>3 DEF LapInv
<1>2. PICK j \in Queues, n \in Slots, e \in Nat :
        /\ AddingTo(j, n, e)
        /\ e <= n + 1 /\ n + 1 <= g[A].vqs[j].size
        /\ g[A].vqs[j].size \in Nat /\ g[A].vqs[j].size <= QueueNumMax
  BY <1>1, AddingSomewhere
<1>3. /\ n \in Nat /\ QueueNumMax \in Nat /\ e <= QueueNumMax
      /\ e <= g[A].vqs[j].size
      /\ e > 0 => e - 1 \in Slots /\ e - 1 \in Nat /\ e - 1 <= QueueNumMax
      /\ Storing(j, n, e) /\ \A i \in Queues \ {j} : Level(i)
  BY <1>2, SizeAssumption DEF Slots, AddingTo
<1>4. CASE \E d \in Descriptors :
             todo[A] = <<DescAt(j, n, d)>> /\ Visible(j, e, n)
  <2>1. PICK d \in Descriptors : todo[A] = <<DescAt(j, n, d)>>
    BY <1>4
  <2>2. Head(todo[A]) = DescAt(j, n, d) /\ Tail(todo[A]) = <<>> /\ Visible(j, e, n)
    BY <1>4, <2>1
  <2>3. /\ todo'[A] = Tail(todo[A]) /\ g' = g /\ Visible(j, e, n + 1)'
        /\ \A i \in Queues \ {j} : Level(i)'
        /\ \A i \in DevQueues : Pending(i)' = Pending(i)
    BY <1>3, <2>2, DescStored
  <2>4. Settled'
    BY <1>2, <1>3, <2>2, <2>3, Added
  <2> QED
    BY <2>3, <2>4 DEF Quietly
<1>5. CASE \E d \in Descriptors :
             /\ e > 0 /\ Visible(j, e - 1, n)
             /\ todo[A] = <<DescAt(j, n, d), RingAt(j, e - 1, n), IdxAt(j, e)>>
  <2>1. PICK d \in Descriptors :
          todo[A] = <<DescAt(j, n, d), RingAt(j, e - 1, n), IdxAt(j, e)>>
    BY <1>5
  <2>2. /\ Head(todo[A]) = DescAt(j, n, d)
        /\ Tail(todo[A]) = <<RingAt(j, e - 1, n), IdxAt(j, e)>>
        /\ e > 0 /\ Visible(j, e - 1, n)
    BY <1>5, <2>1
  <2>3. /\ todo'[A] = Tail(todo[A]) /\ g' = g /\ Visible(j, e - 1, n + 1)'
        /\ \A i \in Queues \ {j} : Level(i)'
        /\ \A i \in DevQueues : Pending(i)' = Pending(i)
    BY <1>3, <2>2, DescStored
  <2>4. Storing(j, n, e)'
    <3>1. todo'[A] = <<RingAt(j, e - 1, n), IdxAt(j, e)>>
      BY <2>2, <2>3
    <3> QED
      BY <2>2, <2>3, <3>1 DEF Storing, RingAt, IdxAt
  <2>5. Adding'
    BY <1>2, <1>3, <2>3, <2>4, StillAdding
  <2> QED
    BY <2>3, <2>5 DEF Quietly
<1>6. CASE /\ e > 0 /\ Visible(j, e - 1, n + 1)
           /\ todo[A] = <<RingAt(j, e - 1, n), IdxAt(j, e)>>
  <2>1. /\ Head(todo[A]) = RingAt(j, e - 1, n)
        /\ Tail(todo[A]) = <<IdxAt(j, e)>>
    BY <1>6
  <2>2. /\ todo'[A] = Tail(todo[A]) /\ g' = g /\ Visible(j, e - 1, n + 1)'
        /\ ram'.ring[AvailGpa(j)][e - 1] = n
        /\ \A i \in Queues \ {j} : Level(i)'
        /\ \A i \in DevQueues : Pending(i)' = Pending(i)
    BY <1>3, <1>6, <2>1, RingStored
  <2>3. Storing(j, n, e)'
    <3>1. todo'[A] = <<IdxAt(j, e)>>
      BY <2>1, <2>2
    <3> QED
      BY <1>6, <2>2, <3>1 DEF Storing, IdxAt
  <2>4. Adding'
    BY <1>2, <1>3, <2>2, <2>3, StillAdding
  <2> QED
    BY <2>2, <2>4 DEF Quietly
<1>7. CASE /\ e > 0 /\ Visible(j, e - 1, n + 1)
           /\ ram.ring[AvailGpa(j)][e - 1] = n
           /\ todo[A] = <<IdxAt(j, e)>>
  <2>1. Head(todo[A]) = IdxAt(j, e) /\ Tail(todo[A]) = <<>>
    BY <1>7
  <2>2. /\ todo'[A] = Tail(todo[A]) /\ g' = g /\ Visible(j, e, n + 1)'
        /\ \A i \in Queues \ {j} : Level(i)'
        /\ \A i \in DevQueues : Quietly(i) \/ Grows(i)
    BY <1>3, <1>7, <2>1, IdxStored
  <2>3. Settled'
    BY <1>2, <1>3, <2>1, <2>2, Added
  <2> QED
    BY <2>2, <2>3
<1> QED
  BY <1>3, <1>4, <1>5, <1>6, <1>7 DEF Storing

\* Any access of a thread.
LEMMA AccessLap ==
  ASSUME LapPrograms, LapInv, NEW t \in Threads, Access(t), PInv', WInv'
  PROVE  LapInv' /\ \A i \in DevQueues : Quietly(i) \/ Grows(i)
<1>1. /\ (Settled \/ Adding)'
      /\ \A i \in DevQueues : Quietly(i) \/ Grows(i)
  <2>1. CASE Head(todo[t]) \in NoStores
    BY <2>1, QuietAccessRings
  <2>2. CASE Head(todo[t]) \notin NoStores
    <3>1. t = A
      BY <2>2, LapHead DEF Threads
    <3> QED
      BY <2>2, <3>1, StoreRings
  <2> QED
    BY <2>1, <2>2
<1>2. LapTodo' /\ \A j \in DevQueues : RightRing(j)'
  BY AccessTodo
<1>3. \A i \in Queues : Counters(i)'
  BY AccessCounters
<1> QED
  BY <1>1, <1>2, <1>3 DEF LapInv

----------------------------------------------------------------------------
(* An operation begins *)

LEMMA LapOperation ==
  ASSUME LapPrograms, LapInv, BeginOp(A)
  PROVE  LET op == prog[A][at[A] + 1]
         IN  /\ WellFormed(op) /\ Keeps(op) /\ OneLap(prog[A])
             /\ op.kind = "MmioCorrupt" => op.off % MmioSize \notin QueueRegs
             /\ at[A] \in Nat /\ at[A] + 1 \in 1 .. Len(prog[A])
             /\ Len(prog[A]) \in Nat
             /\ g[A] \in States /\ g[A].buf_alloc >= BufPoolBase
             /\ g'[A] = After(g[A], op) /\ todo'[A] = Accesses(g[A], op)
             /\ at'[A] = at[A] + 1 /\ Settled
             /\ todo'[B] = todo[B] /\ UNCHANGED <<prog, ram, dev>>
<1>1. /\ ControlOK /\ prog[A] \in ProgramsA /\ at \in [Threads -> Nat]
      /\ g \in [Threads -> States] /\ g[A].buf_alloc >= BufPoolBase
      /\ todo \in [Threads -> Seq(Accs)]
  BY ThreadsApart DEF LapInv, PInv, ControlOK, DataOK
<1>2. PICK k \in 1 .. Len(prog[A]) : k = at[A] + 1
  BY <1>1, OperationOf, ThreadsApart
<1>3. /\ Keeps(prog[A][k]) /\ OneLap(prog[A])
      /\ prog[A][k].kind = "MmioCorrupt" => prog[A][k].off % MmioSize \notin QueueRegs
  BY <1>1 DEF LapPrograms, CalmPrograms
<1>4. WellFormed(prog[A][at[A] + 1]) /\ Len(prog[A]) \in Nat
  BY <1>1, NextOperation, ThreadsApart, ProgramsAssumption
<1>5. Settled
  <2>1. todo[A] = <<>>
    BY DEF BeginOp, Free
  <2> QED
    BY <2>1, AddingStores DEF LapInv
<1>6. /\ g'[A] = After(g[A], prog[A][at[A] + 1])
      /\ todo'[A] = Accesses(g[A], prog[A][at[A] + 1]) /\ todo'[B] = todo[B]
      /\ at'[A] = at[A] + 1 /\ UNCHANGED <<prog, ram, dev>>
  BY <1>1, ThreadsApart DEF BeginOp
<1> QED
  BY <1>1, <1>2, <1>3, <1>4, <1>5, <1>6, ThreadsApart

LEMMA BeginTodo ==
  ASSUME LapPrograms, LapInv, BeginOp(A)
  PROVE  LapTodo'
<1> DEFINE op == prog[A][at[A] + 1]
           x  == Accesses(g[A], op)
           S  == LapAccs(prog[A])
<1>1. /\ WellFormed(op) /\ Keeps(op) /\ at[A] + 1 \in 1 .. Len(prog[A])
      /\ op.kind = "MmioCorrupt" => op.off % MmioSize \notin QueueRegs
      /\ g[A] \in States /\ todo'[A] = x /\ todo'[B] = todo[B] /\ prog' = prog
  BY LapOperation
<1>2. op.kind = "VqSetup" /\ op.i \in Queues
        => Programmed(prog[A], op.i, SizeFor(op.size))
  BY <1>1 DEF Programmed, SetsUp
<1>3. todo[B] \in Seq(NoStores)
  BY DEF LapInv, LapTodo
<1> HIDE DEF op
<1>4. ASSUME x \in Seq(S), ReadyLast(x) PROVE LapTodo'
  BY <1>1, <1>3, <1>4 DEF LapTodo
<1>5. CASE op.kind = "VqSetup" /\ op.i \in Queues
  <2> DEFINE a == Reg(R_QUEUE_SEL, op.i)
             b == AskNumMax(op.i, op.size)
  <2>1. x = <<a, b>>
    BY <1>5 DEF Accesses
  <2>2. op.size \in Nat /\ R_QUEUE_SEL \in Nat /\ op.i \in Nat
    BY <1>1, <1>5 DEF WellFormed, R_QUEUE_SEL
  <2>3. a \in Accs /\ b \in Accs
    BY <1>5, <2>2, RegAcc, NumMaxAcc
  <2>4. a \in S
    BY <2>3 DEF LapAccs, Reg, R_QUEUE_SEL, R_STATUS
  <2>5. b \in S
    BY <1>2, <1>5, <2>3 DEF LapAccs, AskNumMax
  <2>6. a # MakesReady
    BY DEF MakesReady, Reg, R_QUEUE_SEL, R_QUEUE_READY
  <2> HIDE DEF a, b, S, x
  <2>7. x \in Seq(S)
    BY <2>1, <2>4, <2>5, SeqOf
  <2>8. ReadyLast(x)
    <3>1. Len(x) = 2 /\ x[1] = a
      BY <2>1
    <3>2. \A k \in 1 .. Len(x) : x[k] = MakesReady => k # 1
      BY <2>6, <3>1
    <3> QED
      BY <3>1, <3>2 DEF ReadyLast
  <2> QED
    BY <1>4, <2>7, <2>8
<1>6. CASE op.kind = "VqSetup" /\ op.i \notin Queues
  <2>1. x = <<>>
    BY <1>6 DEF Accesses
  <2> HIDE DEF x, S
  <2>2. x \in Seq(S) /\ ReadyLast(x)
    BY <2>1 DEF ReadyLast
  <2> QED
    BY <1>4, <2>2
<1>7. CASE op.kind # "VqSetup"
  <2>1. x \in Seq(Accs)
    BY <1>1, AccessesType
  <2>2. \A k \in 1 .. Len(x) : Plain(x[k], op)
    BY <1>7, PlainAccesses
  <2> HIDE DEF x
  <2>3. ASSUME NEW k \in 1 .. Len(x) PROVE x[k] \in S /\ x[k] # MakesReady
    <3>1. x[k] \in Accs /\ Plain(x[k], op)
      BY <2>1, <2>2
    <3>2. /\ x[k].do = "reg" => x[k].off # R_STATUS /\ x[k].off # R_QUEUE_READY
          /\ x[k].do \in {"or_status", "put_status"} => x[k].bits # {}
      <4>1. R_QUEUE_READY \in QueueRegs
        BY DEF QueueRegs
      <4> QED
        BY <1>1, <3>1, <4>1 DEF Plain, Keeps, R_QUEUE_SEL, R_QUEUE_NOTIFY, R_STATUS,
           R_QUEUE_READY
    <3>3. x[k] # MakesReady
      BY <3>2 DEF MakesReady, Reg
    <3> QED
      BY <3>1, <3>2, <3>3 DEF LapAccs, Plain
  <2> HIDE DEF S
  <2>4. x \in Seq(S)
    BY <2>1, <2>3
  <2>5. ReadyLast(x)
    BY <2>3 DEF ReadyLast
  <2> QED
    BY <1>4, <2>4, <2>5
<1> QED
  BY <1>5, <1>6, <1>7

\* An operation that adds nothing leaves thread A's queues as they are.
LEMMA BeginPlain ==
  ASSUME LapPrograms, LapInv, BeginOp(A), ~Places(g[A], prog[A][at[A] + 1])
  PROVE  /\ \A i \in Queues : g'[A].vqs[i] = g[A].vqs[i]
         /\ todo'[A] \in Seq(NoStores)
<1> DEFINE op == prog[A][at[A] + 1]
           s  == g[A]
           x  == Accesses(s, op)
<1>1. /\ WellFormed(op) /\ Keeps(op) /\ s \in States
      /\ g'[A] = After(s, op) /\ todo'[A] = x
  BY LapOperation
<1>2. ~Places(s, op)
  OBVIOUS
<1> HIDE DEF op
<1>3. \A i \in Queues : g'[A].vqs[i] = s.vqs[i]
  <2>1. \/ g'[A] = s
        \/ \E len \in 0 .. MaxData : g'[A] = WithBuffer(s, op.id, len)
    BY <1>1, <1>2, AfterCases DEF Keeps
  <2> HIDE DEF s
  <2>2. ASSUME NEW len \in 0 .. MaxData, g'[A] = WithBuffer(s, op.id, len)
        PROVE  \A i \in Queues : g'[A].vqs[i] = s.vqs[i]
    BY <1>1, <2>2 DEF WithBuffer, States
  <2> QED
    BY <2>1, <2>2
<1>4. x \in Seq(Accs)
  BY <1>1, AccessesType
<1>5. x \in Seq(NoStores)
  <2> DEFINE S == NoStores
  <2>1. CASE op.kind = "VqAddDesc"
    <3>1. x = <<>>
      BY <1>2, <2>1 DEF Accesses, Places
    <3> HIDE DEF x, S
    <3>2. x \in Seq(S)
      BY <3>1
    <3> QED
      BY <3>2 DEF S
  <2>2. CASE op.kind = "VqSetup"
    <3>1. \/ x = <<>>
          \/ op.i \in Queues /\ x = <<Reg(R_QUEUE_SEL, op.i), AskNumMax(op.i, op.size)>>
      BY <2>2 DEF Accesses
    <3>2. op.i \in Queues => Reg(R_QUEUE_SEL, op.i) \in S /\ AskNumMax(op.i, op.size) \in S
      <4>1. op.size \in Nat /\ op.i \in Nat /\ R_QUEUE_SEL \in Nat
        BY <1>1, <2>2 DEF WellFormed, R_QUEUE_SEL
      <4>2. op.i \in Queues => /\ Reg(R_QUEUE_SEL, op.i) \in Accs
                               /\ AskNumMax(op.i, op.size) \in Accs
        BY <4>1, RegAcc, NumMaxAcc
      <4> QED
        BY <4>2 DEF NoStores, Reg, AskNumMax
    <3> HIDE DEF x, S
    <3>3. x \in Seq(S)
      <4>1. CASE x = <<>>
        BY <4>1
      <4>2. CASE op.i \in Queues /\ x = <<Reg(R_QUEUE_SEL, op.i),
                                         AskNumMax(op.i, op.size)>>
        BY <3>2, <4>2, SeqOf
      <4> QED
        BY <3>1, <4>1, <4>2
    <3> QED
      BY <3>3 DEF S
  <2>3. CASE op.kind \notin {"VqAddDesc", "VqSetup"}
    <3>1. \A k \in 1 .. Len(x) : Plain(x[k], op)
      BY <2>3, PlainAccesses
    <3> HIDE DEF x
    <3>2. \A k \in 1 .. Len(x) : x[k] \in S
      <4> SUFFICES ASSUME NEW k \in 1 .. Len(x) PROVE x[k] \in S
        OBVIOUS
      <4>1. x[k] \in Accs /\ Plain(x[k], op)
        BY <1>4, <3>1
      <4> QED
        BY <2>3, <4>1 DEF NoStores, Plain
    <3> HIDE DEF S
    <3>3. x \in Seq(S)
      BY <1>4, <3>2
    <3> QED
      BY <3>3 DEF S
  <2> QED
    BY <2>1, <2>2, <2>3
<1> QED
  BY <1>1, <1>3, <1>5

LEMMA BeginCounters ==
  ASSUME LapPrograms, LapInv, BeginOp(A), NEW i \in Queues,
         g'[A].vqs[i] = g[A].vqs[i]
  PROVE  Counters(i)'
<1>1. at[A] \in Nat /\ at'[A] = at[A] + 1 /\ prog' = prog
  BY LapOperation
<1>2. /\ Cardinality(Adds(prog[A], i, at[A])) \in Nat
      /\ Cardinality(Adds(prog[A], i, at[A] + 1)) \in Nat
      /\ Cardinality(Adds(prog[A], i, at[A]))
           <= Cardinality(Adds(prog[A], i, at[A] + 1))
  BY <1>1, AddsCount, AddsBound
<1>3. g[A].vqs[i] \in VqStates /\ Counters(i)
  BY ThreadsApart DEF LapInv, PInv, DataOK, States
<1> QED
  BY <1>1, <1>2, <1>3 DEF Counters, VqStates

\* Within its lap, a queue's counters are its slots.
LEMMA FirstLap ==
  ASSUME NEW q \in VqStates, q.size # 0, q.next_avail_idx <= q.next_desc_idx,
         q.next_desc_idx < q.size
  PROVE  /\ Slot(q) = q.next_desc_idx /\ RingSlot(q) = q.next_avail_idx
         /\ PublishedHead(q) = q.next_desc_idx
         /\ PublishedIdx(q) = q.next_avail_idx + 1
<1>1. /\ q.next_desc_idx \in Nat /\ q.next_avail_idx \in Nat /\ q.size \in Nat
      /\ q.size <= QueueNumMax /\ QueueNumMax \in Nat /\ IdxSpace \in Nat
      /\ QueueNumMax < IdxSpace
  BY SizeAssumption, IndexAssumption, DeviceAssumption DEF VqStates
<1>2. /\ q.next_avail_idx < q.size /\ q.next_desc_idx < IdxSpace
      /\ q.next_avail_idx + 1 \in Nat /\ q.next_avail_idx + 1 < IdxSpace
  BY <1>1
<1>3. /\ q.next_desc_idx % q.size = q.next_desc_idx
      /\ q.next_avail_idx % q.size = q.next_avail_idx
  BY <1>1, <1>2, SmallMod
<1>4. /\ q.next_desc_idx % IdxSpace = q.next_desc_idx
      /\ (q.next_avail_idx + 1) % IdxSpace = q.next_avail_idx + 1
  BY <1>1, <1>2, SmallMod
<1> QED
  BY <1>3, <1>4 DEF Slot, RingSlot, PublishedHead, PublishedIdx


\* What an operation that adds a descriptor does to the queue.
LEMMA AddedCounters ==
  ASSUME NEW s \in States, NEW op, WellFormed(op), Places(s, op)
  PROVE  /\ op.i \in Queues /\ op.kind = "VqAddDesc"
         /\ s.vqs[op.i] \in VqStates /\ s.vqs[op.i].size # 0
         /\ After(s, op).vqs[op.i].size = s.vqs[op.i].size
         /\ After(s, op).vqs[op.i].next_desc_idx = s.vqs[op.i].next_desc_idx + 1
         /\ op.more => After(s, op).vqs[op.i].next_avail_idx
                         = s.vqs[op.i].next_avail_idx
         /\ ~op.more => After(s, op).vqs[op.i].next_avail_idx
                          = s.vqs[op.i].next_avail_idx + 1
         /\ \A k \in Queues \ {op.i} : After(s, op).vqs[k] = s.vqs[k]
<1>1. op.kind = "VqAddDesc" /\ CanAddDesc(s, op.i, op.id, op.region)
  BY DEF Places
<1>2. /\ op.i \in Nat /\ op.id \in Nat /\ op.len \in Nat /\ op.region \in Nat
      /\ op.writable \in BOOLEAN /\ op.more \in BOOLEAN
      /\ op.region = 0 => op.id \in BufIds
  BY <1>1 DEF WellFormed
<1>3. s.vqs[op.i].size # 0
  BY <1>1 DEF CanAddDesc
<1>4. PICK i \in Nat : i = op.i
  BY <1>2
<1>5. PICK more \in BOOLEAN : more = op.more
  BY <1>2
<1>6. i \in Queues /\ s.vqs[i] \in VqStates /\ AfterAddDesc(s, i, more) \in States
  BY <1>1, <1>2, <1>4, AddDescParts
<1>7. After(s, op) = AfterAddDesc(s, i, more)
  BY <1>1, <1>4, <1>5 DEF After
<1> DEFINE v == AfterAddDesc(s, i, more)
<1>8. /\ v.vqs[i].size = s.vqs[i].size
      /\ v.vqs[i].next_desc_idx = s.vqs[i].next_desc_idx + 1
      /\ v.vqs[i].next_avail_idx = IF more THEN s.vqs[i].next_avail_idx
                                   ELSE s.vqs[i].next_avail_idx + 1
      /\ \A k \in Queues \ {i} : v.vqs[k] = s.vqs[k]
  BY <1>6, AddedQueue
<1> HIDE DEF v
<1>9. After(s, op) = v
  BY <1>7 DEF v
<1>10. /\ ~op.more => more = FALSE
       /\ op.more => more = TRUE
  BY <1>5
<1>11. /\ op.more => After(s, op).vqs[i].next_avail_idx = s.vqs[i].next_avail_idx
       /\ ~op.more => After(s, op).vqs[i].next_avail_idx
                        = s.vqs[i].next_avail_idx + 1
  BY <1>8, <1>9, <1>10
<1> QED
  BY <1>1, <1>3, <1>4, <1>6, <1>8, <1>9, <1>11

\* What it writes, in the first lap: n and e are the counters of the queue.
LEMMA AddedTodo ==
  ASSUME NEW s \in States, NEW op, WellFormed(op), Places(s, op),
         NEW i \in Queues, i = op.i, NEW n \in Nat, NEW e \in Nat,
         n = s.vqs[i].next_desc_idx, e = s.vqs[i].next_avail_idx,
         e <= n, n < s.vqs[i].size,
         s.vqs[i].desc_gpa = DescGpa(i), s.vqs[i].avail_gpa = AvailGpa(i)
  PROVE  \E d \in Descriptors :
           /\ op.more => Accesses(s, op) = <<DescAt(i, n, d)>>
           /\ ~op.more => Accesses(s, op) = <<DescAt(i, n, d), RingAt(i, e, n),
                                              IdxAt(i, e + 1)>>
<1> DEFINE q == s.vqs[i]
           t == Target(s, op.id, op.len, op.region)
           d == Descriptor(q, t, op.writable, op.more)
<1>1. op.kind = "VqAddDesc" /\ CanAddDesc(s, i, op.id, op.region)
  BY DEF Places
<1>2. /\ i \in Nat /\ op.id \in Nat /\ op.len \in Nat /\ op.region \in Nat
      /\ op.writable \in BOOLEAN /\ op.more \in BOOLEAN
      /\ op.region = 0 => op.id \in BufIds
  BY <1>1 DEF WellFormed
<1>3. q \in VqStates /\ q.size # 0 /\ d \in Descriptors
  <2>1. q.size # 0
    BY <1>1 DEF CanAddDesc
  <2> QED
    BY <1>1, <1>2, <2>1, AddDescParts
<1>4. Accesses(s, op) = <<WriteDesc(q, d)>> \o
                        (IF op.more THEN <<>> ELSE Publication(q))
  BY <1>1 DEF Accesses
<1> HIDE DEF q, t, d
<1>5. /\ WriteDesc(q, d) = DescAt(i, n, d) /\ WriteRing(q) = RingAt(i, e, n)
      /\ WriteIdx(q) = IdxAt(i, e + 1)
  <2>1. /\ q.next_desc_idx = n /\ q.next_avail_idx = e
        /\ q.desc_gpa = DescGpa(i) /\ q.avail_gpa = AvailGpa(i)
        /\ q.next_avail_idx <= q.next_desc_idx /\ q.next_desc_idx < q.size
    BY DEF q
  <2>2. /\ Slot(q) = n /\ RingSlot(q) = e /\ PublishedHead(q) = n
        /\ PublishedIdx(q) = e + 1
    BY <1>3, <2>1, FirstLap
  <2> QED
    BY <2>1, <2>2 DEF WriteDesc, WriteRing, WriteIdx, DescAt, RingAt, IdxAt
<1>6. Publication(q) = <<WriteRing(q), WriteIdx(q)>>
  BY DEF Publication
<1> DEFINE x == WriteDesc(q, d)
           y == WriteRing(q)
           z == WriteIdx(q)
<1> HIDE DEF x, y, z
<1>7. <<x>> \o <<>> = <<x>> /\ <<x>> \o <<y, z>> = <<x, y, z>>
  <2> DEFINE S == {x, y, z}
  <2>1. /\ <<x>> \in Seq(S) /\ <<y, z>> \in Seq(S) /\ <<x, y, z>> \in Seq(S)
    BY SeqOf
  <2> HIDE DEF S
  <2>2. <<x>> \o <<>> = <<x>>
    BY <2>1, ConcatEmptySeq
  <2> DEFINE c == <<x>> \o <<y, z>>
  <2>3. /\ c \in Seq(S) /\ Len(c) = 3
        /\ \A k \in 1 .. 3 : c[k] = IF k <= 1 THEN <<x>>[k] ELSE <<y, z>>[k - 1]
    BY <2>1, ConcatProperties
  <2> HIDE DEF c
  <2>4. c = <<x, y, z>>
    BY <2>1, <2>3
  <2> QED
    BY <2>2, <2>4 DEF c
<1>8. /\ op.more => Accesses(s, op) = <<x>>
      /\ ~op.more => Accesses(s, op) = <<x, y, z>>
  <2>1. Accesses(s, op) = <<x>> \o (IF op.more THEN <<>> ELSE <<y, z>>)
    BY <1>4, <1>6 DEF x, y, z
  <2> QED
    BY <1>7, <2>1
<1>9. x = DescAt(i, n, d) /\ y = RingAt(i, e, n) /\ z = IdxAt(i, e + 1)
  BY <1>5 DEF x, y, z
<1> QED
  BY <1>3, <1>8, <1>9

\* Thread A adds descriptor n to queue i, of z entries, of which e are published.
LEMMA AddingOperation ==
  ASSUME LapPrograms, LapInv, BeginOp(A), Places(g[A], prog[A][at[A] + 1])
  PROVE  \E i \in Queues : \E n, e, z, m, c \in Nat : \E d \in Descriptors :
           /\ m = at[A] /\ at'[A] = m + 1
           /\ z # 0 /\ g[A].vqs[i].size = z /\ g'[A].vqs[i].size = z
           /\ n = g[A].vqs[i].next_desc_idx /\ g'[A].vqs[i].next_desc_idx = n + 1
           /\ e = g[A].vqs[i].next_avail_idx
           /\ \A k \in Queues \ {i} : g'[A].vqs[k] = g[A].vqs[k]
           /\ e <= n /\ n <= c /\ Cardinality(Adds(prog[A], i, m + 1)) = c + 1
           /\ c + 1 <= z /\ Programmed(prog[A], i, z)
           /\ \/ /\ g'[A].vqs[i].next_avail_idx = e
                 /\ todo'[A] = <<DescAt(i, n, d)>>
              \/ /\ g'[A].vqs[i].next_avail_idx = e + 1
                 /\ todo'[A] = <<DescAt(i, n, d), RingAt(i, e, n), IdxAt(i, e + 1)>>
<1> DEFINE op0 == prog[A][at[A] + 1]
<1>1. PICK op : op = op0
  OBVIOUS
<1>2. PICK p : p = prog[A]
  OBVIOUS
<1>3. PICK s \in States : s = g[A]
  BY LapOperation
<1>4. PICK m \in Nat : m = at[A]
  BY LapOperation
<1>5. /\ WellFormed(op) /\ Places(s, op) /\ OneLap(p) /\ op = p[m + 1]
      /\ m + 1 \in 1 .. Len(p) /\ Len(p) \in Nat
      /\ g'[A] = After(s, op) /\ todo'[A] = Accesses(s, op) /\ at'[A] = m + 1
  BY <1>1, <1>2, <1>3, <1>4, LapOperation
<1>6. PICK i \in Queues : i = op.i
  BY <1>3, <1>5, AddedCounters
<1>7. PICK n \in Nat, e \in Nat, z \in Nat :
        /\ n = s.vqs[i].next_desc_idx /\ e = s.vqs[i].next_avail_idx
        /\ z = s.vqs[i].size
  BY <1>3, <1>6 DEF States, VqStates
<1> HIDE DEF op0
<1>8. /\ z # 0 /\ op.kind = "VqAddDesc" /\ g'[A].vqs[i].size = z
      /\ g'[A].vqs[i].next_desc_idx = n + 1
      /\ op.more => g'[A].vqs[i].next_avail_idx = e
      /\ ~op.more => g'[A].vqs[i].next_avail_idx = e + 1
      /\ \A k \in Queues \ {i} : g'[A].vqs[k] = s.vqs[k]
  <2> DEFINE v == After(s, op)
  <2>1. /\ op.kind = "VqAddDesc" /\ s.vqs[i].size # 0
        /\ v.vqs[i].size = s.vqs[i].size
        /\ v.vqs[i].next_desc_idx = s.vqs[i].next_desc_idx + 1
        /\ op.more => v.vqs[i].next_avail_idx = s.vqs[i].next_avail_idx
        /\ ~op.more => v.vqs[i].next_avail_idx = s.vqs[i].next_avail_idx + 1
        /\ \A k \in Queues \ {i} : v.vqs[k] = s.vqs[k]
    <3>1. WellFormed(op) /\ Places(s, op)
      BY <1>5
    <3> QED
      BY <1>6, <3>1, AddedCounters
  <2>2. g'[A] = v
    BY <1>5
  <2> HIDE DEF v
  <2> QED
    BY <1>7, <2>1, <2>2
<1>9. PICK c \in Nat : c = Cardinality(Adds(p, i, m))
  BY <1>4, AddsCount
<1>10. e <= n /\ n <= c /\ Programmed(p, i, z)
  <2>1. Counters(i)
    BY <1>6 DEF LapInv
  <2> QED
    BY <1>2, <1>3, <1>4, <1>7, <1>8, <1>9, <2>1 DEF Counters
<1>11. Cardinality(Adds(p, i, m + 1)) = c + 1
  <2>1. p[m + 1].kind = "VqAddDesc" /\ p[m + 1].i = i
    BY <1>5, <1>6, <1>8
  <2> QED
    BY <1>4, <1>9, <2>1, AddsCount
<1>12. c + 1 <= z
  <2>1. m + 1 \in Nat /\ m + 1 <= Len(p)
    BY <1>4, <1>5
  <2>2. Cardinality(Adds(p, i, m + 1)) <= z
    BY <1>5, <1>6, <1>7, <1>10, <2>1, RoomForAll
  <2> QED
    BY <1>11, <2>2
<1>13. n < z
  BY <1>7, <1>9, <1>10, <1>12
<1>14. s.vqs[i].desc_gpa = DescGpa(i) /\ s.vqs[i].avail_gpa = AvailGpa(i)
  BY <1>3, <1>6, <1>7, <1>8 DEF LapInv, WInv, OwnTables
<1>15. PICK d \in Descriptors :
         /\ op.more => todo'[A] = <<DescAt(i, n, d)>>
         /\ ~op.more => todo'[A] = <<DescAt(i, n, d), RingAt(i, e, n),
                                     IdxAt(i, e + 1)>>
  <2>1. WellFormed(op) /\ Places(s, op) /\ e <= n /\ n < s.vqs[i].size
    BY <1>5, <1>7, <1>10, <1>13
  <2>2. PICK d \in Descriptors :
          /\ op.more => Accesses(s, op) = <<DescAt(i, n, d)>>
          /\ ~op.more => Accesses(s, op) = <<DescAt(i, n, d), RingAt(i, e, n),
                                             IdxAt(i, e + 1)>>
    BY <1>6, <1>7, <1>14, <2>1, AddedTodo
  <2>3. todo'[A] = Accesses(s, op)
    BY <1>5
  <2> QED
    BY <2>2, <2>3
<1>16. \/ /\ g'[A].vqs[i].next_avail_idx = e
          /\ todo'[A] = <<DescAt(i, n, d)>>
       \/ /\ g'[A].vqs[i].next_avail_idx = e + 1
          /\ todo'[A] = <<DescAt(i, n, d), RingAt(i, e, n), IdxAt(i, e + 1)>>
  BY <1>8, <1>15
<1> DEFINE Goal(j, x, y, w, k, b, f) ==
           /\ k = at[A] /\ at'[A] = k + 1
           /\ w # 0 /\ g[A].vqs[j].size = w /\ g'[A].vqs[j].size = w
           /\ x = g[A].vqs[j].next_desc_idx /\ g'[A].vqs[j].next_desc_idx = x + 1
           /\ y = g[A].vqs[j].next_avail_idx
           /\ \A l \in Queues \ {j} : g'[A].vqs[l] = g[A].vqs[l]
           /\ y <= x /\ x <= b /\ Cardinality(Adds(prog[A], j, k + 1)) = b + 1
           /\ b + 1 <= w /\ Programmed(prog[A], j, w)
           /\ \/ /\ g'[A].vqs[j].next_avail_idx = y
                 /\ todo'[A] = <<DescAt(j, x, f)>>
              \/ /\ g'[A].vqs[j].next_avail_idx = y + 1
                 /\ todo'[A] = <<DescAt(j, x, f), RingAt(j, y, x), IdxAt(j, y + 1)>>
<1>17. Goal(i, n, e, z, m, c, d)
  BY <1>2, <1>3, <1>4, <1>5, <1>7, <1>8, <1>10, <1>11, <1>12, <1>16
<1> HIDE DEF Goal
<1>18. \E j \in Queues : \E x, y, w, k, b \in Nat : \E f \in Descriptors :
         Goal(j, x, y, w, k, b, f)
  BY <1>17
<1> QED
  BY <1>18 DEF Goal

LEMMA BeginAdd ==
  ASSUME LapPrograms, LapInv, BeginOp(A), Places(g[A], prog[A][at[A] + 1])
  PROVE  /\ Adding' /\ \A i \in Queues : Counters(i)'
         /\ \A i \in Queues : g'[A].vqs[i].size = g[A].vqs[i].size
<1>1. PICK i \in Queues, n \in Nat, e \in Nat, z \in Nat, m \in Nat, c \in Nat,
           d \in Descriptors :
           /\ m = at[A] /\ at'[A] = m + 1
           /\ z # 0 /\ g[A].vqs[i].size = z /\ g'[A].vqs[i].size = z
           /\ n = g[A].vqs[i].next_desc_idx /\ g'[A].vqs[i].next_desc_idx = n + 1
           /\ e = g[A].vqs[i].next_avail_idx
           /\ \A k \in Queues \ {i} : g'[A].vqs[k] = g[A].vqs[k]
           /\ e <= n /\ n <= c /\ Cardinality(Adds(prog[A], i, m + 1)) = c + 1
           /\ c + 1 <= z /\ Programmed(prog[A], i, z)
           /\ \/ /\ g'[A].vqs[i].next_avail_idx = e
                 /\ todo'[A] = <<DescAt(i, n, d)>>
              \/ /\ g'[A].vqs[i].next_avail_idx = e + 1
                 /\ todo'[A] = <<DescAt(i, n, d), RingAt(i, e, n), IdxAt(i, e + 1)>>
  BY AddingOperation
<1>2. /\ Settled /\ UNCHANGED <<prog, ram, dev>>
  BY LapOperation
<1>3. /\ e <= n + 1 /\ e + 1 <= n + 1 /\ n + 1 <= c + 1
      /\ n + 1 > 0 /\ (n + 1) - 1 = n /\ e + 1 > 0 /\ (e + 1) - 1 = e
  BY <1>1
<1>4. \A k \in Queues \ {i} : Counters(k)'
  BY <1>1, BeginCounters
<1>5. Counters(i)'
  BY <1>1, <1>2, <1>3 DEF Counters
<1>6. \A k \in Queues \ {i} : Level(k)'
  BY <1>1, <1>2 DEF Settled, Level, Visible
<1>7. Visible(i, e, n) /\ Visible(i, e, n)'
  BY <1>1, <1>2 DEF Settled, Level, Visible
<1>8. \/ /\ g'[A].vqs[i].next_avail_idx = e /\ Storing(i, n, e)'
      \/ /\ g'[A].vqs[i].next_avail_idx = e + 1 /\ Storing(i, n, e + 1)'
  <2>1. CASE /\ g'[A].vqs[i].next_avail_idx = e
             /\ todo'[A] = <<DescAt(i, n, d)>>
    <3>1. \E f \in Descriptors :
            todo'[A] = <<DescAt(i, n, f)>> /\ Visible(i, e, n)'
      BY <1>1, <1>7, <2>1
    <3>2. Storing(i, n, e)'
      BY <3>1 DEF Storing, DescAt
    <3> QED
      BY <2>1, <3>2
  <2>2. CASE /\ g'[A].vqs[i].next_avail_idx = e + 1
             /\ todo'[A] = <<DescAt(i, n, d), RingAt(i, e, n), IdxAt(i, e + 1)>>
    <3> DEFINE h == e + 1
    <3>1. h - 1 = e /\ h > 0
      BY <1>3
    <3>2. todo'[A] = <<DescAt(i, n, d), RingAt(i, e, n), IdxAt(i, h)>>
      BY <2>2
    <3> HIDE DEF h
    <3>3. \E f \in Descriptors :
            /\ h > 0 /\ Visible(i, h - 1, n)'
            /\ todo'[A] = <<DescAt(i, n, f), RingAt(i, h - 1, n), IdxAt(i, h)>>
      BY <1>1, <1>7, <3>1, <3>2
    <3>4. Storing(i, n, h)'
      BY <3>3 DEF Storing, DescAt, RingAt, IdxAt
    <3> QED
      BY <2>2, <3>4 DEF h
  <2> QED
    BY <1>1, <2>1, <2>2
<1>9. Storing(i, g[A].vqs[i].next_desc_idx - 1, g[A].vqs[i].next_avail_idx)'
  <2>1. g'[A].vqs[i].next_desc_idx - 1 = n
    BY <1>1, <1>3
  <2> QED
    BY <1>8, <2>1
<1>10. Adding'
  BY <1>1, <1>3, <1>6, <1>9 DEF Adding
<1> QED
  BY <1>1, <1>4, <1>5, <1>10

----------------------------------------------------------------------------
(* The other steps *)

\* A step that moves neither thread A nor what the threads share.
LEMMA LapStill ==
  ASSUME LapInv, PInv', WInv', UNCHANGED <<prog, ram, dev>>, at'[A] = at[A],
         g'[A] = g[A], todo'[A] = todo[A], todo'[B] \in Seq(NoStores)
  PROVE  LapInv' /\ \A i \in DevQueues : Quietly(i)
<1>1. LapTodo'
  BY DEF LapInv, LapTodo, LapAccs, Programmed, ReadyLast
<1>2. \A j \in DevQueues : RightRing(j)'
  BY DEF LapInv, RightRing
<1>3. \A i \in Queues : Counters(i)'
  BY DEF LapInv, Counters, Programmed
<1>4. \A i \in Queues : \A e, n : Visible(i, e, n)' <=> Visible(i, e, n)
  BY DEF Visible
<1>5. \A i \in Queues : Level(i)' <=> Level(i)
  BY DEF Level, Visible
<1>6. CASE Settled
  <2>1. Settled'
    BY <1>5, <1>6 DEF Settled
  <2> QED
    BY <1>1, <1>2, <1>3, <2>1 DEF LapInv, Quietly, Pending
<1>7. CASE Adding
  <2>1. PICK j \in Queues :
          LET q == g[A].vqs[j]
          IN  /\ q.size # 0 /\ q.next_desc_idx > 0
              /\ Storing(j, q.next_desc_idx - 1, q.next_avail_idx)
              /\ \A i \in Queues \ {j} : Level(i)
    BY <1>7 DEF Adding
  <2>2. PICK n, e : /\ n = g[A].vqs[j].next_desc_idx - 1
                    /\ e = g[A].vqs[j].next_avail_idx
    OBVIOUS
  <2>3. Storing(j, n, e)
    BY <2>1, <2>2
  <2>4. Storing(j, n, e)'
    BY <2>3, <1>4 DEF Storing
  <2>5. Adding'
    BY <1>5, <2>1, <2>2, <2>4 DEF Adding
  <2> QED
    BY <1>1, <1>2, <1>3, <2>5 DEF LapInv, Quietly, Pending
<1> QED
  BY <1>6, <1>7 DEF LapInv

LEMMA BeginLapA ==
  ASSUME LapPrograms, LapInv, BeginOp(A), PInv', WInv'
  PROVE  LapInv' /\ \A i \in DevQueues : Quietly(i)
<1> DEFINE Adds0 == Places(g[A], prog[A][at[A] + 1])
<1>1. UNCHANGED <<prog, ram, dev>> /\ Settled
  BY LapOperation
<1>2. \A j \in DevQueues : RightRing(j)'
  BY <1>1 DEF LapInv, RightRing
<1>3. /\ \A i \in Queues : Counters(i)'
      /\ (Settled \/ Adding)'
      /\ \A i \in Queues : g'[A].vqs[i].size = g[A].vqs[i].size
  <2>1. CASE Adds0
    BY <2>1, BeginAdd
  <2>2. CASE ~Adds0
    <3>1. /\ \A i \in Queues : g'[A].vqs[i] = g[A].vqs[i]
          /\ todo'[A] \in Seq(NoStores)
      BY <2>2, BeginPlain
    <3>2. \A i \in Queues : Counters(i)'
      BY <3>1, BeginCounters
    <3>3. \A i \in Queues : Level(i)'
      BY <1>1, <3>1 DEF Settled, Level, Visible
    <3>4. Settled'
      BY <3>1, <3>3 DEF Settled
    <3> QED
      BY <3>1, <3>2, <3>4
  <2> QED
    BY <2>1, <2>2
<1>4. \A i \in DevQueues : Quietly(i)
  BY <1>1, <1>3, DeviceAssumption DEF Quietly, Pending
<1>5. LapTodo'
  BY BeginTodo
<1> QED
  BY <1>2, <1>3, <1>4, <1>5 DEF LapInv

\* Thread B has no queue to add to.
LEMMA BeginLapB ==
  ASSUME LapPrograms, LapInv, BeginOp(B), PInv', WInv'
  PROVE  LapInv' /\ \A i \in DevQueues : Quietly(i)
<1> DEFINE op == prog[B][at[B] + 1]
           x  == Accesses(g[B], op)
<1>1. /\ todo' = [todo EXCEPT ![B] = x]
      /\ g' = [g EXCEPT ![B] = After(g[B], op)]
      /\ at' = [at EXCEPT ![B] = at[B] + 1]
      /\ UNCHANGED <<prog, ram, dev>>
  BY DEF BeginOp
<1>2. ControlOK /\ DataOK /\ WellFormed(op) /\ op \in {op}
  BY NextOperation, ThreadsApart DEF LapInv, WInv
<1>3. /\ prog[B] \in ProgramsB /\ g \in [Threads -> States]
      /\ todo \in [Threads -> Seq(Accs)] /\ at \in [Threads -> Nat]
  BY <1>2 DEF ControlOK, DataOK
<1>4. at[B] + 1 \in 1 .. Len(prog[B])
  BY <1>3, ThreadsApart DEF BeginOp, OpsOf
<1>5. NoSetup(prog[B]) /\ op.kind # "VqSetup"
  BY <1>3, <1>4 DEF LapPrograms, CalmPrograms, Calm, NoSetup
<1>6. \A i \in Queues : g[B].vqs[i].size = 0
  BY <1>5 DEF LapInv, WInv, NoQueues
<1>7. ~Places(g[B], op)
  BY <1>6 DEF Places, CanAddDesc
<1>8. g[B] \in States
  BY <1>3, ThreadsApart
<1>9. x \in Seq(NoStores)
  <2>1. CASE op.kind = "VqAddDesc"
    <3>1. x = <<>>
      BY <1>7, <2>1 DEF Accesses, Places
    <3> HIDE DEF x
    <3>2. x \in Seq(NoStores)
      BY <3>1
    <3> QED
      BY <3>2
  <2>2. CASE op.kind # "VqAddDesc"
    <3>1. x \in Seq(Accs)
      BY <1>2, <1>8, AccessesType
    <3>2. \A k \in 1 .. Len(x) : Plain(x[k], op)
      BY <1>5, PlainAccesses
    <3> HIDE DEF x
    <3>3. \A k \in 1 .. Len(x) : x[k] \in NoStores
      BY <2>2, <3>1, <3>2 DEF Plain, NoStores
    <3> DEFINE S == NoStores
    <3>4. \A k \in 1 .. Len(x) : x[k] \in S
      BY <3>3
    <3> HIDE DEF S
    <3>5. x \in Seq(S)
      BY <3>1, <3>4
    <3> QED
      BY <3>5 DEF S
  <2> QED
    BY <2>1, <2>2
<1> HIDE DEF op, x
<1>10. /\ todo'[A] = todo[A] /\ g'[A] = g[A] /\ at'[A] = at[A]
       /\ todo'[B] \in Seq(NoStores)
  BY <1>1, <1>3, <1>9, ThreadsApart
<1> QED
  BY <1>1, <1>10, LapStill

LEMMA InitLapInv == Init => LapInv
<1> SUFFICES ASSUME Init PROVE LapInv
  OBVIOUS
<1>1. PInv /\ WInv
  BY InitPInv, InitWInv
<1>2. g[A] = ResetState /\ at[A] = 0 /\ ram = RamInit
  BY ThreadsApart DEF Init, Each
<1>3. todo = [t \in Threads |-> <<>>]
  BY DEF Init
<1>4. todo[A] = <<>> /\ todo[B] = <<>>
  BY <1>3, ThreadsApart
<1>5. LapTodo /\ todo[A] \in Seq(NoStores)
  <2>1. ReadyLast(todo[A])
    BY <1>4 DEF ReadyLast
  <2> QED
    BY <1>4, <2>1 DEF LapTodo
<1>6. \A j \in DevQueues : RightRing(j)
  BY DevInitType DEF Init, RightRing, Devices
<1>7. \A i \in Queues : /\ g[A].vqs[i].size = 0 /\ g[A].vqs[i].next_desc_idx = 0
                        /\ g[A].vqs[i].next_avail_idx = 0
  BY <1>2 DEF ResetState, FreshVq
<1>8. \A i \in Queues : Counters(i)
  BY <1>2, <1>7, AddsNone DEF Counters
<1>9. \A i \in Queues : Level(i)
  <2> SUFFICES ASSUME NEW i \in Queues PROVE Level(i)
    OBVIOUS
  <2>1. ram.idx[AvailGpa(i)] = 0
    BY <1>2 DEF RamInit, AvailAreas
  <2>2. i \in DevQueues => dev.q[i].last = 0
    BY DevInitType DEF Init, DevInit, DevQueueInit
  <2>3. Visible(i, 0, 0)
    BY <2>1, <2>2 DEF Visible
  <2> QED
    BY <1>7, <2>3 DEF Level
<1> QED
  BY <1>1, <1>5, <1>6, <1>8, <1>9 DEF LapInv, Settled

\* In the first state nothing waits.
LEMMA InitPending == Init => \A i \in DevQueues : Pending(i) = <<>>
<1> SUFFICES ASSUME Init, NEW i \in DevQueues PROVE Pending(i) = <<>>
  OBVIOUS
<1>1. /\ i \in Queues /\ ram = RamInit
      /\ dev = [DevInit EXCEPT !.status = {kStatusAck, kStatusDriver}]
  BY DeviceAssumption DEF Init
<1>2. ram.idx[AvailGpa(i)] = 0
  BY <1>1 DEF RamInit, AvailAreas
<1>3. dev.q[i].last = 0
  BY <1>1, DevInitType DEF DevInit, DevQueueInit
<1> DEFINE e == ram.idx[AvailGpa(i)]
           l == dev.q[i].last
<1>4. 1 .. e - l = {}
  <2>1. e = 0 /\ l = 0
    BY <1>2, <1>3
  <2> HIDE DEF e, l
  <2> QED
    BY <2>1
<1>5. 1 .. ram.idx[AvailGpa(i)] - dev.q[i].last = {}
  BY <1>4
<1> DEFINE f(k) == ram.desc[DescGpa(i)][ram.ring[AvailGpa(i)]
                     [(dev.q[i].last + k - 1) % g[A].vqs[i].size]]
<1>6. Pending(i) = [k \in 1 .. ram.idx[AvailGpa(i)] - dev.q[i].last |-> f(k)]
  BY DEF Pending
<1> HIDE DEF f
<1>7. Pending(i) = [k \in {} |-> f(k)]
  BY <1>5, <1>6
<1> QED
  BY <1>7

LEMMA LapNext ==
  ASSUME LapPrograms, LapInv, [Next]_vars
  PROVE  LapInv' /\ \A i \in DevQueues : Quietly(i) \/ Grows(i)
<1>1. PInv' /\ WInv'
  <2>1. NoRingsInB
    BY DEF LapPrograms, CalmPrograms, Calm, NoRingsInB
  <2> QED
    BY <2>1, NextPInv, NextWInv DEF LapPrograms, LapInv
<1>2. ASSUME UNCHANGED <<prog, ram, dev, g, todo>>, at'[A] = at[A]
      PROVE  LapInv' /\ \A i \in DevQueues : Quietly(i)
  <2>1. todo'[B] \in Seq(NoStores)
    BY <1>2 DEF LapInv, LapTodo
  <2> QED
    BY <1>1, <1>2, <2>1, LapStill
<1>3. CASE UNCHANGED vars
  BY <1>2, <1>3 DEF vars
<1>4. CASE StopB \/ Join \/ EndRound \/ EndB
  BY <1>2, <1>4 DEF StopB, Join, EndRound, EndB
<1>5. CASE BeginRound
  <2>1. UNCHANGED <<prog, ram, dev, g, todo>> /\ at' = [at EXCEPT ![B] = 0]
    BY <1>5 DEF BeginRound
  <2>2. at'[A] = at[A]
    <3>1. at \in [Threads -> Nat]
      BY DEF LapInv, PInv, ControlOK
    <3> QED
      BY <2>1, <3>1, ThreadsApart
  <2> QED
    BY <1>2, <2>1, <2>2
<1>6. CASE BeginOp(A)
  BY <1>1, <1>6, BeginLapA
<1>7. CASE BeginOp(B)
  BY <1>1, <1>7, BeginLapB
<1>8. ASSUME NEW t \in Threads, Access(t)
      PROVE  LapInv' /\ \A i \in DevQueues : Quietly(i) \/ Grows(i)
  BY <1>1, <1>8, AccessLap
<1> QED
  BY <1>3, <1>4, <1>5, <1>6, <1>7, <1>8, ThreadsApart
     DEF Next, StepA, StepB, Returned

\* A queue a program of thread A uses for one lap implements AvailQueue.
LEMMA QueueStep ==
  ASSUME NEW i \in DevQueues, Quietly(i) \/ Grows(i)
  PROVE  \/ LET n == Len(Pending(i))
            IN  /\ n < QueueNumMax
                /\ Len(Pending(i)') = n + 1
                /\ SubSeq(Pending(i)', 1, n) = Pending(i)
                /\ Pending(i)'[n + 1] \in Descriptors
         \/ Pending(i) # <<>> /\ Pending(i)' = <<>>
         \/ Pending(i)' = Pending(i)
  BY DEF Quietly, Grows

\* The three writes of a publication, between any two of which thread B may run,
\* show the device of either queue one complete entry more, and it takes all
\* that wait, in order: for programs that go around no ring twice and reset
\* nothing (op_vq_add_desc, lines 326-338).
THEOREM RingsImplementQueues ==
  ASSUME LapPrograms, {0, 1} \subseteq DevQueues PROVE Spec => QueueSpec
<1>1. Init => FirstQueue!Init /\ SecondQueue!Init
  BY InitPending DEF FirstQueue!Init, SecondQueue!Init
<1>2. LapInv /\ [Next]_vars => LapInv'
  BY LapNext
<1>3. LapInv /\ [Next]_vars => [FirstQueue!Next]_(Pending(0))
  <2> SUFFICES ASSUME LapInv, [Next]_vars PROVE [FirstQueue!Next]_(Pending(0))
    OBVIOUS
  <2>1. Quietly(0) \/ Grows(0)
    BY LapNext
  <2> QED
    BY <2>1, QueueStep DEF FirstQueue!Next, FirstQueue!Publish, FirstQueue!Take
<1>4. LapInv /\ [Next]_vars => [SecondQueue!Next]_(Pending(1))
  <2> SUFFICES ASSUME LapInv, [Next]_vars PROVE [SecondQueue!Next]_(Pending(1))
    OBVIOUS
  <2>1. Quietly(1) \/ Grows(1)
    BY LapNext
  <2> QED
    BY <2>1, QueueStep DEF SecondQueue!Next, SecondQueue!Publish, SecondQueue!Take
<1> QED
  BY InitLapInv, <1>1, <1>2, <1>3, <1>4, PTL
  DEF Spec, QueueSpec, FirstQueue!Spec, SecondQueue!Spec

==============================================================================
