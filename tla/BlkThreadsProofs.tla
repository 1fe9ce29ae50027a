-------------------------- MODULE BlkThreadsProofs ---------------------------
(***************************************************************************)
(* The two threads of the virtio-blk harness, for every layout and all     *)
(* programs: types, buffers, where writes go, and what the device holds.   *)
(* What a theorem asks of the programs is a definition of ThreadPrograms,  *)
(* and TLC evaluates it for the programs of the runs.                      *)
(***************************************************************************)
EXTENDS ThreadPrograms, BlkStateProofs, SequenceTheorems

----------------------------------------------------------------------------
(* The part of a State that knows about buffers *)

Shaped(s) == s = [vqs |-> s.vqs, buf_alloc |-> s.buf_alloc, bufs |-> s.bufs]

HeapOK(s) == /\ Shaped(s)
             /\ s.buf_alloc \in Nat
             /\ s.bufs \in [BufIds -> Bufs \cup {NoBuf}]

\* How an operation may change it.
SameHeap(s, u) == Shaped(u) /\ u.buf_alloc = s.buf_alloc /\ u.bufs = s.bufs

GrownHeap(s, u) ==
  /\ Shaped(u)
  /\ \E id \in BufIds, len \in 0 .. MaxData :
       /\ u.buf_alloc = NextAlloc(s.buf_alloc, len)
       /\ u.bufs = [s.bufs EXCEPT ![id] = [gpa |-> s.buf_alloc, len |-> len]]

\* Every buffer lies at or above lo, and ends where the allocator is or before.
Between(s, lo) ==
  \A b \in BufIds : s.bufs[b] # NoBuf =>
    s.bufs[b].gpa >= lo /\ s.bufs[b].gpa + s.bufs[b].len <= s.buf_alloc

LEMMA ResetHeap ==
  /\ HeapOK(ResetState) /\ ResetState.buf_alloc = BufPoolBase
  /\ Between(ResetState, BufPoolBase)
  BY Layout DEF ResetState, HeapOK, Shaped, Between

LEMMA ThreadBHeap ==
  /\ HeapOK(ThreadBState) /\ ThreadBState.buf_alloc = BufPoolMid
  /\ Between(ThreadBState, BufPoolMid)
<1>1. BufPoolMid \in Nat
  BY Layout DEF BufPoolMid
<1> QED
  BY <1>1 DEF ThreadBState, HeapOK, Shaped, Between

LEMMA AfterHeap ==
  ASSUME NEW s, Shaped(s), NEW op,
         op.kind = "GuestMemWrite" => op.id \in BufIds /\ op.size \in Nat
  PROVE  \/ SameHeap(s, After(s, op))
         \/ GrownHeap(s, After(s, op))
         \/ op.kind = "Reset" /\ After(s, op) = ResetState
<1>1. CASE /\ op.kind = "GuestMemWrite"
           /\ AllocFits(s.buf_alloc, Lesser(op.size, MaxData))
  <2> DEFINE len == Lesser(op.size, MaxData)
             u == After(s, op)
  <2>1. len \in 0 .. MaxData
    BY <1>1, PoolAssumption DEF Lesser
  <2>2. u = WithBuffer(s, op.id, len)
    BY <1>1 DEF After
  <2> HIDE DEF len, u
  <2>3. /\ Shaped(u) /\ u.buf_alloc = NextAlloc(s.buf_alloc, len)
        /\ u.bufs = [s.bufs EXCEPT ![op.id] = [gpa |-> s.buf_alloc, len |-> len]]
    BY <2>2 DEF WithBuffer, Shaped
  <2> QED
    BY <1>1, <2>1, <2>3 DEF GrownHeap, u
<1>2. CASE op.kind = "VqAddDesc" /\ CanAddDesc(s, op.i, op.id, op.region)
  <2>1. After(s, op) = AfterAddDesc(s, op.i, op.more)
    BY <1>2 DEF After
  <2> QED
    BY <2>1 DEF AfterAddDesc, Shaped, SameHeap
<1>3. CASE op.kind = "Reset"
  BY <1>3 DEF After
<1>4. CASE /\ ~(/\ op.kind = "GuestMemWrite"
                /\ AllocFits(s.buf_alloc, Lesser(op.size, MaxData)))
           /\ ~(op.kind = "VqAddDesc" /\ CanAddDesc(s, op.i, op.id, op.region))
           /\ op.kind # "Reset"
  BY <1>4 DEF After, SameHeap
<1> QED
  BY <1>1, <1>2, <1>3, <1>4

\* A buffer more: the allocator moves by its length and 16 at most.
LEMMA GrownBetween ==
  ASSUME NEW s, NEW u, HeapOK(s), GrownHeap(s, u), NEW lo \in Nat,
         Between(s, lo), lo <= s.buf_alloc
  PROVE  /\ HeapOK(u) /\ Between(u, lo)
         /\ s.buf_alloc <= u.buf_alloc
         /\ u.buf_alloc <= s.buf_alloc + (MaxData + 16)
<1>1. PICK id \in BufIds, len \in 0 .. MaxData :
        /\ u.buf_alloc = NextAlloc(s.buf_alloc, len)
        /\ u.bufs = [s.bufs EXCEPT ![id] = [gpa |-> s.buf_alloc, len |-> len]]
  BY DEF GrownHeap
<1>2. s.buf_alloc \in Nat /\ MaxData \in Nat /\ len \in Nat /\ len <= MaxData
  BY PoolAssumption DEF HeapOK
<1>3. /\ u.buf_alloc \in Nat /\ s.buf_alloc + len <= u.buf_alloc
      /\ u.buf_alloc <= s.buf_alloc + len + 16
  <2> DEFINE x == s.buf_alloc + len + 16
  <2>1. x \in Nat
    BY <1>2
  <2>2. u.buf_alloc = AlignDown16(x)
    BY <1>1 DEF NextAlloc
  <2>3. u.buf_alloc \in Nat /\ u.buf_alloc <= x /\ x < u.buf_alloc + 16
    <3> HIDE DEF x
    <3> QED
      BY <2>1, <2>2, AlignDown
  <2> QED
    BY <1>2, <2>3
<1>4. HeapOK(u)
  BY <1>1, <1>2, <1>3 DEF HeapOK, GrownHeap, Bufs
<1>5. Between(u, lo)
  <2> SUFFICES ASSUME NEW b \in BufIds, u.bufs[b] # NoBuf
               PROVE  /\ u.bufs[b].gpa >= lo
                      /\ u.bufs[b].gpa + u.bufs[b].len <= u.buf_alloc
    BY DEF Between
  <2>1. CASE b = id
    BY <1>1, <1>2, <1>3, <2>1 DEF HeapOK
  <2>2. CASE b # id
    <3>1. u.bufs[b] = s.bufs[b] /\ s.bufs[b] \in Bufs
      BY <1>1, <2>2 DEF HeapOK
    <3> QED
      BY <1>2, <1>3, <3>1 DEF Between, Bufs
  <2> QED
    BY <2>1, <2>2
<1> QED
  BY <1>2, <1>3, <1>4, <1>5

LEMMA SameBetween ==
  ASSUME NEW s, NEW u, HeapOK(s), SameHeap(s, u), NEW lo, Between(s, lo)
  PROVE  HeapOK(u) /\ Between(u, lo) /\ u.buf_alloc = s.buf_alloc
  BY DEF SameHeap, HeapOK, Between


----------------------------------------------------------------------------
(* The inductive invariant *)

Step16 == MaxData + 16

\* Programs stay what they were; thread A begins no more than its cap.
Programs ==
  /\ prog[A] \in ProgramsA /\ prog[B] \in ProgramsB
  /\ at \in [Threads -> Nat] /\ at[A] <= MaxOps

Heaps == g = [t \in Threads |-> g[t]] /\ \A t \in Threads : HeapOK(g[t])

\* Thread A has moved its allocator once per operation at most.
LowerHalf ==
  /\ Between(g[A], BufPoolBase)
  /\ g[A].buf_alloc >= BufPoolBase
  /\ g[A].buf_alloc <= BufPoolBase + at[A] * Step16

UpperHalf == Between(g[B], BufPoolMid) /\ g[B].buf_alloc >= BufPoolMid

IInv == Programs /\ Heaps /\ LowerHalf /\ UpperHalf

LEMMA ThreadsApart == A # B /\ A \in Threads /\ B \in Threads /\ MaxOps \in Nat
  BY ThreadAssumption DEF Threads

LEMMA PoolPlaces == BufPoolBase \in Nat /\ BufPoolMid \in Nat /\ Step16 \in Nat
  BY Layout, PoolAssumption DEF BufPoolMid, Step16

LEMMA InitIInv == Init => IInv
<1> SUFFICES ASSUME Init PROVE IInv
  OBVIOUS
<1>1. /\ g = [t \in Threads |-> g[t]]
      /\ g[A] = ResetState /\ g[B] = ThreadBState
  BY ThreadsApart DEF Init, Each
<1>2. Heaps
  BY <1>1, ResetHeap, ThreadBHeap DEF Heaps, Threads
<1>3. at \in [Threads -> Nat] /\ at[A] = 0
  BY ThreadsApart DEF Init
<1>4. prog[A] \in ProgramsA /\ prog[B] \in ProgramsB
  BY ThreadsApart DEF Init, Each
<1>5. at[A] * Step16 = 0
  BY <1>3, PoolPlaces
<1> QED
  BY <1>1, <1>2, <1>3, <1>4, <1>5, ThreadsApart, PoolPlaces, ResetHeap, ThreadBHeap
  DEF IInv, Programs, LowerHalf, UpperHalf

LEMMA OperationType ==
  ASSUME Programs, NEW t \in Threads, NEW k \in Nat, k < OpsOf(t)
  PROVE  /\ WellFormed(prog[t][k + 1])
         /\ prog[t][k + 1].kind = "GuestMemWrite" =>
              prog[t][k + 1].id \in BufIds /\ prog[t][k + 1].size \in Nat
         /\ NoResetInB /\ t = B => prog[t][k + 1].kind # "Reset"
         /\ t = A => k + 1 <= MaxOps
<1>1. prog[t] \in ProgramsA \cup ProgramsB /\ Len(prog[t]) \in Nat
  BY ThreadsApart, ProgramsAssumption DEF Programs, Threads
<1>2. OpsOf(t) <= Len(prog[t]) /\ (t = A => OpsOf(t) <= MaxOps) /\ OpsOf(t) \in Nat
  BY <1>1, ThreadsApart DEF OpsOf, Lesser, Threads
<1>3. k + 1 \in 1 .. Len(prog[t])
  BY <1>1, <1>2
<1> DEFINE op == prog[t][k + 1]
<1>4. WellFormed(op)
  BY <1>1, <1>3, ProgramsAssumption
<1>5. op.kind = "GuestMemWrite" => op.id \in BufIds /\ op.size \in Nat
  <2> HIDE DEF op
  <2> QED
    BY <1>4 DEF WellFormed
<1>6. NoResetInB /\ t = B => op.kind # "Reset"
  BY <1>3, ThreadsApart DEF NoResetInB, Programs
<1> QED
  BY <1>1, <1>2, <1>4, <1>5, <1>6, ThreadsApart


----------------------------------------------------------------------------
(* The steps *)

\* What a step makes of the State of a thread.
HeapMove(t) ==
  \/ SameHeap(g[t], g'[t])
  \/ GrownHeap(g[t], g'[t]) /\ at'[t] = at[t] + 1
  \/ t = A /\ g'[t] = ResetState

LEMMA BeginOpMoves ==
  ASSUME NoResetInB, IInv, NEW t \in Threads, BeginOp(t)
  PROVE  /\ Programs' /\ at'[A] >= at[A]
         /\ g' = [s \in Threads |-> g'[s]]
         /\ \A s \in Threads : HeapMove(s)
<1> USE DEF IInv
<1>1. at[t] \in Nat /\ at[t] < OpsOf(t) /\ at \in [Threads -> Nat] /\ prog' = prog
  BY DEF BeginOp, Programs
<1> DEFINE op == prog[t][at[t] + 1]
<1>2. /\ op.kind = "GuestMemWrite" => op.id \in BufIds /\ op.size \in Nat
      /\ t = B => op.kind # "Reset"
      /\ t = A => at[t] + 1 <= MaxOps
  BY <1>1, OperationType
<1>3. /\ g' = [g EXCEPT ![t] = After(g[t], op)]
      /\ at' = [at EXCEPT ![t] = at[t] + 1]
  BY DEF BeginOp
<1> HIDE DEF op
<1>4. Programs' /\ at'[A] >= at[A] /\ at'[t] = at[t] + 1
  BY <1>1, <1>2, <1>3, ThreadsApart DEF Programs
<1>5. /\ g'[t] = After(g[t], op)
      /\ \A s \in Threads : s # t => g'[s] = g[s]
      /\ g' = [s \in Threads |-> g'[s]]
  BY <1>3 DEF Heaps
<1>6. Shaped(g[t])
  BY DEF Heaps, HeapOK
<1>7. HeapMove(t)
  <2>1. \/ SameHeap(g[t], After(g[t], op))
        \/ GrownHeap(g[t], After(g[t], op))
        \/ op.kind = "Reset" /\ After(g[t], op) = ResetState
    BY <1>2, <1>6, AfterHeap
  <2> QED
    BY <1>2, <1>4, <1>5, <2>1 DEF HeapMove, Threads
<1>8. \A s \in Threads : s # t => HeapMove(s)
  BY <1>5 DEF HeapMove, SameHeap, Heaps, HeapOK
<1> QED
  BY <1>4, <1>5, <1>7, <1>8

LEMMA ReadNumMaxMoves ==
  ASSUME IInv, NEW t \in Threads, ReadNumMax(t)
  PROVE  /\ g' = [s \in Threads |-> g'[s]]
         /\ \A s \in Threads : SameHeap(g[s], g'[s])
<1>1. g = [s \in Threads |-> g[s]] /\ \A s \in Threads : Shaped(g[s])
  BY DEF IInv, Heaps, HeapOK
<1>2. CASE g' = g
  BY <1>1, <1>2 DEF SameHeap
<1>3. ASSUME NEW i, NEW size, g' = [g EXCEPT ![t] = WithSize(g[t], i, size)]
      PROVE  /\ g' = [s \in Threads |-> g'[s]]
             /\ \A s \in Threads : SameHeap(g[s], g'[s])
  <2>1. SameHeap(g[t], WithSize(g[t], i, size))
    BY <1>1 DEF SameHeap, Shaped, WithSize
  <2>2. /\ g'[t] = WithSize(g[t], i, size)
        /\ \A s \in Threads : s # t => g'[s] = g[s]
        /\ g' = [s \in Threads |-> g'[s]]
    BY <1>1, <1>3
  <2> QED
    BY <1>1, <2>1, <2>2 DEF SameHeap
<1> QED
  BY <1>2, <1>3 DEF ReadNumMax

LEMMA StepMoves ==
  ASSUME NoResetInB, IInv, [Next]_vars
  PROVE  /\ Programs' /\ at'[A] >= at[A]
         /\ g' = [s \in Threads |-> g'[s]]
         /\ \A s \in Threads : HeapMove(s)
<1> DEFINE Goal == /\ Programs' /\ at'[A] >= at[A]
                   /\ g' = [s \in Threads |-> g'[s]]
                   /\ \A s \in Threads : HeapMove(s)
<1>1. ASSUME prog' = prog, at' = at,
             g' = [s \in Threads |-> g'[s]],
             \A s \in Threads : SameHeap(g[s], g'[s])
      PROVE  Goal
  BY <1>1, ThreadsApart DEF IInv, Programs, HeapMove
<1>2. ASSUME prog' = prog, at' = at, g' = g PROVE Goal
  <2>1. \A s \in Threads : SameHeap(g[s], g'[s])
    BY <1>2 DEF IInv, Heaps, HeapOK, SameHeap
  <2>2. g' = [s \in Threads |-> g'[s]]
    BY <1>2 DEF IInv, Heaps
  <2> HIDE DEF Goal
  <2> QED
    BY <1>1, <1>2, <2>1, <2>2
<1>3. ASSUME NEW t \in Threads, BeginOp(t) PROVE Goal
  BY <1>3, BeginOpMoves
<1>4. ASSUME NEW t \in Threads, Access(t) PROVE Goal
  <2>1. CASE ReadNumMax(t)
    <3>1. prog' = prog /\ at' = at
      BY <2>1 DEF ReadNumMax, GoOn
    <3> HIDE DEF Goal
    <3> QED
      BY <1>1, <2>1, <3>1, ReadNumMaxMoves
  <2>2. CASE ~ReadNumMax(t)
    <3>1. prog' = prog /\ at' = at /\ g' = g
      BY <1>4, <2>2 DEF Access, WriteRegister, ReadStatus, WriteStatus, ReadIsr,
         StoreBuffer, StoreDesc, StoreRing, StoreIdx, GoOn
    <3> HIDE DEF Goal
    <3> QED
      BY <1>2, <3>1
  <2> QED
    BY <2>1, <2>2
<1>5. ASSUME BeginRound PROVE Goal
  <2>1. prog' = prog /\ g' = g /\ at' = [at EXCEPT ![B] = 0]
    BY <1>5 DEF BeginRound
  <2>2. Programs' /\ at'[A] = at[A] /\ at[A] \in Nat
    BY <2>1, ThreadsApart DEF IInv, Programs
  <2>3. \A s \in Threads : SameHeap(g[s], g'[s])
    BY <2>1 DEF IInv, Heaps, HeapOK, SameHeap
  <2> QED
    BY <2>1, <2>2, <2>3 DEF HeapMove, IInv, Heaps
<1>6. ASSUME StopB \/ Join \/ EndRound \/ EndB \/ UNCHANGED vars PROVE Goal
  <2>1. prog' = prog /\ at' = at /\ g' = g
    BY <1>6 DEF StopB, Join, EndRound, EndB, vars
  <2> HIDE DEF Goal
  <2> QED
    BY <1>2, <2>1
<1>7. Goal
  <2> HIDE DEF Goal
  <2> QED
    BY <1>3, <1>4, <1>5, <1>6, ThreadsApart DEF Next, StepA, StepB, Returned
<1> QED
  BY <1>7

\* One operation more, one step of the allocator more.
LEMMA OneStepMore ==
  ASSUME NEW i \in Nat, NEW s \in Nat
  PROVE  i * s \in Nat /\ (i + 1) * s = i * s + s
  BY Z3

LEMMA NoLessSteps ==
  ASSUME NEW i \in Nat, NEW j \in Nat, NEW s \in Nat, i <= j
  PROVE  i * s \in Nat /\ j * s \in Nat /\ i * s <= j * s
  BY Z3

LEMMA NextIInv == ASSUME NoResetInB PROVE IInv /\ [Next]_vars => IInv'
<1> SUFFICES ASSUME IInv, [Next]_vars PROVE IInv'
  OBVIOUS
<1> USE DEF IInv
<1>1. /\ Programs' /\ at'[A] >= at[A] /\ at[A] \in Nat /\ at'[A] \in Nat
      /\ g' = [s \in Threads |-> g'[s]]
      /\ HeapMove(A) /\ HeapMove(B)
  BY StepMoves, ThreadsApart DEF Programs
<1>2. /\ HeapOK(g[A]) /\ HeapOK(g[B])
      /\ g[A].buf_alloc \in Nat /\ g[B].buf_alloc \in Nat
  BY ThreadsApart DEF Heaps, HeapOK
<1>3. HeapOK(g'[A]) /\ LowerHalf'
  <2>1. at[A] * Step16 \in Nat /\ at'[A] * Step16 \in Nat
        /\ at[A] * Step16 <= at'[A] * Step16
    BY <1>1, PoolPlaces, NoLessSteps
  <2>2. CASE SameHeap(g[A], g'[A])
    <3>1. /\ HeapOK(g'[A]) /\ Between(g'[A], BufPoolBase)
          /\ g'[A].buf_alloc = g[A].buf_alloc
      BY <1>2, <2>2, SameBetween DEF LowerHalf
    <3> QED
      BY <1>2, <2>1, <3>1, PoolPlaces DEF LowerHalf
  <2>3. CASE GrownHeap(g[A], g'[A]) /\ at'[A] = at[A] + 1
    <3>1. /\ HeapOK(g'[A]) /\ Between(g'[A], BufPoolBase)
          /\ g[A].buf_alloc <= g'[A].buf_alloc
          /\ g'[A].buf_alloc <= g[A].buf_alloc + Step16
      BY <1>2, <2>3, PoolPlaces, GrownBetween DEF LowerHalf, Step16
    <3>2. at'[A] * Step16 = at[A] * Step16 + Step16
      BY <1>1, <2>3, PoolPlaces, OneStepMore
    <3>3. g'[A].buf_alloc \in Nat
      BY <3>1 DEF HeapOK
    <3> DEFINE m == at[A] * Step16
               n == at'[A] * Step16
    <3>4. /\ m \in Nat /\ n = m + Step16 /\ g[A].buf_alloc <= BufPoolBase + m
          /\ g[A].buf_alloc >= BufPoolBase
      BY <2>1, <3>2 DEF LowerHalf
    <3>5. g'[A].buf_alloc >= BufPoolBase /\ g'[A].buf_alloc <= BufPoolBase + n
      <4> HIDE DEF m, n
      <4> QED
        BY <1>2, <3>1, <3>3, <3>4, PoolPlaces
    <3> QED
      BY <3>1, <3>5 DEF LowerHalf
  <2>4. CASE g'[A] = ResetState
    <3>1. /\ HeapOK(g'[A]) /\ Between(g'[A], BufPoolBase)
          /\ g'[A].buf_alloc = BufPoolBase
      BY <2>4, ResetHeap
    <3> QED
      BY <2>1, <3>1, PoolPlaces DEF LowerHalf
  <2> QED
    BY <1>1, <2>2, <2>3, <2>4 DEF HeapMove
<1>4. HeapOK(g'[B]) /\ UpperHalf'
  <2>1. CASE SameHeap(g[B], g'[B])
    BY <1>2, <2>1, SameBetween DEF UpperHalf
  <2>2. CASE GrownHeap(g[B], g'[B])
    <3>1. /\ HeapOK(g'[B]) /\ Between(g'[B], BufPoolMid)
          /\ g[B].buf_alloc <= g'[B].buf_alloc
      BY <1>2, <2>2, PoolPlaces, GrownBetween DEF UpperHalf
    <3> QED
      BY <1>2, <3>1, PoolPlaces DEF UpperHalf, HeapOK
  <2> QED
    BY <1>1, <2>1, <2>2, ThreadsApart DEF HeapMove
<1>5. Heaps'
  BY <1>1, <1>3, <1>4 DEF Heaps, Threads
<1> QED
  BY <1>1, <1>3, <1>4, <1>5

----------------------------------------------------------------------------
(* The theorem *)

LEMMA IInvDisjoint == IInv => ThreadBuffersDisjoint
<1> SUFFICES ASSUME IInv, NEW a \in BufIds, NEW b \in BufIds,
                    g[A].bufs[a] # NoBuf, g[B].bufs[b] # NoBuf
             PROVE  g[A].bufs[a].gpa + g[A].bufs[a].len <= g[B].bufs[b].gpa
  BY DEF ThreadBuffersDisjoint
<1>1. /\ g[A].bufs[a] \in Bufs /\ g[B].bufs[b] \in Bufs /\ g[A].buf_alloc \in Nat
      /\ at[A] \in Nat /\ at[A] <= MaxOps
  BY ThreadsApart DEF IInv, Heaps, HeapOK, Programs
<1>2. /\ g[A].bufs[a].gpa + g[A].bufs[a].len <= g[A].buf_alloc
      /\ g[B].bufs[b].gpa >= BufPoolMid
      /\ g[A].buf_alloc <= BufPoolBase + at[A] * Step16
  BY DEF IInv, LowerHalf, UpperHalf, Between
<1>3. /\ at[A] * Step16 \in Nat /\ MaxOps * Step16 \in Nat
      /\ at[A] * Step16 <= MaxOps * Step16
  BY <1>1, ThreadsApart, PoolPlaces, NoLessSteps
<1>4. BufPoolBase + MaxOps * Step16 <= BufPoolMid
  BY RoomAssumption DEF Step16
<1> DEFINE m == at[A] * Step16
           n == MaxOps * Step16
           x == g[A].bufs[a]
           y == g[B].bufs[b]
<1>5. /\ m \in Nat /\ n \in Nat /\ m <= n /\ BufPoolBase + n <= BufPoolMid
      /\ x.gpa \in Nat /\ x.len \in Nat /\ y.gpa \in Nat
      /\ x.gpa + x.len <= g[A].buf_alloc /\ y.gpa >= BufPoolMid
      /\ g[A].buf_alloc <= BufPoolBase + m
  BY <1>1, <1>2, <1>3, <1>4 DEF Bufs
<1> HIDE DEF m, n, x, y
<1>6. x.gpa + x.len <= y.gpa
  BY <1>1, <1>5, PoolPlaces
<1> QED
  BY <1>6 DEF x, y

\* Lines 507-512 claim it and lines 524-527 arrange it: no byte belongs to a
\* buffer of both threads, provided that thread B does not reset.  Every step
\* of the allocators is covered, in every interleaving.
THEOREM ThreadsStayApart == NoResetInB => (Spec => []ThreadBuffersDisjoint)
<1> SUFFICES ASSUME NoResetInB PROVE Spec => []ThreadBuffersDisjoint
  OBVIOUS
<1>1. IInv /\ [Next]_vars => IInv'
  BY NextIInv
<1> QED
  BY InitIInv, <1>1, IInvDisjoint, PTL DEF Spec

----------------------------------------------------------------------------
(* What an operation leaves to do *)

Accs ==
  [do : {"reg"}, off : Nat, v : Nat]
    \cup [do : {"or_status", "put_status"}, bits : SUBSET StatusBits]
    \cup [do : {"ack_isr"}]
    \cup [do : {"num_max"}, i : Queues, size : Nat]
    \cup [do : {"buffer"}, gpa : Nat, len : Nat]
    \cup [do : {"desc"}, table : Nat, slot : Slots, d : Descriptors]
    \cup [do : {"ring"}, avail : Nat, slot : Slots, v : Nat]
    \cup [do : {"idx"}, avail : Nat, v : Nat]

\* The fields an access of each kind has.
LEMMA AccFields ==
  ASSUME NEW a \in Accs
  PROVE  /\ a.do = "reg" => a.off \in Nat /\ a.v \in Nat
         /\ a.do \in {"or_status", "put_status"} => a.bits \in SUBSET StatusBits
         /\ a.do = "num_max" => a.i \in Queues /\ a.size \in Nat
         /\ a.do = "buffer" => a.gpa \in Nat /\ a.len \in Nat
         /\ a.do = "desc" => /\ a.table \in Nat /\ a.slot \in Slots
                             /\ a.d \in Descriptors
         /\ a.do = "ring" => a.avail \in Nat /\ a.slot \in Slots /\ a.v \in Nat
         /\ a.do = "idx" => a.avail \in Nat /\ a.v \in Nat
  BY DEF Accs

LEMMA RegAcc ==
  ASSUME NEW off \in Nat, NEW v \in Nat
  PROVE  Reg(off, v) \in Accs
  BY DEF Reg, Accs

LEMMA StatusAcc ==
  ASSUME NEW bits \in SUBSET StatusBits
  PROVE  OrStatus(bits) \in Accs /\ PutStatus(bits) \in Accs
  BY DEF OrStatus, PutStatus, Accs

LEMMA NumMaxAcc ==
  ASSUME NEW i \in Queues, NEW size \in Nat
  PROVE  AskNumMax(i, size) \in Accs
  BY DEF AskNumMax, Accs

LEMMA BufferAcc ==
  ASSUME NEW gpa \in Nat, NEW len \in Nat
  PROVE  WriteBuffer(gpa, len) \in Accs
  BY DEF WriteBuffer, Accs

LEMMA RingAccs ==
  ASSUME NEW q \in VqStates, NEW d \in Descriptors,
         Slot(q) \in Slots, RingSlot(q) \in Slots,
         PublishedHead(q) \in Nat, PublishedIdx(q) \in Nat
  PROVE  WriteDesc(q, d) \in Accs /\ WriteRing(q) \in Accs /\ WriteIdx(q) \in Accs
<1>1. q.desc_gpa \in Nat /\ q.avail_gpa \in Nat
  BY DEF VqStates
<1> QED
  BY <1>1 DEF WriteDesc, WriteRing, WriteIdx, Accs

LEMMA SeqOf ==
  ASSUME NEW S, NEW x \in S
  PROVE  /\ <<>> \in Seq(S) /\ <<x>> \in Seq(S)
         /\ \A y \in S : <<x, y>> \in Seq(S)
         /\ \A y, z \in S : <<x>> \o <<y, z>> \in Seq(S)
  OBVIOUS

\* Where an access writes guest memory.
Stores(a) ==
  CASE a.do = "buffer" -> Write("buffer", a.gpa, a.len)
    [] a.do = "desc"   -> Write("desc", a.table + 16 * a.slot, 16)
    [] a.do = "ring"   -> Write("avail", a.avail + 4 + 2 * a.slot, 2)
    [] a.do = "idx"    -> Write("avail", a.avail + 2, 2)
    [] OTHER           -> Write("corrupt", 0, 0)

TameAccs == {a \in Accs : Confined(Stores(a))}

LEMMA OtherTame ==
  ASSUME NEW a \in Accs, a.do \notin {"buffer", "desc", "ring", "idx"}
  PROVE  a \in TameAccs
  BY DEF TameAccs, Stores, Write, Confined

\* A queue with the addresses of its own area, whose next slot is one of its
\* descriptor table.
InArea(q, i) ==
  /\ q.desc_gpa = DescGpa(i) /\ q.avail_gpa = AvailGpa(i)
  /\ 16 * Slot(q) + 16 <= VqDescSize

LEMMA RingTame ==
  ASSUME NEW q \in VqStates, NEW d \in Descriptors, NEW i \in Queues,
         InArea(q, i), Slot(q) \in Slots, RingSlot(q) \in Slots,
         PublishedHead(q) \in Nat, PublishedIdx(q) \in Nat
  PROVE  /\ WriteDesc(q, d) \in TameAccs /\ WriteRing(q) \in TameAccs
         /\ WriteIdx(q) \in TameAccs
<1>1. WriteDesc(q, d) \in Accs /\ WriteRing(q) \in Accs /\ WriteIdx(q) \in Accs
  BY RingAccs
<1>2. Slot(q) \in Nat
  BY SizeAssumption DEF Slots
<1>3. Confined(Stores(WriteDesc(q, d)))
  BY <1>2, TableConfined DEF Stores, WriteDesc, InArea
<1>4. Confined(Stores(WriteRing(q))) /\ Confined(Stores(WriteIdx(q)))
  BY AvailConfined DEF Stores, WriteRing, WriteIdx, InArea
<1> QED
  BY <1>1, <1>3, <1>4 DEF TameAccs

LEMMA BufferTame ==
  ASSUME NEW gpa \in Nat, NEW len \in Nat,
         gpa >= BufPoolBase, gpa + len <= BufPoolEnd
  PROVE  WriteBuffer(gpa, len) \in TameAccs
<1>1. Stores(WriteBuffer(gpa, len)) = Write("buffer", gpa, len)
  BY DEF Stores, WriteBuffer
<1> QED
  BY <1>1, BufferAcc, BufferConfined DEF TameAccs

\* The payload of a write to the pool, allocated or absolute, stays in it.
LEMMA PayloadTame ==
  ASSUME NEW len \in 0 .. MaxData
  PROVE  /\ \A gpa \in Nat : gpa >= BufPoolBase /\ AllocFits(gpa, len) =>
              WriteBuffer(gpa, len) \in TameAccs
         /\ \A gpa \in Nat : WriteBuffer(ClampGpa(gpa, len), len) \in TameAccs
<1>1. len \in Nat
  BY PoolAssumption
<1>2. ASSUME NEW gpa \in Nat, gpa >= BufPoolBase, AllocFits(gpa, len)
      PROVE  WriteBuffer(gpa, len) \in TameAccs
  BY <1>1, <1>2, BufferTame, PoolAssumption DEF AllocFits
<1>3. ASSUME NEW gpa \in Nat
      PROVE  WriteBuffer(ClampGpa(gpa, len), len) \in TameAccs
  BY <1>1, <1>3, Clamp, BufferTame
<1> QED
  BY <1>2, <1>3

LEMMA QueueRegistersType ==
  ASSUME NEW q \in VqStates, NEW size \in 1 .. QueueNumMax
  PROVE  QueueRegisters(q, size) \in Seq(TameAccs)
<1>1. /\ q.desc_gpa \in Nat /\ q.avail_gpa \in Nat /\ q.used_gpa \in Nat
      /\ size \in Nat /\ 1 \in Nat
  BY SizeAssumption DEF VqStates
<1>2. ASSUME NEW a \in Nat PROVE Lo(a) \in Nat /\ Hi(a) \in Nat
  BY WordAssumption, Z3 DEF Lo, Hi
<1>3. ASSUME NEW off \in QueueRegs, NEW v \in Nat PROVE Reg(off, v) \in TameAccs
  <2>1. off \in Nat
    BY DEF QueueRegs, QueueConfig, R_QUEUE_NUM, R_QUEUE_READY, R_QDESC_LO,
           R_QDESC_HI, R_QDRV_LO, R_QDRV_HI, R_QDEV_LO, R_QDEV_HI
  <2>2. Reg(off, v) \in Accs /\ Reg(off, v).do = "reg"
    BY <2>1, RegAcc DEF Reg
  <2> QED
    BY <2>2, OtherTame
<1> DEFINE T == TameAccs
<1>4. /\ Reg(R_QUEUE_NUM, size) \in T /\ Reg(R_QUEUE_READY, 1) \in T
      /\ Reg(R_QDESC_LO, Lo(q.desc_gpa)) \in T
      /\ Reg(R_QDESC_HI, Hi(q.desc_gpa)) \in T
      /\ Reg(R_QDRV_LO, Lo(q.avail_gpa)) \in T
      /\ Reg(R_QDRV_HI, Hi(q.avail_gpa)) \in T
      /\ Reg(R_QDEV_LO, Lo(q.used_gpa)) \in T
      /\ Reg(R_QDEV_HI, Hi(q.used_gpa)) \in T
  BY <1>1, <1>2, <1>3 DEF QueueRegs, QueueConfig
<1> HIDE DEF T
<1>5. QueueRegisters(q, size) \in Seq(T)
  BY <1>4 DEF QueueRegisters
<1> QED
  BY <1>5 DEF T

\* An operation gets past the early returns of op_vq_add_desc.
Places(s, op) ==
  op.kind = "VqAddDesc" /\ CanAddDesc(s, op.i, op.id, op.region)

\* The accesses of an operation are well formed, and stay in the areas meant
\* for them if the queue it adds to has its own.
LEMMA AccessesType ==
  ASSUME NEW s \in States, NEW op, WellFormed(op)
  PROVE  /\ Accesses(s, op) \in Seq(Accs)
         /\ /\ s.buf_alloc >= BufPoolBase
            /\ Places(s, op) => InArea(s.vqs[op.i], op.i)
            => Accesses(s, op) \in Seq(TameAccs)
<1> DEFINE x == Accesses(s, op)
           Good == s.buf_alloc >= BufPoolBase
                     /\ (Places(s, op) => InArea(s.vqs[op.i], op.i))
           Goal == x \in Seq(Accs) /\ (Good => x \in Seq(TameAccs))
<1>1. ASSUME x \in Seq(TameAccs) PROVE Goal
  BY <1>1 DEF TameAccs
<1>2. ASSUME x = <<>> PROVE Goal
  BY <1>2
<1>3. ASSUME NEW a \in TameAccs, x = <<a>> PROVE Goal
  BY <1>1, <1>3, SeqOf
<1>4. ASSUME NEW off \in Nat, NEW v \in Nat
      PROVE  Reg(off, v) \in TameAccs
  <2>1. Reg(off, v) \in Accs /\ Reg(off, v).do = "reg"
    BY RegAcc DEF Reg
  <2> QED
    BY <2>1, OtherTame
<1>5. ASSUME NEW bits \in SUBSET StatusBits
      PROVE  OrStatus(bits) \in TameAccs /\ PutStatus(bits) \in TameAccs
  <2>1. /\ OrStatus(bits) \in Accs /\ OrStatus(bits).do = "or_status"
        /\ PutStatus(bits) \in Accs /\ PutStatus(bits).do = "put_status"
    BY StatusAcc DEF OrStatus, PutStatus
  <2> QED
    BY <2>1, OtherTame
<1>6. AckIsr \in TameAccs
  <2>1. AckIsr \in Accs /\ AckIsr.do = "ack_isr"
    BY DEF AckIsr, Accs
  <2> QED
    BY <2>1, OtherTame
<1>7. R_QUEUE_SEL \in Nat /\ R_QUEUE_NOTIFY \in Nat
  BY DEF R_QUEUE_SEL, R_QUEUE_NOTIFY
<1>8. {} \in SUBSET StatusBits /\ {kStatusFeaturesOk} \in SUBSET StatusBits
      /\ {kStatusAck, kStatusDriver} \in SUBSET StatusBits
  BY DEF StatusBits
<1>9. ASSUME op.kind = "VqSelect" PROVE Goal
  <2>1. op.i % 256 \in Nat
    BY <1>9, Z3 DEF WellFormed
  <2>2. x = <<Reg(R_QUEUE_SEL, op.i % 256)>>
    BY <1>9 DEF Accesses
  <2> HIDE DEF x, Goal
  <2> QED
    BY <1>3, <1>4, <1>7, <2>1, <2>2
<1>10. ASSUME op.kind = "VqSetup" PROVE Goal
  <2>1. op.i \in Nat /\ op.size \in Nat
    BY <1>10 DEF WellFormed
  <2>2. CASE op.i \in Queues
    <3>1. x = <<Reg(R_QUEUE_SEL, op.i), AskNumMax(op.i, op.size)>>
      BY <1>10, <2>2 DEF Accesses
    <3>2. AskNumMax(op.i, op.size) \in TameAccs
      <4>1. /\ AskNumMax(op.i, op.size) \in Accs
            /\ AskNumMax(op.i, op.size).do = "num_max"
        BY <2>1, <2>2, NumMaxAcc DEF AskNumMax
      <4> QED
        BY <4>1, OtherTame
    <3>3. Reg(R_QUEUE_SEL, op.i) \in TameAccs
      BY <1>4, <1>7, <2>1
    <3>4. x \in Seq(TameAccs)
      <4> HIDE DEF x
      <4> QED
        BY <3>1, <3>2, <3>3, SeqOf
    <3> HIDE DEF x, Goal
    <3> QED
      BY <1>1, <3>4
  <2>3. CASE op.i \notin Queues
    <3>1. x = <<>>
      BY <1>10, <2>3 DEF Accesses
    <3> HIDE DEF x, Goal
    <3> QED
      BY <1>2, <3>1
  <2> QED
    BY <2>2, <2>3
<1>11. ASSUME op.kind = "SetFeatures" PROVE Goal
  <2>1. x = <<OrStatus({kStatusFeaturesOk})>>
    BY <1>11 DEF Accesses
  <2> HIDE DEF x, Goal
  <2> QED
    BY <1>3, <1>5, <1>8, <2>1
<1>12. ASSUME op.kind = "SetStatus" PROVE Goal
  <2>1. op.bits \in SUBSET StatusBits
    BY <1>12 DEF WellFormed
  <2>2. x = IF op.bits = {} THEN <<PutStatus({})>> ELSE <<OrStatus(op.bits)>>
    BY <1>12 DEF Accesses
  <2> HIDE DEF x, Goal
  <2> QED
    BY <1>3, <1>5, <1>8, <2>1, <2>2
<1>13. ASSUME op.kind = "VqKick" PROVE Goal
  <2>1. op.i \in Nat
    BY <1>13 DEF WellFormed
  <2>2. x = <<Reg(R_QUEUE_NOTIFY, op.i)>>
    BY <1>13 DEF Accesses
  <2> HIDE DEF x, Goal
  <2> QED
    BY <1>3, <1>4, <1>7, <2>1, <2>2
<1>14. ASSUME op.kind = "VqWaitUsed" PROVE Goal
  <2>1. x = <<AckIsr>>
    BY <1>14 DEF Accesses
  <2> HIDE DEF x, Goal
  <2> QED
    BY <1>3, <1>6, <2>1
<1>15. ASSUME op.kind = "Reset" PROVE Goal
  <2>1. x = <<PutStatus({}), PutStatus({kStatusAck, kStatusDriver})>>
    BY <1>15 DEF Accesses
  <2>2. x \in Seq(TameAccs)
    <3> HIDE DEF x
    <3> QED
      BY <1>5, <1>8, <2>1, SeqOf
  <2> HIDE DEF x, Goal
  <2> QED
    BY <1>1, <2>2
<1>16. ASSUME op.kind = "MmioCorrupt" PROVE Goal
  <2>1. op.off % MmioSize \in Nat /\ op.v \in Nat
    <3>1. op.off \in Nat /\ op.v \in Nat
      BY <1>16 DEF WellFormed
    <3> QED
      BY <3>1, Z3 DEF MmioSize
  <2>2. x = <<Reg(op.off % MmioSize, op.v)>>
    BY <1>16 DEF Accesses
  <2> HIDE DEF x, Goal
  <2> QED
    BY <1>3, <1>4, <2>1, <2>2
<1>17. ASSUME op.kind = "GuestMemWrite" PROVE Goal
  <2> DEFINE len == Lesser(op.size, MaxData)
  <2>1. len \in 0 .. MaxData /\ len \in Nat /\ s.buf_alloc \in Nat
    <3>1. op.size \in Nat
      BY <1>17 DEF WellFormed
    <3> QED
      BY <3>1, PoolAssumption DEF Lesser, States
  <2>2. \/ x = <<>>
        \/ AllocFits(s.buf_alloc, len) /\ x = <<WriteBuffer(s.buf_alloc, len)>>
    BY <1>17 DEF Accesses
  <2> HIDE DEF len
  <2>3. WriteBuffer(s.buf_alloc, len) \in Accs
    BY <2>1, BufferAcc
  <2>4. Good /\ AllocFits(s.buf_alloc, len)
          => WriteBuffer(s.buf_alloc, len) \in TameAccs
    BY <2>1, PayloadTame
  <2>5. CASE x = <<>>
    <3> HIDE DEF x, Goal
    <3> QED
      BY <1>2, <2>5
  <2>6. CASE /\ AllocFits(s.buf_alloc, len)
             /\ x = <<WriteBuffer(s.buf_alloc, len)>>
    <3>1. x \in Seq(Accs)
      <4> HIDE DEF x
      <4> QED
        BY <2>3, <2>6, SeqOf
    <3>2. Good => x \in Seq(TameAccs)
      <4> HIDE DEF x, Good
      <4> QED
        BY <2>4, <2>6, SeqOf
    <3> QED
      BY <3>1, <3>2
  <2> HIDE DEF x, Goal
  <2> QED
    BY <2>2, <2>5, <2>6
<1>18. ASSUME op.kind = "MemwriteAbsolute" PROVE Goal
  <2> DEFINE len == Lesser(op.size, MaxData)
  <2>1. op.gpa \in Nat /\ op.size \in Nat
    BY <1>18 DEF WellFormed
  <2>2. len \in 0 .. MaxData
    BY <2>1, PoolAssumption DEF Lesser
  <2>3. x = <<>> \/ x = <<WriteBuffer(ClampGpa(op.gpa, len), len)>>
    BY <1>18 DEF Accesses
  <2> HIDE DEF len
  <2>4. WriteBuffer(ClampGpa(op.gpa, len), len) \in TameAccs
    BY <2>1, <2>2, PayloadTame
  <2> HIDE DEF x, Goal
  <2> QED
    BY <1>2, <1>3, <2>3, <2>4
<1>19. ASSUME op.kind = "VqAddDesc" PROVE Goal
  <2>1. /\ op.i \in Nat /\ op.id \in Nat /\ op.len \in Nat /\ op.region \in Nat
        /\ op.writable \in BOOLEAN /\ op.more \in BOOLEAN
        /\ op.region = 0 => op.id \in BufIds
    BY <1>19 DEF WellFormed
  <2>2. CASE ~CanAddDesc(s, op.i, op.id, op.region)
    <3>1. x = <<>>
      BY <1>19, <2>2 DEF Accesses
    <3> HIDE DEF x, Goal
    <3> QED
      BY <1>2, <3>1
  <2>3. CASE CanAddDesc(s, op.i, op.id, op.region)
    <3> DEFINE q == s.vqs[op.i]
               d == Descriptor(q, Target(s, op.id, op.len, op.region),
                               op.writable, op.more)
    <3>1. x = <<WriteDesc(q, d)>> \o
                IF op.more THEN <<>> ELSE <<WriteRing(q), WriteIdx(q)>>
      BY <1>19, <2>3 DEF Accesses, Publication
    <3>2. /\ op.i \in Queues /\ q \in VqStates /\ d \in Descriptors
          /\ Slot(q) \in Slots /\ RingSlot(q) \in Slots
          /\ PublishedHead(q) \in Nat /\ PublishedIdx(q) \in Nat
      BY <2>1, <2>3, AddDescParts
    <3> HIDE DEF q, d, x
    <3>3. /\ WriteDesc(q, d) \in Accs /\ WriteRing(q) \in Accs
          /\ WriteIdx(q) \in Accs
      BY <3>2, RingAccs
    <3>4. InArea(q, op.i) => /\ WriteDesc(q, d) \in TameAccs
                             /\ WriteRing(q) \in TameAccs
                             /\ WriteIdx(q) \in TameAccs
      BY <3>2, RingTame
    <3>5. Good => InArea(q, op.i)
      BY <1>19, <2>3 DEF Places, q
    <3> HIDE DEF Good
    <3>6. ASSUME NEW T, WriteDesc(q, d) \in T, WriteRing(q) \in T,
                 WriteIdx(q) \in T
          PROVE  x \in Seq(T)
      <4>1. <<WriteDesc(q, d)>> \o <<>> = <<WriteDesc(q, d)>>
        OBVIOUS
      <4> QED
        BY <3>1, <3>6, <4>1, SeqOf
    <3> QED
      BY <3>3, <3>4, <3>5, <3>6
  <2> QED
    BY <2>2, <2>3
<1>20. ASSUME op.kind \notin {"VqSelect", "VqSetup", "SetFeatures",
                              "SetStatus", "VqKick", "VqWaitUsed", "Reset",
                              "MmioCorrupt", "GuestMemWrite",
                              "MemwriteAbsolute", "VqAddDesc"}
       PROVE  Goal
  <2>1. x = <<>>
    BY <1>20 DEF Accesses
  <2> HIDE DEF x, Goal
  <2> QED
    BY <1>2, <2>1
<1>21. Goal
  <2> HIDE DEF Goal
  <2> QED
    BY <1>9, <1>10, <1>11, <1>12, <1>13, <1>14, <1>15, <1>16, <1>17, <1>18,
       <1>19, <1>20
<1> QED
  BY <1>21

\* What the accesses of operations other than a setup have in common.
Plain(a, op) ==
  /\ a.do # "num_max"
  /\ a.do = "reg" =>
       \/ op.kind = "VqSelect" /\ a.off = R_QUEUE_SEL
       \/ op.kind = "VqKick" /\ a.off = R_QUEUE_NOTIFY
       \/ op.kind = "MmioCorrupt" /\ a.off = op.off % MmioSize
  /\ a.do \in {"or_status", "put_status"} =>
       \/ a.bits # {}
       \/ op.kind = "Reset"
       \/ op.kind = "SetStatus" /\ op.bits = {}
  /\ a.do \in {"desc", "ring", "idx"} => op.kind = "VqAddDesc"

LEMMA PlainAccesses ==
  ASSUME NEW s, NEW op, op.kind # "VqSetup",
         NEW k \in 1 .. Len(Accesses(s, op))
  PROVE  Plain(Accesses(s, op)[k], op)
<1> DEFINE x == Accesses(s, op)
<1>1. ASSUME NEW a, x = <<a>>, Plain(a, op) PROVE Plain(x[k], op)
  <2>1. k = 1
    BY <1>1
  <2>2. x[k] = a
    BY <1>1, <2>1
  <2> QED
    BY <1>1, <2>2
<1>2. CASE op.kind \in {"VqSelect", "VqKick", "MmioCorrupt"}
  <2>1. \E off, v : /\ x = <<Reg(off, v)>>
                    /\ \/ op.kind = "VqSelect" /\ off = R_QUEUE_SEL
                       \/ op.kind = "VqKick" /\ off = R_QUEUE_NOTIFY
                       \/ op.kind = "MmioCorrupt" /\ off = op.off % MmioSize
    BY <1>2 DEF Accesses
  <2>2. PICK off, v : /\ x = <<Reg(off, v)>>
                      /\ \/ op.kind = "VqSelect" /\ off = R_QUEUE_SEL
                         \/ op.kind = "VqKick" /\ off = R_QUEUE_NOTIFY
                         \/ op.kind = "MmioCorrupt" /\ off = op.off % MmioSize
    BY <2>1
  <2>3. Plain(Reg(off, v), op)
    BY <2>2 DEF Plain, Reg
  <2> QED
    BY <1>1, <2>2, <2>3
<1>3. CASE op.kind = "SetFeatures"
  <2>1. x = <<OrStatus({kStatusFeaturesOk})>>
    BY <1>3 DEF Accesses
  <2>2. Plain(OrStatus({kStatusFeaturesOk}), op)
    BY DEF Plain, OrStatus
  <2> QED
    BY <1>1, <2>1, <2>2
<1>4. CASE op.kind = "SetStatus"
  <2>1. \/ op.bits = {} /\ x = <<PutStatus({})>>
        \/ op.bits # {} /\ x = <<OrStatus(op.bits)>>
    BY <1>4 DEF Accesses
  <2>2. /\ op.bits = {} => Plain(PutStatus({}), op)
        /\ op.bits # {} => Plain(OrStatus(op.bits), op)
    BY <1>4 DEF Plain, OrStatus, PutStatus
  <2> QED
    BY <1>1, <2>1, <2>2
<1>5. CASE op.kind = "VqWaitUsed"
  <2>1. x = <<AckIsr>>
    BY <1>5 DEF Accesses
  <2>2. Plain(AckIsr, op)
    BY DEF Plain, AckIsr
  <2> QED
    BY <1>1, <2>1, <2>2
<1>6. CASE op.kind = "Reset"
  <2>1. x = <<PutStatus({}), PutStatus({kStatusAck, kStatusDriver})>>
    BY <1>6 DEF Accesses
  <2>2. \A bits : Plain(PutStatus(bits), op)
    BY <1>6 DEF Plain, PutStatus
  <2> QED
    BY <2>1, <2>2
<1>7. CASE op.kind \in {"GuestMemWrite", "MemwriteAbsolute"}
  <2>1. x = <<>> \/ \E gpa, len : x = <<WriteBuffer(gpa, len)>>
    BY <1>7 DEF Accesses
  <2>2. \A gpa, len : Plain(WriteBuffer(gpa, len), op)
    BY DEF Plain, WriteBuffer
  <2>3. x # <<>>
    OBVIOUS
  <2> QED
    BY <1>1, <2>1, <2>2, <2>3
<1>8. CASE op.kind = "VqAddDesc"
  <2>1. CASE CanAddDesc(s, op.i, op.id, op.region)
    <3> DEFINE q == s.vqs[op.i]
               d == Descriptor(q, Target(s, op.id, op.len, op.region),
                               op.writable, op.more)
    <3>1. x = <<WriteDesc(q, d)>> \o
                IF op.more THEN <<>> ELSE <<WriteRing(q), WriteIdx(q)>>
      BY <1>8, <2>1 DEF Accesses, Publication
    <3> HIDE DEF q, d
    <3>2. /\ Plain(WriteDesc(q, d), op) /\ Plain(WriteRing(q), op)
          /\ Plain(WriteIdx(q), op)
      BY <1>8 DEF Plain, WriteDesc, WriteRing, WriteIdx
    <3> DEFINE y == IF op.more THEN <<>> ELSE <<WriteRing(q), WriteIdx(q)>>
               S == {WriteDesc(q, d), WriteRing(q), WriteIdx(q)}
    <3>3. /\ <<WriteDesc(q, d)>> \in Seq(S) /\ y \in Seq(S)
          /\ x = <<WriteDesc(q, d)>> \o y
      <4>1. /\ WriteDesc(q, d) \in S /\ WriteRing(q) \in S
            /\ WriteIdx(q) \in S
        OBVIOUS
      <4>2. <<>> \in Seq(S) /\ <<WriteRing(q), WriteIdx(q)>> \in Seq(S)
        <5> HIDE DEF S
        <5> QED
          BY <4>1, SeqOf
      <4> HIDE DEF S
      <4> QED
        BY <3>1, <4>1, <4>2, SeqOf
    <3> HIDE DEF x, y, S
    <3>4. x \in Seq(S) /\ k \in 1 .. Len(x)
      BY <3>3, ConcatProperties DEF x
    <3>5. x[k] \in S
      BY <3>4
    <3> QED
      BY <3>2, <3>5 DEF x, S
  <2>2. CASE ~CanAddDesc(s, op.i, op.id, op.region)
    BY <1>8, <2>2 DEF Accesses
  <2> QED
    BY <2>1, <2>2
<1>9. CASE op.kind \notin {"VqSelect", "VqSetup", "SetFeatures",
                           "SetStatus", "VqKick", "VqWaitUsed", "Reset",
                           "MmioCorrupt", "GuestMemWrite",
                           "MemwriteAbsolute", "VqAddDesc"}
  BY <1>9 DEF Accesses
<1> QED
  BY <1>2, <1>3, <1>4, <1>5, <1>6, <1>7, <1>8, <1>9

\* What an operation makes of the State of its thread.
LEMMA AfterCases ==
  ASSUME NEW s \in States, NEW op, WellFormed(op)
  PROVE  \/ After(s, op) = s
         \/ op.kind = "Reset" /\ After(s, op) = ResetState
         \/ \E len \in 0 .. MaxData :
              /\ op.id \in BufIds /\ AllocFits(s.buf_alloc, len)
              /\ After(s, op) = WithBuffer(s, op.id, len)
         \/ /\ Places(s, op) /\ op.i \in Queues /\ op.more \in BOOLEAN
            /\ After(s, op) = AfterAddDesc(s, op.i, op.more)
            /\ After(s, op) \in States
            /\ s.vqs[op.i] \in VqStates /\ s.vqs[op.i].size # 0
            /\ Slot(s.vqs[op.i]) \in Nat
            /\ Slot(s.vqs[op.i]) <= s.vqs[op.i].next_desc_idx
<1>1. CASE op.kind = "GuestMemWrite"
  <2>1. op.id \in BufIds /\ op.size \in Nat
    BY <1>1 DEF WellFormed
  <2>2. Lesser(op.size, MaxData) \in 0 .. MaxData
    BY <2>1, PoolAssumption DEF Lesser
  <2>3. \/ After(s, op) = s
        \/ /\ AllocFits(s.buf_alloc, Lesser(op.size, MaxData))
           /\ After(s, op) = WithBuffer(s, op.id, Lesser(op.size, MaxData))
    BY <1>1 DEF After
  <2> QED
    BY <2>1, <2>2, <2>3
<1>2. CASE Places(s, op)
  <2>1. /\ op.kind = "VqAddDesc" /\ CanAddDesc(s, op.i, op.id, op.region)
        /\ s.vqs[op.i].size # 0
    BY <1>2 DEF Places, CanAddDesc
  <2>2. /\ op.i \in Nat /\ op.id \in Nat /\ op.len \in Nat /\ op.region \in Nat
        /\ op.more \in BOOLEAN
        /\ op.region = 0 => op.id \in BufIds
    BY <2>1 DEF WellFormed
  <2>3. After(s, op) = AfterAddDesc(s, op.i, op.more)
    BY <2>1 DEF After
  <2>4. /\ op.i \in Queues /\ s.vqs[op.i] \in VqStates
        /\ Slot(s.vqs[op.i]) \in Slots
        /\ Slot(s.vqs[op.i]) <= s.vqs[op.i].next_desc_idx
        /\ AfterAddDesc(s, op.i, op.more) \in States
    BY <2>1, <2>2, AddDescParts
  <2>5. Slot(s.vqs[op.i]) \in Nat
    BY <2>4, SizeAssumption DEF Slots
  <2> QED
    BY <1>2, <2>1, <2>2, <2>3, <2>4, <2>5
<1>3. CASE op.kind = "Reset"
  BY <1>3 DEF After
<1>4. CASE op.kind # "GuestMemWrite" /\ ~Places(s, op) /\ op.kind # "Reset"
  BY <1>4 DEF After, Places
<1> QED
  BY <1>1, <1>2, <1>3, <1>4

LEMMA AfterType ==
  ASSUME NEW s \in States, NEW op, WellFormed(op), s.buf_alloc >= BufPoolBase
  PROVE  After(s, op) \in States /\ After(s, op).buf_alloc >= BufPoolBase
<1> DEFINE u == After(s, op)
<1>1. CASE u = s
  BY <1>1
<1>2. CASE u = ResetState
  <2>1. ResetState.buf_alloc = BufPoolBase /\ BufPoolBase \in Nat
    BY Layout DEF ResetState
  <2> QED
    BY <1>2, <2>1, ResetStateType
<1>3. ASSUME NEW len \in 0 .. MaxData, op.id \in BufIds,
             AllocFits(s.buf_alloc, len), u = WithBuffer(s, op.id, len)
      PROVE  u \in States /\ u.buf_alloc >= BufPoolBase
  <2>1. len \in Nat /\ s.buf_alloc \in Nat /\ BufPoolBase \in Nat
    BY PoolAssumption, Layout DEF States
  <2>2. u \in States
    BY <1>3, <2>1, WithBufferType
  <2>3. u.buf_alloc = NextAlloc(s.buf_alloc, len)
    BY <1>3 DEF WithBuffer, States
  <2>4. NextAlloc(s.buf_alloc, len) \in Nat
        /\ NextAlloc(s.buf_alloc, len) >= s.buf_alloc
    <3> DEFINE x == s.buf_alloc + len + 16
    <3>1. x \in Nat
      BY <2>1
    <3>2. AlignDown16(x) \in Nat /\ x < AlignDown16(x) + 16
      <4> HIDE DEF x
      <4> QED
        BY <3>1, AlignDown
    <3> QED
      BY <2>1, <3>2 DEF NextAlloc
  <2> QED
    BY <2>1, <2>2, <2>3, <2>4
<1>4. CASE /\ u = AfterAddDesc(s, op.i, op.more) /\ u \in States
  BY <1>4 DEF AfterAddDesc, States
<1> QED
  BY <1>1, <1>2, <1>3, <1>4, AfterCases

----------------------------------------------------------------------------
(* Type correctness *)

ControlOK ==
  /\ prog[A] \in ProgramsA /\ prog[B] \in ProgramsB
  /\ pc = [t \in Threads |-> pc[t]]
  /\ pc[A] \in {"ops", "join", "done"} /\ pc[B] \in {"loop", "ops", "done"}
  /\ at \in [Threads -> Nat] /\ \A t \in Threads : at[t] <= OpsOf(t)
  /\ iter \in 1 .. MaxIter /\ rounds \in 0 .. iter
  /\ stop \in BOOLEAN

DataOK ==
  /\ g \in [Threads -> States]
  /\ \A t \in Threads : g[t].buf_alloc >= BufPoolBase
  /\ ram \in Rams /\ dev \in Devices
  /\ todo \in [Threads -> Seq(Accs)]

LEMMA ThreadBStateType == ThreadBState \in States
<1>1. ZeroVq \in VqStates
  BY SizeAssumption DEF ZeroVq, VqStates
<1>2. BufPoolMid \in Nat
  BY PoolPlaces
<1> QED
  BY <1>1, <1>2 DEF ThreadBState, States

LEMMA OpsOfType ==
  ASSUME prog[A] \in ProgramsA, prog[B] \in ProgramsB, NEW t \in Threads
  PROVE  OpsOf(t) \in Nat
<1>1. Len(prog[t]) \in Nat
  BY ThreadsApart, ProgramsAssumption DEF Threads
<1> QED
  BY <1>1, ThreadsApart DEF OpsOf, Lesser, Threads

LEMMA ControlInit == Init => ControlOK
<1> SUFFICES ASSUME Init PROVE ControlOK
  OBVIOUS
<1>1. prog[A] \in ProgramsA /\ prog[B] \in ProgramsB
  BY ThreadsApart DEF Init, Each
<1>2. /\ pc = [t \in Threads |-> pc[t]] /\ pc[A] = "ops" /\ pc[B] = "loop"
  BY ThreadsApart DEF Init, Each
<1>3. at \in [Threads -> Nat] /\ \A t \in Threads : at[t] <= OpsOf(t)
  BY <1>1, OpsOfType DEF Init
<1>4. iter \in 1 .. MaxIter
  <2>1. PICK x \in IterArgs : iter = ClampIter(x)
    BY DEF Init
  <2> QED
    BY <2>1, ThreadAssumption DEF ClampIter, Lesser
<1>5. rounds \in 0 .. iter /\ stop \in BOOLEAN
  <2>1. rounds = 0 /\ stop = FALSE
    BY DEF Init
  <2>2. iter \in Nat /\ 0 <= iter
    BY <1>4, ThreadAssumption
  <2>3. rounds \in 0 .. iter
    BY <2>1, <2>2
  <2>4. stop \in BOOLEAN
    BY <2>1
  <2> QED
    BY <2>3, <2>4
<1> QED
  BY <1>1, <1>2, <1>3, <1>4, <1>5 DEF ControlOK

LEMMA DataInit == Init => DataOK
<1> SUFFICES ASSUME Init PROVE DataOK
  OBVIOUS
<1>1. g \in [Threads -> States]
  BY ResetStateType, ThreadBStateType DEF Init, Each
<1>2. \A t \in Threads : g[t].buf_alloc >= BufPoolBase
  <2>1. g[A].buf_alloc = BufPoolBase /\ g[B].buf_alloc = BufPoolMid
    BY ThreadsApart DEF Init, Each, ResetState, ThreadBState
  <2>2. BufPoolMid >= BufPoolBase /\ BufPoolBase >= BufPoolBase
    BY Layout, PoolAssumption DEF BufPoolMid
  <2> QED
    BY <2>1, <2>2 DEF Threads
<1>3. ram \in Rams
  BY RamInitType DEF Init
<1>4. dev \in Devices
  BY DevInitType DEF Init, Devices, StatusBits
<1>5. todo \in [Threads -> Seq(Accs)]
  BY DEF Init
<1> QED
  BY <1>1, <1>2, <1>3, <1>4, <1>5 DEF DataOK

LEMMA ControlStep == ControlOK /\ [Next]_vars => ControlOK'
<1> SUFFICES ASSUME ControlOK, [Next]_vars PROVE ControlOK'
  OBVIOUS
<1> USE DEF ControlOK
<1>0. \A t \in Threads : OpsOf(t) \in Nat
  BY OpsOfType
<1>1. ASSUME UNCHANGED <<prog, iter, pc, at, rounds, stop>> PROVE ControlOK'
  BY <1>1 DEF OpsOf
<1>2. ASSUME NEW t \in Threads, BeginOp(t) PROVE ControlOK'
  <2>1. /\ UNCHANGED <<prog, iter, pc, rounds, stop>>
        /\ at' = [at EXCEPT ![t] = at[t] + 1] /\ at[t] < OpsOf(t)
    BY <1>2 DEF BeginOp
  <2>2. at' \in [Threads -> Nat] /\ \A s \in Threads : at'[s] <= OpsOf(s)
    BY <1>0, <2>1
  <2>3. \A s \in Threads : OpsOf(s)' = OpsOf(s)
    BY <2>1 DEF OpsOf
  <2> QED
    BY <2>1, <2>2, <2>3
<1>3. ASSUME NEW t \in Threads, Access(t) PROVE ControlOK'
  <2>1. UNCHANGED <<prog, iter, pc, at, rounds, stop>>
    BY <1>3 DEF Access, WriteRegister, ReadStatus, WriteStatus, ReadIsr,
       ReadNumMax, StoreBuffer, StoreDesc, StoreRing, StoreIdx, GoOn
  <2> QED
    BY <1>1, <2>1
<1>4. ASSUME StopB \/ Join \/ EndRound \/ EndB PROVE ControlOK'
  <2>1. UNCHANGED <<prog, iter, at, rounds>>
    BY <1>4 DEF StopB, Join, EndRound, EndB
  <2>2. stop' \in BOOLEAN
    BY <1>4 DEF StopB, Join, EndRound, EndB
  <2>3. /\ pc' = [t \in Threads |-> pc'[t]]
        /\ pc'[A] \in {"ops", "join", "done"}
        /\ pc'[B] \in {"loop", "ops", "done"}
    BY <1>4, ThreadsApart DEF StopB, Join, EndRound, EndB
  <2>4. \A s \in Threads : OpsOf(s)' = OpsOf(s)
    BY <2>1 DEF OpsOf
  <2> QED
    BY <2>1, <2>2, <2>3, <2>4
<1>5. ASSUME BeginRound PROVE ControlOK'
  <2>1. /\ UNCHANGED <<prog, iter, stop>> /\ rounds' = rounds + 1
        /\ rounds < iter /\ pc' = [pc EXCEPT ![B] = "ops"]
        /\ at' = [at EXCEPT ![B] = 0]
    BY <1>5 DEF BeginRound, NextRound
  <2>2. /\ pc' = [t \in Threads |-> pc'[t]]
        /\ pc'[A] \in {"ops", "join", "done"}
        /\ pc'[B] \in {"loop", "ops", "done"}
    BY <2>1, ThreadsApart
  <2>3. at' \in [Threads -> Nat] /\ \A s \in Threads : at'[s] <= OpsOf(s)
    <3>1. at' \in [Threads -> Nat] /\ at'[B] = 0
      <4>1. 0 \in Nat
        OBVIOUS
      <4> QED
        BY <2>1, <4>1, ThreadsApart
    <3>2. ASSUME NEW s \in Threads PROVE at'[s] <= OpsOf(s)
      <4>1. CASE s = B
        BY <1>0, <3>1, <4>1
      <4>2. CASE s # B
        BY <2>1, <4>2
      <4> QED
        BY <4>1, <4>2
    <3> QED
      BY <3>1, <3>2
  <2>4. \A s \in Threads : OpsOf(s)' = OpsOf(s)
    BY <2>1 DEF OpsOf
  <2>5. rounds' \in 0 .. iter'
    BY <2>1, ThreadAssumption
  <2> QED
    BY <2>1, <2>2, <2>3, <2>4, <2>5
<1>6. ASSUME UNCHANGED vars PROVE ControlOK'
  BY <1>1, <1>6 DEF vars
<1> QED
  BY <1>2, <1>3, <1>4, <1>5, <1>6, ThreadsApart DEF Next, StepA, StepB, Returned

\* The accesses of a thread after one of them, whatever set they are of.
LEMMA GoOnType ==
  ASSUME NEW S, todo \in [Threads -> Seq(S)], NEW t \in Threads,
         todo[t] # <<>>, NEW more \in Seq(S), GoOn(t, more)
  PROVE  Head(todo[t]) \in S /\ todo' \in [Threads -> Seq(S)]
<1>1. todo[t] \in Seq(S)
  OBVIOUS
<1>2. Head(todo[t]) \in S /\ Tail(todo[t]) \in Seq(S)
  BY <1>1, HeadTailProperties
<1>3. more \o Tail(todo[t]) \in Seq(S)
  BY <1>2, ConcatProperties
<1>4. todo' = [todo EXCEPT ![t] = more \o Tail(todo[t])]
  BY DEF GoOn
<1> QED
  BY <1>2, <1>3, <1>4

\* A thread whose program is not finished has a well-formed operation next.
LEMMA NextOperation ==
  ASSUME ControlOK, NEW t \in Threads, BeginOp(t)
  PROVE  WellFormed(prog[t][at[t] + 1])
<1>1. /\ at[t] \in Nat /\ at[t] < OpsOf(t) /\ OpsOf(t) \in Nat
      /\ prog[t] \in ProgramsA \cup ProgramsB
  BY OpsOfType DEF ControlOK, BeginOp, Threads
<1>2. OpsOf(t) <= Len(prog[t])
  <2>1. Len(prog[t]) \in Nat /\ (t = A \/ t = B)
    BY <1>1, ProgramsAssumption DEF Threads
  <2> QED
    BY <2>1, ThreadAssumption DEF OpsOf, Lesser
<1>3. Len(prog[t]) \in Nat
  BY <1>1, ProgramsAssumption
<1>4. at[t] + 1 \in 1 .. Len(prog[t])
  BY <1>1, <1>2, <1>3
<1> QED
  BY <1>1, <1>4, ProgramsAssumption

LEMMA DataBeginOp ==
  ASSUME ControlOK, DataOK, NEW t \in Threads, BeginOp(t)
  PROVE  DataOK'
<1> DEFINE op == prog[t][at[t] + 1]
<1>1. /\ todo' = [todo EXCEPT ![t] = Accesses(g[t], op)]
      /\ g' = [g EXCEPT ![t] = After(g[t], op)]
      /\ UNCHANGED <<ram, dev>>
  BY DEF BeginOp
<1>2. WellFormed(op)
  BY NextOperation
<1> HIDE DEF op
<1>3. g[t] \in States /\ g[t].buf_alloc >= BufPoolBase
  BY DEF DataOK
<1>4. Accesses(g[t], op) \in Seq(Accs)
  BY <1>2, <1>3, AccessesType
<1>5. After(g[t], op) \in States /\ After(g[t], op).buf_alloc >= BufPoolBase
  BY <1>2, <1>3, AfterType
<1> QED
  BY <1>1, <1>4, <1>5 DEF DataOK

\* Which accesses a thread goes on with after one that reads.
LEMMA QueueRegistersAccs ==
  ASSUME NEW q \in VqStates, NEW size \in 1 .. QueueNumMax
  PROVE  QueueRegisters(q, size) \in Seq(Accs)
<1>1. QueueRegisters(q, size) \in Seq(TameAccs)
  BY QueueRegistersType
<1> QED
  BY <1>1 DEF TameAccs

LEMMA DataAccess ==
  ASSUME DataOK, NEW t \in Threads, Access(t)
  PROVE  DataOK'
<1> DEFINE a == Head(todo[t])
<1>0. /\ g \in [Threads -> States] /\ \A s \in Threads : g[s].buf_alloc >= BufPoolBase
      /\ ram \in Rams /\ dev \in Devices /\ todo \in [Threads -> Seq(Accs)]
  BY DEF DataOK
<1>1. todo[t] # <<>>
  BY DEF Access, WriteRegister, ReadStatus, WriteStatus, ReadIsr, ReadNumMax,
         StoreBuffer, StoreDesc, StoreRing, StoreIdx, Do
<1>2. a \in Accs
  BY <1>0, <1>1, HeadTailProperties
<1>3. <<>> \in Seq(Accs)
  OBVIOUS
<1>4. ASSUME NEW more \in Seq(Accs), GoOn(t, more)
      PROVE  todo' \in [Threads -> Seq(Accs)]
  BY <1>0, <1>1, <1>4, GoOnType
<1>5. CASE WriteRegister(t)
  <2>1. /\ a.do = "reg" /\ dev' = MmioWrite(dev, ram, a.off, a.v)
        /\ GoOn(t, <<>>) /\ UNCHANGED <<g, ram>>
    BY <1>5 DEF WriteRegister, Do
  <2>2. dev' \in Devices
    <3>1. a.off \in Nat /\ a.v \in Nat
      BY <1>2, <2>1, AccFields
    <3> HIDE DEF a
    <3> QED
      BY <1>0, <2>1, <3>1, MmioWriteType
  <2>3. todo' \in [Threads -> Seq(Accs)]
    BY <1>3, <1>4, <2>1
  <2> QED
    BY <1>0, <2>1, <2>2, <2>3 DEF DataOK
<1>6. CASE ReadStatus(t)
  <2>1. /\ a.do = "or_status" /\ GoOn(t, <<PutStatus(dev.status \cup a.bits)>>)
        /\ UNCHANGED <<g, ram, dev>>
    BY <1>6 DEF ReadStatus, Do
  <2>2. PutStatus(dev.status \cup a.bits) \in Accs
    <3>1. dev.status \cup a.bits \in SUBSET StatusBits
      BY <1>0, <1>2, <2>1, AccFields DEF Devices
    <3> QED
      BY <3>1, StatusAcc
  <2>3. todo' \in [Threads -> Seq(Accs)]
    BY <1>4, <2>1, <2>2, SeqOf
  <2> QED
    BY <1>0, <2>1, <2>3 DEF DataOK
<1>7. CASE WriteStatus(t)
  <2>1. /\ a.do = "put_status" /\ dev' = SetDevStatus(dev, a.bits)
        /\ GoOn(t, <<>>) /\ UNCHANGED <<g, ram>>
    BY <1>7 DEF WriteStatus, Do
  <2>2. dev' \in Devices
    BY <1>0, <1>2, <2>1, AccFields, SetDevStatusQuiet
  <2>3. todo' \in [Threads -> Seq(Accs)]
    BY <1>3, <1>4, <2>1
  <2> QED
    BY <1>0, <2>1, <2>2, <2>3 DEF DataOK
<1>8. CASE ReadIsr(t)
  <2>1. /\ GoOn(t, IF dev.isr THEN <<Reg(R_INT_ACK, 1)>> ELSE <<>>)
        /\ UNCHANGED <<g, ram, dev>>
    BY <1>8 DEF ReadIsr
  <2>2. Reg(R_INT_ACK, 1) \in Accs
    <3>1. R_INT_ACK \in Nat /\ 1 \in Nat
      BY DEF R_INT_ACK
    <3> QED
      BY <3>1, RegAcc
  <2>3. (IF dev.isr THEN <<Reg(R_INT_ACK, 1)>> ELSE <<>>) \in Seq(Accs)
    BY <1>3, <2>2, SeqOf
  <2>4. todo' \in [Threads -> Seq(Accs)]
    BY <1>4, <2>1, <2>3
  <2> QED
    BY <1>0, <2>1, <2>4 DEF DataOK
<1>9. CASE ReadNumMax(t)
  <2> DEFINE size == SizeFor(a.size)
  <2>1. /\ a.do = "num_max" /\ UNCHANGED <<ram, dev>>
        /\ \/ GoOn(t, <<>>) /\ UNCHANGED g
           \/ /\ g' = [g EXCEPT ![t] = WithSize(g[t], a.i, size)]
              /\ GoOn(t, QueueRegisters(g[t].vqs[a.i], size))
    BY <1>9 DEF ReadNumMax, Do
  <2>2. a.i \in Queues /\ a.size \in Nat
    BY <1>2, <2>1, AccFields
  <2>3. size \in 1 .. QueueNumMax
    BY <2>2, QueueSize
  <2> HIDE DEF size, a
  <2>4. g[t] \in States /\ g[t].vqs[a.i] \in VqStates
    BY <1>0, <2>2 DEF States
  <2>5. /\ WithSize(g[t], a.i, size) \in States
        /\ WithSize(g[t], a.i, size).buf_alloc >= BufPoolBase
    <3>1. WithSize(g[t], a.i, size).buf_alloc = g[t].buf_alloc
      BY <2>4 DEF WithSize, States
    <3> QED
      BY <1>0, <2>2, <2>3, <2>4, <3>1, WithSizeType
  <2>6. QueueRegisters(g[t].vqs[a.i], size) \in Seq(Accs)
    BY <2>3, <2>4, QueueRegistersAccs
  <2>7. todo' \in [Threads -> Seq(Accs)]
    BY <1>3, <1>4, <2>1, <2>6
  <2>8. /\ g' \in [Threads -> States]
        /\ \A s \in Threads : g'[s].buf_alloc >= BufPoolBase
    BY <1>0, <2>1, <2>5
  <2> QED
    BY <1>0, <2>1, <2>7, <2>8 DEF DataOK
<1>10. CASE StoreBuffer(t)
  <2>1. GoOn(t, <<>>) /\ UNCHANGED <<g, dev, ram>>
    BY <1>10 DEF StoreBuffer
  <2>2. todo' \in [Threads -> Seq(Accs)]
    BY <1>3, <1>4, <2>1
  <2> QED
    BY <1>0, <2>1, <2>2 DEF DataOK
<1>12. CASE StoreDesc(t)
  <2>1. /\ a.do = "desc" /\ ram' = PutDesc(ram, a.table, a.slot, a.d)
        /\ GoOn(t, <<>>) /\ UNCHANGED <<g, dev>>
    BY <1>12 DEF StoreDesc, Do
  <2>2. ram' \in Rams
    <3>1. a.slot \in Slots /\ a.d \in Descriptors /\ 0 \in Nat
      BY <1>2, <2>1, AccFields
    <3> HIDE DEF a
    <3> QED
      BY <1>0, <2>1, <3>1, PutType
  <2>3. todo' \in [Threads -> Seq(Accs)]
    BY <1>3, <1>4, <2>1
  <2> QED
    BY <1>0, <2>1, <2>2, <2>3 DEF DataOK
<1>13. CASE StoreRing(t)
  <2>1. /\ a.do = "ring" /\ ram' = PutRing(ram, a.avail, a.slot, a.v)
        /\ GoOn(t, <<>>) /\ UNCHANGED <<g, dev>>
    BY <1>13 DEF StoreRing, Do
  <2>2. ram' \in Rams
    <3>1. a.slot \in Slots /\ a.v \in Nat
      BY <1>2, <2>1, AccFields
    <3> HIDE DEF a
    <3> QED
      BY <1>0, <2>1, <3>1 DEF PutRing, Rams
  <2>3. todo' \in [Threads -> Seq(Accs)]
    BY <1>3, <1>4, <2>1
  <2> QED
    BY <1>0, <2>1, <2>2, <2>3 DEF DataOK
<1>14. CASE StoreIdx(t)
  <2>1. /\ a.do = "idx" /\ ram' = PutIdx(ram, a.avail, a.v)
        /\ GoOn(t, <<>>) /\ UNCHANGED <<g, dev>>
    BY <1>14 DEF StoreIdx, Do
  <2>2. ram' \in Rams
    <3>1. a.v \in Nat
      BY <1>2, <2>1, AccFields
    <3> HIDE DEF a
    <3> QED
      BY <1>0, <2>1, <3>1 DEF PutIdx, Rams
  <2>3. todo' \in [Threads -> Seq(Accs)]
    BY <1>3, <1>4, <2>1
  <2> QED
    BY <1>0, <2>1, <2>2, <2>3 DEF DataOK
<1> QED
  BY <1>5, <1>6, <1>7, <1>8, <1>9, <1>10, <1>12, <1>13, <1>14 DEF Access

LEMMA DataStep == ControlOK /\ DataOK /\ [Next]_vars => DataOK'
<1> SUFFICES ASSUME ControlOK, DataOK, [Next]_vars PROVE DataOK'
  OBVIOUS
<1>1. ASSUME UNCHANGED <<g, ram, dev, todo>> PROVE DataOK'
  BY <1>1 DEF DataOK
<1>2. CASE UNCHANGED vars
  BY <1>1, <1>2 DEF vars
<1>3. CASE StopB \/ Join \/ BeginRound \/ EndRound \/ EndB
  BY <1>1, <1>3 DEF StopB, Join, BeginRound, EndRound, EndB
<1>4. CASE \E t \in Threads : BeginOp(t)
  BY <1>4, DataBeginOp
<1>5. CASE \E t \in Threads : Access(t)
  BY <1>5, DataAccess
<1> QED
  BY <1>2, <1>3, <1>4, <1>5, ThreadsApart DEF Next, StepA, StepB, Returned

\* Type correctness of the concurrent mode.  The two halves are inductive
\* together: what an operation leaves to do is well formed because the program
\* and the State are, and every access keeps the device and memory in shape.
THEOREM ThreadsTyped == Spec => []TypeOK
<1>1. Init => ControlOK /\ DataOK
  BY ControlInit, DataInit
<1>2. ControlOK /\ DataOK /\ [Next]_vars => (ControlOK /\ DataOK)'
  BY ControlStep, DataStep
<1>3. ControlOK /\ DataOK => TypeOK
  <2> SUFFICES ASSUME ControlOK, DataOK PROVE TypeOK
    OBVIOUS
  <2>1. ASSUME NEW t \in Threads PROVE at[t] \in 0 .. OpsOf(t)
    <3>1. OpsOf(t) \in Nat /\ at[t] \in Nat /\ at[t] <= OpsOf(t)
      BY OpsOfType DEF ControlOK
    <3> QED
      BY <3>1
  <2> QED
    BY <2>1 DEF ControlOK, DataOK, TypeOK
<1> QED
  BY <1>1, <1>2, <1>3, PTL DEF Spec

----------------------------------------------------------------------------
(* Where the two threads write *)

\* A program that sets no queue up, and accesses that lead to no setup.
NoSetup(p) == \A k \in 1 .. Len(p) : p[k].kind # "VqSetup"

NoAsk == {a \in Accs : a.do # "num_max"}

\* Thread A adds to its own tables, and has not used more slots of any than it
\* has begun operations.
OwnTables ==
  \A i \in Queues :
    /\ g[A].vqs[i].desc_gpa = DescGpa(i) /\ g[A].vqs[i].avail_gpa = AvailGpa(i)
    /\ g[A].vqs[i].next_desc_idx <= at[A]

\* A thread B that sets no queue up has none.
NoQueues ==
  NoSetup(prog[B]) => /\ \A i \in Queues : g[B].vqs[i].size = 0
                      /\ todo[B] \in Seq(NoAsk)

WInv == /\ ControlOK /\ DataOK
        /\ OwnTables /\ NoQueues
        /\ todo \in [Threads -> Seq(TameAccs)]
        /\ Confined(wrote)

LEMMA InitWInv == Init => WInv
<1> SUFFICES ASSUME Init PROVE WInv
  OBVIOUS
<1>1. ControlOK /\ DataOK
  BY ControlInit, DataInit
<1>2. g[A] = ResetState /\ g[B] = ThreadBState /\ at[A] = 0
  BY ThreadsApart DEF Init, Each
<1>3. OwnTables
  BY <1>2 DEF OwnTables, ResetState, FreshVq
<1>4. todo = [t \in Threads |-> <<>>]
  BY DEF Init
<1>5. \A i \in Queues : g[B].vqs[i].size = 0
  BY <1>2 DEF ThreadBState, ZeroVq
<1>6. todo[B] \in Seq(NoAsk) /\ todo \in [Threads -> Seq(TameAccs)]
  BY <1>4, ThreadsApart
<1>7. Confined(wrote)
  <2>1. BufPoolBase >= BufPoolBase /\ BufPoolBase + 0 <= BufPoolEnd
    BY Layout, PoolAssumption
  <2> QED
    BY <2>1, BufferConfined DEF Init
<1> QED
  BY <1>1, <1>3, <1>5, <1>6, <1>7 DEF WInv, NoQueues

\* The operation a thread begins is one of its program.
LEMMA OperationOf ==
  ASSUME ControlOK, NEW t \in Threads, BeginOp(t)
  PROVE  \E k \in 1 .. Len(prog[t]) : k = at[t] + 1
<1>1. /\ at[t] \in Nat /\ at[t] < OpsOf(t) /\ OpsOf(t) \in Nat
      /\ prog[t] \in ProgramsA \cup ProgramsB
  BY OpsOfType DEF ControlOK, BeginOp, Threads
<1>2. Len(prog[t]) \in Nat /\ (t = A \/ t = B)
  BY <1>1, ProgramsAssumption DEF Threads
<1>3. OpsOf(t) <= Len(prog[t])
  BY <1>2, ThreadAssumption DEF OpsOf, Lesser
<1> QED
  BY <1>1, <1>2, <1>3

LEMMA PlacesInArea ==
  ASSUME NoRingsInB, WInv, NEW t \in Threads, BeginOp(t),
         Places(g[t], prog[t][at[t] + 1])
  PROVE  /\ t = A
         /\ InArea(g[t].vqs[prog[t][at[t] + 1].i], prog[t][at[t] + 1].i)
<1> DEFINE op == prog[t][at[t] + 1]
<1>1. ControlOK /\ DataOK /\ WellFormed(op)
  BY NextOperation DEF WInv
<1>2. PICK k \in 1 .. Len(prog[t]) : k = at[t] + 1
  BY <1>1, OperationOf
<1>3. op = prog[t][k]
  BY <1>2
<1> HIDE DEF op
<1>4. Places(g[t], op)
  BY DEF op
<1>5. /\ op.kind = "VqAddDesc" /\ CanAddDesc(g[t], op.i, op.id, op.region)
      /\ g[t].vqs[op.i].size # 0 /\ op.i \in Queues
  BY <1>4 DEF Places, CanAddDesc
<1>6. g[t] \in States
  BY <1>1 DEF DataOK
<1>7. t = A
  <2> SUFFICES ASSUME t # A PROVE FALSE
    OBVIOUS
  <2>1. t = B
    BY DEF Threads
  <2>2. prog[B] \in ProgramsB
    BY <1>1 DEF ControlOK
  <2>3. NoSetup(prog[B])
    BY <1>3, <1>5, <2>1, <2>2 DEF NoRingsInB, NoSetup
  <2> QED
    BY <1>5, <2>1, <2>3 DEF WInv, NoQueues
<1> DEFINE q == g[t].vqs[op.i]
<1>8. q.desc_gpa = DescGpa(op.i) /\ q.avail_gpa = AvailGpa(op.i)
      /\ q.next_desc_idx <= at[A]
  BY <1>5, <1>7 DEF WInv, OwnTables
<1>9. /\ q \in VqStates /\ Slot(q) \in Slots /\ Slot(q) <= q.next_desc_idx
  <2>1. /\ op.i \in Nat /\ op.id \in Nat /\ op.len \in Nat /\ op.region \in Nat
        /\ op.region = 0 => op.id \in BufIds
    BY <1>1, <1>5 DEF WellFormed
  <2> QED
    BY <1>5, <1>6, <2>1, AddDescParts
<1>10. 16 * Slot(q) + 16 <= VqDescSize
  <2>1. Slot(q) \in Nat /\ q.next_desc_idx \in Nat
    BY <1>9, SizeAssumption DEF Slots, VqStates
  <2>2. at[A] \in Nat /\ at[A] < MaxOps
    <3>1. at[A] \in Nat /\ at[A] < OpsOf(A) /\ OpsOf(A) \in Nat
      BY <1>1, <1>7, OpsOfType DEF BeginOp, ControlOK
    <3>2. OpsOf(A) <= MaxOps
      <4>1. Len(prog[A]) \in Nat
        BY <1>1, ProgramsAssumption DEF ControlOK
      <4> QED
        BY <4>1, ThreadAssumption DEF OpsOf, Lesser
    <3> QED
      BY <3>1, <3>2, ThreadAssumption
  <2> HIDE DEF q
  <2> QED
    BY <1>8, <1>9, <2>1, <2>2, ThreadAssumption, PoolAssumption
<1>11. InArea(q, op.i)
  BY <1>8, <1>10 DEF InArea
<1> QED
  BY <1>7, <1>11 DEF op

LEMMA BeginOpWInv ==
  ASSUME NoRingsInB, WInv, NEW t \in Threads, BeginOp(t)
  PROVE  /\ todo' \in [Threads -> Seq(TameAccs)]
         /\ OwnTables' /\ NoQueues' /\ Confined(wrote)'
<1> DEFINE op == prog[t][at[t] + 1]
           s  == g[t]
           u  == After(g[t], op)
<1>1. /\ todo' = [todo EXCEPT ![t] = Accesses(s, op)]
      /\ g' = [g EXCEPT ![t] = u]
      /\ at' = [at EXCEPT ![t] = at[t] + 1]
      /\ UNCHANGED <<prog, wrote>>
  BY DEF BeginOp
<1>2. ControlOK /\ DataOK /\ WellFormed(op)
  BY NextOperation DEF WInv
<1>3. /\ s \in States /\ s.buf_alloc >= BufPoolBase
      /\ g \in [Threads -> States] /\ todo \in [Threads -> Seq(Accs)]
      /\ at \in [Threads -> Nat] /\ todo \in [Threads -> Seq(TameAccs)]
  BY <1>2 DEF DataOK, ControlOK, WInv
<1>4. Places(s, op) => t = A /\ InArea(s.vqs[op.i], op.i)
  BY PlacesInArea
<1>5. NoSetup(prog[B]) /\ t = B => op.kind # "VqSetup"
  <2>1. PICK k \in 1 .. Len(prog[t]) : k = at[t] + 1
    BY <1>2, OperationOf
  <2> QED
    BY <2>1 DEF NoSetup
<1> HIDE DEF op
<1>6. Accesses(s, op) \in Seq(Accs) /\ Accesses(s, op) \in Seq(TameAccs)
  BY <1>2, <1>3, <1>4, AccessesType
<1>7. todo' \in [Threads -> Seq(TameAccs)]
  BY <1>1, <1>3, <1>6
<1>8. \/ u = s
      \/ u = ResetState
      \/ \E len \in 0 .. MaxData : op.id \in BufIds /\ u = WithBuffer(s, op.id, len)
      \/ /\ Places(s, op) /\ op.i \in Queues /\ op.more \in BOOLEAN
         /\ u = AfterAddDesc(s, op.i, op.more) /\ u \in States
  BY <1>2, <1>3, AfterCases
<1> HIDE DEF s, u
<1>9. OwnTables'
  <2>1. CASE t # A
    <3>1. g'[A] = g[A] /\ at'[A] = at[A]
      BY <1>1, <2>1, ThreadsApart
    <3> QED
      BY <3>1 DEF OwnTables, WInv
  <2>2. CASE t = A
    <3>1. g'[A] = u /\ at'[A] = at[A] + 1 /\ s = g[A] /\ at[A] \in Nat
      BY <1>1, <1>3, <2>2, ThreadsApart DEF s
    <3>2. \A i \in Queues :
            /\ s.vqs[i].desc_gpa = DescGpa(i) /\ s.vqs[i].avail_gpa = AvailGpa(i)
            /\ s.vqs[i].next_desc_idx <= at[A] /\ s.vqs[i].next_desc_idx \in Nat
      BY <1>3, <3>1 DEF WInv, OwnTables, States, VqStates
    <3> SUFFICES ASSUME NEW i \in Queues
                 PROVE  /\ u.vqs[i].desc_gpa = DescGpa(i)
                        /\ u.vqs[i].avail_gpa = AvailGpa(i)
                        /\ u.vqs[i].next_desc_idx <= at[A] + 1
      BY <3>1 DEF OwnTables
    <3>3. CASE u = s
      BY <3>1, <3>2, <3>3
    <3>4. CASE u = ResetState
      BY <3>1, <3>4 DEF ResetState, FreshVq
    <3>5. ASSUME NEW len \in 0 .. MaxData, u = WithBuffer(s, op.id, len)
          PROVE  u.vqs[i] = s.vqs[i]
      BY <1>3, <3>5 DEF WithBuffer, States
    <3>6. ASSUME u = AfterAddDesc(s, op.i, op.more), u \in States,
                 op.i \in Queues, op.more \in BOOLEAN
          PROVE  /\ u.vqs[i].desc_gpa = s.vqs[i].desc_gpa
                 /\ u.vqs[i].avail_gpa = s.vqs[i].avail_gpa
                 /\ u.vqs[i].next_desc_idx \in {s.vqs[i].next_desc_idx,
                                                s.vqs[i].next_desc_idx + 1}
      <4>1. CASE i = op.i
        BY <1>3, <3>6, <4>1, AddedQueue
      <4>2. CASE i # op.i
        BY <1>3, <3>6, <4>2, AddedQueue
      <4> QED
        BY <4>1, <4>2
    <3> QED
      BY <1>8, <3>1, <3>2, <3>3, <3>4, <3>5, <3>6
  <2> QED
    BY <2>1, <2>2
<1>10. NoQueues'
  <2> SUFFICES ASSUME NoSetup(prog[B])
               PROVE  /\ \A i \in Queues : g'[B].vqs[i].size = 0
                      /\ todo'[B] \in Seq(NoAsk)
    BY <1>1 DEF NoQueues
  <2>1. /\ \A i \in Queues : g[B].vqs[i].size = 0
        /\ todo[B] \in Seq(NoAsk)
    BY DEF WInv, NoQueues
  <2>2. CASE t # B
    BY <1>1, <2>1, <2>2, ThreadsApart
  <2>3. CASE t = B
    <3>1. g'[B] = u /\ todo'[B] = Accesses(s, op) /\ s = g[B]
      BY <1>1, <1>3, <2>3, ThreadsApart DEF s
    <3>2. \A k \in 1 .. Len(Accesses(s, op)) : Accesses(s, op)[k].do # "num_max"
      BY <1>5, <2>3, PlainAccesses DEF Plain
    <3>3. Accesses(s, op) \in Seq(NoAsk)
      <4> DEFINE x == Accesses(s, op)
      <4>1. x \in Seq(Accs) /\ \A k \in 1 .. Len(x) : x[k].do # "num_max"
        BY <1>6, <3>2
      <4> HIDE DEF x
      <4>2. x \in Seq(NoAsk)
        BY <4>1 DEF NoAsk
      <4> QED
        BY <4>2 DEF x
    <3>4. ~Places(s, op)
      BY <1>4, <2>3, ThreadsApart
    <3>5. ASSUME NEW len \in 0 .. MaxData, u = WithBuffer(s, op.id, len)
          PROVE  u.vqs = s.vqs
      BY <1>3, <3>5 DEF WithBuffer, States
    <3>6. u = ResetState => \A i \in Queues : u.vqs[i].size = 0
      BY DEF ResetState, FreshVq
    <3>7. \A i \in Queues : u.vqs[i].size = 0
      BY <1>8, <2>1, <3>1, <3>4, <3>5, <3>6
    <3> QED
      BY <3>1, <3>3, <3>7
  <2> QED
    BY <2>2, <2>3
<1>11. Confined(wrote)'
  BY <1>1 DEF WInv, Confined
<1> QED
  BY <1>7, <1>9, <1>10, <1>11

\* What one access leaves to do: nothing more, or accesses that write no memory,
\* and a question for QUEUE_NUM_MAX never leads to another.
LEMMA AccessMore ==
  ASSUME DataOK, NEW t \in Threads, Access(t)
  PROVE  /\ todo[t] # <<>>
         /\ \E more \in Seq(TameAccs) :
              /\ GoOn(t, more)
              /\ Head(todo[t]).do # "num_max" => more \in Seq(NoAsk)
         /\ \/ UNCHANGED g
            \/ /\ Head(todo[t]).do = "num_max"
               /\ \E i \in Queues, size \in 1 .. QueueNumMax :
                    g' = [g EXCEPT ![t] = WithSize(g[t], i, size)]
         /\ wrote' = wrote \/ wrote' = Stores(Head(todo[t]))
<1> DEFINE a == Head(todo[t])
           Goal == /\ \E more \in Seq(TameAccs) :
                        /\ GoOn(t, more)
                        /\ a.do # "num_max" => more \in Seq(NoAsk)
                   /\ \/ UNCHANGED g
                      \/ /\ a.do = "num_max"
                         /\ \E i \in Queues, size \in 1 .. QueueNumMax :
                              g' = [g EXCEPT ![t] = WithSize(g[t], i, size)]
                   /\ wrote' = wrote \/ wrote' = Stores(a)
<1>1. todo[t] # <<>>
  BY DEF Access, WriteRegister, ReadStatus, WriteStatus, ReadIsr, ReadNumMax,
         StoreBuffer, StoreDesc, StoreRing, StoreIdx, Do
<1>2. a \in Accs
  BY <1>1, HeadTailProperties DEF DataOK
<1>3. <<>> \in Seq(TameAccs) /\ <<>> \in Seq(NoAsk)
  OBVIOUS
<1>4. ASSUME NEW b \in Accs, b.do \notin {"buffer", "desc", "ring", "idx"},
             b.do # "num_max"
      PROVE  <<b>> \in Seq(TameAccs) /\ <<b>> \in Seq(NoAsk)
  <2>1. b \in TameAccs /\ b \in NoAsk
    BY <1>4, OtherTame DEF NoAsk
  <2> QED
    BY <2>1, SeqOf
<1>5. ASSUME GoOn(t, <<>>), UNCHANGED g, wrote' = wrote \/ wrote' = Stores(a)
      PROVE  Goal
  BY <1>3, <1>5
<1>6. ASSUME WriteRegister(t) \/ WriteStatus(t) PROVE Goal
  BY <1>5, <1>6 DEF WriteRegister, WriteStatus
<1>7. ASSUME StoreBuffer(t) PROVE Goal
  <2>1. /\ a.do = "buffer" /\ GoOn(t, <<>>) /\ UNCHANGED g
        /\ wrote' = Write("buffer", a.gpa, a.len)
    BY <1>7 DEF StoreBuffer, Do
  <2>2. wrote' = Stores(a)
    BY <2>1 DEF Stores
  <2> QED
    BY <1>5, <2>1, <2>2
<1>8. ASSUME StoreDesc(t) PROVE Goal
  <2>1. /\ a.do = "desc" /\ GoOn(t, <<>>) /\ UNCHANGED g
        /\ wrote' = Write("desc", a.table + 16 * a.slot, 16)
    BY <1>8 DEF StoreDesc, Do
  <2>2. wrote' = Stores(a)
    BY <2>1 DEF Stores
  <2> QED
    BY <1>5, <2>1, <2>2
<1>9. ASSUME StoreRing(t) PROVE Goal
  <2>1. /\ a.do = "ring" /\ GoOn(t, <<>>) /\ UNCHANGED g
        /\ wrote' = Write("avail", a.avail + 4 + 2 * a.slot, 2)
    BY <1>9 DEF StoreRing, Do
  <2>2. wrote' = Stores(a)
    BY <2>1 DEF Stores
  <2> QED
    BY <1>5, <2>1, <2>2
<1>10. ASSUME StoreIdx(t) PROVE Goal
  <2>1. /\ a.do = "idx" /\ GoOn(t, <<>>) /\ UNCHANGED g
        /\ wrote' = Write("avail", a.avail + 2, 2)
    BY <1>10 DEF StoreIdx, Do
  <2>2. wrote' = Stores(a)
    BY <2>1 DEF Stores
  <2> QED
    BY <1>5, <2>1, <2>2
<1>11. ASSUME ReadStatus(t) PROVE Goal
  <2>1. /\ a.do = "or_status" /\ GoOn(t, <<PutStatus(dev.status \cup a.bits)>>)
        /\ UNCHANGED <<g, wrote>>
    BY <1>11 DEF ReadStatus, Do
  <2> DEFINE b == PutStatus(dev.status \cup a.bits)
  <2>2. b \in Accs /\ b.do = "put_status"
    <3>1. dev.status \cup a.bits \in SUBSET StatusBits
      BY <1>2, <2>1, AccFields DEF Devices, DataOK
    <3>2. PutStatus(dev.status \cup a.bits).do = "put_status"
      BY DEF PutStatus
    <3> QED
      BY <3>1, <3>2, StatusAcc
  <2> HIDE DEF b
  <2>3. <<b>> \in Seq(TameAccs) /\ <<b>> \in Seq(NoAsk)
    BY <1>4, <2>2
  <2>4. GoOn(t, <<b>>)
    BY <2>1 DEF b
  <2> QED
    BY <2>1, <2>3, <2>4
<1>12. ASSUME ReadIsr(t) PROVE Goal
  <2> DEFINE b == Reg(R_INT_ACK, 1)
  <2>1. /\ GoOn(t, IF dev.isr THEN <<b>> ELSE <<>>)
        /\ UNCHANGED <<g, wrote>>
    BY <1>12 DEF ReadIsr
  <2>2. b \in Accs /\ b.do = "reg"
    <3>1. R_INT_ACK \in Nat /\ 1 \in Nat
      BY DEF R_INT_ACK
    <3>2. Reg(R_INT_ACK, 1).do = "reg"
      BY DEF Reg
    <3> QED
      BY <3>1, <3>2, RegAcc
  <2> HIDE DEF b
  <2>3. <<b>> \in Seq(TameAccs) /\ <<b>> \in Seq(NoAsk)
    BY <1>4, <2>2
  <2>4. CASE dev.isr
    BY <2>1, <2>3, <2>4
  <2>5. CASE ~dev.isr
    BY <1>5, <2>1, <2>5
  <2> QED
    BY <2>4, <2>5
<1>13. ASSUME ReadNumMax(t) PROVE Goal
  <2> DEFINE size == SizeFor(a.size)
             more == QueueRegisters(g[t].vqs[a.i], size)
  <2>1. /\ a.do = "num_max" /\ wrote' = wrote
        /\ \/ GoOn(t, <<>>) /\ UNCHANGED g
           \/ /\ g' = [g EXCEPT ![t] = WithSize(g[t], a.i, size)]
              /\ GoOn(t, more)
    BY <1>13 DEF ReadNumMax, Do
  <2>2. a.i \in Queues /\ a.size \in Nat
    BY <1>2, <2>1, AccFields
  <2>3. size \in 1 .. QueueNumMax
    BY <2>2, QueueSize
  <2>4. g[t].vqs[a.i] \in VqStates
    BY <2>2 DEF DataOK, States
  <2>5. more \in Seq(TameAccs)
    BY <2>3, <2>4, QueueRegistersType
  <2>6. CASE GoOn(t, <<>>) /\ UNCHANGED g
    BY <1>5, <2>1, <2>6
  <2>7. CASE /\ g' = [g EXCEPT ![t] = WithSize(g[t], a.i, size)]
             /\ GoOn(t, more)
    <3>1. \E i \in Queues, z \in 1 .. QueueNumMax :
            g' = [g EXCEPT ![t] = WithSize(g[t], i, z)]
      BY <2>2, <2>3, <2>7
    <3> HIDE DEF more, size, a
    <3> QED
      BY <2>1, <2>5, <2>7, <3>1
  <2> QED
    BY <2>1, <2>6, <2>7
<1>14. Goal
  <2> HIDE DEF Goal
  <2> QED
    BY <1>6, <1>7, <1>8, <1>9, <1>10, <1>11, <1>12, <1>13 DEF Access
<1> QED
  BY <1>1, <1>14

LEMMA AccessWInv ==
  ASSUME WInv, NEW t \in Threads, Access(t)
  PROVE  /\ todo' \in [Threads -> Seq(TameAccs)]
         /\ OwnTables' /\ NoQueues' /\ Confined(wrote)'
<1> DEFINE a == Head(todo[t])
<1>1. /\ DataOK /\ todo[t] # <<>> /\ todo \in [Threads -> Seq(TameAccs)]
      /\ g \in [Threads -> States]
  BY AccessMore DEF WInv, DataOK
<1>2. PICK more \in Seq(TameAccs) :
        GoOn(t, more) /\ (a.do # "num_max" => more \in Seq(NoAsk))
  BY <1>1, AccessMore
<1>3. a \in TameAccs /\ todo' \in [Threads -> Seq(TameAccs)]
  BY <1>1, <1>2, GoOnType
<1>4. \/ UNCHANGED g
      \/ /\ a.do = "num_max"
         /\ \E i \in Queues, size \in 1 .. QueueNumMax :
              g' = [g EXCEPT ![t] = WithSize(g[t], i, size)]
  BY <1>1, AccessMore
<1>5. Confined(wrote)'
  <2>1. wrote' = wrote \/ wrote' = Stores(a)
    BY <1>1, AccessMore
  <2>2. Confined(wrote) /\ Confined(Stores(a))
    BY <1>3 DEF WInv, TameAccs
  <2>3. Confined(wrote')
    BY <2>1, <2>2
  <2> QED
    BY <2>3 DEF Confined
<1>6. at' = at /\ prog' = prog
  BY <1>2 DEF GoOn
<1> HIDE DEF a
<1>7. OwnTables'
  <2>1. CASE g'[A] = g[A]
    BY <1>6, <2>1 DEF WInv, OwnTables
  <2>2. ASSUME NEW i \in Queues, NEW size \in 1 .. QueueNumMax,
               g'[A] = WithSize(g[A], i, size)
        PROVE  OwnTables'
    <3>1. g[A] \in States
      BY <1>1, ThreadsApart
    <3>2. ASSUME NEW j \in Queues
          PROVE  /\ g'[A].vqs[j].desc_gpa = g[A].vqs[j].desc_gpa
                 /\ g'[A].vqs[j].avail_gpa = g[A].vqs[j].avail_gpa
                 /\ g'[A].vqs[j].next_desc_idx = g[A].vqs[j].next_desc_idx
      BY <2>2, <3>1 DEF WithSize, States, VqStates
    <3> QED
      BY <1>6, <3>2 DEF WInv, OwnTables
  <2> QED
    BY <1>1, <1>4, <2>1, <2>2, ThreadsApart
<1>8. NoQueues'
  <2> SUFFICES ASSUME NoSetup(prog[B])
               PROVE  /\ \A i \in Queues : g'[B].vqs[i].size = 0
                      /\ todo'[B] \in Seq(NoAsk)
    BY <1>6 DEF NoQueues
  <2>1. /\ \A i \in Queues : g[B].vqs[i].size = 0
        /\ todo[B] \in Seq(NoAsk)
    BY DEF WInv, NoQueues
  <2>2. todo' = [todo EXCEPT ![t] = more \o Tail(todo[t])]
    BY <1>2 DEF GoOn
  <2>3. CASE t # B
    BY <1>1, <1>4, <2>1, <2>2, <2>3, ThreadsApart
  <2>4. CASE t = B
    <3>1. a \in NoAsk /\ Tail(todo[B]) \in Seq(NoAsk)
      BY <1>1, <2>1, <2>4, HeadTailProperties DEF a
    <3>2. a.do # "num_max"
      BY <3>1 DEF NoAsk
    <3>3. UNCHANGED g /\ more \in Seq(NoAsk)
      BY <1>2, <1>4, <3>2 DEF a
    <3>4. more \o Tail(todo[B]) \in Seq(NoAsk)
      BY <3>1, <3>3, ConcatProperties
    <3>5. todo'[B] = more \o Tail(todo[B])
      BY <1>1, <2>2, <2>4, ThreadsApart
    <3> QED
      BY <2>1, <3>3, <3>4, <3>5
  <2> QED
    BY <2>3, <2>4
<1> QED
  BY <1>3, <1>5, <1>7, <1>8

LEMMA NextWInv == ASSUME NoRingsInB PROVE WInv /\ [Next]_vars => WInv'
<1> SUFFICES ASSUME WInv, [Next]_vars PROVE WInv'
  OBVIOUS
<1>1. ControlOK' /\ DataOK'
  BY ControlStep, DataStep DEF WInv
<1>2. ASSUME /\ UNCHANGED <<g, prog, todo, wrote>> /\ at'[A] = at[A]
      PROVE  WInv'
  BY <1>1, <1>2 DEF WInv, OwnTables, NoQueues, Confined
<1>3. CASE UNCHANGED vars
  BY <1>2, <1>3 DEF vars
<1>4. CASE StopB \/ Join \/ EndRound \/ EndB
  BY <1>2, <1>4 DEF StopB, Join, EndRound, EndB
<1>5. CASE BeginRound
  <2>1. UNCHANGED <<g, prog, todo, wrote>> /\ at' = [at EXCEPT ![B] = 0]
    BY <1>5 DEF BeginRound
  <2>2. at'[A] = at[A]
    BY <2>1, ThreadsApart DEF WInv, ControlOK
  <2> QED
    BY <1>2, <2>1, <2>2
<1>6. CASE \E t \in Threads : BeginOp(t)
  BY <1>1, <1>6, BeginOpWInv DEF WInv
<1>7. CASE \E t \in Threads : Access(t)
  BY <1>1, <1>7, AccessWInv DEF WInv
<1> QED
  BY <1>3, <1>4, <1>5, <1>6, <1>7, ThreadsApart DEF Next, StepA, StepB, Returned

\* Every write either thread makes to guest memory goes to the area meant for
\* it, between whichever accesses of the other it falls: the tables and rings
\* hold what thread A can place in them, and a thread B without queues of its
\* own writes buffers only.
THEOREM WritesStayConfined == NoRingsInB => (Spec => []WritesConfined)
<1> SUFFICES ASSUME NoRingsInB PROVE Spec => []WritesConfined
  OBVIOUS
<1>1. Init => WInv
  BY InitWInv
<1>2. WInv /\ [Next]_vars => WInv'
  BY NextWInv
<1>3. WInv => WritesConfined
  BY DEF WInv, WritesConfined
<1> QED
  BY <1>1, <1>2, <1>3, PTL DEF Spec

----------------------------------------------------------------------------
(* A setup that the other thread may interrupt *)

\* Accesses of such operations, and of any of thread A's but a setup.
CalmAccs ==
  {a \in Accs : /\ a.do # "num_max"
                /\ a.do = "reg" =>
                     a.off \notin QueueRegs \cup {R_QUEUE_SEL, R_STATUS}
                /\ a.do \in {"or_status", "put_status"} => a.bits # {}}

QuietAccs ==
  {a \in Accs : a.do # "num_max" /\ (a.do = "reg" => a.off \notin QueueRegs)}

\* A step of the device that leaves what its queues are set to alone, and the
\* selection.
SameSetup(p, q) ==
  /\ q.ready = p.ready /\ q.num = p.num
  /\ q.desc = p.desc /\ q.drv = p.drv /\ q.dvc = p.dvc

CalmStep(d, e) ==
  e.sel = d.sel /\ \A i \in DevQueues : SameSetup(d.q[i], e.q[i])

LEMMA CalmWrite ==
  ASSUME NEW d \in Devices, NEW m \in Rams, NEW off \in Nat, NEW v \in Nat,
         off \notin QueueRegs \cup {R_QUEUE_SEL, R_STATUS}
  PROVE  CalmStep(d, MmioWrite(d, m, off, v))
<1>1. CASE off = R_QUEUE_NOTIFY
  <2>1. MmioWrite(d, m, off, v) = Notify(d, m, v)
    BY <1>1, OtherOffsets
  <2>2. CalmStep(d, Notify(d, m, v))
    <3>1. CASE /\ v \in DevQueues /\ d.q[v].ready
               /\ Addr(d.q[v].drv) \in AvailAreas
      <4> DEFINE idx == m.idx[Addr(d.q[v].drv)]
                 e == Notify(d, m, v)
      <4>1. /\ e.q = [d.q EXCEPT ![v] = [d.q[v] EXCEPT !.last = idx]]
            /\ e.sel = d.sel
        BY <3>1 DEF Notify, Devices
      <4> HIDE DEF e, idx
      <4>2. ASSUME NEW i \in DevQueues PROVE SameSetup(d.q[i], e.q[i])
        BY <3>1, <4>1 DEF SameSetup, Devices, DevQueueStates
      <4> QED
        BY <4>1, <4>2 DEF CalmStep, e
    <3>2. CASE ~(/\ v \in DevQueues /\ d.q[v].ready
                 /\ Addr(d.q[v].drv) \in AvailAreas)
      BY <3>2 DEF Notify, CalmStep, SameSetup
    <3> QED
      BY <3>1, <3>2
  <2> QED
    BY <2>1, <2>2
<1>2. CASE off = R_INT_ACK
  <2>1. MmioWrite(d, m, off, v) = [d EXCEPT !.isr = (d.isr /\ v = 0)]
    BY <1>2, OtherOffsets
  <2> QED
    BY <2>1 DEF Devices, CalmStep, SameSetup
<1>3. CASE off \notin {R_QUEUE_NOTIFY, R_INT_ACK}
  <2>1. MmioWrite(d, m, off, v) = d
    <3>1. CASE d.sel \in DevQueues
      <4>1. MmioWrite(d, m, off, v) = Selected(d, off, v)
        BY <1>3, <3>1, QueueOffsets
      <4>2. Selected(d, off, v) = d
        BY DEF Selected, QueueRegs, QueueConfig
      <4> QED
        BY <4>1, <4>2
    <3>2. CASE d.sel \notin DevQueues
      BY <1>3, <3>2, QueueOffsets
    <3> QED
      BY <3>1, <3>2
  <2> QED
    BY <2>1 DEF CalmStep, SameSetup
<1> QED
  BY <1>1, <1>2, <1>3

LEMMA CalmStatus ==
  ASSUME NEW d \in Devices, NEW bits \in SUBSET StatusBits, bits # {}
  PROVE  CalmStep(d, SetDevStatus(d, bits))
  BY DEF SetDevStatus, Devices, CalmStep, SameSetup

\* The seven registers a setup fills, each with the field of the device's queue
\* it sets and the value thread A has for it.
Field(p, off) ==
  CASE off = R_QUEUE_NUM -> p.num
    [] off = R_QDESC_LO  -> p.desc.lo
    [] off = R_QDESC_HI  -> p.desc.hi
    [] off = R_QDRV_LO   -> p.drv.lo
    [] off = R_QDRV_HI   -> p.drv.hi
    [] off = R_QDEV_LO   -> p.dvc.lo
    [] off = R_QDEV_HI   -> p.dvc.hi

Value(q, off) ==
  CASE off = R_QUEUE_NUM -> q.size
    [] off = R_QDESC_LO  -> Lo(q.desc_gpa)
    [] off = R_QDESC_HI  -> Hi(q.desc_gpa)
    [] off = R_QDRV_LO   -> Lo(q.avail_gpa)
    [] off = R_QDRV_HI   -> Hi(q.avail_gpa)
    [] off = R_QDEV_LO   -> Lo(q.used_gpa)
    [] off = R_QDEV_HI   -> Hi(q.used_gpa)

LEMMA FieldOf ==
  ASSUME NEW p
  PROVE  /\ Field(p, R_QUEUE_NUM) = p.num
         /\ Field(p, R_QDESC_LO) = p.desc.lo /\ Field(p, R_QDESC_HI) = p.desc.hi
         /\ Field(p, R_QDRV_LO) = p.drv.lo /\ Field(p, R_QDRV_HI) = p.drv.hi
         /\ Field(p, R_QDEV_LO) = p.dvc.lo /\ Field(p, R_QDEV_HI) = p.dvc.hi
  BY DEF Field, R_QUEUE_NUM, R_QDESC_LO, R_QDESC_HI, R_QDRV_LO, R_QDRV_HI,
         R_QDEV_LO, R_QDEV_HI

LEMMA ValueOf ==
  ASSUME NEW q
  PROVE  /\ Value(q, R_QUEUE_NUM) = q.size
         /\ Value(q, R_QDESC_LO) = Lo(q.desc_gpa)
         /\ Value(q, R_QDESC_HI) = Hi(q.desc_gpa)
         /\ Value(q, R_QDRV_LO) = Lo(q.avail_gpa)
         /\ Value(q, R_QDRV_HI) = Hi(q.avail_gpa)
         /\ Value(q, R_QDEV_LO) = Lo(q.used_gpa)
         /\ Value(q, R_QDEV_HI) = Hi(q.used_gpa)
  BY DEF Value, R_QUEUE_NUM, R_QDESC_LO, R_QDESC_HI, R_QDRV_LO, R_QDRV_HI,
         R_QDEV_LO, R_QDEV_HI

LEMMA ValueType ==
  ASSUME NEW q \in VqStates, NEW off \in QueueConfig
  PROVE  Value(q, off) \in Nat
<1>1. /\ q.desc_gpa \in Nat /\ q.avail_gpa \in Nat /\ q.used_gpa \in Nat
      /\ q.size \in Nat
  BY SizeAssumption DEF VqStates
<1>2. ASSUME NEW a \in Nat PROVE Lo(a) \in Nat /\ Hi(a) \in Nat
  BY WordAssumption, Z3 DEF Lo, Hi
<1> QED
  BY <1>1, <1>2, ValueOf DEF QueueConfig

\* Writing a register sets its own field and no other.
LEMMA FieldSet ==
  ASSUME NEW p \in DevQueueStates, NEW off \in QueueRegs, NEW v \in Nat,
         NEW x \in QueueConfig
  PROVE  Field(Registered(p, off, v), x) = IF x = off THEN v ELSE Field(p, x)
<1>1. /\ R_QUEUE_NUM = 56 /\ R_QUEUE_READY = 68
      /\ R_QDESC_LO = 128 /\ R_QDESC_HI = 132 /\ R_QDRV_LO = 144
      /\ R_QDRV_HI = 148 /\ R_QDEV_LO = 160 /\ R_QDEV_HI = 164
  BY DEF R_QUEUE_NUM, R_QUEUE_READY, R_QDESC_LO, R_QDESC_HI, R_QDRV_LO,
         R_QDRV_HI, R_QDEV_LO, R_QDEV_HI
<1> DEFINE r == Registered(p, off, v)
<1>2. CASE off = R_QUEUE_NUM
  <2>1. r = [p EXCEPT !.num = v]
    BY <1>2, RegisteredFields
  <2>2. /\ r.num = v /\ r.desc = p.desc /\ r.drv = p.drv /\ r.dvc = p.dvc
    BY <2>1 DEF DevQueueStates
  <2> HIDE DEF r
  <2> QED
    BY <1>1, <1>2, <2>2, FieldOf DEF QueueConfig, r
<1>3. CASE off = R_QUEUE_READY
  <2>1. r = [p EXCEPT !.ready = (v = 1)]
    BY <1>3, RegisteredFields
  <2>2. /\ r.num = p.num /\ r.desc = p.desc /\ r.drv = p.drv /\ r.dvc = p.dvc
    BY <2>1 DEF DevQueueStates
  <2> HIDE DEF r
  <2> QED
    BY <1>1, <1>3, <2>2, FieldOf DEF QueueConfig, r
<1>4. CASE off = R_QDESC_LO
  <2>1. r = [p EXCEPT !.desc.lo = v]
    BY <1>4, RegisteredFields
  <2>2. /\ r.num = p.num /\ r.drv = p.drv /\ r.dvc = p.dvc
        /\ r.desc.lo = v /\ r.desc.hi = p.desc.hi
    BY <2>1 DEF DevQueueStates, Halves
  <2> HIDE DEF r
  <2> QED
    BY <1>1, <1>4, <2>2, FieldOf DEF QueueConfig, r
<1>5. CASE off = R_QDESC_HI
  <2>1. r = [p EXCEPT !.desc.hi = v]
    BY <1>5, RegisteredFields
  <2>2. /\ r.num = p.num /\ r.drv = p.drv /\ r.dvc = p.dvc
        /\ r.desc.hi = v /\ r.desc.lo = p.desc.lo
    BY <2>1 DEF DevQueueStates, Halves
  <2> HIDE DEF r
  <2> QED
    BY <1>1, <1>5, <2>2, FieldOf DEF QueueConfig, r
<1>6. CASE off = R_QDRV_LO
  <2>1. r = [p EXCEPT !.drv.lo = v]
    BY <1>6, RegisteredFields
  <2>2. /\ r.num = p.num /\ r.desc = p.desc /\ r.dvc = p.dvc
        /\ r.drv.lo = v /\ r.drv.hi = p.drv.hi
    BY <2>1 DEF DevQueueStates, Halves
  <2> HIDE DEF r
  <2> QED
    BY <1>1, <1>6, <2>2, FieldOf DEF QueueConfig, r
<1>7. CASE off = R_QDRV_HI
  <2>1. r = [p EXCEPT !.drv.hi = v]
    BY <1>7, RegisteredFields
  <2>2. /\ r.num = p.num /\ r.desc = p.desc /\ r.dvc = p.dvc
        /\ r.drv.hi = v /\ r.drv.lo = p.drv.lo
    BY <2>1 DEF DevQueueStates, Halves
  <2> HIDE DEF r
  <2> QED
    BY <1>1, <1>7, <2>2, FieldOf DEF QueueConfig, r
<1>8. CASE off = R_QDEV_LO
  <2>1. r = [p EXCEPT !.dvc.lo = v]
    BY <1>8, RegisteredFields
  <2>2. /\ r.num = p.num /\ r.desc = p.desc /\ r.drv = p.drv
        /\ r.dvc.lo = v /\ r.dvc.hi = p.dvc.hi
    BY <2>1 DEF DevQueueStates, Halves
  <2> HIDE DEF r
  <2> QED
    BY <1>1, <1>8, <2>2, FieldOf DEF QueueConfig, r
<1>9. CASE off = R_QDEV_HI
  <2>1. r = [p EXCEPT !.dvc.hi = v]
    BY <1>9, RegisteredFields
  <2>2. /\ r.num = p.num /\ r.desc = p.desc /\ r.drv = p.drv
        /\ r.dvc.hi = v /\ r.dvc.lo = p.dvc.lo
    BY <2>1 DEF DevQueueStates, Halves
  <2> HIDE DEF r
  <2> QED
    BY <1>1, <1>9, <2>2, FieldOf DEF QueueConfig, r
<1> QED
  BY <1>2, <1>3, <1>4, <1>5, <1>6, <1>7, <1>8, <1>9 DEF QueueRegs, QueueConfig

\* What a ready queue of the device has to hold.
Holds(p, q) ==
  /\ p.num = q.size
  /\ Addr(p.desc) = q.desc_gpa /\ Addr(p.drv) = q.avail_gpa
  /\ Addr(p.dvc) = q.used_gpa

LEMMA FieldsHold ==
  ASSUME NEW p \in DevQueueStates, NEW q \in VqStates,
         \A x \in QueueConfig : Field(p, x) = Value(q, x)
  PROVE  Holds(p, q)
<1>1. q.desc_gpa \in Nat /\ q.avail_gpa \in Nat /\ q.used_gpa \in Nat
  BY DEF VqStates
<1>2. /\ p.num = q.size
      /\ p.desc.lo = Lo(q.desc_gpa) /\ p.desc.hi = Hi(q.desc_gpa)
      /\ p.drv.lo = Lo(q.avail_gpa) /\ p.drv.hi = Hi(q.avail_gpa)
      /\ p.dvc.lo = Lo(q.used_gpa) /\ p.dvc.hi = Hi(q.used_gpa)
  <2>1. \A x \in {R_QUEUE_NUM, R_QDESC_LO, R_QDESC_HI, R_QDRV_LO, R_QDRV_HI,
                  R_QDEV_LO, R_QDEV_HI} : Field(p, x) = Value(q, x)
    BY DEF QueueConfig
  <2> QED
    BY <2>1, FieldOf, ValueOf
<1> QED
  BY <1>1, <1>2, HalvesJoin DEF Holds, Addr
\* Where thread A is.  Between setups every ready queue holds what thread A has
\* for it; while it clears the device nothing is said until it has; in a setup
\* the selection stands, and of every register of the queue either the device
\* has its value or the write of it is still to come.
Ready(j) == dev.q[j].ready => Holds(dev.q[j], g[A].vqs[j])

Outside == todo[A] \in Seq(QuietAccs) /\ \A j \in DevQueues : Ready(j)

Clearing == todo[A] = <<PutStatus({}), PutStatus({kStatusAck, kStatusDriver})>>

Selecting ==
  \E i \in Queues, size \in Nat :
    /\ todo[A] = <<Reg(R_QUEUE_SEL, i), AskNumMax(i, size)>>
    /\ \A j \in DevQueues : Ready(j)

Asking ==
  \E i \in Queues, size \in Nat :
    /\ todo[A] = <<AskNumMax(i, size)>> /\ dev.sel = i
    /\ \A j \in DevQueues : Ready(j)

SetupAccs(q) ==
  {Reg(off, Value(q, off)) : off \in QueueConfig} \cup {Reg(R_QUEUE_READY, 1)}

Has(s, x) == \E k \in 1 .. Len(s) : s[k] = x

Filling(i) ==
  /\ dev.sel = i
  /\ \A j \in DevQueues \ {i} : Ready(j)
  /\ todo[A] \in Seq(SetupAccs(g[A].vqs[i]))
  /\ \A off \in QueueConfig :
       \/ Field(dev.q[i], off) = Value(g[A].vqs[i], off)
       \/ Has(todo[A], Reg(off, Value(g[A].vqs[i], off)))

Programming == \E i \in DevQueues : Filling(i)

Phase == Outside \/ Clearing \/ Selecting \/ Asking \/ Programming

PInv == /\ ControlOK /\ DataOK
        /\ todo[B] \in Seq(CalmAccs)
        /\ Phase

LEMMA InitPInv == Init => PInv
<1> SUFFICES ASSUME Init PROVE PInv
  OBVIOUS
<1>1. ControlOK /\ DataOK
  BY ControlInit, DataInit
<1>2. todo = [t \in Threads |-> <<>>]
  BY DEF Init
<1>3. todo[A] = <<>> /\ todo[B] = <<>>
  BY <1>2, ThreadsApart
<1>4. \A j \in DevQueues : ~dev.q[j].ready
  BY DevInitType DEF Init, Devices
<1>5. Outside
  BY <1>3, <1>4 DEF Outside, Ready
<1> QED
  BY <1>1, <1>3, <1>5 DEF PInv, Phase

\* Between two operations of thread A it is in no setup.
LEMMA PhaseRings == PInv /\ todo[A] = <<>> => \A j \in DevQueues : Ready(j)
<1> SUFFICES ASSUME PInv, todo[A] = <<>>, NEW j \in DevQueues PROVE Ready(j)
  OBVIOUS
<1>1. ~Clearing /\ ~Selecting /\ ~Asking
  BY DEF Clearing, Selecting, Asking
<1>2. CASE Outside
  BY <1>2 DEF Outside
<1>3. ASSUME NEW i \in DevQueues, Filling(i) PROVE Ready(j)
  <2>1. CASE j # i
    BY <1>3, <2>1 DEF Filling
  <2>2. CASE j = i
    <3>1. \A off \in QueueConfig :
            Field(dev.q[i], off) = Value(g[A].vqs[i], off)
      BY <1>3 DEF Filling, Has
    <3>2. dev.q[i] \in DevQueueStates /\ g[A].vqs[i] \in VqStates
      BY DeviceAssumption, ThreadsApart DEF PInv, DataOK, Devices, States
    <3>3. Holds(dev.q[i], g[A].vqs[i])
      BY <3>1, <3>2, FieldsHold
    <3> QED
      BY <2>2, <3>3 DEF Ready
  <2> QED
    BY <2>1, <2>2
<1> QED
  BY <1>1, <1>2, <1>3 DEF PInv, Phase, Programming

\* A calm step of the other thread leaves thread A where it is.
LEMMA PhaseKept ==
  ASSUME Phase, g'[A] = g[A], todo'[A] = todo[A], CalmStep(dev, dev')
  PROVE  Phase'
<1>1. ASSUME NEW j \in DevQueues, Ready(j) PROVE Ready(j)'
  BY <1>1 DEF Ready, CalmStep, SameSetup, Holds
<1>2. CASE Outside
  <2>1. Outside'
    BY <1>1, <1>2 DEF Outside
  <2> QED
    BY <2>1 DEF Phase
<1>3. CASE Clearing
  BY <1>3 DEF Clearing, Phase
<1>4. CASE Selecting
  <2>1. Selecting'
    BY <1>1, <1>4 DEF Selecting
  <2> QED
    BY <2>1 DEF Phase
<1>5. CASE Asking
  <2>1. Asking'
    BY <1>1, <1>5 DEF Asking, CalmStep
  <2> QED
    BY <2>1 DEF Phase
<1>6. ASSUME NEW i \in DevQueues, Filling(i) PROVE Phase'
  <2>1. dev'.sel = dev.sel /\ SameSetup(dev.q[i], dev'.q[i])
    BY DEF CalmStep
  <2>2. \A off \in QueueConfig : Field(dev'.q[i], off) = Field(dev.q[i], off)
    BY <2>1, FieldOf DEF SameSetup, QueueConfig
  <2>3. Filling(i)'
    BY <1>1, <1>6, <2>1, <2>2 DEF Filling
  <2> QED
    BY <2>3 DEF Phase, Programming
<1> QED
  BY <1>2, <1>3, <1>4, <1>5, <1>6 DEF Phase, Programming

\* What one access does, by its kind.
LEMMA AccessEffect ==
  ASSUME NEW t \in Threads, Access(t)
  PROVE  LET a == Head(todo[t])
         IN  /\ todo[t] # <<>>
             /\ \/ /\ a.do = "reg"
                   /\ dev' = MmioWrite(dev, ram, a.off, a.v)
                   /\ GoOn(t, <<>>) /\ g' = g
                \/ /\ a.do = "or_status" /\ dev' = dev /\ g' = g
                   /\ GoOn(t, <<PutStatus(dev.status \cup a.bits)>>)
                \/ /\ a.do = "put_status" /\ dev' = SetDevStatus(dev, a.bits)
                   /\ GoOn(t, <<>>) /\ g' = g
                \/ /\ a.do = "ack_isr" /\ dev' = dev /\ g' = g
                   /\ GoOn(t, <<>>) \/ GoOn(t, <<Reg(R_INT_ACK, 1)>>)
                \/ /\ a.do = "num_max" /\ dev' = dev /\ NumMax(dev) = 0
                   /\ GoOn(t, <<>>) /\ g' = g
                \/ /\ a.do = "num_max" /\ dev' = dev /\ NumMax(dev) # 0
                   /\ g' = [g EXCEPT ![t] = WithSize(g[t], a.i, SizeFor(a.size))]
                   /\ GoOn(t, QueueRegisters(g[t].vqs[a.i], SizeFor(a.size)))
                \/ /\ a.do \in {"buffer", "desc", "ring", "idx"}
                   /\ dev' = dev /\ GoOn(t, <<>>) /\ g' = g
<1>1. CASE WriteRegister(t)
  BY <1>1 DEF WriteRegister, Do
<1>2. CASE ReadStatus(t)
  BY <1>2 DEF ReadStatus, Do
<1>3. CASE WriteStatus(t)
  BY <1>3 DEF WriteStatus, Do
<1>4. CASE ReadIsr(t)
  BY <1>4 DEF ReadIsr, Do
<1>5. CASE ReadNumMax(t)
  BY <1>5 DEF ReadNumMax, Do
<1>6. CASE StoreBuffer(t)
  BY <1>6 DEF StoreBuffer, Do
<1>7. CASE StoreDesc(t)
  BY <1>7 DEF StoreDesc, Do
<1>8. CASE StoreRing(t)
  BY <1>8 DEF StoreRing, Do
<1>9. CASE StoreIdx(t)
  BY <1>9 DEF StoreIdx, Do
<1> QED
  BY <1>1, <1>2, <1>3, <1>4, <1>5, <1>6, <1>7, <1>8, <1>9 DEF Access

\* What a thread goes on with, in a set its accesses are of.
LEMMA GoOnIn ==
  ASSUME NEW S, NEW t \in Threads, todo = [s \in Threads |-> todo[s]],
         todo[t] \in Seq(S), todo[t] # <<>>, NEW more \in Seq(S), GoOn(t, more)
  PROVE  /\ Head(todo[t]) \in S /\ todo'[t] \in Seq(S)
         /\ todo'[t] = more \o Tail(todo[t])
         /\ \A s \in Threads : s # t => todo'[s] = todo[s]
<1>1. Head(todo[t]) \in S /\ Tail(todo[t]) \in Seq(S)
  BY HeadTailProperties
<1>2. more \o Tail(todo[t]) \in Seq(S)
  BY <1>1, ConcatProperties
<1>3. todo' = [todo EXCEPT ![t] = more \o Tail(todo[t])]
  BY DEF GoOn
<1> QED
  BY <1>1, <1>2, <1>3

\* And nothing more to do first.
LEMMA GoOnTail ==
  ASSUME NEW t \in Threads, todo \in [Threads -> Seq(Accs)], todo[t] # <<>>,
         GoOn(t, <<>>)
  PROVE  todo'[t] = Tail(todo[t]) /\ \A s \in Threads : s # t => todo'[s] = todo[s]
<1>1. todo[t] \in Seq(Accs) /\ Tail(todo[t]) \in Seq(Accs)
  BY HeadTailProperties
<1>2. <<>> \o Tail(todo[t]) = Tail(todo[t])
  BY <1>1, ConcatEmptySeq
<1>3. todo' = [todo EXCEPT ![t] = <<>> \o Tail(todo[t])]
  BY DEF GoOn
<1> QED
  BY <1>2, <1>3

\* Thread B: every access of its calm operations is a calm step.
LEMMA CalmAccess ==
  ASSUME PInv, Access(B)
  PROVE  todo'[B] \in Seq(CalmAccs) /\ Phase'
<1> DEFINE a == Head(todo[B])
<1>1. /\ todo \in [Threads -> Seq(Accs)] /\ dev \in Devices /\ ram \in Rams
      /\ todo[B] \in Seq(CalmAccs) /\ Phase
  BY DEF PInv, DataOK
<1>2. /\ todo[B] # <<>> /\ a \in CalmAccs
  BY <1>1, AccessEffect, ThreadsApart, HeadTailProperties
<1>3. /\ a \in Accs /\ a.do # "num_max"
      /\ a.do = "reg" => a.off \notin QueueRegs \cup {R_QUEUE_SEL, R_STATUS}
      /\ a.do \in {"or_status", "put_status"} => a.bits # {}
  BY <1>2 DEF CalmAccs
<1>4. <<>> \in Seq(CalmAccs)
  OBVIOUS
<1>5. <<Reg(R_INT_ACK, 1)>> \in Seq(CalmAccs)
  <2>1. Reg(R_INT_ACK, 1) \in Accs
    BY RegAcc DEF R_INT_ACK
  <2>2. R_INT_ACK \notin QueueRegs \cup {R_QUEUE_SEL, R_STATUS}
    BY QueueRegsApart DEF R_INT_ACK, R_QUEUE_SEL, R_STATUS
  <2>3. Reg(R_INT_ACK, 1) \in CalmAccs
    BY <2>1, <2>2 DEF CalmAccs, Reg
  <2> QED
    BY <2>3, SeqOf
<1>6. a.do = "or_status" => <<PutStatus(dev.status \cup a.bits)>> \in Seq(CalmAccs)
  <2> SUFFICES ASSUME a.do = "or_status"
               PROVE  <<PutStatus(dev.status \cup a.bits)>> \in Seq(CalmAccs)
    OBVIOUS
  <2>1. /\ dev.status \cup a.bits \in SUBSET StatusBits
        /\ dev.status \cup a.bits # {}
    BY <1>1, <1>3, AccFields DEF Devices
  <2>2. PutStatus(dev.status \cup a.bits) \in Accs
    BY <2>1, StatusAcc
  <2>3. PutStatus(dev.status \cup a.bits) \in CalmAccs
    BY <2>1, <2>2 DEF CalmAccs, PutStatus
  <2> QED
    BY <2>3, SeqOf
<1>7. /\ \E more \in Seq(CalmAccs) : GoOn(B, more)
      /\ g' = g
      /\ \/ dev' = dev
         \/ a.do = "reg" /\ dev' = MmioWrite(dev, ram, a.off, a.v)
         \/ a.do = "put_status" /\ dev' = SetDevStatus(dev, a.bits)
  <2>1. \/ /\ a.do = "reg" /\ dev' = MmioWrite(dev, ram, a.off, a.v)
           /\ GoOn(B, <<>>) /\ g' = g
        \/ /\ a.do = "or_status" /\ dev' = dev /\ g' = g
           /\ GoOn(B, <<PutStatus(dev.status \cup a.bits)>>)
        \/ /\ a.do = "put_status" /\ dev' = SetDevStatus(dev, a.bits)
           /\ GoOn(B, <<>>) /\ g' = g
        \/ /\ a.do = "ack_isr" /\ dev' = dev /\ g' = g
           /\ GoOn(B, <<>>) \/ GoOn(B, <<Reg(R_INT_ACK, 1)>>)
        \/ /\ a.do \in {"buffer", "desc", "ring", "idx"}
           /\ dev' = dev /\ GoOn(B, <<>>) /\ g' = g
    BY <1>3, AccessEffect, ThreadsApart
  <2> HIDE DEF a
  <2> QED
    BY <1>4, <1>5, <1>6, <2>1
<1>8. CalmStep(dev, dev')
  <2>1. CalmStep(dev, dev)
    BY DEF CalmStep, SameSetup
  <2>2. ASSUME a.do = "reg" PROVE CalmStep(dev, MmioWrite(dev, ram, a.off, a.v))
    <3>1. a.off \in Nat /\ a.v \in Nat
      BY <1>3, <2>2, AccFields
    <3> HIDE DEF a
    <3> QED
      BY <1>1, <1>3, <2>2, <3>1, CalmWrite
  <2>3. ASSUME a.do = "put_status" PROVE CalmStep(dev, SetDevStatus(dev, a.bits))
    <3>1. a.bits \in SUBSET StatusBits
      BY <1>3, <2>3, AccFields
    <3> HIDE DEF a
    <3> QED
      BY <1>1, <1>3, <2>3, <3>1, CalmStatus
  <2> QED
    BY <1>7, <2>1, <2>2, <2>3
<1>9. PICK more \in Seq(CalmAccs) : GoOn(B, more)
  BY <1>7
<1>10. todo'[B] \in Seq(CalmAccs) /\ todo'[A] = todo[A]
  BY <1>1, <1>2, <1>9, GoOnIn, ThreadsApart
<1>11. Phase'
  BY <1>1, <1>7, <1>8, <1>10, PhaseKept
<1> QED
  BY <1>10, <1>11
\* Thread A outside a setup.
LEMMA OutsideAccess ==
  ASSUME PInv, Outside, Access(A)
  PROVE  Outside'
<1> DEFINE a == Head(todo[A])
<1>1. /\ todo \in [Threads -> Seq(Accs)] /\ dev \in Devices /\ ram \in Rams
      /\ todo[A] \in Seq(QuietAccs) /\ \A j \in DevQueues : Ready(j)
  BY DEF PInv, DataOK, Outside
<1>2. todo[A] # <<>> /\ a \in QuietAccs
  BY <1>1, AccessEffect, ThreadsApart, HeadTailProperties
<1>3. a \in Accs /\ a.do # "num_max" /\ (a.do = "reg" => a.off \notin QueueRegs)
  BY <1>2 DEF QuietAccs
<1>4. <<>> \in Seq(QuietAccs)
  OBVIOUS
<1>5. <<Reg(R_INT_ACK, 1)>> \in Seq(QuietAccs)
  <2>1. Reg(R_INT_ACK, 1) \in Accs
    BY RegAcc DEF R_INT_ACK
  <2>2. Reg(R_INT_ACK, 1) \in QuietAccs
    BY <2>1, QueueRegsApart DEF QuietAccs, Reg
  <2> QED
    BY <2>2, SeqOf
<1>6. a.do = "or_status"
        => <<PutStatus(dev.status \cup a.bits)>> \in Seq(QuietAccs)
  <2> SUFFICES ASSUME a.do = "or_status"
               PROVE  <<PutStatus(dev.status \cup a.bits)>> \in Seq(QuietAccs)
    OBVIOUS
  <2>1. dev.status \cup a.bits \in SUBSET StatusBits
    BY <1>1, <1>3, AccFields DEF Devices
  <2>2. PutStatus(dev.status \cup a.bits) \in Accs
    BY <2>1, StatusAcc
  <2>3. PutStatus(dev.status \cup a.bits) \in QuietAccs
    BY <2>2 DEF QuietAccs, PutStatus
  <2> QED
    BY <2>3, SeqOf
<1>7. /\ \E more \in Seq(QuietAccs) : GoOn(A, more)
      /\ g' = g
      /\ \/ dev' = dev
         \/ a.do = "reg" /\ dev' = MmioWrite(dev, ram, a.off, a.v)
         \/ a.do = "put_status" /\ dev' = SetDevStatus(dev, a.bits)
  <2>1. \/ /\ a.do = "reg" /\ dev' = MmioWrite(dev, ram, a.off, a.v)
           /\ GoOn(A, <<>>) /\ g' = g
        \/ /\ a.do = "or_status" /\ dev' = dev /\ g' = g
           /\ GoOn(A, <<PutStatus(dev.status \cup a.bits)>>)
        \/ /\ a.do = "put_status" /\ dev' = SetDevStatus(dev, a.bits)
           /\ GoOn(A, <<>>) /\ g' = g
        \/ /\ a.do = "ack_isr" /\ dev' = dev /\ g' = g
           /\ GoOn(A, <<>>) \/ GoOn(A, <<Reg(R_INT_ACK, 1)>>)
        \/ /\ a.do \in {"buffer", "desc", "ring", "idx"}
           /\ dev' = dev /\ GoOn(A, <<>>) /\ g' = g
    BY <1>3, AccessEffect, ThreadsApart
  <2> HIDE DEF a
  <2> QED
    BY <1>4, <1>5, <1>6, <2>1
<1>8. QuietStep(dev, dev', ram)
  <2>1. ASSUME a.do = "reg"
        PROVE  QuietStep(dev, MmioWrite(dev, ram, a.off, a.v), ram)
    <3>1. a.off \in Nat /\ a.v \in Nat
      BY <1>3, <2>1, AccFields
    <3>2. Quiet(a.off, a.v)
      BY <1>3, <2>1 DEF Quiet, QueueRegs
    <3> HIDE DEF a
    <3> QED
      BY <1>1, <3>1, <3>2, MmioWriteType
  <2>2. ASSUME a.do = "put_status"
        PROVE  QuietStep(dev, SetDevStatus(dev, a.bits), ram)
    <3>1. a.bits \in SUBSET StatusBits
      BY <1>3, <2>2, AccFields
    <3> HIDE DEF a
    <3> QED
      BY <1>1, <3>1, SetDevStatusQuiet
  <2> QED
    BY <1>7, <2>1, <2>2, SameQuiet
<1>9. ASSUME NEW j \in DevQueues PROVE Ready(j)'
  BY <1>1, <1>7, <1>8 DEF Ready, QuietStep, Undisturbed, Holds
<1>10. PICK more \in Seq(QuietAccs) : GoOn(A, more)
  BY <1>7
<1>11. todo'[A] \in Seq(QuietAccs)
  BY <1>1, <1>2, <1>10, GoOnIn, ThreadsApart
<1> QED
  BY <1>9, <1>11 DEF Outside

LEMMA ClearingAccess ==
  ASSUME PInv, Clearing, Access(A)
  PROVE  Outside'
<1> DEFINE p == PutStatus({kStatusAck, kStatusDriver})
<1>1. Head(todo[A]) = PutStatus({}) /\ Tail(todo[A]) = <<p>> /\ todo[A] # <<>>
  BY DEF Clearing
<1>2. PutStatus({}).do = "put_status" /\ PutStatus({}).bits = {}
  BY DEF PutStatus
<1>3. dev' = DevInit /\ GoOn(A, <<>>)
  BY <1>1, <1>2, AccessEffect, ThreadsApart DEF SetDevStatus
<1>4. todo'[A] = <<p>>
  BY <1>1, <1>3, GoOnTail, ThreadsApart DEF PInv, DataOK
<1>5. p \in QuietAccs
  <2>1. {kStatusAck, kStatusDriver} \in SUBSET StatusBits
    BY DEF StatusBits
  <2>2. p \in Accs
    BY <2>1, StatusAcc
  <2>3. p.do = "put_status"
    BY DEF PutStatus
  <2> QED
    BY <2>2, <2>3 DEF QuietAccs
<1>6. \A j \in DevQueues : Ready(j)'
  BY <1>3, DevInitType DEF Ready
<1> HIDE DEF p
<1>7. todo'[A] \in Seq(QuietAccs)
  BY <1>4, <1>5, SeqOf
<1> QED
  BY <1>6, <1>7 DEF Outside

LEMMA SelectingAccess ==
  ASSUME PInv, Selecting, Access(A)
  PROVE  Asking'
<1>1. PICK i \in Queues, size \in Nat :
        /\ todo[A] = <<Reg(R_QUEUE_SEL, i), AskNumMax(i, size)>>
        /\ \A j \in DevQueues : Ready(j)
  BY DEF Selecting
<1> DEFINE a == Head(todo[A])
<1>2. a = Reg(R_QUEUE_SEL, i) /\ Tail(todo[A]) = <<AskNumMax(i, size)>>
      /\ todo[A] # <<>>
  BY <1>1
<1>3. a.do = "reg" /\ a.off = R_QUEUE_SEL /\ a.v = i
  BY <1>2 DEF Reg
<1>4. dev' = MmioWrite(dev, ram, a.off, a.v) /\ GoOn(A, <<>>) /\ g' = g
  BY <1>3, AccessEffect, ThreadsApart
<1>5. dev' = [dev EXCEPT !.sel = i]
  BY <1>3, <1>4, OtherOffsets
<1>6. dev'.sel = i /\ dev'.q = dev.q
  BY <1>5 DEF PInv, DataOK, Devices
<1>7. todo'[A] = <<AskNumMax(i, size)>>
  BY <1>2, <1>4, GoOnTail, ThreadsApart DEF PInv, DataOK
<1>8. ASSUME NEW j \in DevQueues PROVE Ready(j)'
  BY <1>1, <1>4, <1>6 DEF Ready, Holds
<1> QED
  BY <1>6, <1>7, <1>8 DEF Asking

\* Every register of a queue is among those a setup writes.
LEMMA SetupWrites ==
  ASSUME NEW q \in VqStates, NEW u \in VqStates, NEW size,
         u.desc_gpa = q.desc_gpa, u.avail_gpa = q.avail_gpa,
         u.used_gpa = q.used_gpa, u.size = size
  PROVE  /\ QueueRegisters(q, size) \in Seq(SetupAccs(u))
         /\ \A off \in QueueConfig :
              Has(QueueRegisters(q, size), Reg(off, Value(u, off)))
<1> DEFINE s == QueueRegisters(q, size)
           V(off) == Reg(off, Value(u, off))
<1>1. s = <<V(R_QUEUE_NUM), V(R_QDESC_LO), V(R_QDESC_HI), V(R_QDRV_LO),
            V(R_QDRV_HI), V(R_QDEV_LO), V(R_QDEV_HI), Reg(R_QUEUE_READY, 1)>>
  BY ValueOf DEF QueueRegisters
<1>2. s \in Seq(SetupAccs(u))
  <2> DEFINE T == SetupAccs(u)
  <2>1. /\ V(R_QUEUE_NUM) \in T /\ V(R_QDESC_LO) \in T /\ V(R_QDESC_HI) \in T
        /\ V(R_QDRV_LO) \in T /\ V(R_QDRV_HI) \in T /\ V(R_QDEV_LO) \in T
        /\ V(R_QDEV_HI) \in T /\ Reg(R_QUEUE_READY, 1) \in T
    BY DEF SetupAccs, QueueConfig
  <2> HIDE DEF T, V, s
  <2>2. s \in Seq(T)
    BY <1>1, <2>1
  <2> QED
    BY <2>2 DEF T
<1> HIDE DEF V
<1>3. /\ s[1] = V(R_QUEUE_NUM) /\ s[2] = V(R_QDESC_LO) /\ s[3] = V(R_QDESC_HI)
      /\ s[4] = V(R_QDRV_LO) /\ s[5] = V(R_QDRV_HI) /\ s[6] = V(R_QDEV_LO)
      /\ s[7] = V(R_QDEV_HI) /\ Len(s) = 8
  BY <1>1
<1>4. \A off \in QueueConfig : \E k \in 1 .. 8 : s[k] = V(off)
  <2> HIDE DEF s
  <2> QED
    BY <1>3 DEF QueueConfig
<1> QED
  BY <1>2, <1>3, <1>4 DEF Has, V

LEMMA AskingAccess ==
  ASSUME PInv, Asking, Access(A)
  PROVE  Phase'
<1>1. PICK i \in Queues, size \in Nat :
        /\ todo[A] = <<AskNumMax(i, size)>> /\ dev.sel = i
        /\ \A j \in DevQueues : Ready(j)
  BY DEF Asking
<1> DEFINE a == Head(todo[A])
           z == SizeFor(size)
           q == g[A].vqs[i]
<1>2. a = AskNumMax(i, size) /\ Tail(todo[A]) = <<>> /\ todo[A] # <<>>
  BY <1>1
<1>3. a.do = "num_max" /\ a.i = i /\ a.size = size
  BY <1>2 DEF AskNumMax
<1>4. /\ dev' = dev
      /\ \/ NumMax(dev) = 0 /\ GoOn(A, <<>>) /\ g' = g
         \/ /\ NumMax(dev) # 0
            /\ g' = [g EXCEPT ![A] = WithSize(g[A], i, z)]
            /\ GoOn(A, QueueRegisters(q, z))
  BY <1>3, AccessEffect, ThreadsApart
<1>5. /\ todo \in [Threads -> Seq(Accs)] /\ g \in [Threads -> States]
  BY DEF PInv, DataOK
<1>6. CASE NumMax(dev) = 0 /\ GoOn(A, <<>>) /\ g' = g
  <2>1. todo'[A] = <<>>
    BY <1>2, <1>5, <1>6, GoOnTail, ThreadsApart
  <2>2. ASSUME NEW j \in DevQueues PROVE Ready(j)'
    BY <1>1, <1>4, <1>6 DEF Ready, Holds
  <2>3. Outside'
    BY <2>1, <2>2 DEF Outside
  <2> QED
    BY <2>3 DEF Phase
<1>7. CASE /\ NumMax(dev) # 0
           /\ g' = [g EXCEPT ![A] = WithSize(g[A], i, z)]
           /\ GoOn(A, QueueRegisters(q, z))
  <2>1. i \in DevQueues
    BY <1>1, <1>7 DEF NumMax
  <2>2. z \in 1 .. QueueNumMax
    BY QueueSize
  <2>3. g[A] \in States /\ q \in VqStates
    BY <1>5, ThreadsApart DEF States
  <2>4. g'[A] = WithSize(g[A], i, z)
    BY <1>5, <1>7, ThreadsApart
  <2> HIDE DEF z, a
  <2>5. /\ g'[A].vqs[i] \in VqStates
        /\ g'[A].vqs[i].desc_gpa = q.desc_gpa
        /\ g'[A].vqs[i].avail_gpa = q.avail_gpa
        /\ g'[A].vqs[i].used_gpa = q.used_gpa /\ g'[A].vqs[i].size = z
        /\ \A j \in Queues \ {i} : g'[A].vqs[j] = g[A].vqs[j]
    BY <2>2, <2>3, <2>4, SizedQueue
  <2> DEFINE u == g'[A].vqs[i]
             s == QueueRegisters(q, z)
  <2>6. /\ s \in Seq(SetupAccs(u))
        /\ \A off \in QueueConfig : Has(s, Reg(off, Value(u, off)))
    BY <2>3, <2>5, SetupWrites
  <2>7. todo'[A] = s
    <3> HIDE DEF s, u
    <3>1. s \o <<>> = s
      BY <2>6, ConcatEmptySeq
    <3>2. todo' = [todo EXCEPT ![A] = s \o Tail(todo[A])]
      BY <1>7 DEF GoOn, s
    <3> QED
      BY <1>2, <1>5, <3>1, <3>2, ThreadsApart
  <2>8. ASSUME NEW j \in DevQueues \ {i} PROVE Ready(j)'
    <3>1. g'[A].vqs[j] = g[A].vqs[j]
      BY <2>5, DeviceAssumption
    <3> QED
      BY <1>1, <1>4, <3>1 DEF Ready, Holds
  <2>9. Filling(i)'
    BY <1>1, <1>4, <2>6, <2>7, <2>8 DEF Filling
  <2> QED
    BY <2>1, <2>9 DEF Phase, Programming
<1> QED
  BY <1>4, <1>6, <1>7

\* One register write of a setup.
LEMMA FillingWrite ==
  ASSUME PInv, NEW i \in DevQueues, Filling(i), Access(A)
  PROVE  /\ todo[A] # <<>> /\ todo'[A] = Tail(todo[A]) /\ g' = g
         /\ \E off \in QueueRegs, v \in Nat :
              /\ Head(todo[A]) = Reg(off, v)
              /\ off \in QueueConfig => v = Value(g[A].vqs[i], off)
              /\ dev'.sel = i /\ dev'.q[i] = Registered(dev.q[i], off, v)
              /\ \A j \in DevQueues \ {i} : dev'.q[j] = dev.q[j]
<1> DEFINE q == g[A].vqs[i]
           p == dev.q[i]
           a == Head(todo[A])
           S == SetupAccs(q)
<1>1. /\ todo \in [Threads -> Seq(Accs)] /\ dev \in Devices
      /\ p \in DevQueueStates /\ q \in VqStates
  BY DeviceAssumption, ThreadsApart DEF PInv, DataOK, Devices, States
<1>2. todo[A] # <<>> /\ todo[A] \in Seq(S) /\ a \in S /\ dev.sel = i
  <2>1. todo[A] # <<>>
    BY AccessEffect, ThreadsApart
  <2>2. todo[A] \in Seq(S)
    BY DEF Filling
  <2>3. a \in S
    <3> HIDE DEF S
    <3> QED
      BY <2>1, <2>2, HeadTailProperties
  <2> QED
    BY <2>1, <2>2, <2>3 DEF Filling
<1>3. PICK off \in QueueRegs, v \in Nat :
        a = Reg(off, v) /\ (off \in QueueConfig => v = Value(q, off))
  <2>1. CASE a = Reg(R_QUEUE_READY, 1)
    <3>1. R_QUEUE_READY \in QueueRegs /\ 1 \in Nat
      BY DEF QueueRegs
    <3>2. R_QUEUE_READY \notin QueueConfig
      BY DEF QueueConfig, R_QUEUE_NUM, R_QUEUE_READY, R_QDESC_LO, R_QDESC_HI,
             R_QDRV_LO, R_QDRV_HI, R_QDEV_LO, R_QDEV_HI
    <3> QED
      BY <2>1, <3>1, <3>2
  <2>2. ASSUME NEW x \in QueueConfig, a = Reg(x, Value(q, x))
        PROVE  \E off \in QueueRegs, v \in Nat :
                 a = Reg(off, v) /\ (off \in QueueConfig => v = Value(q, off))
    <3>1. x \in QueueRegs /\ Value(q, x) \in Nat
      BY <1>1, ValueType DEF QueueRegs
    <3> QED
      BY <2>2, <3>1
  <2> QED
    BY <1>2, <2>1, <2>2 DEF SetupAccs
<1>4. a.do = "reg" /\ a.off = off /\ a.v = v
  BY <1>3 DEF Reg
<1>5. dev' = MmioWrite(dev, ram, off, v) /\ GoOn(A, <<>>) /\ g' = g
  BY <1>4, AccessEffect, ThreadsApart
<1> DEFINE r == Registered(p, off, v)
<1>6. dev' = WithQueue(dev, i, r)
  <2>1. MmioWrite(dev, ram, off, v) = Selected(dev, off, v)
    BY <1>2, QueueRegsApart, QueueOffsets
  <2>2. Selected(dev, off, v) = WithQueue(dev, i, r)
    BY <1>1, <1>2, SelectedField
  <2> QED
    BY <1>5, <2>1, <2>2
<1>7. /\ dev'.sel = i /\ dev'.q[i] = r
      /\ \A j \in DevQueues \ {i} : dev'.q[j] = dev.q[j]
  <2>1. r \in DevQueueStates
    BY <1>1, RegisteredType
  <2> HIDE DEF r, p
  <2> QED
    BY <1>1, <1>2, <1>6, <2>1, WithQueueType
<1>8. todo'[A] = Tail(todo[A])
  BY <1>1, <1>2, <1>5, GoOnTail, ThreadsApart
<1> HIDE DEF a, r
<1> QED
  BY <1>2, <1>3, <1>5, <1>7, <1>8 DEF a, r

LEMMA FillingAccess ==
  ASSUME PInv, NEW i \in DevQueues, Filling(i), Access(A)
  PROVE  Filling(i)'
<1> DEFINE q == g[A].vqs[i]
           p == dev.q[i]
           a == Head(todo[A])
           S == SetupAccs(q)
<1>1. p \in DevQueueStates /\ q \in VqStates
  BY DeviceAssumption, ThreadsApart DEF PInv, DataOK, Devices, States
<1>2. todo[A] \in Seq(S)
  BY DEF Filling
<1>3. /\ todo[A] # <<>> /\ todo'[A] = Tail(todo[A]) /\ g' = g
      /\ \E off \in QueueRegs, v \in Nat :
           /\ a = Reg(off, v) /\ (off \in QueueConfig => v = Value(q, off))
           /\ dev'.sel = i /\ dev'.q[i] = Registered(p, off, v)
           /\ \A j \in DevQueues \ {i} : dev'.q[j] = dev.q[j]
  BY FillingWrite
<1>4. PICK off \in QueueRegs, v \in Nat :
        /\ a = Reg(off, v) /\ (off \in QueueConfig => v = Value(q, off))
        /\ dev'.sel = i /\ dev'.q[i] = Registered(p, off, v)
        /\ \A j \in DevQueues \ {i} : dev'.q[j] = dev.q[j]
  BY <1>3
<1> DEFINE r == Registered(p, off, v)
<1>5. /\ todo'[A] \in Seq(S)
      /\ \A x : Has(todo[A], x) => x = a \/ Has(todo'[A], x)
  <2> HIDE DEF S
  <2>1. /\ Tail(todo[A]) \in Seq(S) /\ Len(Tail(todo[A])) = Len(todo[A]) - 1
        /\ \A k \in 1 .. Len(Tail(todo[A])) :
             Tail(todo[A])[k] = todo[A][k + 1]
        /\ Len(todo[A]) \in Nat
    BY <1>2, <1>3, HeadTailProperties, LenProperties
  <2>2. ASSUME NEW x, Has(todo[A], x), x # a PROVE Has(todo'[A], x)
    <3>1. PICK k \in 1 .. Len(todo[A]) : todo[A][k] = x
      BY <2>2 DEF Has
    <3>2. k # 1
      BY <1>2, <2>2, <3>1
    <3>3. k - 1 \in 1 .. Len(Tail(todo[A])) /\ Tail(todo[A])[k - 1] = x
      <4>1. k - 1 \in 1 .. Len(Tail(todo[A])) /\ (k - 1) + 1 = k
        BY <2>1, <3>1, <3>2
      <4> QED
        BY <2>1, <3>1, <4>1
    <3> QED
      BY <1>3, <3>3 DEF Has
  <2> QED
    BY <1>3, <2>1, <2>2
<1>6. ASSUME NEW x \in QueueConfig
       PROVE  \/ Field(r, x) = Value(q, x)
              \/ Has(todo'[A], Reg(x, Value(q, x)))
  <2>1. Field(r, x) = IF x = off THEN v ELSE Field(p, x)
    BY <1>1, FieldSet
  <2>2. CASE x = off
    BY <1>4, <2>1, <2>2
  <2>3. CASE x # off
    <3>1. Reg(x, Value(q, x)) # a
      BY <1>4, <2>3 DEF Reg
    <3>2. \/ Field(p, x) = Value(q, x)
          \/ Has(todo[A], Reg(x, Value(q, x)))
      BY DEF Filling
    <3> QED
      BY <1>5, <2>1, <2>3, <3>1, <3>2
  <2> QED
    BY <2>2, <2>3
<1>7. ASSUME NEW j \in DevQueues \ {i} PROVE Ready(j)'
  <2>1. Ready(j)
    BY DEF Filling
  <2> QED
    BY <1>3, <1>4, <2>1 DEF Ready, Holds
<1> QED
  BY <1>3, <1>4, <1>5, <1>6, <1>7 DEF Filling

\* Thread A begins an operation between two others.
LEMMA BeginOpPhase ==
  ASSUME CalmPrograms, PInv, BeginOp(A)
  PROVE  Phase' /\ todo'[B] = todo[B]
<1> DEFINE op == prog[A][at[A] + 1]
           s  == g[A]
           u  == After(s, op)
           x  == Accesses(s, op)
<1>1. /\ todo' = [todo EXCEPT ![A] = x] /\ g' = [g EXCEPT ![A] = u]
      /\ dev' = dev /\ todo[A] = <<>>
  BY DEF BeginOp, Free
<1>2. /\ ControlOK /\ WellFormed(op) /\ g \in [Threads -> States]
      /\ todo \in [Threads -> Seq(Accs)] /\ prog[A] \in ProgramsA
  BY NextOperation, ThreadsApart DEF PInv, DataOK, ControlOK
<1>3. op.kind = "MmioCorrupt" => op.off % MmioSize \notin QueueRegs
  <2>1. PICK k \in 1 .. Len(prog[A]) : k = at[A] + 1
    BY <1>2, OperationOf, ThreadsApart
  <2> QED
    BY <1>2, <2>1 DEF CalmPrograms
<1> HIDE DEF op
<1>4. /\ todo'[A] = x /\ todo'[B] = todo[B] /\ g'[A] = u /\ s \in States
      /\ s.buf_alloc >= BufPoolBase
  BY <1>1, <1>2, ThreadsApart DEF PInv, DataOK
<1>5. \A j \in DevQueues : Ready(j)
  BY <1>1, PhaseRings
<1>6. CASE op.kind = "Reset"
  <2>1. x = <<PutStatus({}), PutStatus({kStatusAck, kStatusDriver})>>
    BY <1>6 DEF Accesses
  <2>2. Clearing'
    BY <1>4, <2>1 DEF Clearing
  <2> QED
    BY <1>4, <2>2 DEF Phase
<1>7. ASSUME op.kind # "Reset", NEW j \in DevQueues PROVE Ready(j)'
  <2> DEFINE same == /\ u.vqs[j].size = s.vqs[j].size
                     /\ u.vqs[j].desc_gpa = s.vqs[j].desc_gpa
                     /\ u.vqs[j].avail_gpa = s.vqs[j].avail_gpa
                     /\ u.vqs[j].used_gpa = s.vqs[j].used_gpa
  <2>1. j \in Queues
    BY DeviceAssumption
  <2>2. \/ u = s
        \/ \E len \in 0 .. MaxData : op.id \in BufIds /\ u = WithBuffer(s, op.id, len)
        \/ /\ op.i \in Queues /\ op.more \in BOOLEAN
           /\ u = AfterAddDesc(s, op.i, op.more) /\ u \in States
    BY <1>2, <1>4, <1>7, AfterCases
  <2> HIDE DEF u, s
  <2>3. ASSUME u = s PROVE same
    BY <2>3
  <2>4. ASSUME NEW len \in 0 .. MaxData, u = WithBuffer(s, op.id, len)
        PROVE  same
    BY <1>4, <2>4 DEF WithBuffer, States
  <2>5. ASSUME op.i \in Queues, op.more \in BOOLEAN,
               u = AfterAddDesc(s, op.i, op.more), u \in States
        PROVE  same
    <3>1. CASE j = op.i
      BY <1>4, <2>5, <3>1, AddedQueue
    <3>2. CASE j # op.i
      BY <1>4, <2>1, <2>5, <3>2, AddedQueue
    <3> QED
      BY <3>1, <3>2
  <2>6. same
    BY <2>2, <2>3, <2>4, <2>5
  <2> QED
    BY <1>1, <1>4, <1>5, <2>6 DEF Ready, Holds, s
<1>8. CASE op.kind = "VqSetup" /\ op.i \in Queues
  <2>1. x = <<Reg(R_QUEUE_SEL, op.i), AskNumMax(op.i, op.size)>>
    BY <1>8 DEF Accesses
  <2>2. op.size \in Nat
    BY <1>2, <1>8 DEF WellFormed
  <2>3. \A j \in DevQueues : Ready(j)'
    BY <1>7, <1>8
  <2> HIDE DEF x
  <2>4. Selecting'
    BY <1>4, <1>8, <2>1, <2>2, <2>3 DEF Selecting
  <2> QED
    BY <1>4, <2>4 DEF Phase
<1>9. CASE op.kind = "VqSetup" /\ op.i \notin Queues
  <2>1. x = <<>>
    BY <1>9 DEF Accesses
  <2>2. \A j \in DevQueues : Ready(j)'
    BY <1>7, <1>9
  <2> HIDE DEF x
  <2>3. Outside'
    BY <1>4, <2>1, <2>2 DEF Outside
  <2> QED
    BY <1>4, <2>3 DEF Phase
<1>10. CASE op.kind \notin {"VqSetup", "Reset"}
  <2>1. x \in Seq(Accs)
    BY <1>2, <1>4, AccessesType
  <2>2. \A k \in 1 .. Len(x) : Plain(x[k], op)
    BY <1>10, PlainAccesses
  <2> HIDE DEF x
  <2>3. ASSUME NEW k \in 1 .. Len(x) PROVE x[k] \in QuietAccs
    <3>1. x[k] \in Accs /\ Plain(x[k], op)
      BY <2>1, <2>2
    <3>2. R_QUEUE_SEL \notin QueueRegs /\ R_QUEUE_NOTIFY \notin QueueRegs
      BY QueueRegsApart
    <3> QED
      BY <1>3, <3>1, <3>2 DEF Plain, QuietAccs
  <2>4. x \in Seq(QuietAccs)
    BY <2>1, <2>3
  <2>5. \A j \in DevQueues : Ready(j)'
    BY <1>7, <1>10
  <2>6. Outside'
    BY <1>4, <2>4, <2>5 DEF Outside
  <2> QED
    BY <1>4, <2>6 DEF Phase
<1> QED
  BY <1>4, <1>6, <1>8, <1>9, <1>10

\* Thread B begins one of its calm operations.
LEMMA BeginOpCalm ==
  ASSUME CalmPrograms, PInv, BeginOp(B)
  PROVE  Phase' /\ todo'[B] \in Seq(CalmAccs)
<1> DEFINE op == prog[B][at[B] + 1]
           x  == Accesses(g[B], op)
<1>1. /\ todo' = [todo EXCEPT ![B] = x]
      /\ g' = [g EXCEPT ![B] = After(g[B], op)] /\ dev' = dev
  BY DEF BeginOp
<1>2. /\ ControlOK /\ WellFormed(op) /\ g \in [Threads -> States]
      /\ todo \in [Threads -> Seq(Accs)] /\ prog[B] \in ProgramsB
  BY NextOperation, ThreadsApart DEF PInv, DataOK, ControlOK
<1>3. Calm(op)
  <2>1. PICK k \in 1 .. Len(prog[B]) : k = at[B] + 1
    BY <1>2, OperationOf, ThreadsApart
  <2> QED
    BY <1>2, <2>1 DEF CalmPrograms
<1> HIDE DEF op
<1>4. g'[A] = g[A] /\ todo'[A] = todo[A] /\ todo'[B] = x
  BY <1>1, <1>2, ThreadsApart
<1>5. Phase'
  <2>1. CalmStep(dev, dev')
    BY <1>1 DEF CalmStep, SameSetup
  <2> QED
    BY <1>4, <2>1, PhaseKept DEF PInv
<1>6. x \in Seq(Accs)
  BY <1>2, AccessesType, ThreadsApart DEF PInv, DataOK
<1>7. \A k \in 1 .. Len(x) : Plain(x[k], op)
  BY <1>3, PlainAccesses DEF Calm
<1> HIDE DEF x
<1>8. ASSUME NEW k \in 1 .. Len(x) PROVE x[k] \in CalmAccs
  <2>1. x[k] \in Accs /\ Plain(x[k], op)
    BY <1>6, <1>7
  <2>2. R_QUEUE_NOTIFY \notin QueueRegs \cup {R_QUEUE_SEL, R_STATUS}
    BY QueueRegsApart DEF R_QUEUE_NOTIFY, R_QUEUE_SEL, R_STATUS
  <2> QED
    BY <1>3, <2>1, <2>2 DEF Plain, Calm, CalmAccs
<1>9. x \in Seq(CalmAccs)
  BY <1>6, <1>8
<1> QED
  BY <1>4, <1>5, <1>9

\* Thread A makes an access, wherever it is.
LEMMA PhaseAccess ==
  ASSUME PInv, Access(A)
  PROVE  Phase' /\ todo'[B] = todo[B]
<1>1. todo'[B] = todo[B]
  <2>1. \E more : todo' = [todo EXCEPT ![A] = more]
    BY AccessEffect, ThreadsApart DEF GoOn
  <2> QED
    BY <2>1, ThreadsApart DEF PInv, DataOK
<1>2. ASSUME NEW i \in DevQueues, Filling(i) PROVE Programming'
  BY <1>2, FillingAccess DEF Programming
<1>3. Phase'
  <2>1. Outside \/ Clearing \/ Selecting \/ Asking \/ Programming
    BY DEF PInv, Phase
  <2>2. CASE Outside
    BY <2>2, OutsideAccess DEF Phase
  <2>3. CASE Clearing
    BY <2>3, ClearingAccess DEF Phase
  <2>4. CASE Selecting
    BY <2>4, SelectingAccess DEF Phase
  <2>5. CASE Asking
    BY <2>5, AskingAccess
  <2>6. CASE Programming
    <3>1. PICK i \in DevQueues : Filling(i)
      BY <2>6 DEF Programming
    <3>2. Programming'
      BY <1>2, <3>1
    <3> QED
      BY <3>2 DEF Phase
  <2> QED
    BY <2>1, <2>2, <2>3, <2>4, <2>5, <2>6
<1> QED
  BY <1>1, <1>3

LEMMA NextPInv == ASSUME CalmPrograms PROVE PInv /\ [Next]_vars => PInv'
<1> SUFFICES ASSUME PInv, [Next]_vars PROVE PInv'
  OBVIOUS
<1>1. ControlOK' /\ DataOK'
  BY ControlStep, DataStep DEF PInv
<1>2. ASSUME Phase', todo'[B] \in Seq(CalmAccs) PROVE PInv'
  BY <1>1, <1>2 DEF PInv
<1>3. ASSUME UNCHANGED <<g, dev, todo>> PROVE PInv'
  <2>1. CalmStep(dev, dev')
    BY <1>3 DEF CalmStep, SameSetup
  <2>2. Phase'
    BY <1>3, <2>1, PhaseKept DEF PInv
  <2> QED
    BY <1>2, <1>3, <2>2 DEF PInv
<1>4. CASE UNCHANGED vars
  BY <1>3, <1>4 DEF vars
<1>5. CASE StopB \/ Join \/ BeginRound \/ EndRound \/ EndB
  BY <1>3, <1>5 DEF StopB, Join, BeginRound, EndRound, EndB
<1>6. CASE BeginOp(A)
  BY <1>2, <1>6, BeginOpPhase DEF PInv
<1>7. CASE BeginOp(B)
  BY <1>2, <1>7, BeginOpCalm
<1>8. CASE Access(A)
  BY <1>2, <1>8, PhaseAccess DEF PInv
<1>9. CASE Access(B)
  BY <1>2, <1>9, CalmAccess
<1> QED
  BY <1>4, <1>5, <1>6, <1>7, <1>8, <1>9 DEF Next, StepA, StepB, Returned

\* A setup of thread A comes out whole whatever thread B does between its
\* register writes, as long as thread B neither selects a queue nor resets the
\* device: after it, and until thread A's next one, a ready queue holds the size
\* and addresses thread A keeps for it.
THEOREM SetupsStayWhole == CalmPrograms => (Spec => []RingsProgrammed)
<1> SUFFICES ASSUME CalmPrograms PROVE Spec => []RingsProgrammed
  OBVIOUS
<1>1. Init => PInv
  BY InitPInv
<1>2. PInv /\ [Next]_vars => PInv'
  BY NextPInv
<1>3. PInv => RingsProgrammed
  BY PhaseRings DEF RingsProgrammed, Free, Ready, Holds
<1> QED
  BY <1>1, <1>2, <1>3, PTL DEF Spec

==============================================================================
