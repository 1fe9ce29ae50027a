----------------------------- MODULE BlkThreads -----------------------------
(***************************************************************************)
(* The virtio-blk harness in concurrent mode: thread A dispatches ops once *)
(* while thread B dispatches ops_thread_b up to iter times.  Each thread   *)
(* has a State of its own; they share the device, guest memory and b_stop. *)
(*                                                                         *)
(* An operation is no longer one step: beginning it does its work on the   *)
(* thread's own State and leaves the register and memory accesses it makes *)
(* in todo, and every access is a step by itself.  What an access reads    *)
(* (QUEUE_NUM_MAX, STATUS, INTERRUPT_STATUS) decides the accesses after it.*)
(* Programs are data, chosen at the start from ProgramsA and ProgramsB.    *)
(***************************************************************************)
EXTENDS BlkState

CONSTANTS
  A, B,        \* the two threads
  ProgramsA,   \* sequences of operations thread A may be given
  ProgramsB,   \* and those thread B may be given
  IterArgs,    \* thread_b_iter values
  MaxIter,     \* what thread_b_iter is clamped to, 100 in the code
  MaxOps       \* kMaxOps, for thread A only

\* Every operation of thread A places at most one 16-byte descriptor, and the
\* table area holds one for each of them.
ASSUME ThreadAssumption ==
  /\ A # B /\ MaxIter \in Nat \ {0} /\ IterArgs \subseteq Int
  /\ MaxOps \in Nat /\ MaxOps * 16 <= VqDescSize

\* Thread A cannot allocate its way into the upper half of the pool.
ASSUME RoomAssumption == BufPoolBase + MaxOps * (MaxData + 16) <= BufPoolMid

\* The arguments an operation has, by the types of the fields of its message.
WellFormed(op) ==
  CASE op.kind \in {"VqSelect", "VqKick"} -> op.i \in Nat
    [] op.kind = "VqSetup" -> op.i \in Nat /\ op.size \in Nat
    [] op.kind = "SetStatus" -> op.bits \subseteq StatusBits
    [] op.kind = "MmioCorrupt" -> op.off \in Nat /\ op.v \in Nat
    [] op.kind = "GuestMemWrite" -> op.id \in BufIds /\ op.size \in Nat
    [] op.kind = "MemwriteAbsolute" -> op.gpa \in Nat /\ op.size \in Nat
    [] op.kind = "VqAddDesc" ->
         /\ op.i \in Nat /\ op.id \in Nat /\ op.len \in Nat /\ op.region \in Nat
         /\ op.writable \in BOOLEAN /\ op.more \in BOOLEAN
         /\ op.region = 0 => op.id \in BufIds
    [] OTHER -> TRUE

\* A program is a list of operations.
ASSUME ProgramsAssumption ==
  \A p \in ProgramsA \cup ProgramsB :
    /\ Len(p) \in Nat
    /\ \A k \in 1 .. Len(p) : WellFormed(p[k])

VARIABLES
  prog,     \* the operations of each thread
  iter,     \* thread_b_iter after the clamp
  g,        \* g_state of each thread
  ram, dev, \* shared
  pc,       \* A: "ops", "join", "done";  B: "loop", "ops", "done"
  at,       \* operations begun: by A (n), by B in this pass (j)
  rounds,   \* passes thread B has begun (i)
  todo,     \* accesses left of the operation each thread is in
  stop,     \* b_stop, as A has stored it
  wrote     \* history: the last write to guest memory

vars == <<prog, iter, g, ram, dev, pc, at, rounds, todo, stop, wrote>>

Threads == {A, B}

Each(a, b) == [t \in Threads |-> IF t = A THEN a ELSE b]

\* Plausible slip: only the upper end of the clamp.
ClampIter_NoFloor(x) == Lesser(x, MaxIter)

ClampIter(x) == IF x < 1 THEN 1 ELSE Lesser(x, MaxIter)

Init ==
  /\ prog \in {Each(pa, pb) : pa \in ProgramsA, pb \in ProgramsB}
  /\ iter \in {ClampIter(x) : x \in IterArgs}
  /\ g = Each(ResetState, ThreadBState)
  /\ ram = RamInit
  /\ dev = [DevInit EXCEPT !.status = {kStatusAck, kStatusDriver}]
  /\ pc = Each("ops", "loop")
  /\ at = [t \in Threads |-> 0]
  /\ rounds = 0
  /\ todo = [t \in Threads |-> <<>>]
  /\ stop = FALSE
  /\ wrote = Write("buffer", BufPoolBase, 0)

----------------------------------------------------------------------------
(* Accesses *)

Reg(off, v)           == [do |-> "reg", off |-> off, v |-> v]
OrStatus(bits)        == [do |-> "or_status", bits |-> bits]
PutStatus(bits)       == [do |-> "put_status", bits |-> bits]
AckIsr                == [do |-> "ack_isr"]
AskNumMax(i, size)    == [do |-> "num_max", i |-> i, size |-> size]
WriteBuffer(gpa, len) == [do |-> "buffer", gpa |-> gpa, len |-> len]
WriteDesc(q, d)  == [do |-> "desc", table |-> q.desc_gpa, slot |-> Slot(q),
                     d |-> d]
WriteRing(q)     == [do |-> "ring", avail |-> q.avail_gpa,
                     slot |-> RingSlot(q), v |-> PublishedHead(q)]
WriteIdx(q)      == [do |-> "idx", avail |-> q.avail_gpa,
                     v |-> PublishedIdx(q)]

\* Plausible slip: avail.idx is bumped before the entry it covers is there.
Publication_IdxFirst(q) == <<WriteIdx(q), WriteRing(q)>>

Publication(q) == <<WriteRing(q), WriteIdx(q)>>

\* Plausible slip: the high halves of the addresses are left as they are.
QueueRegisters_LowOnly(q, size) ==
  <<Reg(R_QUEUE_NUM, size), Reg(R_QDESC_LO, Lo(q.desc_gpa)),
    Reg(R_QDRV_LO, Lo(q.avail_gpa)), Reg(R_QDEV_LO, Lo(q.used_gpa)),
    Reg(R_QUEUE_READY, 1)>>

QueueRegisters(q, size) ==
  <<Reg(R_QUEUE_NUM, size),
    Reg(R_QDESC_LO, Lo(q.desc_gpa)), Reg(R_QDESC_HI, Hi(q.desc_gpa)),
    Reg(R_QDRV_LO, Lo(q.avail_gpa)), Reg(R_QDRV_HI, Hi(q.avail_gpa)),
    Reg(R_QDEV_LO, Lo(q.used_gpa)),  Reg(R_QDEV_HI, Hi(q.used_gpa)),
    Reg(R_QUEUE_READY, 1)>>

\* What an operation makes a thread access, given the thread's State.
Accesses(s, op) ==
  CASE op.kind = "VqSelect" -> <<Reg(R_QUEUE_SEL, op.i % 256)>>
    [] op.kind = "VqSetup" ->
         IF op.i \in Queues
         THEN <<Reg(R_QUEUE_SEL, op.i), AskNumMax(op.i, op.size)>> ELSE <<>>
    [] op.kind = "SetFeatures" -> <<OrStatus({kStatusFeaturesOk})>>
    [] op.kind = "SetStatus" ->
         IF op.bits = {} THEN <<PutStatus({})>> ELSE <<OrStatus(op.bits)>>
    [] op.kind = "VqKick" -> <<Reg(R_QUEUE_NOTIFY, op.i)>>
    [] op.kind = "VqWaitUsed" -> <<AckIsr>>
    [] op.kind = "Reset" ->
         <<PutStatus({}), PutStatus({kStatusAck, kStatusDriver})>>
    [] op.kind = "MmioCorrupt" -> <<Reg(op.off % MmioSize, op.v)>>
    [] op.kind = "GuestMemWrite" ->
         LET len == Lesser(op.size, MaxData)
         IN  IF len # 0 /\ AllocFits(s.buf_alloc, len)
             THEN <<WriteBuffer(s.buf_alloc, len)>> ELSE <<>>
    [] op.kind = "MemwriteAbsolute" ->
         LET len == Lesser(op.size, MaxData)
         IN  IF len # 0 THEN <<WriteBuffer(ClampGpa(op.gpa, len), len)>>
             ELSE <<>>
    [] op.kind = "VqAddDesc" ->
         IF CanAddDesc(s, op.i, op.id, op.region)
         THEN LET q == s.vqs[op.i]
                  t == Target(s, op.id, op.len, op.region)
              IN  <<WriteDesc(q, Descriptor(q, t, op.writable, op.more))>> \o
                  IF op.more THEN <<>> ELSE Publication(q)
         ELSE <<>>
    [] OTHER -> <<>>

\* And what it makes of that State, before or between its accesses.
After(s, op) ==
  CASE op.kind = "GuestMemWrite" /\ AllocFits(s.buf_alloc,
                                              Lesser(op.size, MaxData)) ->
         WithBuffer(s, op.id, Lesser(op.size, MaxData))
    [] op.kind = "VqAddDesc" /\ CanAddDesc(s, op.i, op.id, op.region) ->
         AfterAddDesc(s, op.i, op.more)
    [] op.kind = "Reset" -> ResetState
    [] OTHER -> s

----------------------------------------------------------------------------
(* Control of the threads *)

Free(t) == pc[t] = "ops" /\ todo[t] = <<>>

OpsOf(t) == IF t = A THEN Lesser(Len(prog[A]), MaxOps) ELSE Len(prog[B])

BeginOp(t) ==
  /\ Free(t) /\ at[t] < OpsOf(t)
  /\ LET op == prog[t][at[t] + 1]
     IN  /\ todo' = [todo EXCEPT ![t] = Accesses(g[t], op)]
         /\ g' = [g EXCEPT ![t] = After(g[t], op)]
  /\ at' = [at EXCEPT ![t] = @ + 1]
  /\ UNCHANGED <<prog, iter, ram, dev, pc, rounds, stop, wrote>>

StopB ==
  /\ Free(A) /\ at[A] = OpsOf(A)
  /\ stop' = TRUE
  /\ pc' = [pc EXCEPT ![A] = "join"]
  /\ UNCHANGED <<prog, iter, g, ram, dev, at, rounds, todo, wrote>>

Join ==
  /\ pc[A] = "join" /\ pc[B] = "done"
  /\ pc' = [pc EXCEPT ![A] = "done"]
  /\ UNCHANGED <<prog, iter, g, ram, dev, at, rounds, todo, stop, wrote>>

\* Plausible slip: the pass counter is not advanced.
NextRound_Missing(i) == i

NextRound(i) == i + 1

\* b_stop is loaded relaxed: until the join, B may still see FALSE.
BeginRound ==
  /\ pc[B] = "loop" /\ rounds < iter
  /\ rounds' = NextRound(rounds)
  /\ pc' = [pc EXCEPT ![B] = "ops"]
  /\ at' = [at EXCEPT ![B] = 0]
  /\ UNCHANGED <<prog, iter, g, ram, dev, todo, stop, wrote>>

EndRound ==
  /\ Free(B) /\ at[B] = OpsOf(B)
  /\ pc' = [pc EXCEPT ![B] = "loop"]
  /\ UNCHANGED <<prog, iter, g, ram, dev, at, rounds, todo, stop, wrote>>

EndB ==
  /\ pc[B] = "loop" /\ (rounds >= iter \/ stop)
  /\ pc' = [pc EXCEPT ![B] = "done"]
  /\ UNCHANGED <<prog, iter, g, ram, dev, at, rounds, todo, stop, wrote>>

----------------------------------------------------------------------------
(* One access *)

Do(t, what) == todo[t] # <<>> /\ Head(todo[t]).do = what

\* Afterwards thread t goes on with more, then with what it still had to do.
GoOn(t, more) ==
  /\ todo' = [todo EXCEPT ![t] = more \o Tail(@)]
  /\ UNCHANGED <<prog, iter, pc, at, rounds, stop>>

WriteRegister(t) ==
  /\ Do(t, "reg")
  /\ dev' = MmioWrite(dev, ram, Head(todo[t]).off, Head(todo[t]).v)
  /\ GoOn(t, <<>>)
  /\ UNCHANGED <<g, ram, wrote>>

\* mmio_writel(R_STATUS, mmio_readl(R_STATUS) | bits) is two accesses.
ReadStatus(t) ==
  /\ Do(t, "or_status")
  /\ GoOn(t, <<PutStatus(dev.status \cup Head(todo[t]).bits)>>)
  /\ UNCHANGED <<g, ram, dev, wrote>>

WriteStatus(t) ==
  /\ Do(t, "put_status")
  /\ dev' = SetDevStatus(dev, Head(todo[t]).bits)
  /\ GoOn(t, <<>>)
  /\ UNCHANGED <<g, ram, wrote>>

ReadIsr(t) ==
  /\ Do(t, "ack_isr")
  /\ GoOn(t, IF dev.isr THEN <<Reg(R_INT_ACK, 1)>> ELSE <<>>)
  /\ UNCHANGED <<g, ram, dev, wrote>>

ReadNumMax(t) ==
  /\ Do(t, "num_max")
  /\ LET a == Head(todo[t])
         size == SizeFor(a.size)
     IN  IF NumMax(dev) = 0
         THEN GoOn(t, <<>>) /\ UNCHANGED g
         ELSE /\ g' = [g EXCEPT ![t] = WithSize(@, a.i, size)]
              /\ GoOn(t, QueueRegisters(g[t].vqs[a.i], size))
  /\ UNCHANGED <<ram, dev, wrote>>

StoreBuffer(t) ==
  /\ Do(t, "buffer")
  /\ wrote' = Write("buffer", Head(todo[t]).gpa, Head(todo[t]).len)
  /\ GoOn(t, <<>>)
  /\ UNCHANGED <<g, dev, ram>>

StoreDesc(t) ==
  /\ Do(t, "desc")
  /\ LET a == Head(todo[t])
     IN  /\ ram' = PutDesc(ram, a.table, a.slot, a.d)
         /\ wrote' = Write("desc", a.table + 16 * a.slot, 16)
  /\ GoOn(t, <<>>)
  /\ UNCHANGED <<g, dev>>

StoreRing(t) ==
  /\ Do(t, "ring")
  /\ LET a == Head(todo[t])
     IN  /\ ram' = PutRing(ram, a.avail, a.slot, a.v)
         /\ wrote' = Write("avail", a.avail + 4 + 2 * a.slot, 2)
  /\ GoOn(t, <<>>)
  /\ UNCHANGED <<g, dev>>

StoreIdx(t) ==
  /\ Do(t, "idx")
  /\ LET a == Head(todo[t])
     IN  /\ ram' = PutIdx(ram, a.avail, a.v)
         /\ wrote' = Write("avail", a.avail + 2, 2)
  /\ GoOn(t, <<>>)
  /\ UNCHANGED <<g, dev>>

Access(t) ==
  \/ WriteRegister(t)
  \/ ReadStatus(t)
  \/ WriteStatus(t)
  \/ ReadIsr(t)
  \/ ReadNumMax(t)
  \/ StoreBuffer(t)
  \/ StoreDesc(t)
  \/ StoreRing(t)
  \/ StoreIdx(t)

----------------------------------------------------------------------------
StepA == BeginOp(A) \/ Access(A) \/ StopB \/ Join

StepB == BeginRound \/ BeginOp(B) \/ Access(B) \/ EndRound \/ EndB

\* The run has returned to libFuzzer.
Returned == pc[A] = "done" /\ UNCHANGED vars

Next == StepA \/ StepB \/ Returned

\* Both are operating-system threads, and no access of one waits for the other.
Spec == Init /\ [][Next]_vars /\ WF_vars(StepA) /\ WF_vars(StepB)

----------------------------------------------------------------------------
(* Properties *)

\* Threads keep their shape; the States they hold are those of the harness.
TypeOK ==
  /\ g \in [Threads -> States]
  /\ ram \in Rams
  /\ pc[A] \in {"ops", "join", "done"} /\ pc[B] \in {"loop", "ops", "done"}
  /\ \A t \in Threads : at[t] \in 0 .. OpsOf(t)
  /\ iter \in 1 .. MaxIter /\ rounds \in 0 .. iter
  /\ stop \in BOOLEAN

\* "a disjoint buffer-pool region (upper half) to avoid GPA collisions" (lines
\* 507-512): no byte belongs to a buffer of both threads.
ThreadBuffersDisjoint ==
  \A a, b \in BufIds :
    LET x == g[A].bufs[a]
        y == g[B].bufs[b]
    IN  x # NoBuf /\ y # NoBuf =>
          x.gpa + x.len <= y.gpa \/ y.gpa + y.len <= x.gpa

\* Between two operations of thread A, a queue the device takes to be ready has
\* the size and addresses thread A keeps for it, whatever thread B has done
\* between the register writes of a setup (lines 221-245).
RingsProgrammed ==
  Free(A) => \A i \in DevQueues : dev.q[i].ready =>
    LET q == g[A].vqs[i]
    IN  /\ dev.q[i].num = q.size
        /\ Addr(dev.q[i].desc) = q.desc_gpa
        /\ Addr(dev.q[i].drv) = q.avail_gpa
        /\ Addr(dev.q[i].dvc) = q.used_gpa

\* Every write to guest memory goes to the area reserved for it (the layout of
\* lines 139-154), whichever thread makes it.
WritesConfined == Confined(wrote)

\* The run comes to its end: thread B is joined whatever it was doing and
\* however late it sees b_stop, because its passes are bounded (lines 528-541).
JoinsEventually == <>(pc[A] = "done")

\* The entries between the device's position and avail.idx, as the descriptors
\* they name.
Pending(i) ==
  LET q == g[A].vqs[i]
      last == dev.q[i].last
  IN  [k \in 1 .. ram.idx[AvailGpa(i)] - last |->
        ram.desc[DescGpa(i)]
                [ram.ring[AvailGpa(i)][(last + k - 1) % q.size]]]

FirstQueue  == INSTANCE AvailQueue WITH pending <- Pending(0),
                 Entries <- Descriptors, Capacity <- QueueNumMax
SecondQueue == INSTANCE AvailQueue WITH pending <- Pending(1),
                 Entries <- Descriptors, Capacity <- QueueNumMax

\* The three writes of a publication implement an avail ring: thread B may ring
\* the doorbell of either queue, set features or hammer buffers between any two
\* of them, and the device still sees only complete entries, in order (lines
\* 326-338).
QueueSpec == FirstQueue!Spec /\ SecondQueue!Spec

============================================================================
