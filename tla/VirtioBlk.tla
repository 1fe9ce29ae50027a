----------------------------- MODULE VirtioBlk ------------------------------
(***************************************************************************)
(* The virtio-blk harness in sequential mode (ops_thread_b empty): each    *)
(* input resets the bookkeeping and is then dispatched operation by        *)
(* operation, at most MaxOps of them.  One action is one operation with    *)
(* every register and memory write it makes.  Nothing else runs between    *)
(* two operations, so an operation is one step.                            *)
(*                                                                         *)
(* The program is the environment's choice: any operation with any of the  *)
(* arguments the constants list.  Guest memory and the device are carried  *)
(* over from one input to the next, as they are in the code.               *)
(***************************************************************************)
EXTENDS BlkState

CONSTANTS
  MaxOps,        \* kMaxOps, operations dispatched per input
  MaxInputs,     \* bound of the model: inputs in a row
  Kinds,         \* operations the programs use
  VqIdxs,        \* queue numbers programs name, valid or not
  Sizes,         \* sizes VqSetup asks for
  DataLens,      \* payload lengths before the cap
  DescLens,      \* lengths VqAddDesc asks for
  Regions,       \* exotic_region values, 0 for a buffer
  Gpas,          \* addresses MemwriteAbsolute asks for
  StatusArgs,    \* sets of bits SetStatus asks for
  ConfigOffs,    \* offsets ConfigWrite asks for
  Corruptions    \* [off, value, size] MmioCorrupt asks for

\* Every operation but the VqSetup that must come first places at most one
\* 16-byte descriptor, and the table area holds one for each of them.
ASSUME OpsAssumption ==
  MaxOps \in Nat /\ MaxOps * 16 <= VqDescSize /\ MaxInputs \in Nat

ASSUME InputAssumption ==
  /\ BufIds \subseteq Nat /\ VqIdxs \subseteq Nat /\ Sizes \subseteq Nat
  /\ DataLens \subseteq Nat /\ DescLens \subseteq Nat
  /\ Regions \subseteq Nat /\ Gpas \subseteq 0 .. GpaSpace - 1
  /\ StatusArgs \subseteq SUBSET StatusBits /\ ConfigOffs \subseteq Nat
  /\ Corruptions \subseteq [off : Nat, value : Nat, size : Nat]

VARIABLES
  g,        \* g_state
  ram,      \* ring areas of guest memory
  dev,      \* the device
  phase,    \* "idle" between inputs, "run" in proto_fuzz_virtio_blk_run
  n,        \* operations dispatched in this input
  inputs,   \* inputs started (bound of the model)
  chain,    \* history: slots placed in each queue since its last publication
            \* or change of size
  touched   \* history: the memory the last operation wrote, per target

vars == <<g, ram, dev, phase, n, inputs, chain, touched>>

NoChains == [i \in Queues |-> <<>>]

Init ==
  /\ g = ResetState
  /\ ram = RamInit
  /\ dev = DevInit
  /\ phase = "idle" /\ n = 0 /\ inputs = 0
  /\ chain = NoChains /\ touched = {}

----------------------------------------------------------------------------
(* An input *)

\* Plausible slip: the device is not reset with the bookkeeping.
ResetIteration_SoftwareOnly ==
  /\ dev' = SetDevStatus(dev, dev.status \cup {kStatusAck, kStatusDriver})
  /\ g' = ResetState
  /\ chain' = NoChains
  /\ touched' = {}
  /\ UNCHANGED ram

\* STATUS := 0, STATUS := ACK | DRIVER, then the bookkeeping.  Guest memory
\* keeps what it has.
ResetIteration ==
  /\ dev' = SetDevStatus(SetDevStatus(dev, {}), {kStatusAck, kStatusDriver})
  /\ g' = ResetState
  /\ chain' = NoChains
  /\ touched' = {}
  /\ UNCHANGED ram

StartInput ==
  /\ phase = "idle" /\ inputs < MaxInputs
  /\ phase' = "run" /\ n' = 0 /\ inputs' = inputs + 1
  /\ ResetIteration

\* The list is at its end, or its operation number MaxOps + 1 is not run.
EndInput ==
  /\ phase = "run"
  /\ phase' = "idle"
  /\ UNCHANGED <<g, ram, dev, n, inputs, chain, touched>>

Dispatch(kind) ==
  /\ kind \in Kinds
  /\ phase = "run" /\ n < MaxOps
  /\ n' = n + 1
  /\ UNCHANGED <<phase, inputs>>

\* An operation that returns early, or touches nothing the model keeps.
NoEffect == touched' = {} /\ UNCHANGED <<g, ram, dev, chain>>

----------------------------------------------------------------------------
(* Operations on registers *)

\* GetFeatures, ConfigRead and an operation that is not set.
ReadOnlyOp ==
  /\ Dispatch("ReadOnly")
  /\ NoEffect

SetFeatures ==
  /\ Dispatch("SetFeatures")
  /\ dev' = SetDevStatus(dev, dev.status \cup {kStatusFeaturesOk})
  /\ touched' = {}
  /\ UNCHANGED <<g, ram, chain>>

\* Whole words as long as the payload and the 256-byte config space last.
ConfigWrite(offset, size) ==
  /\ Dispatch("ConfigWrite")
  /\ LET off == offset % 256
     IN  touched' = {Write("mmio", MmioBase + R_CONFIG + off + 4 * k, 4) :
                      k \in {w \in 0 .. 63 : /\ 4 * w + 4 <= size
                                             /\ off + 4 * w + 4 <= 256}}
  /\ UNCHANGED <<g, ram, dev, chain>>

VqSelect(i) ==
  /\ Dispatch("VqSelect")
  /\ dev' = MmioWrite(dev, ram, R_QUEUE_SEL, i % 256)
  /\ touched' = {}
  /\ UNCHANGED <<g, ram, chain>>

\* The registers in the order the harness writes them.
ProgramQueue(d, q, size) ==
  LET W(e, off, v) == MmioWrite(e, ram, off, v)
      d1 == W(d,  R_QUEUE_NUM, size)
      d2 == W(W(d1, R_QDESC_LO, Lo(q.desc_gpa)),  R_QDESC_HI, Hi(q.desc_gpa))
      d3 == W(W(d2, R_QDRV_LO,  Lo(q.avail_gpa)), R_QDRV_HI,  Hi(q.avail_gpa))
      d4 == W(W(d3, R_QDEV_LO,  Lo(q.used_gpa)),  R_QDEV_HI,  Hi(q.used_gpa))
  IN  W(d4, R_QUEUE_READY, 1)

VqSetup(i, requested) ==
  /\ Dispatch("VqSetup")
  /\ touched' = {}
  /\ UNCHANGED ram
  /\ IF i \notin Queues
     THEN UNCHANGED <<g, dev, chain>>
     ELSE LET selected == MmioWrite(dev, ram, R_QUEUE_SEL, i)
              size     == SizeFor(requested)
          IN  IF NumMax(selected) = 0
              THEN dev' = selected /\ UNCHANGED <<g, chain>>
              ELSE /\ g' = WithSize(g, i, size)
                   /\ dev' = ProgramQueue(selected, g.vqs[i], size)
                   /\ chain' = IF size = g.vqs[i].size THEN chain
                               ELSE [chain EXCEPT ![i] = <<>>]

SetStatus(bits) ==
  /\ Dispatch("SetStatus")
  /\ dev' = SetDevStatus(dev, IF bits = {} THEN {} ELSE dev.status \cup bits)
  /\ touched' = {}
  /\ UNCHANGED <<g, ram, chain>>

VqKick(i) ==
  /\ Dispatch("VqKick")
  /\ dev' = MmioWrite(dev, ram, R_QUEUE_NOTIFY, i)
  /\ touched' = {}
  /\ UNCHANGED <<g, ram, chain>>

\* InterruptStatus is read and, if set, acknowledged.
VqWaitUsed ==
  /\ Dispatch("VqWaitUsed")
  /\ dev' = IF dev.isr THEN MmioWrite(dev, ram, R_INT_ACK, 1) ELSE dev
  /\ touched' = {}
  /\ UNCHANGED <<g, ram, chain>>

\* Only a whole aligned word reaches a register; any size but 1 and 2 is 4.
MmioCorrupt(c) ==
  /\ Dispatch("MmioCorrupt")
  /\ LET off   == c.off % MmioSize
         width == IF c.size \in {1, 2} THEN c.size ELSE 4
     IN  /\ touched' = {Write("corrupt", MmioBase + off, width)}
         /\ dev' = IF width = 4 /\ off \in Registers
                   THEN MmioWrite(dev, ram, off, c.value)
                   ELSE dev
  /\ UNCHANGED <<g, ram, chain>>

Reset ==
  /\ Dispatch("Reset")
  /\ ResetIteration

----------------------------------------------------------------------------
(* Operations on guest memory *)

GuestMemWrite(id, size) ==
  /\ Dispatch("GuestMemWrite")
  /\ LET len == Lesser(size, MaxData)
     IN  IF AllocFits(g.buf_alloc, len)
         THEN /\ g' = WithBuffer(g, id, len)
              /\ touched' = {Write("buffer", g.buf_alloc, len)}
              /\ UNCHANGED <<ram, dev, chain>>
         ELSE NoEffect

MemwriteAbsolute(gpa, size) ==
  /\ Dispatch("MemwriteAbsolute")
  /\ IF size = 0
     THEN NoEffect
     ELSE LET len == Lesser(size, MaxData)
          IN  /\ touched' = {Write("buffer", ClampGpa(gpa, len), len)}
              /\ UNCHANGED <<g, ram, dev, chain>>

VqAddDesc(i, id, len, writable, more, region) ==
  /\ Dispatch("VqAddDesc")
  /\ UNCHANGED dev
  /\ IF ~CanAddDesc(g, i, id, region)
     THEN touched' = {} /\ UNCHANGED <<g, ram, chain>>
     ELSE LET q    == g.vqs[i]
              d    == Descriptor(q, Target(g, id, len, region), writable, more)
              ram1 == PutDesc(ram, q.desc_gpa, Slot(q), d)
              ram2 == PutRing(ram1, q.avail_gpa, RingSlot(q), PublishedHead(q))
          IN  /\ g' = AfterAddDesc(g, i, more)
              /\ ram' = IF more THEN ram1
                        ELSE PutIdx(ram2, q.avail_gpa, PublishedIdx(q))
              /\ chain' = [chain EXCEPT ![i] = IF more THEN Append(@, Slot(q))
                                               ELSE <<>>]
              /\ touched' =
                   {Write("desc", q.desc_gpa + 16 * Slot(q), 16)} \cup
                   IF more THEN {}
                   ELSE {Write("avail", q.avail_gpa + 4 + 2 * RingSlot(q), 2),
                         Write("avail", q.avail_gpa + 2, 2)}

----------------------------------------------------------------------------
Next ==
  \/ StartInput
  \/ EndInput
  \/ ReadOnlyOp
  \/ SetFeatures
  \/ \E offset \in ConfigOffs, size \in DataLens : ConfigWrite(offset, size)
  \/ \E i \in VqIdxs : VqSelect(i)
  \/ \E i \in VqIdxs, size \in Sizes : VqSetup(i, size)
  \/ \E bits \in StatusArgs : SetStatus(bits)
  \/ \E i \in VqIdxs : VqKick(i)
  \/ VqWaitUsed
  \/ \E c \in Corruptions : MmioCorrupt(c)
  \/ Reset
  \/ \E id \in BufIds, size \in DataLens : GuestMemWrite(id, size)
  \/ \E gpa \in Gpas, size \in DataLens : MemwriteAbsolute(gpa, size)
  \/ \E i \in VqIdxs, id \in BufIds, len \in DescLens, writable \in BOOLEAN,
        more \in BOOLEAN, region \in Regions :
       VqAddDesc(i, id, len, writable, more, region)

Spec == Init /\ [][Next]_vars

----------------------------------------------------------------------------
(* Properties *)

\* Every variable keeps its shape.
TypeOK ==
  /\ g \in States
  /\ ram \in Rams
  /\ phase \in {"idle", "run"} /\ n \in 0 .. MaxOps /\ inputs \in 0 .. MaxInputs
  /\ chain \in [Queues -> Seq(Slots)]
  /\ touched \subseteq [kind : {"desc", "avail", "buffer", "mmio", "corrupt"},
                        lo : Nat, hi : Nat]

\* What GuestMemWrite hands out: every buffer lies below the allocator, which
\* stays aligned and inside the pool, and two buffers never share a byte
\* (op_guest_mem_write, lines 247-260, over any number of writes and resets).
BuffersDisjoint ==
  /\ g.buf_alloc % 16 = 0 /\ g.buf_alloc \in BufPoolBase .. BufPoolEnd
  /\ \A b \in BufIds : g.bufs[b] # NoBuf =>
       /\ g.bufs[b].gpa >= BufPoolBase
       /\ g.bufs[b].gpa + g.bufs[b].len < g.buf_alloc
  /\ \A a, b \in BufIds : a # b /\ g.bufs[a] # NoBuf /\ g.bufs[b] # NoBuf =>
       \/ g.bufs[a].gpa + g.bufs[a].len < g.bufs[b].gpa
       \/ g.bufs[b].gpa + g.bufs[b].len < g.bufs[a].gpa

\* No sequence of operations makes the harness write outside the area the
\* write is meant for: descriptors stay in their 256-entry table although a
\* queue may have 1024 entries (the cap on operations is what saves it), ring
\* entries in their ring, payloads in the pool whatever 64-bit address an
\* absolute write names, config words in the window.
WritesConfined == \A w \in touched : Confined(w)

\* Memory the device may reach through any descriptor in any table, written by
\* this input or an earlier one, is an MMIO window or the buffer pool: never a
\* ring area, and never beyond the pool (op_vq_add_desc, lines 269-311).
DescTargetsOffRings ==
  \A a \in DescAreas, s \in Slots :
    LET d == ram.desc[a][s]
    IN  \/ d.addr + d.len <= PoolBase
        \/ d.addr >= BufPoolBase /\ d.addr + d.len <= BufPoolEnd

\* A chain under construction is linked in the order its descriptors were
\* added, and no later operation of the input disturbs it, as long as it is no
\* longer than the queue and the queue keeps its size (desc.next and
\* next_desc_idx, lines 313-326, 339).
OpenChainLinked ==
  \A i \in Queues : Len(chain[i]) <= g.vqs[i].size =>
    \A k \in 1 .. Len(chain[i]) :
      LET d == ram.desc[DescGpa(i)][chain[i][k]]
      IN  /\ d.more
          /\ d.next = IF k < Len(chain[i]) THEN chain[i][k + 1]
                      ELSE Slot(g.vqs[i])

\* A queue the device takes to be ready has the size and the three addresses the
\* harness keeps for it, through any mixture of inputs, resets by either side,
\* repeated setups and changes of the selected queue (lines 203-245).
RingsProgrammed ==
  \A i \in DevQueues : dev.q[i].ready =>
    LET q == g.vqs[i]
    IN  /\ dev.q[i].num = q.size /\ q.size > 0
        /\ Addr(dev.q[i].desc) = q.desc_gpa
        /\ Addr(dev.q[i].drv) = q.avail_gpa
        /\ Addr(dev.q[i].dvc) = q.used_gpa

\* In an input without a Reset operation the driver's counter and avail.idx in
\* guest memory agree and the device is never ahead of them, however often the
\* device is reset through STATUS or a queue is set up again and with whatever
\* size: a doorbell makes the device take what was published and not taken
\* before (lines 328-338 against 235).
RingInStep ==
  \A i \in DevQueues : dev.q[i].ready =>
    /\ ram.idx[AvailGpa(i)] = g.vqs[i].next_avail_idx % IdxSpace
    /\ dev.q[i].last <= g.vqs[i].next_avail_idx

Published(i) == g'.vqs[i].next_avail_idx = g.vqs[i].next_avail_idx + 1
PublishedEntry(i) == ram'.ring[AvailGpa(i)][RingSlot(g.vqs[i])]

\* "append head index to the avail ring" (line 329): the entry published for a
\* chain is the slot of its first descriptor, however many have been added.
HeadOfChainPublished ==
  [][\A i \in Queues : Published(i) /\ Len(chain[i]) < g.vqs[i].size =>
       PublishedEntry(i) =
         IF chain[i] = <<>> THEN Slot(g.vqs[i]) ELSE chain[i][1]]_vars

----------------------------------------------------------------------------
(* What the theorems about queues ask of the inputs *)

\* No corruption programs a queue or makes one ready.
QuietCorruptions ==
  \A c \in Corruptions :
    LET off == c.off % MmioSize
    IN  c.size \notin {1, 2} /\ off \in Registers => Quiet(off, c.value)

\* One input, and no operation of it takes the counter back.
OneInput == MaxInputs <= 1 /\ "Reset" \notin Kinds

============================================================================
