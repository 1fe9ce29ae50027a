------------------------------ MODULE BlkState ------------------------------
(***************************************************************************)
(* The bookkeeping a thread of the virtio-blk harness keeps (g_state, one  *)
(* per thread) and what its operations make of it, as functions from the   *)
(* old State to the new one and to the values written to guest memory.     *)
(***************************************************************************)
EXTENDS VirtioMmio, Sequences

CONSTANTS BufIds, NoBuf

ASSUME NoBufAssumption == NoBuf \notin [gpa : Nat, len : Nat]

\* The ring area holds flags, idx and an entry per descriptor.
ASSUME RingAssumption == 4 + 2 * QueueNumMax <= VqAvailSize

VqStates == [desc_gpa : Nat, avail_gpa : Nat, used_gpa : Nat,
             size : 0 .. QueueNumMax, next_desc_idx : Nat, next_avail_idx : Nat]

Bufs == [gpa : Nat, len : Nat]

States == [vqs : [Queues -> VqStates], buf_alloc : Nat,
           bufs : [BufIds -> Bufs \cup {NoBuf}]]

----------------------------------------------------------------------------
FreshVq(i) == [desc_gpa |-> DescGpa(i), avail_gpa |-> AvailGpa(i),
               used_gpa |-> UsedGpa(i), size |-> 0,
               next_desc_idx |-> 0, next_avail_idx |-> 0]

ZeroVq == [desc_gpa |-> 0, avail_gpa |-> 0, used_gpa |-> 0, size |-> 0,
           next_desc_idx |-> 0, next_avail_idx |-> 0]

\* Bookkeeping after reset_iteration_state().
ResetState == [vqs |-> [i \in Queues |-> FreshVq(i)],
               buf_alloc |-> BufPoolBase,
               bufs |-> [b \in BufIds |-> NoBuf]]

\* Plausible slip: both threads allocate from the start of the pool.
ThreadBState_LowerHalf == [vqs |-> [i \in Queues |-> ZeroVq],
                           buf_alloc |-> BufPoolBase,
                           bufs |-> [b \in BufIds |-> NoBuf]]

\* Thread B's copy: its queues are never given addresses.
ThreadBState == [vqs |-> [i \in Queues |-> ZeroVq],
                 buf_alloc |-> BufPoolMid,
                 bufs |-> [b \in BufIds |-> NoBuf]]

----------------------------------------------------------------------------
\* Plausible slip: a queue set up again starts its rings over.
WithSize_Restarting(g, i, size) ==
  [g EXCEPT !.vqs[i].size = size, !.vqs[i].next_avail_idx = 0]

WithSize(g, i, size) == [g EXCEPT !.vqs[i].size = size]

WithBuffer(g, id, len) ==
  [g EXCEPT !.bufs[id] = [gpa |-> g.buf_alloc, len |-> len],
            !.buf_alloc = NextAlloc(g.buf_alloc, len)]

----------------------------------------------------------------------------
(* VqAddDesc *)

Slot(q) == q.next_desc_idx % q.size
RingSlot(q) == q.next_avail_idx % q.size

\* What is published: the counter itself, cut to 16 bits.
PublishedHead(q) == q.next_desc_idx % IdxSpace
PublishedIdx(q) == (q.next_avail_idx + 1) % IdxSpace

\* Plausible slip: the length of the descriptor is taken as given.
Target_Unbounded(g, id, len, region) ==
  IF region # 0
  THEN [addr |-> ExoticAddr(region, id), len |-> ExoticLen(len)]
  ELSE [addr |-> g.bufs[id].gpa, len |-> len]

\* What the descriptor points at: an MMIO register or a part of a buffer.
Target(g, id, len, region) ==
  IF region # 0
  THEN [addr |-> ExoticAddr(region, id), len |-> ExoticLen(len)]
  ELSE [addr |-> g.bufs[id].gpa, len |-> Lesser(len, g.bufs[id].len)]

\* Plausible slip: the chain link names the descriptor itself.
Descriptor_SelfLink(q, t, writable, more) ==
  [addr |-> t.addr, len |-> t.len, write |-> writable, more |-> more,
   next |-> Slot(q) % q.size]

Descriptor(q, t, writable, more) ==
  [addr |-> t.addr, len |-> t.len, write |-> writable, more |-> more,
   next |-> (Slot(q) + 1) % q.size]

\* Whether op_vq_add_desc gets past its early returns.
CanAddDesc(g, i, id, region) ==
  /\ i \in Queues
  /\ g.vqs[i].size # 0
  /\ region # 0 \/ g.bufs[id] # NoBuf

AfterAddDesc(g, i, more) ==
  [g EXCEPT !.vqs[i].next_desc_idx = @ + 1,
            !.vqs[i].next_avail_idx = IF more THEN @ ELSE @ + 1]

----------------------------------------------------------------------------
(* What was written where *)

Write(kind, lo, len) == [kind |-> kind, lo |-> lo, hi |-> lo + len]

\* Where a write of each kind may go.
Confined(w) ==
  CASE w.kind = "desc"   -> \E i \in Queues : /\ w.lo >= DescGpa(i)
                                              /\ w.hi <= AvailGpa(i)
    [] w.kind = "avail"  -> \E i \in Queues : /\ w.lo >= AvailGpa(i)
                                              /\ w.hi <= UsedGpa(i)
    [] w.kind = "buffer" -> w.lo >= BufPoolBase /\ w.hi <= BufPoolEnd
    [] w.kind = "mmio"   -> w.lo >= MmioBase /\ w.hi <= MmioBase + MmioSize
    [] OTHER             -> TRUE

============================================================================
