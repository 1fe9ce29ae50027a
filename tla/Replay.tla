------------------------------- MODULE Replay -------------------------------
(***************************************************************************)
(* Thread A of a harness, run on an input of its device: a sequence of     *)
(* lines, each of which is one operation and one step.                     *)
(*                                                                         *)
(* The ten harnesses share all but their requests (module Requests); the   *)
(* common part is mapped to virtio-net's.  Thread B's list is the subject  *)
(* of BlkThreads.  Bytes are left out: a buffer is its id, a request the   *)
(* line it comes from.                                                     *)
(***************************************************************************)
EXTENDS Integers, Sequences, FiniteSets, Requests

CONSTANTS
  Inputs,        \* what is run: the device, a name, a variation, the lines
  DeviceQueues,  \* the queues each device has as the harness configures it
  LeftIdx        \* values of an avail.idx that earlier inputs left in memory

VARIABLES
  input,    \* the device, the seed's name and how it was varied
  prog,     \* the operations of thread A
  pc,       \* the next of them
  mmio,     \* the device: its status, the queue selected, the queues it was told
            \* the harness's rings of, those of them it serves, what it has taken
  vqs,      \* the harness's queues
  mem,      \* its buffers and its allocator
  soft,     \* what it remembers of earlier operations
  sent,     \* the requests placed since the last reset, with what they refer to
  dropped,  \* the lines given up since the last reset
  waited    \* what the device had taken at the last wait, per queue

vars == <<input, prog, pc, mmio, vqs, mem, soft, sent, dropped, waited>>

\* The operations every harness has, and the requests of each.
PlainOps ==
  {"GetFeatures", "SetFeatures", "SetStatus", "ConfigRead", "ConfigWrite", "VqSelect",
   "VqSetup", "GuestMemWrite", "VqAddDesc", "VqKick", "VqWaitUsed", "MemwriteAbsolute",
   "MmioCorrupt", "Reset", "HostEvent", "GpuSetFence"}

RequestOps ==
  [blk     |-> {},
   net     |-> {"TxPacket", "CtrlCmd", "CtrlRx", "CtrlMacAddrSet", "CtrlAnnounceAck",
                "CtrlGuestOffloads", "CtrlMacTableSet", "CtrlRssConfig",
                "CtrlMqVqPairsSet", "CtrlVlanAdd", "CtrlVlanDel"},
   gpu     |-> {"GpuCreate2D", "GpuUnref", "GpuDetachBacking", "GpuTransfer", "GpuFlush",
                "GpuSetScanout", "GpuUpdateCursor", "GpuMoveCursor", "GpuGetDisplayInfo",
                "GpuGetEdid", "GpuAttachBacking", "GpuCreateBlob"},
   scsi    |-> {"ScsiCmd", "TmfReq", "AnReq"},
   fs      |-> {"FuseReq", "FuseHpReq"},
   snd     |-> {"SndCtrl", "SndPcmXfer"},
   vsock   |-> {"VsockTx", "VsockRxBuf"},
   balloon |-> {"Inflate", "Deflate", "Stats", "FreePage"},
   input   |-> {"StatusEvent", "EventBuf"},
   console |-> {"TxData", "RxBuf", "CtrlMsg"}]

\* The virtio-gpu commands that create a resource, and those that name one by
\* its slot.
CreateOps == {"GpuCreate2D", "GpuCreateBlob"}
SlotOps == {"GpuUnref", "GpuDetachBacking", "GpuTransfer", "GpuFlush", "GpuSetScanout",
            "GpuUpdateCursor", "GpuAttachBacking"}

\* A line has the fields its operation reads, which are unsigned in every
\* schema; a status word is the set of the bits that virtio gives a meaning.
StatusValue ==
  [ACK |-> 1, DRIVER |-> 2, DRIVER_OK |-> 4, FEATURES_OK |-> 8, NEEDS_RESET |-> 64,
   FAILED |-> 128]
StatusBits == DOMAIN StatusValue
BitsOf(v) == {b \in StatusBits : (v \div StatusValue[b]) % 2 = 1}

WellFormed(dev, m) ==
  /\ m.op \in PlainOps \cup RequestOps[dev]
  /\ m.op = "SetStatus" => m.bits \subseteq StatusBits
  /\ m.op \in {"VqSelect", "VqSetup", "VqAddDesc", "VqKick", "VqWaitUsed"} => m.vq \in Nat
  /\ m.op = "VqSetup" => m.size \in Nat
  /\ m.op = "MmioCorrupt" => {m.off, m.value, m.size} \subseteq Nat
  /\ m.op = "GuestMemWrite" => m.len \in Nat
  /\ m.op = "VqAddDesc" => m.more \in BOOLEAN
  /\ m.op \in CreateOps \cup SlotOps => m.slot \in Nat
  /\ m.op \in RequestOps.net => m.len \in Nat
  /\ m.op \in {"TxPacket", "CtrlCmd"} => m.vq \in Nat
  /\ m.op = "TxPacket" => m.vlan_tci \in Nat
  /\ m.op = "CtrlMqVqPairsSet" => m.pair_count \in Nat
  /\ m.op \in {"CtrlVlanAdd", "CtrlVlanDel"} => m.vlan_slot \in Nat /\ m.vid \in Nat
  /\ m.op = "CtrlVlanDel" => m.use_slot \in BOOLEAN
  /\ m.op \in {"GpuAttachBacking", "GpuCreateBlob"} => m.entries \in Nat /\ m.size \in Nat
  /\ m.op = "ScsiCmd" => m.vq \in Nat /\ Written(m.cdb) \in Nat /\ Returned(m.cdb) \in Nat
  /\ m.op = "FuseReq" => m.vq \in Nat /\ m.in_buf \in Nat /\ m.block.arg \in Nat
  /\ m.op \in {"FuseHpReq", "VsockTx"} => m.payload \in Nat
  /\ m.op = "SndCtrl" => SndPayload(m.block) \in Nat /\ SndAnswer(m.block) \in Nat
  /\ m.op \in {"SndPcmXfer", "TxData", "CtrlMsg"} => m.len \in Nat
  /\ m.op \in {"VsockRxBuf", "EventBuf", "RxBuf"} => m.size \in Nat
  /\ m.op \in {"Inflate", "Deflate"} => IsFiniteSet(m.pfns)
  /\ m.op = "Stats" => m.entries \in Nat
  /\ m.op \in {"TxData", "RxBuf"} => m.port \in Nat

ASSUME InputsAssumption ==
  \A i \in Inputs :
    /\ i.dev \in DOMAIN RequestOps
    /\ i.prog \in Seq({i.prog[k] : k \in DOMAIN i.prog})
    /\ \A k \in DOMAIN i.prog : WellFormed(i.dev, i.prog[k])

ASSUME DevicesAssumption ==
  /\ DOMAIN DeviceQueues = DOMAIN RequestOps
  /\ \A dev \in DOMAIN DeviceQueues : DeviceQueues[dev] \subseteq Nat
  /\ LeftIdx \subseteq Nat /\ LeftIdx # {}

kMaxQueues(dev) ==
  CASE dev \in {"blk", "gpu", "input"}               -> 4
    [] dev \in {"net", "scsi", "fs", "snd", "vsock", "balloon"} -> 8
    [] dev = "console"                               -> 16
Queues == 0 .. kMaxQueues(input.dev) - 1

kMaxOps == 256       \* of the lines of an input no more are run
QUEUE_NUM_MAX == 1024   \* of a queue the device has, 0 of any other

\* The buffer pool, from its first byte.
PoolSize(dev) == 15728640 - 12288 * kMaxQueues(dev)

----------------------------------------------------------------------------
(* reset_iteration_state() *)

FreshDevice ==
  [status |-> {}, sel |-> 0, rings |-> {}, ready |-> {}, taken |-> [q \in Queues |-> 0]]

\* The counters begin anew; avail.idx in guest memory keeps the value it had.
FreshQueues(idx) ==
  [q \in Queues |-> [size |-> 0, next |-> 0, avail |-> 0, open |-> FALSE, ring |-> idx[q]]]
FreshMem    == [bufs |-> {}, pool |-> 0]
NoVid == -1
FreshSoft == [pairs |-> 1, vlan |-> [s \in 0 .. 15 |-> NoVid],
              resources |-> [s \in 0 .. ResourceSlots - 1 |-> 0], next_id |-> 1]
Acknowledged(device) == [device EXCEPT !.status = {"ACK", "DRIVER"}]

Init ==
  /\ \E i \in Inputs :
       /\ input = [dev |-> i.dev, name |-> i.name, how |-> i.how]
       /\ prog = i.prog
  /\ pc = 1
  /\ mmio = Acknowledged(FreshDevice)
  /\ \E idx \in [Queues -> LeftIdx] : vqs = FreshQueues(idx)
  /\ mem = FreshMem
  /\ soft = FreshSoft
  /\ sent = <<>>
  /\ dropped = {}
  /\ waited = [q \in Queues |-> 0]

----------------------------------------------------------------------------
Line == prog[pc]

\* The next operation is one of ops.
At(ops) ==
  /\ pc \in DOMAIN prog /\ pc <= kMaxOps
  /\ Line.op \in ops
  /\ pc' = pc + 1
  /\ UNCHANGED <<input, prog>>

Aligned(n) == n - (n % 16)

\* Buffers of these lengths, one after the other until one does not fit.
Allocated(lens, pool) ==
  LET after[k \in 0 .. Len(lens)] ==
        IF k = 0 THEN [pool |-> pool, ok |-> TRUE]
        ELSE LET a == after[k - 1]
             IN  IF a.ok /\ a.pool + lens[k] + 16 <= PoolSize(input.dev)
                 THEN [a EXCEPT !.pool = Aligned(a.pool + lens[k] + 16)]
                 ELSE [a EXCEPT !.ok = FALSE]
  IN  after[Len(lens)]

\* A doorbell: a device that runs takes all that the avail.idx of a ready queue
\* offers, which is not the harness's counter before the first publication.
\* For virtio-fs, taken is what a backend would find: the mock backend closes
\* the doorbell's descriptor and reads no ring.
Doorbell(device, q, idx) ==
  IF "DRIVER_OK" \in device.status /\ q \in device.ready
  THEN [device EXCEPT !.taken[q] = idx] ELSE device

\* Plausible slip: the counter goes on, the index in memory is not written.
Placed_uncounted(vq, n, more) ==
  [vq EXCEPT !.next = @ + n, !.avail = IF more THEN @ ELSE @ + 1, !.open = more]

\* n descriptors; the last one closes the chain unless another follows, and
\* publishes it.
Placed(vq, n, more) ==
  [vq EXCEPT !.next = @ + n, !.avail = IF more THEN @ ELSE @ + 1,
             !.ring = IF more THEN @ ELSE vq.avail + 1, !.open = more]

GiveUp == dropped' = dropped \cup {pc}

----------------------------------------------------------------------------
\* Operations on registers and memory that nothing here depends on.
Untracked ==
  /\ At({"GetFeatures", "ConfigRead", "ConfigWrite", "MemwriteAbsolute", "HostEvent",
         "GpuSetFence"})
  /\ UNCHANGED <<mmio, vqs, mem, soft, sent, dropped, waited>>

VqSelect ==
  /\ At({"VqSelect"})
  /\ mmio' = [mmio EXCEPT !.sel = Line.vq % 256]
  /\ UNCHANGED <<vqs, mem, soft, sent, dropped, waited>>

SetFeatures ==
  /\ At({"SetFeatures"})
  /\ mmio' = [mmio EXCEPT !.status = @ \cup {"FEATURES_OK"}]
  /\ UNCHANGED <<vqs, mem, soft, sent, dropped, waited>>

SetStatus ==
  /\ At({"SetStatus"})
  /\ mmio' = IF Line.bits = {} THEN FreshDevice
             ELSE [mmio EXCEPT !.status = @ \cup Line.bits]
  /\ UNCHANGED <<vqs, mem, soft, sent, dropped, waited>>

\* The size asked for or 64, at most what the device has room for, rounded down
\* to a power of two.
PowersOfTwo == {1, 2, 4, 8, 16, 32, 64, 128, 256, 512, 1024}
QueueSize(asked) ==
  LET n == AtMost(IF asked = 0 THEN 64 ELSE asked, QUEUE_NUM_MAX)
  IN  CHOOSE p \in PowersOfTwo : p <= n /\ n < 2 * p

\* Plausible slip: no early return for a queue the device does not have.
op_vq_setup_unasked ==
  /\ At({"VqSetup"})
  /\ IF Line.vq \in Queues
     THEN /\ vqs' = [vqs EXCEPT ![Line.vq].size = QueueSize(Line.size)]
          /\ mmio' = [mmio EXCEPT !.sel = Line.vq, !.rings = @ \cup {Line.vq},
                                  !.ready = @ \cup {Line.vq}]
     ELSE UNCHANGED <<vqs, mmio>>
  /\ UNCHANGED <<mem, soft, sent, dropped, waited>>

\* A queue the harness has no state for is not even selected, one the device
\* does not have is selected and left at that.
op_vq_setup ==
  /\ At({"VqSetup"})
  /\ IF Line.vq \in Queues /\ Line.vq \in DeviceQueues[input.dev]
     THEN /\ vqs' = [vqs EXCEPT ![Line.vq].size = QueueSize(Line.size)]
          /\ mmio' = [mmio EXCEPT !.sel = Line.vq, !.rings = @ \cup {Line.vq},
                                  !.ready = @ \cup {Line.vq}]
     ELSE /\ UNCHANGED vqs
          /\ mmio' = IF Line.vq \in Queues THEN [mmio EXCEPT !.sel = Line.vq] ELSE mmio
  /\ UNCHANGED <<mem, soft, sent, dropped, waited>>

op_guest_mem_write ==
  LET a == Allocated(<<AtMost(Line.len, 4096)>>, mem.pool)
  IN  /\ At({"GuestMemWrite"})
      /\ IF a.ok
         THEN /\ mem' = [bufs |-> mem.bufs \cup {Line.id}, pool |-> a.pool]
              /\ UNCHANGED dropped
         ELSE UNCHANGED mem /\ GiveUp
      /\ UNCHANGED <<mmio, vqs, soft, sent, waited>>

op_vq_add_desc ==
  /\ At({"VqAddDesc"})
  /\ IF /\ Line.vq \in Queues /\ vqs[Line.vq].size > 0
        /\ Line.region # 0 \/ Line.id \in mem.bufs
     THEN /\ vqs' = [vqs EXCEPT ![Line.vq] = Placed(@, 1, Line.more)]
          /\ UNCHANGED dropped
     ELSE UNCHANGED vqs /\ GiveUp
  /\ UNCHANGED <<mmio, mem, soft, sent, waited>>

Rung(q) == IF q \in Queues THEN Doorbell(mmio, q, vqs[q].ring) ELSE mmio

op_vq_kick ==
  /\ At({"VqKick"})
  /\ mmio' = Rung(Line.vq)
  /\ UNCHANGED <<vqs, mem, soft, sent, dropped, waited>>

op_vq_wait_used ==
  /\ At({"VqWaitUsed"})
  /\ waited' = IF Line.vq \notin Queues THEN waited
               ELSE [waited EXCEPT ![Line.vq] = mmio.taken[Line.vq]]
  /\ UNCHANGED <<mmio, vqs, mem, soft, sent, dropped>>

\* Registers that decide where the device looks for the selected queue's ring
\* (QUEUE_NUM and the six halves of addresses) the next time it is made ready.
R_QUEUE_SEL    == 48
R_QUEUE_READY  == 68
R_QUEUE_NOTIFY == 80
R_STATUS       == 112
RingRegisters  == {56, 128, 132, 144, 148, 160, 164}

\* A word written anywhere in the register window.
Corrupted(off, v) ==
  CASE off = R_STATUS ->
         IF v % 256 = 0 THEN FreshDevice ELSE [mmio EXCEPT !.status = BitsOf(v)]
    [] off = R_QUEUE_NOTIFY -> Rung(v)
    [] off = R_QUEUE_SEL -> [mmio EXCEPT !.sel = v]
    [] off = R_QUEUE_READY ->
         IF v = 1 /\ mmio.sel \in mmio.rings THEN [mmio EXCEPT !.ready = @ \cup {mmio.sel}]
         ELSE [mmio EXCEPT !.ready = @ \ {mmio.sel}]
    [] off \in RingRegisters -> [mmio EXCEPT !.rings = @ \ {mmio.sel}]
    [] OTHER -> mmio

\* The device ignores a byte or half a word.
op_mmio_corrupt ==
  /\ At({"MmioCorrupt"})
  /\ mmio' = IF Line.size \in {1, 2} THEN mmio ELSE Corrupted(Line.off % 512, Line.value)
  /\ UNCHANGED <<vqs, mem, soft, sent, dropped, waited>>

reset_iteration_state ==
  /\ At({"Reset"})
  /\ mmio' = Acknowledged(FreshDevice)
  /\ vqs' = FreshQueues([q \in Queues |-> vqs[q].ring])
  /\ mem' = FreshMem
  /\ soft' = FreshSoft
  /\ waited' = [q \in Queues |-> 0]
  /\ sent' = <<>>
  /\ dropped' = {}

----------------------------------------------------------------------------
(* Requests *)

Pages(m) == IF m.op \in {"Inflate", "Deflate"} THEN Cardinality(m.pfns) ELSE 0

RequestOf(m) ==
  CASE input.dev = "net"     -> NetRequest(m, soft.pairs)
    [] input.dev = "gpu"     -> GpuRequest(m)
    [] input.dev = "scsi"    -> ScsiRequest(m)
    [] input.dev = "fs"      -> FsRequest(m)
    [] input.dev = "snd"     -> SndRequest(m)
    [] input.dev = "vsock"   -> VsockRequest(m)
    [] input.dev = "balloon" -> BalloonRequest(m, Pages(m))
    [] input.dev = "input"   -> InputRequest(m)
    [] input.dev = "console" -> ConsoleRequest(m)

Creates(m) == m.op \in CreateOps

\* A VLAN has twelve bits.
vid(m) == m.vid % 4096

\* The resource or VLAN a request refers to; 0 is none.
ReferredTo(m) ==
  CASE Creates(m)               -> soft.next_id
    [] m.op \in SlotOps         -> soft.resources[m.slot % ResourceSlots]
    [] m.op = "CtrlVlanAdd"     -> vid(m)
    [] m.op = "CtrlVlanDel"     ->
         IF ~m.use_slot THEN vid(m)
         ELSE IF soft.vlan[m.vlan_slot % 16] = NoVid THEN 0
         ELSE soft.vlan[m.vlan_slot % 16]
    [] OTHER                    -> 0

\* Plausible slip: a destroyed resource stays in its slot.
op_resource_unref_kept(m) == soft
op_resource_unref(m) == [soft EXCEPT !.resources[m.slot % ResourceSlots] = 0]

\* Plausible slip: the VLAN's two bytes in the other order.
op_ctrl_vlan_add_swapped(m) ==
  [soft EXCEPT !.vlan[m.vlan_slot % 16] = 256 * (vid(m) % 256) + vid(m) \div 256]
op_ctrl_vlan_add(m) == [soft EXCEPT !.vlan[m.vlan_slot % 16] = vid(m)]

\* What the harness remembers of it, whether or not it could be placed.
Remembered(m) ==
  CASE Creates(m) ->
         [soft EXCEPT !.next_id = @ + 1,
                      !.resources[m.slot % ResourceSlots] = soft.next_id]
    [] m.op = "GpuUnref" -> op_resource_unref(m)
    [] m.op = "CtrlVlanAdd" -> op_ctrl_vlan_add(m)
    [] m.op = "CtrlVlanDel" /\ m.use_slot -> [soft EXCEPT !.vlan[m.vlan_slot % 16] = NoVid]
    [] m.op = "CtrlMqVqPairsSet" ->
         [soft EXCEPT !.pairs = Clamp(m.pair_count, 1, NetQueues \div 2 - 1)]
    [] OTHER -> soft

\* The lengths of a chain's parts.
Lengths(chain) == [k \in DOMAIN chain |-> chain[k][1]]

\* A backing is allocated first, then the table is asked for room, then the
\* parts are allocated, placed, published and the doorbell rung.
Submit ==
  LET r == RequestOf(Line)
      first == Allocated(r.ahead, mem.pool)
      room == /\ r.vq \in Queues
              /\ vqs[r.vq].size > 0
              /\ vqs[r.vq].next + r.need < vqs[r.vq].size
      all == IF first.ok /\ room THEN Allocated(Lengths(r.chain), first.pool)
             ELSE [first EXCEPT !.ok = FALSE]
  IN  /\ At(RequestOps[input.dev])
      /\ mem' = [mem EXCEPT !.pool = all.pool]
      /\ IF all.ok
         THEN /\ vqs' = [vqs EXCEPT ![r.vq] = Placed(@, Len(r.chain), FALSE)]
              /\ mmio' = Doorbell(mmio, r.vq, vqs'[r.vq].ring)
              /\ sent' = Append(sent, [line |-> pc, vq |-> r.vq, ref |-> ReferredTo(Line)])
              /\ UNCHANGED dropped
         ELSE UNCHANGED <<vqs, mmio, sent>> /\ GiveUp
      /\ soft' = IF first.ok THEN Remembered(Line)
                 ELSE IF Creates(Line) THEN [soft EXCEPT !.next_id = @ + 1] ELSE soft
      /\ UNCHANGED waited

Next ==
  \/ Untracked \/ VqSelect \/ SetFeatures \/ SetStatus \/ op_vq_setup
  \/ op_guest_mem_write \/ op_vq_add_desc \/ op_vq_kick \/ op_vq_wait_used
  \/ op_mmio_corrupt \/ reset_iteration_state \/ Submit

Spec == Init /\ [][Next]_vars

----------------------------------------------------------------------------
(* Properties *)

\* The shape of all state: buffers start on 16 bytes within the pool; a queue
\* has a size only if the device has the queue, and has it before the device is
\* told its rings or serves it; once something is published, the index the
\* device reads is the harness's counter; requests and what was given up are
\* remembered in the order of lines, and no more than 256 of them are run.
TypeOK ==
  /\ pc \in 1 .. Len(prog) + 1 /\ pc <= kMaxOps + 1
  /\ mmio.status \subseteq StatusBits
  /\ mem.pool \in 0 .. PoolSize(input.dev) /\ mem.pool % 16 = 0
  /\ \A q \in Queues :
       /\ vqs[q].avail <= vqs[q].next
       /\ vqs[q].avail > 0 => vqs[q].ring = vqs[q].avail
       /\ vqs[q].size > 0 => q \in DeviceQueues[input.dev] /\ vqs[q].size \in PowersOfTwo
       /\ q \in mmio.rings \cup mmio.ready => vqs[q].size > 0
  /\ dropped \subseteq 1 .. pc - 1
  /\ \A k \in DOMAIN sent : sent[k].line < (IF k < Len(sent) THEN sent[k + 1].line ELSE pc)

LineOf(k) == prog[sent[k].line]

\* The resources a virtio-gpu device was told of before the n-th request.
CreatedBefore(n) == {sent[k].ref : k \in {j \in 1 .. n - 1 : Creates(LineOf(j))}}
GoneBefore(n) == {sent[k].ref : k \in {j \in 1 .. n - 1 : LineOf(j).op = "GpuUnref"}}
NamesResource(n) == input.dev = "gpu" /\ sent[n].ref # 0 /\ ~Creates(LineOf(n))

\* While nothing is given up, what a virtio-gpu command refers to is a resource
\* the device was told to create since the last reset, and not told to destroy.
ResourcesLive ==
  \A n \in DOMAIN sent :
    NamesResource(n) /\ dropped = {} => sent[n].ref \in CreatedBefore(n) \ GoneBefore(n)

\* While nothing is given up, the VLAN a command deletes by its slot, if the
\* slot holds one, is one that the device was told to add since the last reset.
VlansAdded(n) == {sent[k].ref : k \in {j \in 1 .. n - 1 : LineOf(j).op = "CtrlVlanAdd"}}
VlansKnown ==
  \A n \in DOMAIN sent :
    /\ LineOf(n).op = "CtrlVlanDel" /\ LineOf(n).use_slot
    /\ sent[n].ref # 0 /\ dropped = {}
    => sent[n].ref \in VlansAdded(n)

\* Behind one pair of queues the control queue is the third, and that is where
\* every typed control command goes that is sent at all: of the queues a larger
\* count of pairs leads to, none can have been given a size.
ControlQueue == 2
CommandsOnControlQueue ==
  input.dev = "net" /\ DeviceQueues.net = 0 .. ControlQueue =>
    \A n \in DOMAIN sent :
      LineOf(n).op \notin {"TxPacket", "CtrlCmd"} => sent[n].vq = ControlQueue

============================================================================
