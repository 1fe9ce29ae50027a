----------------------------- MODULE VirtioMmio -----------------------------
(***************************************************************************)
(* The other side of the harness: the virtio-mmio register window and the  *)
(* guest memory that holds the rings.  QEMU itself is not part of the      *)
(* repository; what is here is what the harness relies on: which register  *)
(* it writes for which effect, that writing 0 to STATUS resets the device, *)
(* and that a doorbell makes the device take everything up to avail.idx.   *)
(*                                                                         *)
(* ram keeps, per ring area, the descriptor table, the avail ring and      *)
(* avail.idx.  It is keyed by the address the area is written at, so that  *)
(* a write to an address where no area is goes nowhere we look.            *)
(***************************************************************************)
EXTENDS GuestPool

CONSTANTS
  DevQueues,   \* the queues the device really has, a subset of Queues
  IdxSpace,    \* 2^16, ring indices are u16
  MmioBase     \* kVirtioMmioBase, first byte of the device's register window

ASSUME DeviceAssumption ==
  /\ DevQueues \subseteq Queues
  /\ IdxSpace \in Nat \ {0}
  /\ MmioBase \in Nat

\* The largest queue's entries can be counted in an index of a ring.
ASSUME IndexAssumption == QueueNumMax < IdxSpace

----------------------------------------------------------------------------
(* Registers of the version 2 window the harness names *)

MmioSize       == 512
R_QUEUE_SEL    == 48
R_QUEUE_NUM    == 56
R_QUEUE_READY  == 68
R_QUEUE_NOTIFY == 80
R_INT_ACK      == 100
R_STATUS       == 112
R_QDESC_LO     == 128
R_QDESC_HI     == 132
R_QDRV_LO      == 144
R_QDRV_HI      == 148
R_QDEV_LO      == 160
R_QDEV_HI      == 164
R_CONFIG       == 256

Registers == {R_QUEUE_SEL, R_QUEUE_NUM, R_QUEUE_READY, R_QUEUE_NOTIFY,
              R_INT_ACK, R_STATUS, R_QDESC_LO, R_QDESC_HI, R_QDRV_LO,
              R_QDRV_HI, R_QDEV_LO, R_QDEV_HI}

kStatusAck        == 1
kStatusDriver     == 2
kStatusDriverOk   == 4
kStatusFeaturesOk == 8

\* The status byte as the set of its bits; the read-modify-write of the
\* harness is a union.
StatusBits == {kStatusAck, kStatusDriver, kStatusDriverOk, kStatusFeaturesOk}

----------------------------------------------------------------------------
(* Guest memory *)

Slots == 0 .. QueueNumMax - 1

Blank == [addr |-> 0, len |-> 0, write |-> FALSE, more |-> FALSE, next |-> 0]

Descriptors == [addr : Nat, len : Nat, write : BOOLEAN, more : BOOLEAN,
                next : Nat]

DescAreas  == {DescGpa(i) : i \in Queues}
AvailAreas == {AvailGpa(i) : i \in Queues}

RamInit == [desc |-> [a \in DescAreas |-> [s \in Slots |-> Blank]],
            ring |-> [a \in AvailAreas |-> [s \in Slots |-> 0]],
            idx  |-> [a \in AvailAreas |-> 0]]

Rams == [desc : [DescAreas -> [Slots -> Descriptors]],
         ring : [AvailAreas -> [Slots -> Nat]],
         idx  : [AvailAreas -> Nat]]

PutDesc(ram, table, slot, d) ==
  IF table \in DescAreas THEN [ram EXCEPT !.desc[table][slot] = d] ELSE ram

PutRing(ram, avail, slot, head) ==
  IF avail \in AvailAreas THEN [ram EXCEPT !.ring[avail][slot] = head] ELSE ram

PutIdx(ram, avail, idx) ==
  IF avail \in AvailAreas THEN [ram EXCEPT !.idx[avail] = idx] ELSE ram

----------------------------------------------------------------------------
(* Device *)

NoAddr == [lo |-> 0, hi |-> 0]

DevQueueInit == [num |-> 0, ready |-> FALSE, last |-> 0,
                 desc |-> NoAddr, drv |-> NoAddr, dvc |-> NoAddr]

DevInit == [status |-> {}, sel |-> 0, isr |-> FALSE,
            q |-> [i \in DevQueues |-> DevQueueInit]]

\* R_QUEUE_NUM_MAX of the queue selected at the moment.
NumMax(d) == IF d.sel \in DevQueues THEN QueueNumMax ELSE 0

Addr(p) == Joined(p.lo, p.hi)

\* Doorbell: the device takes every entry up to avail.idx.
Notify(d, ram, i) ==
  IF i \in DevQueues /\ d.q[i].ready /\ Addr(d.q[i].drv) \in AvailAreas
  THEN LET idx == ram.idx[Addr(d.q[i].drv)]
       IN  [d EXCEPT !.q[i].last = idx, !.isr = @ \/ idx # d.q[i].last]
  ELSE d

Selected(d, off, v) ==
  CASE off = R_QUEUE_NUM   -> [d EXCEPT !.q[d.sel].num = v]
    [] off = R_QUEUE_READY -> [d EXCEPT !.q[d.sel].ready = (v = 1)]
    [] off = R_QDESC_LO    -> [d EXCEPT !.q[d.sel].desc.lo = v]
    [] off = R_QDESC_HI    -> [d EXCEPT !.q[d.sel].desc.hi = v]
    [] off = R_QDRV_LO     -> [d EXCEPT !.q[d.sel].drv.lo = v]
    [] off = R_QDRV_HI     -> [d EXCEPT !.q[d.sel].drv.hi = v]
    [] off = R_QDEV_LO     -> [d EXCEPT !.q[d.sel].dvc.lo = v]
    [] off = R_QDEV_HI     -> [d EXCEPT !.q[d.sel].dvc.hi = v]
    [] OTHER               -> d

BitsOf(v) == {b \in StatusBits : (v \div b) % 2 = 1}

\* Writing no bit at all to STATUS is a device reset.
SetDevStatus(d, bits) ==
  IF bits = {} THEN DevInit ELSE [d EXCEPT !.status = bits]

\* A 32-bit write of the number v at offset off of the window.
MmioWrite(d, ram, off, v) ==
  CASE off = R_QUEUE_SEL    -> [d EXCEPT !.sel = v]
    [] off = R_STATUS       -> IF v = 0 THEN DevInit
                               ELSE [d EXCEPT !.status = BitsOf(v)]
    [] off = R_QUEUE_NOTIFY -> Notify(d, ram, v)
    [] off = R_INT_ACK      -> [d EXCEPT !.isr = @ /\ v = 0]
    [] OTHER -> IF d.sel \in DevQueues THEN Selected(d, off, v) ELSE d

----------------------------------------------------------------------------
(* The registers of a queue *)

QueueConfig == {R_QUEUE_NUM, R_QDESC_LO, R_QDESC_HI, R_QDRV_LO, R_QDRV_HI,
                R_QDEV_LO, R_QDEV_HI}

QueueRegs == QueueConfig \cup {R_QUEUE_READY}

\* Writes that program no queue and make none ready.
Quiet(off, v) == off \notin QueueConfig /\ (off = R_QUEUE_READY => v # 1)

============================================================================
