------------------------------ MODULE SeedOps -------------------------------
(***************************************************************************)
(* The lines of a text-proto seed, as the op_* and b_* helpers of the      *)
(* corpus generators write them.  A line is a record: list is the repeated *)
(* field the line adds to (ops or ops_thread_b) or the field it sets       *)
(* (thread_b_iter), op the operation and the rest its arguments.           *)
(*                                                                         *)
(* A payload is its length, a feature word the set of names of its bits,   *)
(* a status word the set of names of its bits, and a corrupted register's  *)
(* value 0 or Junk.                                                        *)
(*                                                                         *)
(* The ten generators repeat these helpers word for word but for optional  *)
(* arguments; the definitions are mapped to virtio-net's, those it lacks   *)
(* to virtio-blk's and virtio-fs's.                                        *)
(***************************************************************************)
EXTENDS Integers, Sequences

Seqs == INSTANCE SequencesExt
LOCAL INSTANCE TLC

Junk == 65535                   \* a value that is no queue and all status bits

\* The register offsets seeds name.
R_QUEUE_NUM    == 56
R_QUEUE_READY  == 68
R_QUEUE_NOTIFY == 80
R_INT_ACK      == 100
R_STATUS       == 112

\* Arguments of op_vq_add_desc by name: what the device may do with the
\* descriptor, and whether another one follows it in the chain.
ForRead  == FALSE
ForWrite == TRUE
More == TRUE
Last == FALSE

----------------------------------------------------------------------------
op_get_features     == [list |-> "ops", op |-> "GetFeatures"]
op_set_features(f)  == [list |-> "ops", op |-> "SetFeatures", features |-> f]
op_vq_setup(i, n)   == [list |-> "ops", op |-> "VqSetup", vq |-> i, size |-> n]
op_vq_select(i)     == [list |-> "ops", op |-> "VqSelect", vq |-> i]
op_set_status(bits) == [list |-> "ops", op |-> "SetStatus", bits |-> bits]
op_reset            == [list |-> "ops", op |-> "Reset"]

op_config_read(off, size) ==
  [list |-> "ops", op |-> "ConfigRead", off |-> off, size |-> size]
op_config_write(off, len) ==
  [list |-> "ops", op |-> "ConfigWrite", off |-> off, size |-> len]

op_guest_mem_write(id, len) ==
  [list |-> "ops", op |-> "GuestMemWrite", id |-> id, len |-> len]

\* A descriptor of a buffer, and one of an MMIO window (exotic_region).
op_vq_add_desc(i, id, len, writable, more) ==
  [list |-> "ops", op |-> "VqAddDesc", vq |-> i, id |-> id, len |-> len,
   writable |-> writable, more |-> more, region |-> 0]
op_vq_add_exotic(i, id, len, writable, more, region) ==
  [op_vq_add_desc(i, id, len, writable, more) EXCEPT !.region = region]

op_vq_kick(i)      == [list |-> "ops", op |-> "VqKick", vq |-> i]
op_vq_wait_used(i) == [list |-> "ops", op |-> "VqWaitUsed", vq |-> i]

op_mem_write_absolute(gpa, len) ==
  [list |-> "ops", op |-> "MemwriteAbsolute", gpa |-> gpa, len |-> len]
op_mmio_corrupt(off, v) ==
  [list |-> "ops", op |-> "MmioCorrupt", off |-> off, value |-> v, size |-> 4]

----------------------------------------------------------------------------
(* The same operations in thread B's list, and its repeat count *)

ThreadB(line) == [line EXCEPT !.list = "ops_thread_b"]

b_mem_write_absolute(gpa, len) == ThreadB(op_mem_write_absolute(gpa, len))
b_mmio_corrupt(off, v)         == ThreadB(op_mmio_corrupt(off, v))
b_vq_add_exotic(i, id, len, writable, more, region) ==
  ThreadB(op_vq_add_exotic(i, id, len, writable, more, region))

thread_b_iter(n) == [list |-> "thread_b_iter", op |-> "Iterations", n |-> n]

----------------------------------------------------------------------------
(* Chains most generators write in the same way *)

\* A buffer for each part <<id, length, writable>>, then a chain of them.
Staged(parts) ==
  [k \in DOMAIN parts |-> op_guest_mem_write(parts[k][1], parts[k][2])]
Chained(i, parts) ==
  [k \in DOMAIN parts |->
     op_vq_add_desc(i, parts[k][1], parts[k][2], parts[k][3], k < Len(parts))]

Seed(name, lines) == [name |-> name, lines |-> lines]

\* Negotiation, queues 0 .. n-1 and DRIVER_OK: the shape of every prologue.
Driver(features, n) ==
  <<op_get_features, op_set_features(features)>>
    \o [k \in 1 .. n |-> op_vq_setup(k - 1, 64)] \o <<op_set_status({"DRIVER_OK"})>>

\* A list of requests, each followed by a wait on queue i.
Awaited(requests, i) ==
  [k \in 1 .. 2 * Len(requests) |->
     IF k % 2 = 1 THEN requests[(k + 1) \div 2] ELSE op_vq_wait_used(i)]

----------------------------------------------------------------------------
(* The chains of MMIO windows nine generators write on a queue of theirs.  *)
(* Region 1 is the UART, 2 the device's own registers, 3 the GIC, 4 the    *)
(* bus of the MMIO transports.                                             *)

Reflection(i) ==
  <<op_vq_add_exotic(i, 20, 4, ForWrite, More, 2),
    op_vq_add_exotic(i, 44, 4, ForWrite, Last, 2), op_vq_kick(i)>>

\* Plausible slip: the last descriptor still says that one follows.
AllRegions_open(i) ==
  <<op_vq_add_exotic(i, 1, 4, ForRead, More, 1),
    op_vq_add_exotic(i, 20, 4, ForWrite, More, 2),
    op_vq_add_exotic(i, 0, 4, ForWrite, More, 3),
    op_vq_add_exotic(i, 0, 4, ForWrite, More, 4), op_vq_kick(i)>>

AllRegions(i) ==
  <<op_vq_add_exotic(i, 1, 4, ForRead, More, 1),
    op_vq_add_exotic(i, 20, 4, ForWrite, More, 2),
    op_vq_add_exotic(i, 0, 4, ForWrite, More, 3),
    op_vq_add_exotic(i, 0, 4, ForWrite, Last, 4), op_vq_kick(i)>>

ReflectionConcurrent(i) == Reflection(i) \o
  <<b_mmio_corrupt(R_QUEUE_NOTIFY, 0), b_mmio_corrupt(R_STATUS, 0),
    b_vq_add_exotic(i, 20, 4, ForWrite, Last, 2)>>

ResetGadget(i) ==
  <<op_vq_add_exotic(i, 0, 4, ForRead, More, 2),
    op_vq_add_exotic(i, 28, 4, ForWrite, More, 2),
    op_vq_add_exotic(i, 0, 4, ForWrite, Last, 2), op_vq_kick(i)>>

RecursiveNotify(i) ==
  [k \in 1 .. 9 |-> op_vq_add_exotic(i, 20, 4, ForWrite, k < 9, 2)]
    \o <<op_vq_kick(i)>>

----------------------------------------------------------------------------
(* What variation() makes of a seed's lines.  The generator draws one of   *)
(* four strategies and a place; here a variation is any of them.  A tail   *)
(* longer than MaxShuffled is not permuted in every way but reversed.      *)

MaxShuffled == 5

Shuffled(tail) ==
  IF Len(tail) > MaxShuffled THEN {Seqs!Reverse(tail)}
  ELSE {[k \in DOMAIN tail |-> tail[p[k]]] : p \in Permutations(DOMAIN tail)}

Repeated(lines, i, n) ==
  SubSeq(lines, 1, i - 1) \o [k \in 1 .. n |-> lines[i]]
    \o SubSeq(lines, i + 1, Len(lines))

\* The first line is never dropped, and the first head lines never move.
Variations(lines, head) ==
  LET all == DOMAIN lines
      kept == IF head < Len(lines) THEN head ELSE Len(lines)
      fixed == SubSeq(lines, 1, kept)
      tail == SubSeq(lines, kept + 1, Len(lines))
  IN  IF Len(lines) < 2 THEN {[how |-> "as it is", lines |-> lines]}
      ELSE {[how |-> "dup", lines |-> Seqs!InsertAt(lines, i, lines[i])] : i \in all}
           \cup {[how |-> "drop", lines |-> Seqs!RemoveAt(lines, i)] : i \in all \ {1}}
           \cup {[how |-> "shuffle_tail", lines |-> fixed \o t] : t \in Shuffled(tail)}
           \cup {[how |-> "repeat_one", lines |-> Repeated(lines, i, n)] :
                   i \in all, n \in 2 .. 4}

============================================================================
