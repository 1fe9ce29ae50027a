--------------------------- MODULE ThreadPrograms ---------------------------
(***************************************************************************)
(* The programs for which the concurrent mode of the virtio-blk harness    *)
(* keeps its promises.  The code takes any; what it does with others is    *)
(* said beside each condition.                                             *)
(***************************************************************************)
EXTENDS BlkThreads, FiniteSets

\* Reset in thread B takes its allocator to the start of thread A's half of the
\* pool.
NoResetInB == \A p \in ProgramsB : \A k \in 1 .. Len(p) : p[k].kind # "Reset"

\* Thread B's queues have no addresses, so a program of its own that both sets
\* one up and adds a descriptor to it writes at the bottom of the guest's
\* memory.  No seed has one.
NoRingsInB ==
  \A p \in ProgramsB : \A j, k \in 1 .. Len(p) :
    ~(p[j].kind = "VqSetup" /\ p[k].kind = "VqAddDesc")

\* Nothing thread B is given selects a queue, writes a register of one or
\* resets the device, and no corruption of thread A writes a queue's register.
Calm(op) ==
  /\ op.kind \notin {"VqSetup", "VqSelect", "Reset"}
  /\ op.kind = "SetStatus" => op.bits # {}
  /\ op.kind = "MmioCorrupt" =>
       op.off % MmioSize \notin QueueRegs \cup {R_QUEUE_SEL, R_STATUS}

CalmPrograms ==
  /\ \A p \in ProgramsB : \A k \in 1 .. Len(p) : Calm(p[k])
  /\ \A p \in ProgramsA : \A k \in 1 .. Len(p) :
       p[k].kind = "MmioCorrupt" => p[k].off % MmioSize \notin QueueRegs

\* Of the first n operations of a program, those that may add to queue i.
Adds(p, i, n) == {k \in 1 .. n : p[k].kind = "VqAddDesc" /\ p[k].i = i}

SetsUp(op, i) == op.kind = "VqSetup" /\ op.i = i

\* A queue may be set up again, but with the same size; and it has room for all
\* the descriptors the program adds to it.
OneLap(p) ==
  \A i \in Queues : \A j, k \in 1 .. Len(p) :
    SetsUp(p[j], i) /\ SetsUp(p[k], i) =>
      /\ SizeFor(p[j].size) = SizeFor(p[k].size)
      /\ Cardinality(Adds(p, i, Len(p))) <= SizeFor(p[k].size)

\* Nothing that may reset the device, which would have it read the ring again
\* from the start.
Keeps(op) ==
  /\ op.kind # "Reset"
  /\ op.kind = "SetStatus" => op.bits # {}
  /\ op.kind = "MmioCorrupt" => op.off % MmioSize # R_STATUS

\* Programs of thread A that publish no more than a ring holds, and leave the
\* device where it is in them.
LapPrograms ==
  /\ CalmPrograms
  /\ \A p \in ProgramsA : OneLap(p) /\ \A k \in 1 .. Len(p) : Keeps(p[k])

============================================================================
