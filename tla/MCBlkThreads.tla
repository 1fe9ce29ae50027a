---------------------------- MODULE MCBlkThreads ----------------------------
(***************************************************************************)
(* Small instances of BlkThreads: programs of a few operations, every      *)
(* interleaving of their accesses.                                         *)
(***************************************************************************)
EXTENDS ThreadPrograms

MCExoticBase == [r \in 0 .. 3 |-> <<64, 512, 128, 256>>[r + 1]]
MCExoticSize == [r \in 0 .. 3 |-> <<16, 512, 64, 8>>[r + 1]]

Setup(i)       == [kind |-> "VqSetup", i |-> i, size |-> 4]
Select(i)      == [kind |-> "VqSelect", i |-> i]
Kick(i)        == [kind |-> "VqKick", i |-> i]
WaitUsed       == [kind |-> "VqWaitUsed"]
Features       == [kind |-> "SetFeatures"]
DriverOk       == [kind |-> "SetStatus", bits |-> {kStatusDriverOk}]
ResetOp        == [kind |-> "Reset"]
Corrupt(off, v) == [kind |-> "MmioCorrupt", off |-> off, v |-> v]
Buffer(id)     == [kind |-> "GuestMemWrite", id |-> id, size |-> 4]
Hammer(gpa)    == [kind |-> "MemwriteAbsolute", gpa |-> gpa, size |-> 4]
Desc(i, id)    == [kind |-> "VqAddDesc", i |-> i, id |-> id, len |-> 4,
                   writable |-> FALSE, more |-> FALSE, region |-> 0]
\* Into the UART's window: what the device reads or writes there is not the
\* device's own state.
Exotic(i, id)  == [kind |-> "VqAddDesc", i |-> i, id |-> id, len |-> 8,
                   writable |-> TRUE, more |-> FALSE, region |-> 1]
\* A descriptor of a chain that goes on.
More(i, id)    == [Desc(i, id) EXCEPT !.more = TRUE]

\* The shape of the seeds: negotiate, set up, fill, publish, kick.
Driver == <<Features, Setup(0), DriverOk, Buffer(1), Desc(0, 1), Kick(0)>>

TwoQueues == <<Setup(0), Setup(1), Buffer(1), Desc(0, 1), Exotic(1, 17),
               Exotic(0, 28), Kick(0)>>

\* A chain in two parts, between them a queue set up again; one never finished.
Chained == <<Setup(0), Buffer(1), More(0, 1), Setup(0), Desc(0, 1), Kick(0),
             More(0, 1), Select(1)>>

Again == <<Setup(1), Setup(0), Select(1), Corrupt(R_QUEUE_NOTIFY, 1),
           Exotic(1, 17), Desc(1, 1), Setup(1), DriverOk>>

\* What the seeds give thread B, but for one that resets the device: nothing that
\* names a queue register.
Benign == {<<Kick(0), Kick(1)>>, <<Hammer(2047), WaitUsed, Buffer(1)>>,
           <<Buffer(2), Desc(0, 2), Kick(0), Features>>, <<>>}

\* Everything but the operation that gives thread B thread A's pool.
NoReset == {<<Setup(0), Kick(0)>>, <<Select(1), Buffer(1), Buffer(2)>>,
            <<DriverOk, Buffer(2), WaitUsed>>, <<Corrupt(R_STATUS, 0)>>, <<>>}

DriverPrograms == {Driver, <<Setup(1), Buffer(1), Buffer(2)>>}
QueuePrograms  == {Driver, TwoQueues, Chained, Again}
OneBuffer      == {<<Buffer(1)>>}
Resetting      == {<<ResetOp, Buffer(1)>>}

\* What the theorems ask of programs is true of those of the passing runs.
ASSUME QueueRunAssumption ==
  ProgramsA = QueuePrograms =>
    LapPrograms /\ NoRingsInB /\ {0, 1} \subseteq DevQueues

ASSUME JoinRunAssumption == ProgramsA = DriverPrograms => NoResetInB
============================================================================
