---------------------------- MODULE MCVirtioBlk -----------------------------
(***************************************************************************)
(* Small instances of VirtioBlk.  The layout keeps the proportions of the  *)
(* code: a descriptor table holds as many descriptors as an input has      *)
(* operations (4 for 256), a queue may have more entries than that (8 for  *)
(* 1024), addresses wrap soon after the pool, and an address needs both of *)
(* its registers.                                                          *)
(***************************************************************************)
EXTENDS VirtioBlk

\* Two 192-byte ring areas from 1024, the buffer pool from 1408 to 1520; in
\* blk_inputs a third area, for a queue the device lacks, and a pool to 1712.
MCExoticBase == [r \in 0 .. 3 |-> <<64, 512, 128, 256>>[r + 1]]
MCExoticSize == [r \in 0 .. 3 |-> <<16, 512, 64, 8>>[r + 1]]

AllKinds == {"ReadOnly", "SetFeatures", "ConfigWrite", "VqSelect", "VqSetup",
             "SetStatus", "VqKick", "VqWaitUsed", "MmioCorrupt", "Reset",
             "GuestMemWrite", "MemwriteAbsolute", "VqAddDesc"}

\* Operations that touch memory, and the register operations they need.
MemoryKinds == {"VqSetup", "ConfigWrite", "MmioCorrupt", "GuestMemWrite",
                "MemwriteAbsolute", "VqAddDesc", "Reset"}

\* Everything that bears on a queue but the operation that takes the harness's
\* counters back.  The device may still be reset, by SetStatus or a corruption.
DriverKinds == AllKinds \ {"Reset", "ConfigWrite", "MemwriteAbsolute"}

ChainKinds == {"VqSetup", "VqAddDesc", "GuestMemWrite", "VqKick", "Reset"}

MCStatusArgs == {{}, {kStatusDriverOk}}

\* STATUS := 0, QUEUE_READY := 0, a doorbell, the last byte of the window.
MCCorruptions ==
  {[off |-> R_STATUS, value |-> 0, size |-> 4],
   [off |-> R_QUEUE_READY, value |-> 0, size |-> 4],
   [off |-> R_QUEUE_NOTIFY, value |-> 0, size |-> 7],
   [off |-> MmioSize - 1, value |-> 1, size |-> 4],
   [off |-> MmioSize + 3, value |-> 1, size |-> 1]}

\* What the theorems about queues ask of the inputs.
ASSUME QuietAssumption == QuietCorruptions

ASSUME OneInputAssumption == Kinds = DriverKinds => OneInput
============================================================================
