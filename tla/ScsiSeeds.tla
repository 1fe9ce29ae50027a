----------------------------- MODULE ScsiSeeds -----------------------------
(***************************************************************************)
(* gen_virtio_scsi_corpus.py: the seeds of the virtio-scsi harness.        *)
(*                                                                         *)
(* A command is its tag and its CDB; a CDB is its opcode and what it says  *)
(* about data: the bytes to read (alloc), or the blocks to read or write.  *)
(***************************************************************************)
EXTENDS SeedOps

DEFAULT_FEATURES == {"VERSION_1", "INOUT", "HOTPLUG", "CHANGE"}

\* Control, event and request queue.
prologue == Driver(DEFAULT_FEATURES, 3)

cmd(tag, cdb) == [list |-> "ops", op |-> "ScsiCmd", vq |-> 2, tag |-> tag, cdb |-> cdb]

cdb_inquiry(alloc)       == [opcode |-> "INQUIRY", alloc |-> alloc]
cdb_test_unit_ready      == [opcode |-> "TEST_UNIT_READY"]
cdb_read_capacity_10     == [opcode |-> "READ_CAPACITY_10"]
cdb_read_capacity_16     == [opcode |-> "READ_CAPACITY_16", alloc |-> 32]
cdb_read_10(n)           == [opcode |-> "READ_10", blocks |-> n]
cdb_write_10(n)          == [opcode |-> "WRITE_10", blocks |-> n]
cdb_mode_sense_6(alloc)  == [opcode |-> "MODE_SENSE_6", alloc |-> alloc]
cdb_request_sense(alloc) == [opcode |-> "REQUEST_SENSE", alloc |-> alloc]
cdb_report_luns(alloc)   == [opcode |-> "REPORT_LUNS", alloc |-> alloc]
cdb_start_stop_unit      == [opcode |-> "START_STOP_UNIT"]
cdb_sync_cache_10        == [opcode |-> "SYNCHRONIZE_CACHE_10"]
cdb_raw(in_len)          == [opcode |-> "raw", alloc |-> in_len]

op_tmf(subtype, tag) ==
  [list |-> "ops", op |-> "TmfReq", subtype |-> subtype, tag |-> tag]
op_an(subtype) == [list |-> "ops", op |-> "AnReq", subtype |-> subtype]

----------------------------------------------------------------------------

seed_init == Seed("seed_01_init", prologue)

\* Standard data, then three pages of vital product data.
seed_inquiry ==
  Seed("seed_02_inquiry", prologue
    \o Awaited([k \in 1 .. 4 |-> cmd(k, cdb_inquiry(<<96, 64, 64, 128>>[k]))], 2))

seed_report_luns ==
  Seed("seed_03_report_luns", prologue
    \o Awaited([k \in 1 .. 3 |-> cmd(9 + k, cdb_report_luns(512))], 2))

seed_read_capacity ==
  Seed("seed_04_read_capacity", prologue
    \o Awaited(<<cmd(20, cdb_read_capacity_10), cmd(21, cdb_read_capacity_16)>>, 2))

seed_tur ==
  Seed("seed_05_tur", prologue
    \o Awaited([k \in 1 .. 3 |-> cmd(29 + k, cdb_test_unit_ready)], 2))

\* The tag is 40 plus the block's address.
seed_read10 ==
  Seed("seed_06_read10", prologue
    \o Awaited([k \in 1 .. 4 |-> cmd(40 + <<0, 1, 16, 4095>>[k], cdb_read_10(1))], 2))

seed_write10 ==
  Seed("seed_07_write10", prologue
    \o Awaited([k \in 1 .. 2 |-> cmd(49 + k, cdb_write_10(k))], 2))

seed_mode_sense ==
  Seed("seed_08_mode_sense", prologue
    \o Awaited([k \in 1 .. 3 |-> cmd(59 + k, cdb_mode_sense_6(<<192, 64, 64>>[k]))], 2))

seed_request_sense ==
  Seed("seed_09_request_sense",
       prologue \o Awaited(<<cmd(70, cdb_request_sense(18))>>, 2))

seed_sync_cache ==
  Seed("seed_10_sync_cache", prologue \o Awaited(<<cmd(80, cdb_sync_cache_10)>>, 2))

\* Stop, then start.
seed_start_stop ==
  Seed("seed_11_start_stop", prologue
    \o Awaited([k \in 1 .. 2 |-> cmd(89 + k, cdb_start_stop_unit)], 2))

seed_raw_vendor ==
  Seed("seed_12_raw_vendor", prologue \o Awaited(<<cmd(100, cdb_raw(64))>>, 2))

\* Plausible slip: the abort names another seed's command.
seed_tmf_abort_other ==
  Seed("seed_13_tmf_abort", prologue \o
    <<cmd(200, cdb_read_10(64)), op_tmf("ABORT_TASK", 100), op_vq_wait_used(0)>>)

seed_tmf_abort ==
  Seed("seed_13_tmf_abort", prologue \o
    <<cmd(200, cdb_read_10(64)), op_tmf("ABORT_TASK", 200), op_vq_wait_used(0)>>)

seed_tmf_lun_reset ==
  Seed("seed_14_tmf_lun_reset",
       prologue \o Awaited(<<op_tmf("LOGICAL_UNIT_RESET", 1)>>, 0))

seed_an_subscribe ==
  Seed("seed_15_an", prologue \o Awaited(<<op_an("SUBSCRIBE"), op_an("QUERY")>>, 0))

seed_full_session ==
  LET cdbs == <<cdb_test_unit_ready, cdb_inquiry(96), cdb_read_capacity_10,
                cdb_read_10(1), cdb_write_10(1), cdb_sync_cache_10>>
  IN  Seed("seed_16_full_session", prologue
        \o Awaited([k \in 1 .. 6 |-> cmd(299 + k, cdbs[k])], 2))

seed_dma_reflection == Seed("seed_dma_reflection", prologue \o Reflection(2))

seed_dma_all_regions ==
  Seed("seed_dma_all_exotic_regions", prologue \o AllRegions(2))

seed_dma_reflection_concurrent ==
  Seed("seed_dma_reflection_concurrent",
       prologue \o ReflectionConcurrent(2) \o <<thread_b_iter(4)>>)

seed_dma_reset_gadget ==
  Seed("seed_dma_reset_gadget", prologue \o ResetGadget(2))

seed_dma_recursive_notify ==
  Seed("seed_dma_recursive_notify", prologue \o RecursiveNotify(2))

SEED_BUILDERS ==
  <<seed_init, seed_inquiry, seed_report_luns, seed_read_capacity,
    seed_tur, seed_read10, seed_write10, seed_mode_sense,
    seed_request_sense, seed_sync_cache, seed_start_stop,
    seed_raw_vendor, seed_tmf_abort, seed_tmf_lun_reset,
    seed_an_subscribe, seed_full_session, seed_dma_reflection,
    seed_dma_all_regions, seed_dma_reflection_concurrent,
    seed_dma_reset_gadget, seed_dma_recursive_notify>>

variation(lines) == Variations(lines, 6)

============================================================================
