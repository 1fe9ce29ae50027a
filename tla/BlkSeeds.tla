------------------------------ MODULE BlkSeeds ------------------------------
(***************************************************************************)
(* gen_virtio_blk_corpus.py: the seeds of the virtio-blk harness.          *)
(***************************************************************************)
EXTENDS SeedOps

kBufPoolBase == 1191231488      \* 0x4700C000
TablesBase   == 1191182336      \* 0x47000000

\* Plausible slip: DRIVER_OK before the queue is there.
prologue_early_ok ==
  <<op_get_features, op_set_features({"VERSION_1"}),
    op_set_status({"DRIVER_OK"}), op_vq_setup(0, 64)>>

prologue == Driver({"VERSION_1"}, 1)

\* emit() writes the repeat count behind the operations, if there is one.
emit(lines, iter) == IF iter > 0 THEN Append(lines, thread_b_iter(iter)) ELSE lines

\* A request of three parts: header, data, status.
request(writable) == <<<<1, 16, ForRead>>, <<2, 512, writable>>, <<3, 1, ForWrite>>>>
submitted(writable) ==
  Staged(request(writable)) \o Chained(0, request(writable))
    \o <<op_vq_kick(0), op_vq_wait_used(0)>>

seed_init == Seed("seed_01_init", prologue)

seed_read_request == Seed("seed_02_read_request", prologue \o submitted(ForWrite))

seed_write_request == Seed("seed_03_write_request", prologue \o submitted(ForRead))

seed_mmio_corrupt ==
  Seed("seed_04_mmio_corrupt", prologue \o
    <<op_mmio_corrupt(28, Junk), op_mmio_corrupt(40, Junk),
      op_mmio_corrupt(R_QUEUE_NUM, Junk), op_mmio_corrupt(R_STATUS, 0),
      op_mmio_corrupt(R_QUEUE_NOTIFY, 0)>>)

seed_memwrite_absolute_pool ==
  Seed("seed_05_memwrite_absolute", prologue \o
    <<op_mem_write_absolute(TablesBase, 64),
      op_mem_write_absolute(TablesBase + 4096, 32),
      op_mem_write_absolute(TablesBase + 8192, 32),
      op_mem_write_absolute(kBufPoolBase, 16),
      op_mem_write_absolute(kBufPoolBase + 256, 4)>>)

seed_toctou_stale_descriptor ==
  Seed("seed_06_toctou_stale_descriptor",
    emit(prologue \o submitted(ForWrite) \o
           [k \in 1 .. 4 |-> b_mem_write_absolute(kBufPoolBase, 16)], 4))

seed_toctou_descriptor_table ==
  Seed("seed_07_toctou_descriptor_table",
    emit(prologue \o submitted(ForWrite) \o
           [k \in 1 .. 3 |-> b_mem_write_absolute(TablesBase + 24, 4)], 3))

seed_combined_fault_injection ==
  Seed("seed_08_combined_faults", prologue \o
    <<op_mmio_corrupt(28, Junk), op_guest_mem_write(1, 16),
      op_vq_add_desc(0, 1, 16, ForRead, Last),
      op_mem_write_absolute(kBufPoolBase, 16), op_vq_kick(0),
      op_mmio_corrupt(R_QUEUE_NOTIFY, Junk), op_vq_wait_used(0)>>)

seed_config_probe ==
  Seed("seed_09_config_probe", prologue \o <<op_vq_select(0)>>
    \o [k \in 1 .. 9 |-> op_config_read(4 * (k - 1), 4)]
    \o <<op_config_read(0, 8), op_config_write(0, 8), op_reset>>)

reflected ==
  <<op_guest_mem_write(1, 16), op_guest_mem_write(3, 1),
    op_vq_add_desc(0, 1, 16, ForRead, More),
    op_vq_add_exotic(0, 20, 4, ForWrite, More, 2),
    op_vq_add_exotic(0, 44, 4, ForWrite, More, 2),
    op_vq_add_desc(0, 3, 1, ForWrite, Last), op_vq_kick(0), op_vq_wait_used(0)>>

seed_dma_reflection == Seed("seed_10_dma_reflection", prologue \o reflected)

seed_dma_all_regions ==
  Seed("seed_11_dma_all_exotic_regions", prologue \o
    <<op_guest_mem_write(1, 16), op_guest_mem_write(3, 1)>> \o AllRegions(0))

seed_dma_reflection_concurrent ==
  Seed("seed_12_dma_reflection_concurrent",
    emit(prologue \o reflected \o
      <<b_mmio_corrupt(R_QUEUE_NOTIFY, 0), b_mmio_corrupt(R_STATUS, 0),
        b_mem_write_absolute(TablesBase, 16), b_mmio_corrupt(R_INT_ACK, Junk)>>, 4))

seed_dma_read_exotic ==
  Seed("seed_13_dma_read_exotic", prologue \o
    <<op_vq_add_exotic(0, 0, 4, ForRead, More, 2),
      op_vq_add_exotic(0, 4, 4, ForRead, More, 3),
      op_vq_add_exotic(0, 0, 4, ForRead, Last, 4), op_vq_kick(0)>>)

seed_dma_reset_gadget == Seed("seed_dma_reset_gadget", prologue \o ResetGadget(0))

seed_dma_recursive_notify ==
  Seed("seed_dma_recursive_notify", prologue \o RecursiveNotify(0))

SEED_BUILDERS ==
  <<seed_init, seed_read_request, seed_write_request, seed_mmio_corrupt,
    seed_memwrite_absolute_pool, seed_toctou_stale_descriptor,
    seed_toctou_descriptor_table, seed_combined_fault_injection,
    seed_config_probe, seed_dma_reflection, seed_dma_all_regions,
    seed_dma_reflection_concurrent, seed_dma_read_exotic,
    seed_dma_reset_gadget, seed_dma_recursive_notify>>

============================================================================
