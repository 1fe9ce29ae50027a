------------------------------ MODULE GpuSeeds ------------------------------
(***************************************************************************)
(* gen_virtio_gpu_corpus.py: the seeds of the virtio-gpu harness.          *)
(*                                                                         *)
(* A command is the slot of the resource it names and, where it takes one, *)
(* the rectangle's width and height; formats, positions and cursor hot     *)
(* spots are left out.                                                     *)
(***************************************************************************)
EXTENDS SeedOps

gpu(op)       == [list |-> "ops", op |-> op]
gpuOn(op, s)  == [list |-> "ops", op |-> op, slot |-> s]
sized(op, s, w, h) == [list |-> "ops", op |-> op, slot |-> s, w |-> w, h |-> h]

op_gpu_create_2d(s, w, h)   == sized("GpuCreate2D", s, w, h)
op_gpu_unref(s)             == gpuOn("GpuUnref", s)
op_gpu_detach_backing(s)    == gpuOn("GpuDetachBacking", s)
op_gpu_transfer(s, w, h)    == sized("GpuTransfer", s, w, h)
op_gpu_flush(s, w, h)       == sized("GpuFlush", s, w, h)
op_gpu_set_scanout(s, w, h) == sized("GpuSetScanout", s, w, h)
op_gpu_update_cursor(s)     == gpuOn("GpuUpdateCursor", s)
op_gpu_move_cursor          == gpu("GpuMoveCursor")
op_gpu_get_display_info     == gpu("GpuGetDisplayInfo")
op_gpu_get_edid             == gpu("GpuGetEdid")
op_gpu_set_fence(on)        == [list |-> "ops", op |-> "GpuSetFence", enabled |-> on]
op_gpu_attach_backing(s, b, entries, size) ==
  [list |-> "ops", op |-> "GpuAttachBacking", slot |-> s, backing |-> b,
   entries |-> entries, size |-> size]
op_gpu_create_blob(s, entries, size) ==
  [list |-> "ops", op |-> "GpuCreateBlob", slot |-> s, entries |-> entries,
   size |-> size]
op_host_hotplug == [list |-> "ops", op |-> "HostEvent"]

\* The control queue and the cursor queue.
prologue == Driver({"VERSION_1"}, 2)

----------------------------------------------------------------------------
seed_init == Seed("seed_01_init", prologue)

pipeline ==
  <<op_gpu_create_2d(0, 64, 64), op_gpu_attach_backing(0, 0, 4, 4096),
    op_gpu_transfer(0, 64, 64), op_gpu_flush(0, 64, 64)>>

\* Plausible slip: the backing is attached before the resource is there.
seed_full_2d_pipeline_early_attach ==
  Seed("seed_02_full_2d",
       prologue \o <<pipeline[2], pipeline[1], pipeline[3], pipeline[4]>>)

seed_full_2d_pipeline == Seed("seed_02_full_2d", prologue \o pipeline)

seed_set_scanout ==
  Seed("seed_03_set_scanout", prologue \o
    <<op_gpu_create_2d(0, 1024, 768), op_gpu_attach_backing(0, 0, 8, 4096),
      op_gpu_set_scanout(0, 1024, 768), op_gpu_flush(0, 1024, 768)>>)

seed_cursor ==
  Seed("seed_04_cursor", prologue \o
    <<op_gpu_create_2d(1, 64, 64), op_gpu_attach_backing(1, 1, 1, 4096),
      op_gpu_transfer(1, 64, 64), op_gpu_update_cursor(1),
      op_gpu_move_cursor, op_gpu_move_cursor>>)

\* Slots 0 to 3 with sides of 64, 128, 256 and 512.
seed_multi_resource ==
  LET side == <<64, 128, 256, 512>>
  IN  Seed("seed_05_multi_resource", prologue
        \o [k \in 1 .. 8 |->
              LET s == (k - 1) \div 2
              IN  IF k % 2 = 1 THEN op_gpu_create_2d(s, side[s + 1], side[s + 1])
                  ELSE op_gpu_attach_backing(s, s, 2, 4096)]
        \o <<op_gpu_set_scanout(0, 64, 64), op_gpu_flush(3, 512, 512)>>)

seed_unref_recreate ==
  Seed("seed_06_unref_recreate", prologue \o
    <<op_gpu_create_2d(0, 64, 64), op_gpu_unref(0), op_gpu_create_2d(0, 128, 128),
      op_gpu_attach_backing(0, 0, 2, 4096), op_gpu_flush(0, 128, 128)>>)

seed_negative_no_resource ==
  Seed("seed_07_negative_no_resource", prologue \o
    <<op_gpu_set_scanout(0, 640, 480), op_gpu_transfer(0, 64, 64),
      op_gpu_flush(0, 64, 64)>>)

seed_negative_detach_no_backing ==
  Seed("seed_08_negative_detach_no_backing",
       prologue \o <<op_gpu_create_2d(0, 64, 64), op_gpu_detach_backing(0)>>)

\* An empty rectangle, one that is too large, and an offset behind the end.
seed_transfer_extreme ==
  Seed("seed_09_transfer_extreme", prologue \o
    <<op_gpu_create_2d(0, 64, 64), op_gpu_attach_backing(0, 0, 4, 4096),
      op_gpu_transfer(0, 0, 0), op_gpu_transfer(0, 65535, 65535),
      op_gpu_transfer(0, 4, 4)>>)

seed_display_info_edid ==
  Seed("seed_10_display_info_edid",
       prologue \o <<op_gpu_get_display_info>> \o [k \in 1 .. 4 |-> op_gpu_get_edid])

seed_fenced_pipeline ==
  Seed("seed_11_fenced_pipeline",
       prologue \o <<op_gpu_set_fence(TRUE)>> \o pipeline \o <<op_gpu_set_fence(FALSE)>>)

seed_blob_resource ==
  Seed("seed_12_blob_resource",
       prologue \o <<op_gpu_create_blob(0, 1, 4096), op_gpu_flush(0, 64, 64)>>)

seed_host_hotplug ==
  Seed("seed_13_host_hotplug", prologue \o
    <<op_gpu_create_2d(0, 640, 480), op_gpu_attach_backing(0, 0, 4, 4096),
      op_gpu_set_scanout(0, 640, 480), op_host_hotplug, op_gpu_flush(0, 640, 480),
      op_host_hotplug, op_gpu_get_display_info>>)

seed_config_probe ==
  Seed("seed_14_config_probe", prologue \o <<op_vq_select(0)>>
    \o [k \in 1 .. 4 |-> op_config_read(4 * (k - 1), 4)]
    \o <<op_config_read(0, 16), op_config_write(4, 4)>>)

seed_fault_injection ==
  Seed("seed_15_fault_injection", prologue \o
    <<op_mmio_corrupt(28, Junk), op_mmio_corrupt(40, Junk),
      op_mmio_corrupt(R_STATUS, 0), op_mem_write_absolute(1191182336, 64),
      op_mem_write_absolute(1191231488, 32)>>)

seed_raw_vq_get_display_info ==
  LET parts == <<<<200, 24, ForRead>>, <<201, 24 + 16 * 24, ForWrite>>>>
  IN  Seed("seed_16_raw_vq_get_display_info",
           prologue \o Staged(parts) \o Chained(0, parts)
             \o <<op_vq_kick(0), op_vq_wait_used(0)>>)

seed_dma_reflection == Seed("seed_dma_reflection", prologue \o Reflection(0))

seed_dma_all_regions ==
  Seed("seed_dma_all_exotic_regions", prologue \o AllRegions(0))

seed_dma_reflection_concurrent ==
  Seed("seed_dma_reflection_concurrent", prologue \o ReflectionConcurrent(0))

seed_dma_reset_gadget ==
  Seed("seed_dma_reset_gadget", prologue \o ResetGadget(0))

seed_dma_recursive_notify ==
  Seed("seed_dma_recursive_notify", prologue \o RecursiveNotify(0))

SEED_BUILDERS ==
  <<seed_init, seed_full_2d_pipeline, seed_set_scanout, seed_cursor,
    seed_multi_resource, seed_unref_recreate, seed_negative_no_resource,
    seed_negative_detach_no_backing, seed_transfer_extreme,
    seed_display_info_edid, seed_fenced_pipeline, seed_blob_resource,
    seed_host_hotplug, seed_config_probe, seed_fault_injection,
    seed_raw_vq_get_display_info, seed_dma_reflection, seed_dma_all_regions,
    seed_dma_reflection_concurrent, seed_dma_reset_gadget,
    seed_dma_recursive_notify>>

variation(lines) == Variations(lines, 5)

============================================================================
