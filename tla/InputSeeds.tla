---------------------------- MODULE InputSeeds -----------------------------
(***************************************************************************)
(* gen_virtio_input_corpus.py: the seeds of the virtio-input harness.      *)
(***************************************************************************)
EXTENDS SeedOps

\* Event and status queue.
prologue == Driver({"VERSION_1"}, 2)

status_event(t) == [list |-> "ops", op |-> "StatusEvent", type |-> t]
event_buf(size) == [list |-> "ops", op |-> "EventBuf", size |-> size]

----------------------------------------------------------------------------

seed_init == Seed("seed_01_init", prologue)

seed_event_buffers ==
  Seed("seed_02_event_buffers",
       prologue \o [k \in 1 .. 8 |-> event_buf(64)] \o <<op_vq_wait_used(0)>>)

\* Three LEDs on and off, then the report.
seed_led_status ==
  Seed("seed_03_led_status", prologue \o [k \in 1 .. 6 |-> status_event("LED")]
    \o <<status_event("SYN"), op_vq_wait_used(1)>>)

seed_repeat_config ==
  Seed("seed_04_rep_config", prologue \o
    <<status_event("REP"), status_event("REP"), status_event("SYN"), op_vq_wait_used(1)>>)

\* The whole space, then each of four selections and what it shows.
seed_config_probe ==
  Seed("seed_05_config_probe", prologue
    \o [k \in 1 .. 8 |-> op_config_read(<<0, 1, 2, 4, 8, 16, 24, 32>>[k], 4)]
    \o [k \in 1 .. 8 |-> IF k % 2 = 1 THEN op_config_write(0, 4)
                         ELSE op_config_read(8, 4)])

seed_burst_status ==
  Seed("seed_06_burst_status", prologue \o [k \in 1 .. 8 |-> status_event("LED")]
    \o <<status_event("SYN"), op_vq_wait_used(1)>>)

seed_dma_reflection == Seed("seed_dma_reflection", prologue \o Reflection(0))

seed_dma_all_regions ==
  Seed("seed_dma_all_exotic_regions", prologue \o AllRegions(0))

seed_dma_reflection_concurrent ==
  Seed("seed_dma_reflection_concurrent",
       prologue \o ReflectionConcurrent(0) \o <<thread_b_iter(4)>>)

seed_dma_reset_gadget ==
  Seed("seed_dma_reset_gadget", prologue \o ResetGadget(0))

seed_dma_recursive_notify ==
  Seed("seed_dma_recursive_notify", prologue \o RecursiveNotify(0))

SEED_BUILDERS ==
  <<seed_init, seed_event_buffers, seed_led_status, seed_repeat_config,
    seed_config_probe, seed_burst_status, seed_dma_reflection,
    seed_dma_all_regions, seed_dma_reflection_concurrent,
    seed_dma_reset_gadget, seed_dma_recursive_notify>>

variation(lines) == Variations(lines, 5)

============================================================================
