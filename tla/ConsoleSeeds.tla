--------------------------- MODULE ConsoleSeeds ----------------------------
(***************************************************************************)
(* gen_virtio_console_corpus.py: the seeds of the virtio-console harness.  *)
(***************************************************************************)
EXTENDS SeedOps

\* Both queues of port 0, of the control messages and of port 1.
prologue == Driver({"VERSION_1"}, 6)

tx(port, data) == [list |-> "ops", op |-> "TxData", port |-> port, len |-> data]
rx(port, size) == [list |-> "ops", op |-> "RxBuf", port |-> port, size |-> size]
ctrl(port, event, data) ==
  [list |-> "ops", op |-> "CtrlMsg", port |-> port, event |-> event, len |-> data]

----------------------------------------------------------------------------

seed_init == Seed("seed_01_init", prologue)

seed_ctrl_handshake ==
  Seed("seed_02_ctrl_handshake", prologue \o
    <<rx(0, 1024), rx(1, 1024), ctrl(0, "PORT_READY", 0), ctrl(1, "PORT_READY", 0),
      ctrl(0, "PORT_OPEN", 0), ctrl(1, "PORT_OPEN", 0), op_vq_wait_used(3)>>)

seed_tx ==
  Seed("seed_03_tx",
       prologue \o Awaited(<<tx(0, 14)>>, 1) \o Awaited(<<tx(1, 15)>>, 5))

seed_rx_buffers ==
  Seed("seed_04_rx_buffers",
       prologue \o [k \in 1 .. 4 |-> rx(0, 4096)] \o <<op_vq_wait_used(0)>>)

seed_resize ==
  Seed("seed_05_resize", prologue \o Awaited(<<ctrl(0, "RESIZE", 4)>>, 3))

seed_port_name ==
  Seed("seed_06_port_name", prologue \o Awaited(<<ctrl(1, "PORT_NAME", 5)>>, 3))

seed_burst_tx ==
  Seed("seed_07_burst_tx",
       prologue \o [k \in 1 .. 8 |-> tx(0, 64)] \o <<op_vq_wait_used(1)>>)

seed_dma_reflection == Seed("seed_dma_reflection", prologue \o Reflection(1))

seed_dma_all_regions ==
  Seed("seed_dma_all_exotic_regions", prologue \o AllRegions(1))

seed_dma_reflection_concurrent ==
  Seed("seed_dma_reflection_concurrent",
       prologue \o ReflectionConcurrent(1) \o <<thread_b_iter(4)>>)

seed_dma_reset_gadget ==
  Seed("seed_dma_reset_gadget", prologue \o ResetGadget(1))

seed_dma_recursive_notify ==
  Seed("seed_dma_recursive_notify", prologue \o RecursiveNotify(1))

SEED_BUILDERS ==
  <<seed_init, seed_ctrl_handshake, seed_tx, seed_rx_buffers,
    seed_resize, seed_port_name, seed_burst_tx, seed_dma_reflection,
    seed_dma_all_regions, seed_dma_reflection_concurrent,
    seed_dma_reset_gadget, seed_dma_recursive_notify>>

variation(lines) == Variations(lines, 8)

============================================================================
