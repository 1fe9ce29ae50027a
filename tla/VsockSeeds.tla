---------------------------- MODULE VsockSeeds -----------------------------
(***************************************************************************)
(* gen_virtio_vsock_corpus.py: the seeds of the virtio-vsock harness.      *)
(***************************************************************************)
EXTENDS SeedOps

\* Receive, transmit and event queue.
prologue == Driver({"VERSION_1"}, 3)

pkt(type, op, payload) ==
  [list |-> "ops", op |-> "VsockTx", type |-> type, pkt |-> op, payload |-> payload]
rx_buf(size) == [list |-> "ops", op |-> "VsockRxBuf", size |-> size]
wait(i) == op_vq_wait_used(i)

----------------------------------------------------------------------------

seed_init == Seed("seed_01_init", prologue)

seed_connect ==
  Seed("seed_02_connect",
       prologue \o <<rx_buf(4096), pkt("STREAM", "REQUEST", 0), wait(1)>>)

\* Plausible slip: the data is sent first.
seed_rw_first ==
  Seed("seed_03_rw", prologue \o
    <<rx_buf(4096), pkt("STREAM", "RW", 12), wait(1), pkt("STREAM", "REQUEST", 0), wait(1)>>)

seed_rw ==
  Seed("seed_03_rw", prologue \o
    <<rx_buf(4096), pkt("STREAM", "REQUEST", 0), wait(1), pkt("STREAM", "RW", 12), wait(1)>>)

seed_shutdown ==
  Seed("seed_04_shutdown", prologue \o <<pkt("STREAM", "SHUTDOWN", 0), wait(1)>>)

seed_credit ==
  Seed("seed_05_credit", prologue
    \o Awaited(<<pkt("STREAM", "CREDIT_REQUEST", 0), pkt("STREAM", "CREDIT_UPDATE", 0)>>, 1))

seed_dgram == Seed("seed_06_dgram", prologue \o <<pkt("DGRAM", "RW", 5), wait(1)>>)

seed_seqpacket ==
  Seed("seed_07_seqpacket", prologue \o <<pkt("SEQPACKET", "REQUEST", 0), wait(1)>>)

seed_rx_buffers ==
  Seed("seed_08_rx_buffers", prologue \o [k \in 1 .. 8 |-> rx_buf(4096)] \o <<wait(0)>>)

seed_dma_reflection == Seed("seed_dma_reflection", prologue \o Reflection(1))

seed_dma_all_regions ==
  Seed("seed_dma_all_exotic_regions", prologue \o AllRegions(1))

seed_dma_reflection_concurrent ==
  Seed("seed_dma_reflection_concurrent",
       prologue \o ReflectionConcurrent(1) \o <<thread_b_iter(4)>>)

seed_dma_reset_gadget ==
  Seed("seed_dma_reset_gadget", prologue \o ResetGadget(1))

seed_dma_recursive_notify ==
  Seed("seed_dma_recursive_notify", prologue \o RecursiveNotify(1))

SEED_BUILDERS ==
  <<seed_init, seed_connect, seed_rw, seed_shutdown, seed_credit,
    seed_dgram, seed_seqpacket, seed_rx_buffers, seed_dma_reflection,
    seed_dma_all_regions, seed_dma_reflection_concurrent,
    seed_dma_reset_gadget, seed_dma_recursive_notify>>

variation(lines) == Variations(lines, 6)

============================================================================
