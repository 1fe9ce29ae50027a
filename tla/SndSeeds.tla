----------------------------- MODULE SndSeeds ------------------------------
(***************************************************************************)
(* gen_virtio_snd_corpus.py: the seeds of the virtio-snd harness.          *)
(***************************************************************************)
EXTENDS SeedOps

\* Control, event, playback and capture queue.
prologue == Driver({"VERSION_1"}, 4)

ctrl(block) == [list |-> "ops", op |-> "SndCtrl", block |-> block]

jack_info(count)    == [cmd |-> "JACK_INFO", count |-> count]
jack_remap          == [cmd |-> "JACK_REMAP"]
pcm_info(count)     == [cmd |-> "PCM_INFO", count |-> count]
pcm_set_params(sid) == [cmd |-> "PCM_SET_PARAMS", stream |-> sid]
pcm_cmd(field, sid) == [cmd |-> field, stream |-> sid]
chmap_info(count)   == [cmd |-> "CHMAP_INFO", count |-> count]
ctrl_raw(payload, in_len) == [cmd |-> "raw", payload |-> payload, in_len |-> in_len]

\* Playback on queue 2, capture on queue 3.
tx_xfer(stream, samples) ==
  [list |-> "ops", op |-> "SndPcmXfer", vq |-> 2, stream |-> stream, len |-> samples]
rx_xfer(stream, in_len) ==
  [list |-> "ops", op |-> "SndPcmXfer", vq |-> 3, stream |-> stream, len |-> in_len]

\* The requests of a stream up to the one that lets data flow.
started(sid) ==
  <<ctrl(pcm_set_params(sid)), ctrl(pcm_cmd("PCM_PREPARE", sid)),
    ctrl(pcm_cmd("PCM_START", sid))>>

----------------------------------------------------------------------------

seed_init == Seed("seed_01_init", prologue)

seed_jack ==
  Seed("seed_02_jack", prologue \o Awaited(<<ctrl(jack_info(4)), ctrl(jack_remap)>>, 0))

seed_pcm_info == Seed("seed_03_pcm_info", prologue \o Awaited(<<ctrl(pcm_info(8))>>, 0))

seed_pcm_set_params ==
  Seed("seed_04_pcm_set_params", prologue \o Awaited(<<ctrl(pcm_set_params(0))>>, 0))

seed_pcm_lifecycle ==
  Seed("seed_05_pcm_lifecycle", prologue
    \o Awaited(started(0) \o <<ctrl(pcm_cmd("PCM_STOP", 0)),
                               ctrl(pcm_cmd("PCM_RELEASE", 0))>>, 0))

seed_chmap_info ==
  Seed("seed_06_chmap_info", prologue \o Awaited(<<ctrl(chmap_info(4))>>, 0))

seed_tx_samples ==
  Seed("seed_07_tx_samples", prologue \o Awaited(started(0), 0)
    \o Awaited(<<tx_xfer(0, 512)>>, 2) \o Awaited(<<ctrl(pcm_cmd("PCM_STOP", 0))>>, 0))

\* Plausible slip: the buffer is queued for the stream of the other seeds.
seed_rx_request_stream0 ==
  Seed("seed_08_rx_request",
       prologue \o Awaited(started(1), 0) \o Awaited(<<rx_xfer(0, 1024)>>, 3))

seed_rx_request ==
  Seed("seed_08_rx_request",
       prologue \o Awaited(started(1), 0) \o Awaited(<<rx_xfer(1, 1024)>>, 3))

seed_raw_unknown_code ==
  Seed("seed_09_raw_unknown", prologue \o Awaited(<<ctrl(ctrl_raw(16, 64))>>, 0))

seed_dma_reflection == Seed("seed_dma_reflection", prologue \o Reflection(0))

seed_dma_all_regions ==
  Seed("seed_dma_all_exotic_regions", prologue \o AllRegions(0))

seed_dma_reflection_concurrent ==
  Seed("seed_dma_reflection_concurrent",
       prologue \o ReflectionConcurrent(0) \o <<thread_b_iter(4)>>)

seed_dma_reset_gadget ==
  Seed("seed_dma_reset_gadget", prologue \o ResetGadget(0))

seed_dma_recursive_notify ==
  Seed("seed_dma_recursive_notify", prologue \o RecursiveNotify(0))

SEED_BUILDERS ==
  <<seed_init, seed_jack, seed_pcm_info, seed_pcm_set_params,
    seed_pcm_lifecycle, seed_chmap_info, seed_tx_samples,
    seed_rx_request, seed_raw_unknown_code, seed_dma_reflection,
    seed_dma_all_regions, seed_dma_reflection_concurrent,
    seed_dma_reset_gadget, seed_dma_recursive_notify>>

variation(lines) == Variations(lines, 7)

============================================================================
