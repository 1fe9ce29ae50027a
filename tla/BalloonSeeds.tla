--------------------------- MODULE BalloonSeeds ----------------------------
(***************************************************************************)
(* gen_virtio_balloon_corpus.py: the seeds of the virtio-balloon harness.  *)
(***************************************************************************)
EXTENDS SeedOps

\* Inflate, deflate, statistics and free-page-hint queue.
prologue == Driver({"VERSION_1", "STATS_VQ", "FREE_PAGE_HINT"}, 4)

\* A list of pages is the set of their numbers.
inflate(pfns)  == [list |-> "ops", op |-> "Inflate", pfns |-> pfns]
deflate(pfns)  == [list |-> "ops", op |-> "Deflate", pfns |-> pfns]
stats(entries) == [list |-> "ops", op |-> "Stats", entries |-> entries]
free_page(id)  == [list |-> "ops", op |-> "FreePage", cmd_id |-> id]

pages(first, n) == 18176 + first .. 18176 + first + n - 1       \* from 0x4700

----------------------------------------------------------------------------

seed_init == Seed("seed_01_init", prologue)

seed_inflate == Seed("seed_02_inflate", prologue \o Awaited(<<inflate(pages(0, 4))>>, 0))

seed_deflate == Seed("seed_03_deflate", prologue \o Awaited(<<deflate(pages(0, 3))>>, 1))

seed_inflate_burst ==
  Seed("seed_04_inflate_burst", prologue \o Awaited(<<inflate(pages(0, 256))>>, 0))

seed_stats == Seed("seed_05_stats", prologue \o Awaited(<<stats(6)>>, 2))

seed_free_page_cycle ==
  Seed("seed_06_free_page", prologue \o Awaited([k \in 1 .. 3 |-> free_page(k)], 3))

seed_oscillate ==
  Seed("seed_07_oscillate", prologue
    \o Awaited(<<inflate(pages(16, 16))>>, 0) \o Awaited(<<deflate(pages(16, 16))>>, 1))

seed_dma_reflection == Seed("seed_dma_reflection", prologue \o Reflection(0))

seed_dma_all_regions ==
  Seed("seed_dma_all_exotic_regions", prologue \o AllRegions(0))

seed_dma_reflection_concurrent ==
  Seed("seed_dma_reflection_concurrent",
       prologue \o ReflectionConcurrent(0) \o <<thread_b_iter(4)>>)

seed_dma_reset_gadget ==
  Seed("seed_dma_reset_gadget", prologue \o ResetGadget(0))

seed_dma_recursive_notify ==
  Seed("seed_dma_recursive_notify", prologue \o RecursiveNotify(0))

SEED_BUILDERS ==
  <<seed_init, seed_inflate, seed_deflate, seed_inflate_burst,
    seed_stats, seed_free_page_cycle, seed_oscillate,
    seed_dma_reflection, seed_dma_all_regions,
    seed_dma_reflection_concurrent, seed_dma_reset_gadget,
    seed_dma_recursive_notify>>

variation(lines) == Variations(lines, 7)

============================================================================
