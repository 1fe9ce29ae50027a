# Verification of the virtio fuzzing harnesses

TLA+ modules, TLC configurations and TLAPS proofs about this repository: ten
harnesses that turn a text protobuf message into virtio-mmio register accesses
and guest-memory writes of a QEMU process, sequentially or from two threads, and
ten generators that write the messages a fuzzer starts from. All line numbers
below are those of `src/tests/qtest/fuzz/proto_fuzz_virtio_blk.cc` unless a file
is named; `net.cc` stands for `proto_fuzz_virtio_net.cc` and so on.

## 1. Inventory

### The system

    gen_virtio_*_corpus.py --> seed files <-- finds of the fuzzer
                                   |
    libFuzzer -> fuzz.c (driver) -> one harness (proto_fuzz_virtio_*.cc)
                                       |  qtest_readl/writel/memwrite
                                       v
                         qtest_wrappers.c (direct call or text protocol)
                                       |
                                       v
                 QEMU: virtio-mmio window, guest DRAM, device model   (external)
                                       |  vhost-user socket (virtio-fs only)
                                       v
                         backend thread of the virtio-fs harness

| Component | State | Operations | What is hard |
|---|---|---|---|
| virtio-blk harness, sequential (`blk.cc`) | `State`: per queue three addresses, size, two counters; bump allocator; buf_id map | 14 operations of `dispatch()`, `reset_iteration_state()` per input | state in three places (bookkeeping, guest DRAM, device) with different lifetimes; wrap of slots against counters; end of the pool; 64-bit addresses from the input |
| virtio-blk harness, concurrent (501-542) | a second, thread-local `State`; `b_stop`; the join | thread B dispatches `ops_thread_b` up to `thread_b_iter` times while thread A dispatches `ops` | sequences of register accesses that are serialised one by one only; device and DRAM shared; a relaxed stop flag; what `Reset` means in thread B |
| the nine newer harnesses | as blk, and what a device needs remembered: active queue pairs and VLAN slots (net), resource slots (gpu) | blk's operations, and requests that allocate, place and ring in one operation | requests refused without a word for want of a queue, room or pool; queues the configured device does not have; memory of commands that were never sent; queue numbers that depend on earlier commands |
| backend of virtio-fs (`fs.cc` 598-807) | listening and client descriptor, the connection's stream | accept, header, payload, reply | a byte stream read one `recvmsg` at a time; a frontend that waits for replies |
| corpus generators (`gen_virtio_*_corpus.py`): seeds | none | 166 builders, `variation()` | what they assume of the harness: queue numbers, room, ids, slots, order |
| corpus generators: `main()` | the output directory | select, clean, write | interrupted calls, reruns, a directory shared with a fuzzer |
| fuzz driver (`fuzz.c`, `fuzz.h`) | target list, current target | register, look up, one call per input, `flush_events` | a bounded flush that leaves work for the next input |
| qtest wrappers (`qtest_wrappers.c`) | `serialize` | read/write of each width | direct calls and protocol must do the same |
| libqtest (`tests/qtest/libqtest.c`) | child process, sockets, irq levels | start, command/response, kill | upstream code outside a fuzz run |
| build and integration scripts | none | file copies | |

Components meet at six places: the harness calls the wrappers for each access
(one call, one access, in the calling thread); guest DRAM and the device outlive
an input while the bookkeeping is reset with it; both threads share device and
DRAM but not bookkeeping; the driver calls the harness once per input and nothing
else runs between two operations of a sequential input; a generator's seed is a
harness's input; QEMU's virtio-fs device talks to the backend thread over a socket.

### What makes each of them correct

* Bookkeeping: a queue the device takes to be ready has the size and addresses
  the harness believes in; counter, `avail.idx` and the device's position agree
  as long as nobody resets; a chain under construction is linked.
* Memory: buffers never overlap and stay in the pool; every write goes to the area
  it is meant for; no descriptor makes the device write to a ring.
* Concurrency: the buffers of the two threads are disjoint; the device never sees
  an entry whose descriptor is not there yet; the input comes to its end.
* Requests: they reach the queue their device serves them on, laid out as
  documented, and what a later request refers to was sent before.
* Seeds: nothing in one is refused by the harness that the device could have taken;
  waits and doorbells come where there is something to wait or ring for; a device-specific session (a
  resource, a stream, a connection, an abort) is in order.
* Corpus: a call that ends leaves exactly its seeds, whatever came before.
* Backend: every message that asks for a reply gets its own, in order; the
  backend hangs up only after the frontend did, and takes up the next connection.

All hazards, each at its line and with the properties about it, are in
`PROJECT.json`.

## 2. Plan

The modules were written in this order, the most important behaviour first:
`GuestPool`, `VirtioBlk`, its proofs, `BlkThreads`; then `SeedOps` and the ten
`*Seeds` modules with `Requests`, `Replay` and `SeedReplay`; then `CorpusWriter` with its
proofs; then `FsBackend` with `ReplyServer` and the proofs of both; then the proofs
about the device's queues and about the two threads with the refinement of
`AvailQueue`, and last those about `Replay`. What would come next:

1. the concurrent mode of the newer harnesses, which is `BlkThreads` with other
   accesses per operation;
2. MAC lists, link state and fences, once something depends on them.

## 3. Modules

| Module | Models | Source |
|---|---|---|
| `GuestPool` | the DRAM layout and all arithmetic on it: ring areas, allocator step, clamp of absolute writes, queue-size rounding, MMIO windows | 139-154, 209-211, 229-254, 299-304, 383-394 |
| `VirtioMmio` | external: registers, reset through STATUS, doorbell, guest memory of the rings | 107-133 |
| `BlkState` | `State` and what operations make of it | 156-175, 203-219, 247-260, 262-340 |
| `VirtioBlk` | sequential mode: one action per operation | 197-219, 221-475, 477-500 |
| `BlkThreads` | concurrent mode: one action per register or memory access, thread control | 501-542 |
| `ThreadPrograms` | the programs for which the concurrent mode keeps its promises: what the theorems ask for | conditions |
| `AvailQueue` | what an avail ring promises a device | abstract |
| `SeedOps` | the lines of a seed, the chains the generators share, `variation()` | the `op_*`, `b_*` helpers and `variation` of the generators |
| `BlkSeeds` ... `ConsoleSeeds` (ten) | the builders of one generator, in the order of its `SEED_BUILDERS` | one `gen_virtio_*_corpus.py` each |
| `Requests` | what the newer harnesses make of a request: queue, room, allocations, chain | the `submit_*` and `op_*` functions of the nine |
| `Replay` | thread A of every harness, run on any input | `dispatch` and `reset_iteration_state`, mapped to `net.cc` |
| `SeedReplay` | the corpora and their variations as inputs, and what must be true of them | `SEED_BUILDERS` and `main` of the generators |
| `CorpusWriter` | `main()` of a generator and its output directory | `main`, `emit`, mapped to the virtio-net generator |
| `FsBackend` | the vhost-user backend thread, its socket and a frontend | `fs.cc` 598-807 |
| `ReplyServer` | what a frontend relies on | abstract |
| `MCVirtioBlk`, `MCBlkThreads`, `MCSeedReplay`, `MCCorpusWriter`, `MCFsBackend` | values for small instances | |
| the `*Proofs` modules | theorems (section 5) | |

`GuestPool` <- `VirtioMmio` <- `BlkState` <- `VirtioBlk` and `BlkThreads` (EXTENDS);
`BlkThreads` instantiates `AvailQueue` once per queue; `ThreadPrograms` extends it. `SeedOps` <- each `*Seeds`;
`Requests` <- `Replay` <- `SeedReplay`, which instantiates the ten `*Seeds`. `FsBackend`
instantiates `ReplyServer`.

### Correspondence: virtio-blk

* `g` is `g_state` (in `BlkThreads` one per thread, as it is `thread_local`).
  `NoBuf` is a buf_id that is not in the map.
* `ram` holds descriptor tables, avail rings and `avail.idx`, keyed by
  the address they are written at. Payload bytes are not kept; where a
  write went is kept in the history variables `touched` and `wrote`.
* `dev` is the device: per queue size, ready, three addresses in two halves
  each, and its position in the avail ring. `isr` stands for "something to acknowledge".
* `VirtioBlk`: the whole handler is one action, because nothing else runs
  between two operations of a sequential input. `Dispatch` is the loop at
  491-499 with its cap. An early return is a branch that leaves all but the
  counter alone. `ReadOnlyOp` stands for `GetFeatures`, `ConfigRead` and an
  operation that is not set.
* `BlkThreads`: `BeginOp` does an operation's work on the thread's own state and
  leaves its accesses in `todo`; each access is a step. Accesses whose outcome
  decides what follows (`QUEUE_NUM_MAX`, `STATUS`, `INTERRUPT_STATUS`) put the
  rest in `todo` when they are made. `VqSetup` sets the size only after
  the device has answered, as at 226-235.
  Programs are data, chosen in `Init` from `ProgramsA` and `ProgramsB`.
* `chain` is a history variable: the slots placed in a queue since its last
  publication or change of size.
* 2^64, 2^32 and 2^16 are the parameters `GpaSpace`, `HalfWord` and `IdxSpace`.
  The 32-bit counters `next_desc_idx` and `next_avail_idx` are unbounded in the
  model: an input adds 256 descriptors at most, so they never wrap.

### Correspondence: seeds and their replay

* A line of a seed is a record; `list` is the field of the message it adds to
  (`ops`, `ops_thread_b`) or sets (`thread_b_iter`). A payload is its length, a
  feature or status word the set of its bits' names, a value written to a
  corrupted register 0 or `Junk`.
* The generators repeat the same helpers; `SeedOps` has them once, mapped to the
  virtio-net generator, or to virtio-blk's where that one lacks them.
* `Variations` is the set of everything `variation()` can make of a seed: every
  place for `dup`, `drop` and `repeat_one` (2, 3 or 4 times), and for
  `shuffle_tail` every order of a tail of up to `MaxShuffled` lines, the reversed one of a
  longer tail. Each generator's module states how long its undisturbed head is.
* `Replay` is one step per line of thread A, on any member of `Inputs`, which
  `SeedReplay` fills with the seeds. `InputsAssumption` says only what a line is: an
  operation the device's schema has, with the unsigned fields it reads. Lines come in
  any order and number, and the first 256 are run (`kMaxOps`). The nine newer harnesses share
  all but their requests; `Submit` is that common shape (room, allocations,
  descriptors, doorbell) applied to what `Requests` says of the line. `soft` is what a
  harness remembers (pairs, VLANs of twelve bits, resources); `sent` is a history of
  the requests that reached the ring since the last `Reset`, with what they refer to;
  `dropped` the lines given up since then; `waited` what the device had taken at the last wait.
* Which queues a device has is not the harness's choice. `DeviceQueues` is a parameter of
  `Replay`, for any other queue `QUEUE_NUM_MAX` reads 0 and `op_vq_setup` returns after the
  selection, so the size stays 0 and whatever is meant for the queue is given up.
  `ConfiguredQueues` has the devices of the ten command lines:

  | Device | Command line | Queues |
  |---|---|---|
  | blk | one queue (`blk.cc` 545-555) | 0 |
  | net | no `mq`: one pair and the control queue (`net.cc` 909-925) | 0-2 |
  | gpu | (`gpu.cc` 981-994) | 0, 1 |
  | scsi | control, event, one request queue (`scsi.cc` 856-867) | 0-2 |
  | fs | high priority and one request queue (`fs.cc` 941-953) | 0, 1 |
  | snd | (`snd.cc` 587-596) | 0-3 |
  | vsock | (`vsock.cc` 335-343) | 0-2 |
  | balloon | inflate, deflate, statistics; no `free-page-hint` (`balloon.cc` 325-333) | 0-2 |
  | input | (`input.cc` 296-302) | 0, 1 |
  | console | four ports (`console.cc` 328-340) | 0-9 |

* `vqs[q].ring` is the queue's `avail.idx` in guest memory. A `Reset` takes the counters back
  and leaves it as it was; a process starts with what earlier inputs left there (`LeftIdx`).
  `mmio.rings` are the queues whose registers hold what the harness wrote. `MmioCorrupt` is
  modelled by what the register does: a write of a word to STATUS resets the device or sets
  its bits, QUEUE_SEL selects, QUEUE_READY takes the selected queue up or down, QUEUE_NOTIFY
  rings, and one to a size or address register takes the selected queue out of
  `mmio.rings`, after which making it ready again shows the device some other ring, and what
  it takes there is not followed. Other registers and narrower writes do nothing.
* A scalar field set twice makes protobuf's text parser refuse the whole
  input, so a seed in which `thread_b_iter` was repeated replays as nothing.

### Correspondence: corpus and backend

* `disk` says of each file of the output directory whether it is absent, cut
  short, whole (and for which `--seed`) or not a generator's. `phase` and `pos` are
  where `main()` is. A file is open between `Open` and `Write`.
* `conns[k].in` is the connection's stream towards the backend, one element per
  write of the frontend; a `recvmsg` reads at most one element and leaves what it did
  not ask for. `pc` is where `backend_main` is, `h` the header it holds.
  The frontend writes a header and its payload whole and one after the other,
  as QEMU does, but may close at any point between them.

### Abstractions

Parsing and mutation of messages, payload contents, feature words, interrupt
bits, used rings and what a device does with a request are left out. The device
takes all entries up to `avail.idx` in one step on a doorbell, in the thread that
rings it. A write of a width other than 4 bytes, or at no register's offset,
reaches no register.

What the device does with a request matters in one case: a descriptor of region 2
names the device's own registers, and a used ring moved by `MmioCorrupt` lies
anywhere. The properties that relate the bookkeeping to the device
(`RingsProgrammed`, `RingInStep`, `QueueSpec`) are therefore checked with programs
that use neither (in `Replay` the seeds use the first, and the device's answer is left out), and `DescTargetsOffRings` speaks of what the harness writes.
`BlkThreads` starts with clean memory, the first input of a process; inputs in a
row are `VirtioBlk`'s subject. `Replay` leaves out thread B, whose list is
`BlkThreads`'s subject.

## 4. Runs

| Run | Question | Distinct states |
|---|---|---|
| `blk_memory` | Where can an input write, and where can its descriptors point? `BuffersDisjoint`, `WritesConfined`, `DescTargetsOffRings` | 50,387 |
| `blk_driver` | A driver in one input without a `Reset`: `TypeOK`, `RingInStep`, `OpenChainLinked` | 758,735 |
| `blk_inputs` | Two inputs in a row, resets from either side, a queue the device lacks: `RingsProgrammed` | 452,397 |
| `threads_join` | Threads with programs of their own: `TypeOK`, `ThreadBuffersDisjoint`, `JoinsEventually` | 74,044 |
| `threads_queue` | Publication under a concurrent doorbell: `RingsProgrammed`, `WritesConfined`, `QueueSpec` | 19,621 |
| `seeds` | Every seed, every variation, every seed twice, and two inputs no generator writes: `TypeOK`, `GivenUpForQueue`, `WaitsAnswered`, `TakenPublished`, `DoorbellsHavePublished`, `ResourcesLive`, `VlansKnown`, `SeedsNameResources`, `VlanSlotsHeld`, `CommandsOnControlQueue`, `AbortNamesCommand`, `StreamsInOrder`, `StreamsConnected`, `InitialisedFirst` | 138,998 |
| `corpus` | Calls of a generator one after the other, interrupted, beside a fuzzer: `TypeOK`, `CompletedExactly`, `PartialsCounted`, `OnlyOwnFilesTouched` | 129,248 |
| `fs_backend` | Two connections of three messages: `TypeOK`, `NeverHungUp`, `ServesReplies`, `AwaitingEnds`, `AcceptedInTurn` | 247,629 |
| `blk_head` | violation of `HeadOfChainPublished` | |
| `threads_reset` | violation of `ThreadBuffersDisjoint` | |
| `fs_queue` | violation of `FuseRequestsSent` | |
| `gpu_slots` | violation of `SlotsTrackDevice` | |

Every property of a passing run has a mutant: a plausible slip in one of the
definitions, kept beside it with a name that says what it is, under which the
property fails.

What the properties of `seeds` are about. A generator and a harness are separate
programs in two languages that agree on nothing but a message schema. If they
disagree about a queue number, a slot or the number of requests a table has room
for, nothing fails: the harness drops the line, the device ignores the doorbell,
and the seed tests less than its comment says.

* `GivenUpForQueue`: a line of a seed, also of one in which lines were repeated up to four
  times or which is played twice, is given up for one reason only, that the device lacks the
  queue; never for want of room, pool, a buffer or a setup. It names the lines that befalls:
  all FUSE requests (`fs_queue`), the free-page commands of virtio-balloon, and control
  commands of virtio-net behind a second pair of queues (section 6).
* `WaitsAnswered` and `DoorbellsHavePublished`: a seed waits on a queue of the device only
  after the device took something there, and rings only for finished chains.
  `TakenPublished`: no doorbell comes before the first publication, when the device would
  take what an earlier input left in the ring (every run starts with three such entries).
* `ResourcesLive`, `VlansKnown` and `CommandsOnControlQueue` speak of the harness rather than
  of a seed, and hold of every variation and of any other input (section 5). The first two
  are about inputs of which nothing was given up since the last `Reset`. The third says
  that although the harness believes in up to three queue pairs, a typed command is either
  sent on queue 2, the control queue of a device with one pair, or not at all.
* `SeedsNameResources` adds for a seed as written that each command finds its slot filled,
  and its resource backed, unless the seed's name says otherwise; `VlanSlotsHeld`,
  `AbortNamesCommand`, `StreamsInOrder` and `StreamsConnected` say the same of VLANs, tags,
  PCM streams and connections.
* `InitialisedFirst` holds of shuffled seeds as well, except those of virtio-console and of two
  queue pairs (`LongPrologue`), whose prologue is longer than the head that stays in place;
  of those it is false.

The two inputs no generator writes set queues up with size 0, 5000 and 48, name queues the
device or the harness lacks, write past the harness to the selection, ready, address, STATUS
and doorbell registers, reset twice and set queues up again with another size, and one is longer
than the lines a harness runs.

### Bounds, and why they are enough

The layout of the virtio-blk instances keeps the proportions of the code. A descriptor
table holds as many descriptors as an input has operations (4 in `blk_memory`,
256 in the code), while a queue may have more entries than that (8; 1024 in the
code), so the cap is what confines descriptors. Addresses wrap (2048) soon after
the pool ends (1520) so that address + length overflows, and an address needs
both halves of its register pair (HalfWord = 256). Payloads lie at, below and
above the cap; the pool has room for a few buffers, so its end is met. In
`blk_driver` queues of 2 entries wrap several times in 8 operations, and a chain
may grow longer than its queue. The wrap of a 16-bit index needs 65,536 publications without a
reset, which an input of 256 operations cannot make (thread B's uncapped list
could); no run reaches it. `blk_inputs` has three queues in
the harness, two of them in the device, and a queue number that exists in neither; its pool
ends at 1712 for that (three ring areas). `threads_*` interleave every access of up to 8 operations of A with
up to 4 of B, which is repeated at most twice (MaxIter = 2; 100 in the code).

`threads_queue` gives thread B what most seeds give it: doorbells, features, hammering
writes, buffers; nothing that names a queue register. Thread A sets queues up again, also
in the middle of a chain, and leaves a chain unfinished. `threads_join` adds
selections, setups, `SetStatus` and a device reset through `MmioCorrupt`, which one seed
has (`gen_virtio_blk_corpus.py:459`).

`seeds` has no bound but `MaxShuffled` (5): tables of 64 entries, the pool and all
lengths are the code's. `corpus` has two builders, so that a call for five
seeds goes around them twice, counts below, at and above their number and below
zero, two rng seeds, two interruptions (`MaxFails`) and one file of each foreign kind.
`fs_backend` has `MaxConns` = 2, so that one connection waits while another is
served, and `MaxMsgs` = 3 per connection of four kinds: with and without a payload,
with and without a reply, the table of memory regions at its full 264 bytes.

`CHECK_DEADLOCK` is off in `blk_*`, `seeds` and `fs_backend`, which stop when the
bound on inputs is reached, the seed ends, or the backend waits in `accept` for a connection
that never comes. It is on in `threads_*`, where a returned run stutters
explicitly, and in `corpus`.

### Fairness

`Spec` of `BlkThreads` has weak fairness for each thread. Both are operating-system
threads that are always runnable except in `join`, and no access waits for
the other thread for ever. That last point is an assumption: accesses take QEMU's
big lock, which is outside the repository. `b_stop` is loaded relaxed, so B may see
it late or never; `JoinsEventually` holds because the passes are bounded.

`Spec` of `FsBackend` has weak fairness for the backend thread, which runs whenever
its socket has something for it, and for two steps of the frontend: it completes a
message it has begun and reads a reply that has arrived. Nothing makes it connect, send
or give up. `ServesReplies` and the invariants need no fairness.


## 5. Proofs

For all values of the constants that satisfy the named assumptions:

| Theorem | Module | States |
|---|---|---|
| `TypeCorrect` | `VirtioBlkProofs` | `Spec => []TypeOK` |
| `BuffersNeverOverlap` | `VirtioBlkProofs` | `Spec => []BuffersDisjoint` |
| `WritesStayConfined` | `VirtioBlkProofs` | `Spec => []WritesConfined` |
| `DescriptorsStayOffRings` | `VirtioBlkProofs` | `Spec => []DescTargetsOffRings` |
| `OpenChainsLinked` | `VirtioBlkQueueProofs` | `Spec => []OpenChainLinked` |
| `RingsStayProgrammed` | `VirtioBlkQueueProofs` | `QuietCorruptions => (Spec => []RingsProgrammed)` |
| `RingStaysInStep` | `VirtioBlkQueueProofs` | `OneInput /\ QuietCorruptions => (Spec => []RingInStep)` |
| `Clamp` | `BlkStateProofs` | the clamp keeps any write of up to the cap in the pool |
| `Allocation` | `BlkStateProofs` | an allocation that passes the test leaves an aligned allocator behind the buffer and in the pool |
| `CorpusTypeOK` | `CorpusWriterProofs` | `Spec => []TypeOK` |
| `CallsComplete` | `CorpusWriterProofs` | `Spec => []CompletedExactly` |
| `CutShortCounted` | `CorpusWriterProofs` | `Spec => []PartialsCounted` |
| `FilesOfOthersKept` | `CorpusWriterProofs` | `Spec => OnlyOwnFilesTouched` |
| `BackendTypeOK` | `FsBackendProofs` | `Spec => []TypeOK` |
| `BackendStays` | `FsBackendProofs` | `Spec => []NeverHungUp` |
| `RepliesServed` | `FsBackendProofs` | `Spec => ServesReplies`, the refinement of `ReplyServer` |
| `ThreadsTyped` | `BlkThreadsProofs` | `Spec => []TypeOK` |
| `ThreadsStayApart` | `BlkThreadsProofs` | `NoResetInB => (Spec => []ThreadBuffersDisjoint)` |
| `WritesStayConfined` | `BlkThreadsProofs` | `NoRingsInB => (Spec => []WritesConfined)` |
| `SetupsStayWhole` | `BlkThreadsProofs` | `CalmPrograms => (Spec => []RingsProgrammed)` |
| `RingsImplementQueues` | `BlkThreadsQueueProofs` | for `LapPrograms`: `Spec => QueueSpec`, the refinement of `AvailQueue` by each queue |
| `ReplayTypeOK` | `ReplayProofs` | `Spec => []TypeOK` of `Replay` |
| `ReplayResourcesLive` | `ReplayProofs` | `Spec => []ResourcesLive` |
| `ReplayVlansKnown` | `ReplayProofs` | `Spec => []VlansKnown` |
| `ReplayCommandsOnControlQueue` | `ReplayProofs` | `Spec => []CommandsOnControlQueue` |

The hypotheses on operations are definitions of `VirtioBlk` and `ThreadPrograms`, and the
`ASSUME`s of `MCVirtioBlk` and `MCBlkThreads` have TLC evaluate them for the runs that check
the properties, so they are conditions real programs meet.

### Memory of virtio-blk

Assumptions: the layout is not empty and has room for one write
(`PoolAssumption`), areas are aligned to 16 (`AlignAssumption`), a table has room
for one descriptor per operation of an input (`OpsAssumption`), a ring for the
largest queue (`RingAssumption`), MMIO windows lie below DRAM (`ExoticAssumption`).
The values in the code satisfy all of them; TLC evaluates them on each run.

`TypeOK` is inductive by itself; the point is that a queue's size is never
outside `0 .. QueueNumMax` and that an operation divides by it only when it is not
0. The memory properties need more. That descriptors stay in their table follows
neither from the slot (a queue may have 1024 entries, a table 256) nor from the
state of the ring; it follows from counting: no queue has had more descriptors
added in an input than the input has had operations. `Counters` says so, and with it

    IInv == TypeOK /\ Counters /\ BuffersDisjoint /\ WritesConfined
              /\ DescTargetsOffRings

is inductive. `DescTargetsOffRings` in turn rests on `BuffersDisjoint`, which bounds
every buffer a descriptor may take its address from, and quantifies over all of
guest memory, so it covers descriptors left behind by earlier inputs.

### Queues of virtio-blk

`VirtioBlkQueueProofs` relates the bookkeeping to guest memory and to the device.

`OpenChainLinked` needs to know where a chain came from: its slots are the last values
`next_desc_idx` went through, modulo the size of the queue (`ChainOf`). As long as the
chain is no longer than the queue these are different, so a new descriptor is not
placed over an older one of the same chain, and each names the slot the next one took.
Nothing is assumed of the operations.

`RingsProgrammed` is inductive together with the types of the device's registers and
the fact that a queue's used ring stays in its own area (`DevOK`). The hypothesis
`QuietCorruptions` says that no `MmioCorrupt` writes one of a queue's configuration
registers or makes a queue ready. Without it the statement is false, and meant to be:
the operation exists to program queues behind the harness's back. Corruptions that reset
the device, take a queue down or ring a doorbell are allowed, and the runs have them.

`RingInStep` follows from two facts that hold of every queue, ready or not: `avail.idx` is
the counter modulo `IdxSpace` (`InStep`) and the device's position is at most the counter
(`NotAhead`). `OneInput` restricts it to one input without a `Reset`: both
take the counter back and leave `avail.idx` where it was (section 6). Before the first input
nothing has been published (`NotYet`).

### The corpus directory

Assumptions: the constants have their types (`ConstantsAssumption`) and the three
kinds of file names are different (`NamesAssumption`). The number of builders, the
counts, the rng seeds, the foreign files and the number of interruptions are arbitrary.

`CompletedExactly` speaks of the end of a call and says nothing of the way there.
The invariant adds it: while `--clean` runs, what is left is what was listed
(`OnlyListedLeft`); once writing has begun, everything before `pos` is whole and
of this call's rng seed (`WrittenSoFar`), and after a clean there is nothing else with the
suffix (`NothingElse`). That a seed is not written over an earlier one of the same
call is `FileAtInjective`: builder and variation number determine the position.

`PartialsCounted` counts the files cut short with Cardinality. A file is cut short only
between opening and writing it, so at most one is while a call runs, besides those of
interrupted calls; an interruption turns the one into the other.

### Two threads

Assumptions: operations have arguments of the types their messages give them
(`ProgramsAssumption`, by `WellFormed`), thread A has an area of 16 bytes for a
descriptor of each of its operations (`ThreadAssumption`: in the code 256 of them in
4096 bytes), and what it can allocate in an input fits below the middle of the pool
(`RoomAssumption`: in the code 256 * 4112 bytes of a half of more than seven
megabytes). Programs and their lengths are arbitrary, as is the number of passes.

`TypeOK` is inductive with the shape of what is still to do: `ControlOK` says where the
threads can be, `DataOK` that every access in `todo` carries arguments of its kind.

*Buffers.* No lock and no bounds check keeps the allocators apart, only counting does: A's
allocator is at most `at[A] * (MaxData + 16)` above the pool's start and its buffers end
below it (`LowerHalf`); B's start at the middle and only grow (`UpperHalf`). The second
half needs that B never resets, which is the hypothesis `NoResetInB`; the run
`threads_reset` shows what happens without it.

*Writes.* Every access of either thread still to come, and the last one made, is confined
(`TameAccs`). For A's descriptors this is counting again (`OwnTables`: no queue has used more
slots than A has begun operations). Thread B's operations are not capped and its
queues have no addresses, so the hypothesis `NoRingsInB` says that no program of
B both sets a queue up and adds descriptors; those that only add are refused, because no
size is set (`NoQueues`). The programs of the seeds are such, and a program that is not
writes at the bottom of the guest's memory (section 6).

*Setups.* A setup is ten accesses to registers that are shared, and `SetupsStayWhole`
says when it comes out whole although B acts between any two of them. The invariant
`PInv` is a description of the ways through a setup: A is outside one, or about to
write 0 to STATUS (`Clearing`), to select (`Selecting`), to ask for the maximum
(`Asking`), or somewhere in the eight writes, where each register's value is in
the device already or its write is still to be made (`Filling`). B's accesses commute with
all of these because of `CalmPrograms`: B selects no queue, writes no queue register and
resets nothing, and A's corruptions do not write queue registers. These are the programs
of `threads_queue`. In `threads_join` B does the rest, and the statement is not
checked there since it is false: `QUEUE_SEL` has no owner.

*Publications.* `QueueSpec` is a refinement: what waits between the device's position and
`avail.idx`, read as the descriptors the entries name, behaves like the abstract queue of
`AvailQueue`, which grows by one complete entry or is taken whole. Nothing in the code keeps a
driver from publishing more than a ring holds before the device takes it, or from resetting the
device and replaying the ring, so `RingsImplementQueues` is about programs that do neither
(`LapPrograms`): thread A adds no more descriptors to a queue than it has entries, gives a
queue the same size whenever it sets it up, and does not touch STATUS with anything that
resets; thread B is calm in the sense of *Setups*, and rings doorbells, sets features, allocates
and writes buffers as it likes. How long the programs are, which queues, sizes, chains and
payloads they use and how the accesses interleave is arbitrary.

The invariant `LapInv` rests on `PInv` and `WInv` and adds three things. A queue's counters lag
behind the program (`Counters`: what is published was added, what was added is in the
program), which with `OneLap` keeps every slot below the ring's size: no slot is written twice,
and the modulo in `RingSlot` and `Slot` does nothing. A ready queue reads the ring thread A
writes, also in the middle of another setup (`RightRing`; QUEUE_READY is the last register
written, `ReadyLast`). And memory agrees with the counters (`Level`) except in the one queue an
operation is adding to (`Adding`), where it is one of four prefixes of the three writes behind
(`Storing`): the counters move when the operation begins, the descriptor, the entry and
`avail.idx` follow, and B's doorbell may come between any two of them. Only the last of the
three is a step of the abstract queue (`IdxStored`); the others, and every setup, stutter
(`DescStored`, `RingStored`, `QuietAccess`); a doorbell takes all (`AccessTakes`). The step also
needs that an index never wraps within a lap (`IndexAssumption`: 1024 entries against 65,536).

### The vhost-user backend

Assumption: no payload is longer than 264 bytes (`MessagesAssumption`), the table of
eight memory regions. Messages, connections and messages per connection are arbitrary.

`NeverHungUp` is false as soon as the backend takes part of a payload for a header, so
the invariant is about the stream: on each connection every piece may follow the one before
it, counting the header in the backend's hands as the first (`Framed`), and what the
frontend has not yet sent completes its last message (`Owing`). For the refinement,
at most one question is on its way to the backend or in its hands, it is the last one
asked, and it is the only one not answered (`OneQuestion`). That is why a reply sent then
is the reply to the message `ReplyServer` expects, and the frontend's waiting (`Awaiting`)
is what keeps it true.

### The harnesses' requests

Assumptions: lines are well formed (`InputsAssumption`, above; the runs evaluate it for
every seed and variation), and every device has a set of queues (`DevicesAssumption`). Device,
its queues, length of the program, order of the operations, their fields and what
`avail.idx` held before are arbitrary; `Reset` and `MmioCorrupt` may come anywhere.

*Types.* `TypeOK` says that buffers begin on 16 bytes inside the pool, that a queue has a
size only if the device has the queue and is served only with one, that the index in memory
is the harness's counter once something was published, and that requests are kept in the order
of their lines. It needs what two functions compute that
recurse over data. `Allocated` allocates a list of buffers, of any number and
lengths, and ends at a place in the pool (`AllocatedPlace`); `OffsetOf` adds up the fields of a
packed header and is a number (`OffsetNat`). The induction behind both is done by hand, as a
set of numbers has a least element (`LeastNumber`): were the statement false
somewhere, it would be true one place earlier and the step carries it on.
That such a function exists at all is `PrimitiveRecursion`. With these, each harness's
`*RequestIs` lemma says that what it makes of any line is a chain of at least one part.
The invariant is `InputOK /\ StateOK /\ HistoryOK`: a step reads a line of its own
device, keeps each queue's counters in order (`Fits`: published <= placed, and the index in
memory follows), keeps device and harness in agreement on who has a size (`Agree`), which no
corrupted register can break because a register can make a queue ready but not give it
rings (`CorruptedTyped`), and appends to the history behind everything in it.

*What later requests refer to.* `ResourcesLive` is about requests already sent and holds
by what the harness remembers, so it is not inductive. `Live` adds that the harness and
the device agree (`Tracks`): resource ids are handed out upwards, so a new one
was never destroyed; each slot is empty or holds a resource that was created and not
destroyed; no two slots hold the same one, without which destroying one through its slot
would leave it in another; and each VLAN slot is empty or holds one that was added. All of it is
under the condition that nothing was given up, as in the properties: a creation that is
given up fills its slot all the same, and the run `gpu_slots` shows what follows.
A slot that is filled again loses its old resource from the harness's view, not the
device's, which `Tracks` allows. A `Reset` empties both sides: the history, and the slots.
TLC checked both invariants on all seeds before they were proved.

*The control queue.* What `CommandsOnControlQueue` needs is arithmetic and `TypeOK`: a typed
command is for queue 2 * pairs with 1 <= pairs <= 3, it is sent only on a queue with a size,
and a device with one pair has no queue 4 or 6 to be given one.

### Only model-checked

* *The refinement of `AvailQueue` for other programs.* With more publications than a ring
  holds, or a reset of the device, it is false.
* *What the seeds have in common* (`GivenUpForQueue`, `WaitsAnswered`, `TakenPublished`,
  `DoorbellsHavePublished`, `SeedsNameResources`, `VlanSlotsHeld`, `AbortNamesCommand`,
  `StreamsInOrder`, `StreamsConnected`, `InitialisedFirst`). These are facts about the lines
  the repository's generators write,
  false of other inputs: there is no constant to generalise over. What holds of the
  harnesses on any input is in `ReplayProofs`.
* *Liveness* (`JoinsEventually`, `AwaitingEnds`, `AcceptedInTurn`), because fairness and
  ENABLED are beyond the prover.

There is no RECURSIVE operator in the modules.

## 6. What the runs found

* **The head of a chain is not published** (`blk_head`, line 331). The avail ring
  is given the counter at the tail, so of a chain of two the device sees the last
  descriptor only. The same line does not reduce the counter by the queue size.
* **A `Reset` in thread B moves its allocator into thread A's half**
  (`threads_reset`, line 217).
* **No FUSE request reaches virtio-fs** (`fs_queue`, `fs.cc:339`). Every request is sent on
  queue 2 or above, while the device of the command line has the high-priority queue 0 and one
  request queue, 1. `QUEUE_NUM_MAX` of queue 2 is 0, its size stays 0, and `submit_fuse`
  returns: the silent chain of ARCHITECTURE.md section 13, Bug 1, on a queue instead of a
  device. `num-request-queues`, or sending on queue 1, would repair it.
* **A resource slot is filled although its command was given up** (`gpu_slots`,
  `gpu.cc:421`). The result of `submit_cmd` is not looked at, so later
  commands refer to a resource the device was never asked to create.

### Seen in the passing runs

`GivenUpForQueue` (run `seeds`) holds because it names the losses; they are disagreements
between a harness and the device its own command line creates, like `fs_queue`:

* **Typed control commands of virtio-net are lost once the pairs are set** (`net.cc:697`). The
  comment at 686 says the count is kept "so subsequent cvq() calls find the right control
  queue index". The harness takes its control queue to be 4 or 6 from then on; the device, which
  has one pair, keeps it at 2, and no typed command is sent for the rest of the input (seed 20
  with its line repeated). The untyped command of seed 10 names queue 4 itself and is dropped
  as well. `CommandsOnControlQueue` says that no such command goes to a wrong queue.
* **Free-page commands of virtio-balloon are lost** (`balloon.cc:180`, all of seed 06).
  Queue 3 exists only with the property `free-page-hint`, which is the device's and
  not, as the comment at 327 says, the driver's to negotiate.

### Known limits of the code, seen while modelling and not run

virtio-blk:

* `avail.idx` survives in DRAM from one input to the next, so the first doorbell of an
  input replays entries of an earlier one (203). `RingInStep` is checked for the
  rest of an input.
* The clamp of absolute writes cannot reach the ring areas, although seeds 05, 07
  and 12 aim there (390).
* `thread_b_iter` = 0 is documented as "run once" (proto, 109), but `b_stop` may
  be set before the first pass (529). Queues a thread B never set up are at address 0 (526).
* `MmioCorrupt` reduces the offset to the window but not the length, so up to three bytes
  beyond it are reached (362).
* Thread B's operations are not capped (530): after a `Reset` and a `VqSetup` of more
  than 256 entries its descriptors can run into the avail ring.
* The comment at 177-188 still describes the concurrent mode as a deterministic,
  single-threaded interleaving; the one at 502-519 says what the code does.
* `QUEUE_SEL` is shared: a `VqSelect` of thread B between two registers of a setup
  sends the rest to another queue (225), and a `STATUS` read-modify-write can
  undo the other thread's (443).

The newer harnesses:

* The counter of synthesised buffer ids starts at 0 in thread B of seven harnesses
  (scsi, fs, snd, vsock, balloon, input, console), where it can meet ids of the
  input. It takes a thread B that sets up a queue first.
* Doorbells before the first publication take what an earlier input left, as in virtio-blk.
* `SetStatus` of 0 and a corrupted STATUS reset the device and leave slots, VLANs and pairs
  remembered; a later command then names what the device has forgotten (`ResourcesLive`
  speaks of what was told since the last `Reset` operation).
* `place_desc` publishes the counter of the last descriptor, as in virtio-blk.
  `next_desc_idx` never goes back, so a table serves a limited number of requests.
* A SCSI command's CDB is one byte late (`scsi.cc:545`): the request header is packed with an
  extra reserved byte (`ScsiHeader`), so the CDB is at 20 and the request 52 bytes long, where
  the schema documents 19 and 51 (`scsi.proto:12-19`); a device reads the reserved zero
  as the opcode.
* `snd.cc:349`: `SET_PARAMS` has one word too many.
* `fs.cc:13-15` says that the mock acknowledges every message and keeps the event
  descriptors; it replies to four and closes them. A failed `pthread_create` is
  not noticed (`fs.cc:806`); an error of `accept` other than EINTR ends the
  thread; `recv_all` is not used. A reply to a frontend that has gone relies on QEMU
  ignoring SIGPIPE.

The generators:

* Thread B's hand-written descriptors are dropped in every concurrent seed: its
  queues have size 0. The virtio-net and virtio-gpu seeds leave `thread_b_iter`
  unset; in seven others it is a line like any other, and a repeated one makes the
  text unparsable.
* virtio-net: seeds 10, 20 and 22 set up queues 3 and 4, which the device lacks; seeds 20 and 22
  send and wait on queue 2, which is right for it; the head of 7 lines a variation keeps is shorter than the prologue of
  two pairs (8); seed 13 resets and sets only DRIVER_OK. virtio-console: head 8, prologue 9.
* A descriptor of region 2 with id 44 names offset 0x0B0, which is reserved.
  Seed 26 of virtio-net and 15 of virtio-gpu write to 0x4700C000, which the clamp moves.
* virtio-gpu seed 04 transfers more than the 4096 bytes of its backing. virtio-scsi's
  docstring announces a seed that is not there.
* `--clean` is described as removing existing files, and removes only `.textpb`. A
  negative `--count` slices the list from its end. A rerun without `--clean` leaves
  the files of another count.
* `README.md:222-223` and `BUILD.md:115` give one number of seeds for all
  generators; virtio-gpu has 21 builders.

## 7. Not modelled

* **The concurrent mode of the nine newer harnesses.** It is virtio-blk's, line by
  line; what differs (buffer ids, above) is bookkeeping of one thread.
* **Payloads.** MAC lists, link state, fences, contents of backings, FUSE and sound
  parameters. Nothing in the harnesses branches on them.
* **Fuzz driver, qtest wrappers.** No state between inputs but QEMU's event loop;
  each wrapper is one access, which is the step of `BlkThreads`.
* **`libqtest.c`.** Upstream test code outside the path of a fuzz run.
* **Build and integration scripts.** File copies.
* **QEMU.** Outside the repository: `VirtioMmio` holds what the harnesses rely on,
  the frontend's actions in `FsBackend` what the backend relies on.
