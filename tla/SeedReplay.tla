----------------------------- MODULE SeedReplay -----------------------------
(***************************************************************************)
(* The seeds of the ten corpora and their variations as inputs of Replay:  *)
(* generator and harness must agree on the order of the lines, the queues, *)
(* the room a request needs and the slots it refers to.                    *)
(***************************************************************************)
EXTENDS Replay

Blk == INSTANCE BlkSeeds
Net == INSTANCE NetSeeds
Gpu == INSTANCE GpuSeeds
Scsi == INSTANCE ScsiSeeds
Fs == INSTANCE FsSeeds
Snd == INSTANCE SndSeeds
Vsock == INSTANCE VsockSeeds
Balloon == INSTANCE BalloonSeeds
Input == INSTANCE InputSeeds
Console == INSTANCE ConsoleSeeds

Corpus ==
  [blk |-> Blk!SEED_BUILDERS, net |-> Net!SEED_BUILDERS, gpu |-> Gpu!SEED_BUILDERS,
   scsi |-> Scsi!SEED_BUILDERS, fs |-> Fs!SEED_BUILDERS, snd |-> Snd!SEED_BUILDERS,
   vsock |-> Vsock!SEED_BUILDERS, balloon |-> Balloon!SEED_BUILDERS,
   input |-> Input!SEED_BUILDERS, console |-> Console!SEED_BUILDERS]

\* Each seed has a file of its own: no two builders of a device use one name.
ASSUME NamesAssumption ==
  \A dev \in DOMAIN Corpus : \A j, k \in DOMAIN Corpus[dev] :
    Corpus[dev][j].name = Corpus[dev][k].name => j = k

\* The queues of the devices the harnesses' command lines create: virtio-net
\* without mq, virtio-fs with one request queue, a balloon without
\* free-page-hint, four console ports.
ConfiguredQueues ==
  [blk     |-> {0},
   net     |-> 0 .. 2,
   gpu     |-> 0 .. 1,
   scsi    |-> 0 .. 2,
   fs      |-> 0 .. 1,
   snd     |-> 0 .. 3,
   vsock   |-> 0 .. 2,
   balloon |-> 0 .. 2,
   input   |-> 0 .. 1,
   console |-> 0 .. 9]

VariationsOf(dev, lines) ==
  CASE dev = "net"     -> Net!variation(lines)
    [] dev = "gpu"     -> Gpu!variation(lines)
    [] dev = "scsi"    -> Scsi!variation(lines)
    [] dev = "fs"      -> Fs!variation(lines)
    [] dev = "snd"     -> Snd!variation(lines)
    [] dev = "vsock"   -> Vsock!variation(lines)
    [] dev = "balloon" -> Balloon!variation(lines)
    [] dev = "input"   -> Input!variation(lines)
    [] dev = "console" -> Console!variation(lines)
    [] dev = "blk"     -> {}

\* The text parser refuses a field that is set twice, and the input is
\* over; thread A runs the lines of its own list.
ThreadA(lines) ==
  LET InList(l) == SelectSeq(lines, LAMBDA line : line.list = l)
  IN  IF Len(InList("thread_b_iter")) > 1 THEN <<>> ELSE InList("ops")

\* Every seed of these devices and every variation of one.
InputsOf(devices) ==
  UNION {UNION {{[dev |-> dev, name |-> seed.name, how |-> v.how, prog |-> ThreadA(v.lines)] :
                   v \in {[how |-> "base", lines |-> seed.lines]}
                           \cup VariationsOf(dev, seed.lines)} :
                seed \in {Corpus[dev][k] : k \in DOMAIN Corpus[dev]}} :
         dev \in devices}

----------------------------------------------------------------------------
(* Properties *)

\* A history: what the first n requests sent had in common with a set.
SentBefore(n, Holds(_)) == \E k \in 1 .. n - 1 : Holds(k)

Base == input.how = "base"
Nothing_removed == input.how \in {"base", "again", "dup", "repeat_one"}
Exists(q) == q \in DeviceQueues[input.dev]

\* The two seeds that refer to a resource or a backing that is not there on
\* purpose.
Negative == input.name \in {"seed_07_negative_no_resource", "seed_08_negative_detach_no_backing"}

\* An operation of a seed, or of one in which lines are repeated, is given up
\* only because the device lacks its queue: never for want of room in the table
\* or the pool, for a buffer not written or a queue not set up.  It befalls FUSE
\* requests, free-page commands and net's control commands behind a second pair.
SentBehind == {"FuseReq", "FreePage"} \cup (RequestOps.net \ {"TxPacket"})
GivenUpForQueue ==
  [][Nothing_removed =>
       \A k \in dropped' \ dropped : prog[k].op \in SentBehind /\ ~Exists(RequestOf(prog[k]).vq)]_vars

\* A seed waits for a queue of the device only when the device has taken
\* something there since the last wait: the queue a generator names after a
\* request is the one the harness sends that request to.
WaitsAnswered ==
  Base /\ pc \in DOMAIN prog /\ Line.op = "VqWaitUsed" /\ Exists(Line.vq) =>
    mmio.taken[Line.vq] > waited[Line.vq]

\* No doorbell of a seed lets the device take what an earlier input left in a
\* ring: none is rung on a queue before something was published there.
TakenPublished ==
  Nothing_removed => \A q \in Queues : mmio.taken[q] <= vqs[q].avail

\* A doorbell of its own comes after a finished chain the device has not seen.
DoorbellsHavePublished ==
  Base /\ pc \in DOMAIN prog /\ Line.op = "VqKick" =>
    /\ vqs[Line.vq].avail > mmio.taken[Line.vq]
    /\ ~vqs[Line.vq].open

\* Queues are set up before DRIVER_OK and used after it, also in a shuffled
\* seed: the head that stays in place covers the prologue.  It does not in
\* virtio-console (9 lines, head 8) and for two queue pairs (8 lines, head 7).
LongPrologue ==
  input.dev = "console" \/ input.name \in {"seed_10_ctrl_mq_vq_pairs", "seed_20_typed_mq",
                                            "seed_22_typed_rss_config"}
Ordered == Nothing_removed \/ (input.how = "shuffle_tail" /\ ~LongPrologue)
InitialisedFirst ==
  [][Ordered =>
       /\ Line.op = "VqSetup" => "DRIVER_OK" \notin mmio.status
       /\ \A q \in Queues : vqs'[q].avail > vqs[q].avail =>
            "DRIVER_OK" \in mmio.status /\ q \in mmio.ready]_vars

\* A seed refers to no resource, or moves data of one that has no backing, only
\* where its name says so.
SeedsNameResources ==
  Base =>
    \A n \in DOMAIN sent :
      /\ sent[n].ref = 0 /\ "slot" \in DOMAIN LineOf(n) => Negative
      /\ LineOf(n).op \in {"GpuTransfer", "GpuDetachBacking"} /\ ~Negative =>
           SentBefore(n, LAMBDA k : LineOf(k).op = "GpuAttachBacking" /\ sent[k].ref = sent[n].ref)

\* What the schema promises: a reference to a slot that was filled by a creation
\* "actually targets the resource that was just created".
SlotsTrackDevice ==
  \A n \in DOMAIN sent : NamesResource(n) => sent[n].ref \in CreatedBefore(n)

\* A VLAN that is deleted by its slot was added before.
VlanSlotsHeld ==
  Base =>
    \A n \in DOMAIN sent : LineOf(n).op = "CtrlVlanDel" =>
      SentBefore(n, LAMBDA k : LineOf(k).op = "CtrlVlanAdd" /\ sent[k].ref = sent[n].ref)

\* What the schema says of a FUSE request: it "kicks the chosen request queue".
FuseRequestsSent ==
  Nothing_removed => \A k \in dropped : prog[k].op # "FuseReq"

\* An abort names a command that was sent before it.
AbortNamesCommand ==
  Base =>
    \A n \in DOMAIN sent :
      LineOf(n).op = "TmfReq" /\ LineOf(n).subtype = "ABORT_TASK" =>
        SentBefore(n, LAMBDA k : LineOf(k).op = "ScsiCmd" /\ LineOf(k).tag = LineOf(n).tag)

\* A stream's commands come in the order of its life, and data flows only
\* between START and STOP.
StreamOf(m) ==
  CASE m.op = "SndPcmXfer" -> m.stream
    [] m.op = "SndCtrl" /\ "stream" \in DOMAIN m.block -> m.block.stream
    [] OTHER -> -1
StepOf(m) == IF m.op = "SndPcmXfer" THEN "data" ELSE m.block.cmd
MayFollow ==
  [PCM_SET_PARAMS |-> {"none", "PCM_RELEASE"}, PCM_PREPARE |-> {"PCM_SET_PARAMS"},
   PCM_START |-> {"PCM_PREPARE"}, data |-> {"PCM_START", "data"},
   PCM_STOP |-> {"PCM_START", "data"}, PCM_RELEASE |-> {"PCM_STOP"}]
StreamsInOrder ==
  input.dev = "snd" /\ Base =>
    \A n \in DOMAIN sent :
      LET s == StreamOf(LineOf(n))
          earlier == {k \in 1 .. n - 1 : StreamOf(LineOf(k)) = s}
          before == IF earlier = {} THEN "none"
                    ELSE StepOf(LineOf(CHOOSE k \in earlier : \A j \in earlier : j <= k))
      IN  s >= 0 => before \in MayFollow[StepOf(LineOf(n))]

\* A vsock stream carries data only after a connection was requested.
StreamsConnected ==
  Base =>
    \A n \in DOMAIN sent :
      LET m == LineOf(n)
      IN  m.op = "VsockTx" /\ m.type = "STREAM" /\ m.pkt = "RW" =>
            SentBefore(n, LAMBDA k : LineOf(k).op = "VsockTx" /\ LineOf(k).pkt = "REQUEST")

============================================================================
