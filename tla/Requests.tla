------------------------------ MODULE Requests ------------------------------
(***************************************************************************)
(* What the nine newer harnesses make of a request: the queue it goes to,  *)
(* the room it asks for in the descriptor table before anything else, the  *)
(* buffers it allocates (whose addresses it mentions) ahead of its own,    *)
(* and its chain, a sequence of <<length, writable>>.  Bytes are left out  *)
(* but for their number.                                                   *)
(***************************************************************************)
EXTENDS Integers, Sequences

Out(len) == <<len, FALSE>>      \* read by the device
In(len)  == <<len, TRUE>>       \* written by it

\* A part of no bytes is no part.
Part(p) == IF p[1] > 0 THEN <<p>> ELSE <<>>

\* std::clamp, and a length with a default for 0.
Clamp(n, lo, hi) == IF n < lo THEN lo ELSE IF n > hi THEN hi ELSE n
AtMost(n, hi) == Clamp(n, 0, hi)
Sized(n, default, lo, hi) == Clamp(IF n = 0 THEN default ELSE n, lo, hi)

Request(vq, need, chain) == [vq |-> vq, need |-> need, ahead |-> <<>>, chain |-> chain]

----------------------------------------------------------------------------
(* virtio-net; the control queue is behind the active queue pairs *)

NetQueues == 8
MaxFrame == 9018

\* Plausible slip: the last transmit queue.
cvq_off_by_one(pairs) == 2 * pairs - 1
cvq(pairs) == 2 * pairs

op_tx_packet(m) ==
  LET tag == IF m.vlan_tci # 0 /\ m.len >= 14 THEN 4 ELSE 0
  IN  Request(m.vq % NetQueues, 2, <<Out(12)>> \o Part(Out(AtMost(m.len + tag, MaxFrame))))

op_ctrl_cmd(m) ==
  Request(m.vq % NetQueues, 3, <<Out(2)>> \o Part(Out(AtMost(m.len, 1024))) \o <<In(1)>>)

submit_ctrl(m, pairs) ==
  Request(cvq(pairs), 3, <<Out(2)>> \o Part(Out(AtMost(m.len, 2048))) \o <<In(1)>>)

NetRequest(m, pairs) ==
  CASE m.op = "TxPacket" -> op_tx_packet(m)
    [] m.op = "CtrlCmd"  -> op_ctrl_cmd(m)
    [] OTHER             -> submit_ctrl(m, pairs)

----------------------------------------------------------------------------
(* virtio-gpu: a command and its response.  A backing is allocated before  *)
(* the command that names its entries.                                     *)

ResourceSlots == 16
kCmdVq == 0
kCursorVq == 1

submit_cmd(vq, req, resp) == Request(vq, 2, <<Out(req), In(resp)>>)

WithEntries(m, header, least) ==
  LET n == Clamp(m.entries, 1, 16)
  IN  [submit_cmd(kCmdVq, header + 16 * n, 24)
         EXCEPT !.ahead = <<n * Clamp(m.size, least, 4096)>>]

GpuRequest(m) ==
  CASE m.op = "GpuCreate2D"       -> submit_cmd(kCmdVq, 40, 24)
    [] m.op = "GpuUnref"          -> submit_cmd(kCmdVq, 32, 24)
    [] m.op = "GpuDetachBacking"  -> submit_cmd(kCmdVq, 32, 24)
    [] m.op = "GpuTransfer"       -> submit_cmd(kCmdVq, 56, 24)
    [] m.op = "GpuFlush"          -> submit_cmd(kCmdVq, 48, 24)
    [] m.op = "GpuSetScanout"     -> submit_cmd(kCmdVq, 48, 24)
    [] m.op = "GpuGetDisplayInfo" -> submit_cmd(kCmdVq, 24, 24 + 16 * 24)
    [] m.op = "GpuGetEdid"        -> submit_cmd(kCmdVq, 32, 24 + 8 + 1024)
    [] m.op = "GpuAttachBacking"  -> WithEntries(m, 32, 1)
    [] m.op = "GpuCreateBlob"     -> WithEntries(m, 56, 16)
    [] OTHER                      -> submit_cmd(kCursorVq, 56, 24)

----------------------------------------------------------------------------
(* virtio-scsi.  The request header, field by field with its length, as    *)
(* the code fills it in.                                                   *)

ScsiQueues == 8

ScsiHeader ==
  <<<<"lun", 8>>, <<"tag", 8>>, <<"task_attr", 1>>, <<"prio", 1>>, <<"crn", 1>>,
    <<"reserved", 1>>, <<"cdb", 32>>>>

\* Where a field of a header begins.
OffsetOf(header, k) ==
  LET off[i \in 1 .. k] == IF i = 1 THEN 0 ELSE off[i - 1] + header[i - 1][2]
  IN  off[k]
HeaderSize(header) == OffsetOf(header, Len(header)) + header[Len(header)][2]

\* The bytes a CDB moves to and from the device.
Written(cdb) == IF cdb.opcode = "WRITE_10" THEN 512 * cdb.blocks ELSE 0
Returned(cdb) ==
  CASE cdb.opcode = "READ_10"          -> 512 * cdb.blocks
    [] cdb.opcode = "READ_CAPACITY_10" -> 8
    [] "alloc" \in DOMAIN cdb          -> cdb.alloc
    [] OTHER                           -> 0

submit_scsi_cmd(m) ==
  Request(m.vq % ScsiQueues, 5,
          <<Out(HeaderSize(ScsiHeader))>> \o Part(Out(AtMost(Written(m.cdb), 4096)))
            \o <<In(108)>> \o Part(In(AtMost(Returned(m.cdb), 4096))))

ScsiRequest(m) ==
  CASE m.op = "ScsiCmd" -> submit_scsi_cmd(m)
    [] m.op = "TmfReq"  -> Request(0, 3, <<Out(24), In(1)>>)
    [] m.op = "AnReq"   -> Request(0, 3, <<Out(16), In(5)>>)

----------------------------------------------------------------------------
(* virtio-fs *)

FsQueues == 8

\* The bytes of an opcode's arguments besides those the seed chooses.
FuseFixed(opcode) ==
  CASE opcode \in {"INIT", "GETATTR"}                               -> 16
    [] opcode = "SETATTR"                                           -> 84
    [] opcode \in {"OPEN", "MKDIR", "GETXATTR", "SETXATTR", "LISTXATTR"} -> 8
    [] opcode \in {"READ", "WRITE"}                                 -> 40
    [] opcode = "RELEASE"                                           -> 24
    [] opcode = "IOCTL"                                             -> 32
    [] OTHER                                                        -> 0

submit_fuse(m) ==
  LET vq == m.vq % FsQueues
  IN  Request(IF vq < 2 THEN 2 ELSE vq, 3,
              <<Out(40 + FuseFixed(m.block.opcode) + m.block.arg),
                In(Sized(m.in_buf, 1024, 16, 4096))>>)

submit_fuse_hp(m) == Request(0, 1, <<Out(40 + AtMost(m.payload, 256))>>)

FsRequest(m) == IF m.op = "FuseReq" THEN submit_fuse(m) ELSE submit_fuse_hp(m)

----------------------------------------------------------------------------
(* virtio-snd *)

\* Length of a command's payload, and the room for the answer.
SndPayload(c) ==
  CASE c.cmd \in {"JACK_INFO", "PCM_INFO", "CHMAP_INFO"} -> 12
    [] c.cmd = "JACK_REMAP"                              -> 16
    [] c.cmd = "PCM_SET_PARAMS"                          -> 24
    [] c.cmd = "raw"                                     -> AtMost(c.payload, 4096)
    [] OTHER                                             -> 8
SndAnswer(c) ==
  CASE c.cmd = "JACK_INFO"                 -> 256 + 32 * c.count
    [] c.cmd \in {"PCM_INFO", "CHMAP_INFO"} -> 256 + 64 * c.count
    [] c.cmd = "raw"                       -> IF c.in_len = 0 THEN 256 ELSE c.in_len
    [] OTHER                               -> 4

submit_snd_ctrl(m) ==
  Request(0, 3, <<Out(4 + SndPayload(m.block)), In(Clamp(SndAnswer(m.block), 16, 4096))>>)

\* Playback sends its samples, capture asks for them.
submit_pcm_xfer(m) ==
  IF m.vq = 3 THEN Request(3, 4, <<Out(4), In(Sized(m.len, 1024, 28, 4096))>>)
  ELSE Request(2, 4, <<Out(4 + AtMost(m.len, 4096)), In(28)>>)

SndRequest(m) == IF m.op = "SndCtrl" THEN submit_snd_ctrl(m) ELSE submit_pcm_xfer(m)

----------------------------------------------------------------------------
(* virtio-vsock, -balloon, -input and -console: one descriptor each *)

VsockRequest(m) ==
  IF m.op = "VsockTx" THEN Request(1, 1, <<Out(44 + AtMost(m.payload, 4096))>>)
  ELSE Request(0, 1, <<In(Sized(m.size, 1024, 44, 4096))>>)

submit_pfn_list(vq, pages) ==
  Request(vq, 1, <<Out(4 * Clamp(pages, 1, 1024))>>)

\* pages is the number of pages a list names.
BalloonRequest(m, pages) ==
  CASE m.op = "Inflate"  -> submit_pfn_list(0, pages)
    [] m.op = "Deflate"  -> submit_pfn_list(1, pages)
    [] m.op = "Stats"    -> Request(2, 1, <<Out(10 * Clamp(m.entries, 1, 64))>>)
    [] m.op = "FreePage" -> Request(3, 1, <<Out(4)>>)

InputRequest(m) ==
  IF m.op = "StatusEvent" THEN Request(1, 1, <<Out(8)>>)
  ELSE Request(0, 1, <<In(Sized(m.size, 64, 8, 4096))>>)

\* Plausible slip: the queue of the other direction.
port_tx_vq_rx(port) == IF port = 0 THEN 1 ELSE 2 + 2 * port
port_tx_vq(port) == IF port = 0 THEN 1 ELSE 3 + 2 * port
port_rx_vq(port) == IF port = 0 THEN 0 ELSE 2 + 2 * port

ConsoleRequest(m) ==
  CASE m.op = "TxData"  -> Request(port_tx_vq(m.port % 16), 1, <<Out(AtMost(m.len, 4096))>>)
    [] m.op = "RxBuf"   -> Request(port_rx_vq(m.port % 16), 1,
                                   <<In(Sized(m.size, 1024, 1, 4096))>>)
    [] m.op = "CtrlMsg" -> Request(3, 1, <<Out(8 + AtMost(m.len, 256))>>)

============================================================================
