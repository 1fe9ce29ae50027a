---------------------------- MODULE MCSeedReplay ----------------------------
(***************************************************************************)
(* The inputs that are replayed: the corpora of all devices, each seed     *)
(* also twice with a Reset in between, some inputs no generator writes,    *)
(* and for the runs of one device its corpus.                              *)
(***************************************************************************)
EXTENDS SeedReplay

AgainInputs ==
  UNION {{[dev |-> dev, name |-> seed.name, how |-> "again",
           prog |-> ThreadA(seed.lines \o <<Net!op_reset>> \o seed.lines)] :
            seed \in {Corpus[dev][k] : k \in DOMAIN Corpus[dev]}} :
         dev \in DOMAIN Corpus}

\* What the fuzzer may make of a seed's lines: sizes no seed asks for, queues
\* that are not there, registers of the queues written past the harness, and
\* slots that were filled before a Reset.
Registers == <<
  Net!op_get_features, Net!op_set_features({"VERSION_1"}),
  Net!op_vq_setup(0, 0), Net!op_vq_setup(1, 5000), Net!op_vq_setup(2, 48),
  Net!op_vq_setup(4, 64), Net!op_vq_setup(9, 64), Net!op_set_status({"DRIVER_OK"}),
  Net!op_vq_select(1), Net!op_mmio_corrupt(144, 65535), Net!op_mmio_corrupt(68, 1),
  Net!op_tx_packet(1, 60), Net!op_mmio_corrupt(48, 2), Net!op_mmio_corrupt(68, 0),
  Net!op_ctrl_vlan_add(0, 100), Net!op_mmio_corrupt(68, 1), Net!op_vq_kick(2),
  [Net!op_mmio_corrupt(112, 0) EXCEPT !.size = 1], Net!op_mmio_corrupt(112, 3),
  Net!op_mmio_corrupt(112, 15), Net!op_mmio_corrupt(80, 0),
  Net!op_ctrl_mq_vq_pairs_set(2), Net!op_ctrl_vlan_add(1, 200),
  Net!op_reset, Net!op_vq_setup(2, 4), Net!op_set_status({"DRIVER_OK"}),
  Net!op_ctrl_vlan_del_slot(0), Net!op_ctrl_vlan_add(0, 300),
  Net!op_reset, Net!op_vq_setup(2, 64), Net!op_set_status({"DRIVER_OK"}),
  Net!op_ctrl_vlan_add(0, 400), Net!op_ctrl_vlan_del_slot(0), Net!op_set_status({}),
  Net!op_ctrl_vlan_del_slot(0)>>

\* More lines than a harness runs.
Long == [k \in 1 .. kMaxOps + 10 |-> IF k = 1 THEN Net!op_vq_setup(0, 1) ELSE Net!op_vq_kick(0)]

FuzzedInputs ==
  {[dev |-> "net", name |-> "registers", how |-> "fuzzed", prog |-> Registers],
   [dev |-> "net", name |-> "long", how |-> "fuzzed", prog |-> Long]}

AllInputs == InputsOf(DOMAIN Corpus) \cup AgainInputs \cup FuzzedInputs
GpuInputs == InputsOf({"gpu"})
FsInputs == InputsOf({"fs"})

\* Three requests of an earlier input are still in every ring.
Three == {3}

============================================================================
