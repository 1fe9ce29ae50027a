------------------------------ MODULE NetSeeds ------------------------------
(***************************************************************************)
(* gen_virtio_net_corpus.py: the seeds of the virtio-net harness.          *)
(*                                                                         *)
(* A control command is the class it belongs to and the length of its      *)
(* data; the typed commands also carry the fields the harness looks at.    *)
(***************************************************************************)
EXTENDS SeedOps

DEFAULT_FEATURES ==
  {"VERSION_1", "CSUM", "MAC", "HOST_TSO4", "HOST_TSO6", "MRG_RXBUF", "STATUS",
   "CTRL_VQ", "CTRL_RX", "CTRL_VLAN", "GUEST_ANNOUNCE", "MQ", "CTRL_MAC_ADDR"}

----------------------------------------------------------------------------
(* Operations of this device *)

op_tx_packet(i, len) ==
  [list |-> "ops", op |-> "TxPacket", vq |-> i, len |-> len, vlan_tci |-> 0]
op_tx_packet_vlan(i, len, tci) == [op_tx_packet(i, len) EXCEPT !.vlan_tci = tci]

op_ctrl_cmd(i, vclass, len) ==
  [list |-> "ops", op |-> "CtrlCmd", vq |-> i, vclass |-> vclass, len |-> len]

typed(op, vclass, len) ==
  [list |-> "ops", op |-> op, vclass |-> vclass, len |-> len]
op_ctrl_rx                  == typed("CtrlRx", "RX", 1)
op_ctrl_mac_addr_set        == typed("CtrlMacAddrSet", "MAC", 6)
op_ctrl_announce_ack        == typed("CtrlAnnounceAck", "ANNOUNCE", 0)
op_ctrl_guest_offloads      == typed("CtrlGuestOffloads", "GUEST_OFFLOADS", 8)
op_ctrl_mac_table_set(u, m) == typed("CtrlMacTableSet", "MAC", 8 + 6 * (u + m))
op_ctrl_rss_config(mask, key) ==
  typed("CtrlRssConfig", "MQ", 11 + 2 * (mask + 1) + key)
op_ctrl_mq_vq_pairs_set(n) ==
  [list |-> "ops", op |-> "CtrlMqVqPairsSet", vclass |-> "MQ", len |-> 2,
   pair_count |-> n]
op_ctrl_vlan_add(slot, vid) ==
  [list |-> "ops", op |-> "CtrlVlanAdd", vclass |-> "VLAN", len |-> 2,
   vlan_slot |-> slot, vid |-> vid]
op_ctrl_vlan_del_slot(slot) ==
  [list |-> "ops", op |-> "CtrlVlanDel", vclass |-> "VLAN", len |-> 2,
   use_slot |-> TRUE, vlan_slot |-> slot, vid |-> 0]
op_ctrl_vlan_del_vid(vid) ==
  [list |-> "ops", op |-> "CtrlVlanDel", vclass |-> "VLAN", len |-> 2,
   use_slot |-> FALSE, vlan_slot |-> 0, vid |-> vid]
op_host_set_link == [list |-> "ops", op |-> "HostEvent"]

----------------------------------------------------------------------------
\* Plausible slip: the control queue is left out.
prologue_no_ctrl(num_qpairs) == Driver(DEFAULT_FEATURES, 2 * num_qpairs)

\* Queues rx0, tx0, rx1, ... and the control queue behind them.
prologue(num_qpairs) == Driver(DEFAULT_FEATURES, 2 * num_qpairs + 1)

eth_frame(payload) == 14 + payload
arp_request == 28
ipv4_tcp_payload == 40

----------------------------------------------------------------------------
seed_init_only == Seed("seed_01_init_only", prologue(1))

seed_tx_arp ==
  Seed("seed_02_tx_arp",
       prologue(1) \o Awaited(<<op_tx_packet(1, eth_frame(arp_request))>>, 1))

seed_tx_csum_offload ==
  Seed("seed_03_tx_csum_offload",
       prologue(1) \o Awaited(<<op_tx_packet(1, eth_frame(ipv4_tcp_payload))>>, 1))

seed_tx_gso ==
  Seed("seed_04_tx_gso_tcpv4",
       prologue(1) \o Awaited(<<op_tx_packet(1, eth_frame(ipv4_tcp_payload + 4096))>>, 1))

\* promisc on and off, then allmulti, alluni and nobcast.
seed_ctrl_rx_promisc ==
  Seed("seed_05_ctrl_rx",
       prologue(1) \o Awaited([k \in 1 .. 5 |-> op_ctrl_cmd(2, "RX", 1)], 2))

seed_ctrl_mac_addr ==
  Seed("seed_06_ctrl_mac_addr_set",
       prologue(1) \o Awaited(<<op_ctrl_cmd(2, "MAC", 6)>>, 2))

\* Three unicast and two multicast addresses behind their counts.
seed_ctrl_mac_table ==
  Seed("seed_07_ctrl_mac_table",
       prologue(1) \o Awaited(<<op_ctrl_cmd(2, "MAC", 8 + 6 * 5)>>, 2))

\* Three additions and a deletion.
seed_ctrl_vlan ==
  Seed("seed_08_ctrl_vlan",
       prologue(1) \o Awaited([k \in 1 .. 4 |-> op_ctrl_cmd(2, "VLAN", 2)], 2))

seed_ctrl_announce ==
  Seed("seed_09_ctrl_announce",
       prologue(1) \o Awaited(<<op_ctrl_cmd(2, "ANNOUNCE", 0)>>, 2))

seed_ctrl_mq ==
  Seed("seed_10_ctrl_mq_vq_pairs",
       prologue(2) \o Awaited(<<op_ctrl_cmd(4, "MQ", 2)>>, 4))

seed_ctrl_guest_offloads ==
  Seed("seed_11_ctrl_guest_offloads",
       prologue(1) \o Awaited(<<op_ctrl_cmd(2, "GUEST_OFFLOADS", 8)>>, 2))

seed_rx_buffers ==
  Seed("seed_12_rx_buffers", prologue(1)
    \o [k \in 1 .. 16 |->
          LET id == 100 + (k - 1) \div 2
          IN  IF k % 2 = 1 THEN op_guest_mem_write(id, 1518)
              ELSE op_vq_add_desc(0, id, 1518, ForWrite, Last)]
    \o <<op_vq_kick(0), op_vq_wait_used(0)>>)

\* Promiscuous mode, three packets, a new address, a packet; then a reset,
\* after which only the status is written again.
seed_full_session ==
  LET tx(len) == Awaited(<<op_tx_packet(1, eth_frame(len))>>, 1)
  IN  Seed("seed_13_full_session", prologue(1)
        \o Awaited(<<op_ctrl_cmd(2, "RX", 1)>>, 2)
        \o tx(ipv4_tcp_payload + 32) \o tx(ipv4_tcp_payload + 32)
        \o tx(ipv4_tcp_payload + 32)
        \o Awaited(<<op_ctrl_cmd(2, "MAC", 6)>>, 2) \o tx(ipv4_tcp_payload)
        \o <<op_reset, op_set_status({"DRIVER_OK"})>>)

seed_minimal_no_features ==
  Seed("seed_14_minimal_no_ctrl_vq", Driver({"VERSION_1"}, 2)
    \o Awaited(<<op_tx_packet(1, eth_frame(arp_request))>>, 1))

seed_config_probe ==
  Seed("seed_15_config_probe", prologue(1)
    \o [k \in 1 .. 8 |-> op_config_read(<<0, 4, 6, 8, 10, 12, 16, 20>>[k], 4)]
    \o <<op_config_read(0, 1), op_config_read(0, 2)>>)

seed_typed_rx_filter ==
  Seed("seed_16_typed_ctrl_rx",
       prologue(1) \o Awaited([k \in 1 .. 8 |-> op_ctrl_rx], 2))

seed_typed_mac_addr_set ==
  Seed("seed_17_typed_mac_addr_set",
       prologue(1) \o Awaited(<<op_ctrl_mac_addr_set>>, 2))

seed_typed_mac_table ==
  Seed("seed_18_typed_mac_table",
       prologue(1) \o Awaited(<<op_ctrl_mac_table_set(3, 2)>>, 2))

\* Plausible slip: the deletion names the other slot's successor.
seed_typed_vlan_state_aware_unset ==
  Seed("seed_19_typed_vlan_state_aware", prologue(1)
    \o Awaited(<<op_ctrl_vlan_add(0, 100), op_ctrl_vlan_add(1, 200),
                 op_ctrl_vlan_del_slot(2), op_ctrl_vlan_del_vid(200)>>, 2))

seed_typed_vlan_state_aware ==
  Seed("seed_19_typed_vlan_state_aware", prologue(1)
    \o Awaited(<<op_ctrl_vlan_add(0, 100), op_ctrl_vlan_add(1, 200),
                 op_ctrl_vlan_del_slot(0), op_ctrl_vlan_del_vid(200)>>, 2))

seed_typed_mq_pair_set ==
  Seed("seed_20_typed_mq",
       prologue(2) \o Awaited(<<op_ctrl_mq_vq_pairs_set(2)>>, 4))

seed_typed_guest_offloads ==
  Seed("seed_21_typed_guest_offloads",
       prologue(1) \o Awaited(<<op_ctrl_guest_offloads>>, 2))

seed_typed_rss_config ==
  Seed("seed_22_typed_rss_config",
       prologue(2) \o Awaited(<<op_ctrl_rss_config(15, 40)>>, 4))

seed_typed_announce ==
  Seed("seed_23_typed_announce",
       prologue(1) \o Awaited(<<op_ctrl_announce_ack>>, 2))

seed_dma_reflection == Seed("seed_dma_reflection", prologue(1) \o Reflection(1))

seed_dma_all_regions ==
  Seed("seed_dma_all_exotic_regions", prologue(1) \o AllRegions(1))

seed_dma_reflection_concurrent ==
  Seed("seed_dma_reflection_concurrent", prologue(1) \o ReflectionConcurrent(1))

seed_dma_reset_gadget ==
  Seed("seed_dma_reset_gadget", prologue(1) \o ResetGadget(1))

seed_dma_recursive_notify ==
  Seed("seed_dma_recursive_notify", prologue(1) \o RecursiveNotify(1))

\* The three seeds in the middle are written in the list itself.
SEED_BUILDERS ==
  <<seed_init_only, seed_tx_arp, seed_tx_csum_offload, seed_tx_gso,
    seed_ctrl_rx_promisc, seed_ctrl_mac_addr, seed_ctrl_mac_table,
    seed_ctrl_vlan, seed_ctrl_announce, seed_ctrl_mq,
    seed_ctrl_guest_offloads, seed_rx_buffers, seed_full_session,
    seed_minimal_no_features, seed_config_probe, seed_typed_rx_filter,
    seed_typed_mac_addr_set, seed_typed_mac_table,
    seed_typed_vlan_state_aware, seed_typed_mq_pair_set,
    seed_typed_guest_offloads, seed_typed_rss_config, seed_typed_announce,
    Seed("seed_24_host_set_link",
         prologue(1) \o <<op_host_set_link, op_host_set_link>>),
    Seed("seed_25_tx_vlan_tagged", prologue(1)
      \o Awaited(<<op_tx_packet_vlan(1, eth_frame(ipv4_tcp_payload), 100)>>, 1)),
    Seed("seed_26_fault_injection", prologue(1) \o
      <<op_mmio_corrupt(28, Junk), op_mmio_corrupt(40, Junk),
        op_mmio_corrupt(R_STATUS, 0), op_mem_write_absolute(1191182336, 64),
        op_mem_write_absolute(1191231488, 32)>>),
    seed_dma_reflection, seed_dma_all_regions,
    seed_dma_reflection_concurrent, seed_dma_reset_gadget,
    seed_dma_recursive_notify>>

variation(lines) == Variations(lines, 7)

============================================================================
