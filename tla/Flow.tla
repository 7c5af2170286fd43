-------------------------------- MODULE Flow --------------------------------
(***************************************************************************)
(* What one packet does to one flow record: flow_t, flow_entry_t and the   *)
(* operations of flow.h, and the TCP handler (tcp.c, tcp_control.h).       *)
(* Nothing here has state; FlowTable keeps the records and the hash table. *)
(***************************************************************************)
EXTENDS TcpStateTransfer, Integers

CONSTANTS
  Addrs,       \* IP addresses
  Ports,       \* port numbers; 0 is what a handler without ports leaves
  Protocols,   \* protocol numbers
  TCP,         \* the one whose handler tracks state
  Vlans,       \* tag stacks (outer, inner, depth), 0 = untagged
  Interfaces,  \* bridged interfaces; 0 is VPP's local0
  SeqNos,      \* sequence and acknowledgement numbers
  None         \* a pointer or table value that is not set

FlowKeys == [src: Addrs, dst: Addrs, src_port: Ports, dst_port: Ports,
             protocol: Protocols, vlan: Vlans]

Packet == [src: Addrs, dst: Addrs, src_port: Ports, dst_port: Ports,
           protocol: Protocols, vlan: Vlans,
           flags: SUBSET TcpFlags, seq: SeqNos, ack: SeqNos]

ASSUME FlowConstants ==
  /\ 0 \in Ports
  /\ 0 \in Vlans
  /\ 0 \in SeqNos
  /\ Interfaces \subseteq Nat \ {0}
  /\ TCP \in Protocols
  /\ None \notin FlowKeys \cup Packet \cup Interfaces

\* key: the tuple of the entry, None while its flow pointer is NULL.
\* mac: both MAC addresses were copied from a packet (they start as zero).
FlowEntry == [key: FlowKeys \cup {None}, sw_if_index: Interfaces \cup {0},
              mac: BOOLEAN, vlan: Vlans, seq: SeqNos, ack: SeqNos]

FlowRecord == [refcount: {0, 1}, key: FlowKeys \cup {None},
               entry: [Dirs -> FlowEntry], state: TcpStates,
               three_way_handshake: BOOLEAN]

ZeroEntry == [key |-> None, sw_if_index |-> 0, mac |-> FALSE, vlan |-> 0,
              seq |-> 0, ack |-> 0]

ZeroFlow == [refcount |-> 0, key |-> None, entry |-> [d \in Dirs |-> ZeroEntry],
             state |-> "START", three_way_handshake |-> FALSE]

-----------------------------------------------------------------------------
\* flow_key_t and the entries

\* Only the TCP handler fills in ports: udp.c, icmp.c and unimplemented.c leave
\* both at 0, so every flow of such a protocol between two hosts is the same one.
parse_key(pkt) ==
  LET port(p) == IF pkt.protocol = TCP THEN p ELSE 0 IN
  [src |-> pkt.src, dst |-> pkt.dst,
   src_port |-> port(pkt.src_port), dst_port |-> port(pkt.dst_port),
   protocol |-> pkt.protocol, vlan |-> pkt.vlan]

flow_key_reverse(key) ==
  [key EXCEPT !.src = key.dst, !.dst = key.src,
              !.src_port = key.dst_port, !.dst_port = key.src_port]

\* The two keys of one connection name the same pair of tuples.
Connection(key) == {key, flow_key_reverse(key)}

\* Mutant: the entry written is always the first one.
update_flow_first(f, key, dir) == [f EXCEPT !.entry["IN"].key = key]

\* Source and destination, ports and protocol; not sw_if_index, MACs or VLAN.
flow_table_update_flow(f, key, dir) == [f EXCEPT !.entry[dir].key = key]

\* Mutant: takes a second reference.
init_flow_counting(f, key, sw_if_index, dir) ==
  [flow_table_update_flow(f, key, dir) EXCEPT
     !.key = key, !.entry[dir].sw_if_index = sw_if_index, !.refcount = @ + 1]

flow_table_init_flow(f, key, sw_if_index, dir) ==
  [flow_table_update_flow(f, key, dir) EXCEPT
     !.key = key, !.entry[dir].sw_if_index = sw_if_index]

\* The record ip4_input_process builds for the first packet of a key.
NewFlow(key, sw_if_index) ==
  LET f == flow_table_init_flow([ZeroFlow EXCEPT !.refcount = 1],
                                key, sw_if_index, "IN")
  IN  [f EXCEPT !.entry["IN"] = [@ EXCEPT !.mac = TRUE, !.vlan = key.vlan]]

-----------------------------------------------------------------------------
\* The TCP handler

\* Mutant: the numbers are kept in the entry of the other direction.
track_other_side(f, dir, pkt) ==
  LET other == IF dir = "IN" THEN "OUT" ELSE "IN" IN
  [f EXCEPT !.entry[other] = [@ EXCEPT !.seq = pkt.seq, !.ack = pkt.ack]]

tcp_track_sequence(f, dir, pkt) ==
  [f EXCEPT !.entry[dir] = [@ EXCEPT !.seq = pkt.seq, !.ack = pkt.ack]]

\* Mutant: a SYN with an ACK marks the flow, too.
tcp_init_state_any_syn(f, dir, pkt) ==
  [tcp_track_sequence(f, dir, pkt) EXCEPT
     !.three_way_handshake = @ \/ "SYN" \in pkt.flags,
     !.state = tcp_state_transfer("START", flags_to_events(pkt.flags), dir)]

\* The first packet of a flow: only a bare SYN marks the flow as one whose
\* handshake is watched from the start. Nothing ever clears the mark.
tcp_init_state(f, dir, pkt) ==
  [tcp_track_sequence(f, dir, pkt) EXCEPT
     !.three_way_handshake = @ \/ pkt.flags = {"SYN"},
     !.state = tcp_state_transfer("START", flags_to_events(pkt.flags), dir)]

tcp_update_state(f, dir, pkt) ==
  [tcp_track_sequence(f, dir, pkt) EXCEPT
     !.state = tcp_state_transfer(f.state, flags_to_events(pkt.flags), dir)]

\* Mutant: every packet takes a reference to the flow.
update_state_counting(f, dir, pkt) == [f EXCEPT !.refcount = f.refcount + 1]

\* The handlers of the other protocols leave the record alone.
init_state(f, dir, pkt) ==
  IF pkt.protocol = TCP THEN tcp_init_state(f, dir, pkt) ELSE f

update_state(f, dir, pkt) ==
  IF pkt.protocol = TCP THEN tcp_update_state(f, dir, pkt) ELSE f

\* Mutant: a flow that has seen both SYNs is reset as well.
WantsReset_early(f) == f.state \in {"SYN_RCVD", "ESTABLISHED"} /\ f.three_way_handshake

WantsReset(f) == f.state = "ESTABLISHED" /\ f.three_way_handshake

\* Mutant: the numbers of the packet are not swapped.
ResetFrameUnswapped(f, dir) ==
  [to |-> f.entry[dir].sw_if_index, key |-> flow_key_reverse(f.entry[dir].key),
   vlan |-> f.entry[dir].vlan, seq |-> f.entry[dir].seq, ack |-> f.entry[dir].ack]

\* Mutant: the number acknowledged is the one after the packet's.
ResetFrameNext(f, dir) ==
  [to |-> f.entry[dir].sw_if_index, key |-> flow_key_reverse(f.entry[dir].key),
   vlan |-> f.entry[dir].vlan, seq |-> f.entry[dir].ack, ack |-> f.entry[dir].seq + 1]

\* The frame tcp_send_reset builds for one side: the answer to the last packet
\* that side sent, out of the interface the entry was created on.
ResetFrame(f, dir) ==
  [to |-> f.entry[dir].sw_if_index, key |-> flow_key_reverse(f.entry[dir].key),
   vlan |-> f.entry[dir].vlan, seq |-> f.entry[dir].ack, ack |-> f.entry[dir].seq]

\* A side whose MAC addresses are not known is skipped. An interface that is
\* gone or is no hardware interface, or an exhausted buffer pool, can suppress
\* any of the rest.
tcp_send_reset(f) ==
  SUBSET {ResetFrame(f, dir) : dir \in {d \in Dirs : f.entry[d].mac}}
=============================================================================
