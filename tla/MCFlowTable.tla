----------------------------- MODULE MCFlowTable -----------------------------
(***************************************************************************)
(* Instances of FlowTable for TLC: hosts, packets and hash functions.      *)
(***************************************************************************)
EXTENDS FlowConns, TLC

CONSTANTS A, B, C, TCPProto, UDPProto

MCAddrs == {A, B, C}
MCPorts == {0, 1, 2}
MCProtocols == {TCPProto, UDPProto}

\* A segment or datagram between port 1 of A and port 2 of a peer.
Pkt(protocol, peer, fromA, flags, seq, ack) ==
  LET end(isA) == IF isA THEN <<A, 1>> ELSE <<peer, 2>> IN
  [src |-> end(fromA)[1], dst |-> end(~fromA)[1],
   src_port |-> end(fromA)[2], dst_port |-> end(~fromA)[2],
   protocol |-> protocol, vlan |-> 0, flags |-> flags, seq |-> seq, ack |-> ack]

\* Two conversations whose flows have no state: the table and nothing else.
TableMCPackets ==
  {Pkt(UDPProto, peer, fromA, {}, 0, 0) : peer \in {B, C}, fromA \in BOOLEAN}

\* Two TCP connections that are only acknowledged: flows that change.
AckMCPackets ==
  {Pkt(TCPProto, peer, fromA, {"ACK"}, 0, 0) : peer \in {B, C}, fromA \in BOOLEAN}

\* One connection that is opened, used and closed; the numbers tell the sides and
\* the packets of the side that opens it apart.
ConversationMCPackets ==
  {Pkt(TCPProto, B, TRUE, {"SYN"}, 0, 0), Pkt(TCPProto, B, TRUE, {"ACK"}, 1, 0),
   Pkt(TCPProto, B, FALSE, {"FIN", "ACK"}, 0, 1)}

UsedKeys == Keys

\* Each key of the traffic has a hash of its own.
InjectiveHash ==
  [k \in FlowKeys |-> IF k \in UsedKeys THEN k ELSE CHOOSE l \in UsedKeys : TRUE]

\* What decides which steps are possible: no guard reads resets, and none reads
\* the timers, as a flow without one finds one free.
ConnView == <<hooked, flows, table, table_stale, bufs>>

BufferSymmetry == Permutations(Buffers)

\* The traffic is the same for both peers, and so is InjectiveHash on its keys.
BufferPeerSymmetry == Permutations(Buffers) \cup Permutations({B, C})
=============================================================================
