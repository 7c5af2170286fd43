------------------------------ MODULE ConnTable ------------------------------
(***************************************************************************)
(* What the flow table promises: a bounded set of connections, each known  *)
(* by the key of its first packet. There is no hash table, no buffer, no   *)
(* second hook and no timer here. A packet of a connection, in either      *)
(* direction, moves the state of that connection by the TCP tables and     *)
(* leaves its numbers with the side it came from; a connection whose       *)
(* opening was seen may have its opener reset once it is established.      *)
(***************************************************************************)
EXTENDS Flow

CONSTANTS
  Slots,      \* places for connections, none is ever given back
  Packets

VARIABLES
  conns,      \* slot -> connection, None where there is none yet
  resets      \* the RST frames the last step sent

vars == <<conns, resets>>

\* via: where the first packet came in; watched: that packet was a bare SYN;
\* last: the numbers each side used last.
Conn == [key: FlowKeys, via: Interfaces, state: TcpStates, watched: BOOLEAN,
         last: [Dirs -> [seq: SeqNos, ack: SeqNos]]]

Init ==
  /\ conns = [s \in Slots |-> None]
  /\ resets = {}

Unnumbered == [d \in Dirs |-> [seq |-> 0, ack |-> 0]]

\* A connection after a packet of it; only TCP has something to remember.
Seen(conn, dir, pkt) ==
  IF pkt.protocol = TCP
    THEN [conn EXCEPT
            !.state = tcp_state_transfer(conn.state, flags_to_events(pkt.flags), dir),
            !.last = [conn.last EXCEPT ![dir] = [seq |-> pkt.seq, ack |-> pkt.ack]]]
    ELSE conn

Opened(pkt, in) ==
  Seen([key |-> parse_key(pkt), via |-> in, state |-> "START",
        watched |-> pkt.protocol = TCP /\ pkt.flags = {"SYN"},
        last |-> Unnumbered], "IN", pkt)

\* The only frame that may be sent for a connection: to the side that opened
\* it, as the answer to the last packet that side sent.
Answer(conn) ==
  [to |-> conn.via, key |-> flow_key_reverse(conn.key), vlan |-> conn.key.vlan,
   seq |-> conn.last["IN"].ack, ack |-> conn.last["IN"].seq]

MayReset(conn, pkt) ==
  IF pkt.protocol = TCP /\ conn.state = "ESTABLISHED" /\ conn.watched
    THEN {Answer(conn)} ELSE {}

\* The first packet of a key nobody opened a connection with.
Open(s, pkt, in) ==
  /\ conns[s] = None
  /\ \A t \in Slots : conns[t] = None \/ conns[t].key # parse_key(pkt)
  /\ conns' = [conns EXCEPT ![s] = Opened(pkt, in)]
  /\ resets' = {}

\* A later packet, in the direction it travels.
Segment(s, dir, pkt) ==
  /\ conns[s] # None
  /\ parse_key(pkt) = IF dir = "IN" THEN conns[s].key ELSE flow_key_reverse(conns[s].key)
  /\ conns' = [conns EXCEPT ![s] = Seen(conns[s], dir, pkt)]
  /\ resets' \subseteq MayReset(Seen(conns[s], dir, pkt), pkt)

\* Whatever else happens, connections stay as they are.
Quiet == resets' = {} /\ UNCHANGED conns

Next ==
  \/ \E s \in Slots, pkt \in Packets, in \in Interfaces : Open(s, pkt, in)
  \/ \E s \in Slots, dir \in Dirs, pkt \in Packets : Segment(s, dir, pkt)
  \/ Quiet

Spec == Init /\ [][Next]_vars
=============================================================================
