--------------------------- MODULE TcpConnection ---------------------------
(***************************************************************************)
(* One TCP connection through the bridge: a client and a server that open, *)
(* use and close it, a network on either side of the bridge that loses,    *)
(* repeats and reorders segments, and in between the tracker of Flow, with *)
(* the resets it sends to the client. What the tracker believes is set     *)
(* against what the two ends know.                                         *)
(*                                                                         *)
(* The hooks may be switched on at any point of the connection; from then  *)
(* on each packet passes both before the next comes, so the connection has *)
(* one flow (FlowTable has the other cases). The ends are external and do  *)
(* what RFC 9293 has them do in one connection, which the client opens:    *)
(* they count in whole flags, a SYN is number 0, a FIN number 1, nothing   *)
(* else takes a number, and an end that was reset does not open another.   *)
(***************************************************************************)
EXTENDS Flow, FiniteSets

CONSTANTS
  Key,        \* the key of the client's packets
  ClientSide, \* the interface the client is on
  ServerSide,
  MaxLate     \* bound of the segments under way from the bridge to the ends

ASSUME ConnectionConstants ==
  /\ Key \in FlowKeys
  /\ {ClientSide, ServerSide} \subseteq Interfaces
  /\ MaxLate \in Nat
  /\ 0 .. 2 \subseteq SeqNos

VARIABLES
  client, server,
  wire,       \* the segments sent to the bridge; a set: any may come again or never
  passed,     \* segments the bridge let through and its own resets, under way to the ends
  hooked,     \* the hooks are enabled
  flow,       \* the flow of the connection, None before its first segment
  opener,     \* the end that sent that segment
  resets      \* the frames the last step sent

vars == <<client, server, wire, passed, hooked, flow, opener, resets>>

\* What an end has: the next number to send and to expect, whether its SYN was
\* acknowledged, and whether it has not been reset.
Start == [snd |-> 0, rcv |-> 0, acked |-> FALSE, open |-> TRUE]

Ends == [snd: 0 .. 2, rcv: 0 .. 2, acked: BOOLEAN, open: BOOLEAN]

Segment(from, flags, seq, ack) == [from |-> from, flags |-> flags, seq |-> seq, ack |-> ack]

AllSegments == [from: {"client", "server"}, flags: SUBSET TcpFlags, seq: 0 .. 2, ack: 0 .. 2]

TypeOK ==
  /\ client \in Ends /\ server \in Ends
  /\ wire \subseteq AllSegments /\ passed \subseteq AllSegments
  /\ hooked \in BOOLEAN
  /\ flow \in FlowRecord \cup {None}
  /\ opener \in {"client", "server"}
  /\ \A frame \in resets : frame.to \in Interfaces \cup {0} /\ frame.seq \in SeqNos

Init ==
  /\ client = Start /\ server = Start
  /\ wire = {} /\ passed = {}
  /\ hooked = FALSE /\ flow = None /\ opener = "client" /\ resets = {}

-----------------------------------------------------------------------------
\* The ends

\* The segments an end may send as it is, for the first time or again. An end
\* that has a number to acknowledge may send a bare ACK, also while its own SYN
\* is not acknowledged (3.10.7.4, the answer to a SYN that is repeated).
Sendable(from, e) ==
  IF ~e.open \/ e.snd = 0 THEN {}
  ELSE IF e.rcv = 0 THEN {Segment(from, {"SYN"}, 0, 0)}
  ELSE {Segment(from, {"ACK"}, e.snd, e.rcv)}
       \cup (IF e.acked THEN {} ELSE {Segment(from, {"SYN", "ACK"}, 0, e.rcv)})
       \cup (IF e.snd = 2 THEN {Segment(from, {"FIN", "ACK"}, 1, e.rcv)} ELSE {})

\* Whatever an end may send it has sent: a segment in wire that the bridge never
\* takes is one that was not sent, or lost.
Sends(extra) ==
  wire' = wire \cup Sendable("client", client') \cup Sendable("server", server') \cup extra

Connect ==
  /\ client.snd = 0 /\ client.open
  /\ client' = [client EXCEPT !.snd = 1]
  /\ UNCHANGED <<server, passed, hooked, flow, opener>> /\ resets' = {}
  /\ Sends({})

\* An end that has answered the other closes its direction; the server may do
\* so before its SYN is acknowledged (3.10.4).
Close ==
  /\ \/ /\ client.open /\ client.snd = 1 /\ client.acked
        /\ client' = [client EXCEPT !.snd = 2] /\ UNCHANGED server
     \/ /\ server.open /\ server.snd = 1
        /\ server' = [server EXCEPT !.snd = 2] /\ UNCHANGED client
  /\ Sends({})
  /\ UNCHANGED <<passed, hooked, flow, opener>> /\ resets' = {}

\* A reset counts when it has the number the end expects (RFC 5961) or, as long
\* as the end expects none, acknowledges its SYN (3.10.7.3).
Counts(e, flags, seq, ack) ==
  /\ e.open /\ e.snd > 0
  /\ IF e.rcv = 0 THEN "ACK" \in flags /\ ack = e.snd ELSE seq = e.rcv

Received(e, seg) ==
  IF "RST" \in seg.flags THEN [e EXCEPT !.open = @ /\ ~Counts(e, seg.flags, seg.seq, seg.ack)]
  ELSE IF seg.flags = {"SYN"} THEN IF e.snd = 0 THEN [e EXCEPT !.snd = 1, !.rcv = 1] ELSE e
  ELSE IF seg.flags = {"SYN", "ACK"} THEN
    IF e.snd = 1 /\ e.rcv = 0 /\ seg.ack = 1 THEN [e EXCEPT !.rcv = 1, !.acked = TRUE] ELSE e
  ELSE IF e.rcv = 0 \/ seg.ack > e.snd THEN e
  ELSE [e EXCEPT !.acked = @ \/ seg.ack > 0,
                 !.rcv = IF "FIN" \in seg.flags /\ seg.seq = e.rcv THEN 2 ELSE @]

\* An end that was reset answers what still comes with a reset.
Refusal(to, seg) ==
  IF "RST" \in seg.flags THEN {}
  ELSE IF "ACK" \in seg.flags THEN {Segment(to, {"RST"}, seg.ack, 0)}
  ELSE {Segment(to, {"RST", "ACK"}, 0, seg.seq + 1)}

Receive ==
  /\ \E seg \in passed :
       IF seg.from = "server"
         THEN /\ client' = IF client.open THEN Received(client, seg) ELSE client
              /\ UNCHANGED server
              /\ Sends(IF client.open THEN {} ELSE Refusal("client", seg))
         ELSE /\ server' = IF server.open THEN Received(server, seg) ELSE server
              /\ UNCHANGED client
              /\ Sends(IF server.open THEN {} ELSE Refusal("server", seg))
  /\ UNCHANGED <<passed, hooked, flow, opener>> /\ resets' = {}

-----------------------------------------------------------------------------
\* The bridge

Peer(side) == IF side = "client" THEN "server" ELSE "client"

ResetFlags == {"RST", "ACK"}

\* A frame sent out of the interface of an end comes to it from its peer, as it
\* seems.
Injected(frames) ==
  LET from(frame) == IF frame.to = ClientSide THEN "server" ELSE "client" IN
  {Segment(from(frame), ResetFlags, frame.seq, frame.ack) :
     frame \in {fr \in frames : fr.to \in {ClientSide, ServerSide}}}

Enable ==
  /\ ~hooked /\ hooked' = TRUE
  /\ UNCHANGED <<client, server, wire, passed, flow, opener>> /\ resets' = {}

\* The first segment that is seen makes the flow.
Track(seg) ==
  /\ hooked /\ flow = None
  /\ opener' = seg.from
  /\ flow' = IF seg.from = "client"
               THEN tcp_init_state(NewFlow(Key, ClientSide), "IN", seg)
               ELSE tcp_init_state(NewFlow(flow_key_reverse(Key), ServerSide), "IN", seg)
  /\ resets' = {}

\* Every other segment updates it, in the direction of the side that sent it.
TrackAgain(seg) ==
  LET f == tcp_update_state(flow, IF seg.from = opener THEN "IN" ELSE "OUT", seg) IN
  /\ hooked /\ flow # None
  /\ flow' = f
  /\ IF WantsReset(f) THEN resets' \in tcp_send_reset(f) ELSE resets' = {}
  /\ UNCHANGED opener

Ignore == ~hooked /\ resets' = {} /\ UNCHANGED <<flow, opener>>

\* Any segment behind the bridge may be lost; one that was received may be
\* received again.
Bridge ==
  /\ \E seg \in wire :
       /\ Track(seg) \/ TrackAgain(seg) \/ Ignore
       /\ passed' \in {late \in SUBSET (passed \cup {seg} \cup Injected(resets')) :
                        Cardinality(late) <= MaxLate}
  /\ UNCHANGED <<client, server, wire, hooked>>

Next == Connect \/ Close \/ Receive \/ Enable \/ Bridge

Spec == Init /\ [][Next]_vars

-----------------------------------------------------------------------------
\* Properties

\* However segments were lost, repeated or overtaken, and whenever the hooks were
\* enabled: no reset is sent before the server has answered the client, and one
\* that the client obeys is for a connection the client has completed. A reset
\* may be sent in the middle of the handshake, on a bare ACK of the server, as
\* the mark and ESTABLISHED ask for no more than a SYN and an ACK (tcp.c:108); it
\* has the numbers of the SYN, which the client ignores.
ResetAfterHandshake ==
  /\ resets # {} => server.rcv > 0
  /\ \A frame \in resets :
       Counts(client, ResetFlags, frame.seq, frame.ack) => client.acked

\* A reset goes to the client, with numbers that are never ahead of it: a reset
\* made from an old segment is one the client ignores, never one that counts as
\* a later number.
ResetNotAhead ==
  \A frame \in resets :
    frame.to = ClientSide /\ frame.seq <= client.rcv /\ frame.ack <= client.snd

\* flow.h:98 "We can judge which direction is the client or server based on
\* this": the direction IN of a flow with the mark is the client's, although a
\* flow is made by whatever segment comes first after the hooks were enabled.
MarkNamesClient == flow # None /\ flow.three_way_handshake => opener = "client"

\* What the tracker takes for the closing of a side was one: FIN_WAIT and what
\* follows it needs the FIN of the side that opened the flow, CLOSE_WAIT that of
\* the other.
ClosingIsTrue ==
  flow # None =>
    LET in  == IF opener = "client" THEN client ELSE server
        out == IF opener = "client" THEN server ELSE client IN
    /\ flow.state \in {"FIN_WAIT", "TIME_WAIT"} => in.snd = 2
    /\ flow.state = "CLOSE_WAIT" => out.snd = 2
=============================================================================
