------------------------ MODULE TcpConnectionProofs ------------------------
(***************************************************************************)
(* Proofs about TcpConnection: what the tracker believes of a connection   *)
(* is true of its two ends, for any number of segments under way to the    *)
(* ends and any number that were lost, repeated or overtaken.              *)
(*                                                                         *)
(* The argument: what an end has sent and received only grows, so whatever *)
(* it has ever said stays true of it (SentBy), and the flow, which keeps   *)
(* what one segment of each side said, is never ahead of the ends.         *)
(***************************************************************************)
EXTENDS TcpConnection, TLAPS

End(side) == IF side = "client" THEN client ELSE server

\* How far a client c and a server s have come with each other: nobody is ahead
\* of what the other sent, and the client completes the handshake before the
\* server does.
Agree(c, s) ==
  /\ c.snd = 0 => c.rcv = 0
  /\ c.rcv > 0 <=> c.acked
  /\ c.rcv > 0 => s.rcv > 0
  /\ s.rcv > 0 <=> s.snd > 0
  /\ s.acked => c.rcv > 0
  /\ c.rcv <= s.snd /\ s.rcv <= c.snd

\* What a segment of an end says of the end.
SentBy(e, seg) ==
  /\ seg.flags \in {{"SYN"}, {"SYN", "ACK"}, {"ACK"}, {"FIN", "ACK"}, {"RST"}, {"RST", "ACK"}}
  /\ seg.seq <= e.snd
  /\ seg.seq > 0 => e.rcv > 0 \/ ~e.open
  /\ seg.flags # {"RST", "ACK"} => seg.ack <= e.rcv
  /\ seg.flags = {"RST", "ACK"} => seg.from = "server"
  /\ seg.flags = {"SYN"} => seg.from = "client" /\ seg.seq = 0
  /\ "RST" \notin seg.flags => e.snd > 0
  /\ seg.flags = {"ACK"} => e.rcv > 0
  /\ "FIN" \in seg.flags => e.snd = 2

\* The segments under way, except the resets of the bridge, were sent by the
\* ends they are from.
SegmentsSent ==
  /\ \A seg \in wire : SentBy(End(seg.from), seg)
  /\ \A seg \in passed : "RST" \notin seg.flags => SentBy(End(seg.from), seg)

\* What the flow keeps of a client that opened it was said by the client; the
\* MAC addresses of the other side are never learnt.
FlowFollows ==
  flow # None =>
    /\ \A dir \in Dirs : flow.entry[dir].seq \in 0 .. 2 /\ flow.entry[dir].ack \in 0 .. 2
    /\ ~flow.entry["OUT"].mac
    /\ opener = "client" =>
         /\ flow.entry["IN"].sw_if_index = ClientSide
         /\ flow.entry["IN"].seq <= client.snd /\ flow.entry["IN"].ack <= client.rcv
         /\ flow.entry["IN"].seq > 0 => client.rcv > 0 \/ ~client.open

ResetNumbers == \A frame \in resets : frame.seq \in 0 .. 2 /\ frame.ack \in 0 .. 2

ConnInv ==
  /\ Agree(client, server) /\ SegmentsSent /\ FlowFollows /\ ResetNumbers
  /\ TypeOK /\ ResetAfterHandshake /\ ResetNotAhead /\ MarkNamesClient /\ ClosingIsTrue

-----------------------------------------------------------------------------
\* The ends.

LEMMA StartIsAnEnd == Start \in Ends
  BY DEF Start, Ends

\* An end that has come further.
Grown(e, f) ==
  e.snd <= f.snd /\ e.rcv <= f.rcv /\ (e.acked => f.acked) /\ (~e.open => ~f.open)

\* What an end has said stays true of it.
LEMMA SentStays ==
  ASSUME NEW e \in Ends, NEW f \in Ends, Grown(e, f),
         NEW seg \in AllSegments, SentBy(e, seg)
  PROVE  SentBy(f, seg)
  BY DEF Ends, Grown, AllSegments, SentBy

\* What a segment can do to the end it comes to, f for e.
SameNumbers(e, f) == f.snd = e.snd /\ f.rcv = e.rcv /\ (f.acked <=> e.acked)

Opened(e, f, seg) ==
  /\ seg.flags = {"SYN"} /\ e.snd = 0
  /\ f.snd = 1 /\ f.rcv = 1 /\ (f.acked <=> e.acked)

Completed(e, f, seg) ==
  /\ seg.flags = {"SYN", "ACK"} /\ e.snd = 1 /\ e.rcv = 0
  /\ f.snd = 1 /\ f.rcv = 1 /\ f.acked

Advanced(e, f, seg) ==
  /\ "RST" \notin seg.flags /\ e.rcv > 0
  /\ f.snd = e.snd
  /\ f.rcv = e.rcv \/ (f.rcv = 2 /\ "FIN" \in seg.flags)
  /\ f.acked <=> e.acked \/ seg.ack > 0

LEMMA WhatReceivedDoes ==
  ASSUME NEW e \in Ends, NEW seg \in AllSegments
  PROVE  LET f == Received(e, seg) IN
         /\ f \in Ends /\ (~e.open => ~f.open)
         /\ \/ SameNumbers(e, f) \/ Opened(e, f, seg)
            \/ Completed(e, f, seg) \/ Advanced(e, f, seg)
<1> DEFINE f == Received(e, seg)
<1> SUFFICES /\ f \in Ends /\ (~e.open => ~f.open)
             /\ \/ SameNumbers(e, f) \/ Opened(e, f, seg)
                \/ Completed(e, f, seg) \/ Advanced(e, f, seg)
  OBVIOUS
<1>1. CASE "RST" \in seg.flags
  <2> DEFINE b == e.open /\ ~Counts(e, seg.flags, seg.seq, seg.ack)
  <2>1. b \in BOOLEAN /\ (~e.open => ~b)
    BY Zenon
  <2>2. f = [e EXCEPT !.open = b]
    BY <1>1, Zenon DEF Received
  <2> HIDE DEF b, f
  <2>3. f \in Ends /\ SameNumbers(e, f) /\ f.open = b
    BY <2>1, <2>2 DEF Ends, SameNumbers
  <2> QED BY <2>1, <2>3, Zenon
<1>2. CASE f = e
  BY <1>2 DEF SameNumbers
<1>3. CASE "RST" \notin seg.flags /\ seg.flags = {"SYN"} /\ f # e
  <2>1. e.snd = 0 /\ f = [e EXCEPT !.snd = 1, !.rcv = 1]
    BY <1>3, Zenon DEF Received
  <2> HIDE DEF f
  <2> DEFINE g == [e EXCEPT !.snd = 1]
  <2> g \in Ends /\ g.snd = 1 /\ g.acked = e.acked /\ g.open = e.open
    BY DEF Ends
  <2> f = [g EXCEPT !.rcv = 1]
    BY <2>1, Zenon
  <2> HIDE DEF f, g
  <2>2. f \in Ends /\ f.snd = 1 /\ f.rcv = 1 /\ f.acked = e.acked /\ f.open = e.open
    BY DEF Ends
  <2>3. Opened(e, f, seg)
    BY <1>3, <2>1, <2>2, Zenon DEF Opened
  <2> QED BY <2>2, <2>3
<1>4. CASE "RST" \notin seg.flags /\ seg.flags = {"SYN", "ACK"} /\ f # e
  <2>1. seg.flags # {"SYN"}
    BY <1>4
  <2>2. e.snd = 1 /\ e.rcv = 0 /\ f = [e EXCEPT !.rcv = 1, !.acked = TRUE]
    BY <1>4, <2>1, Zenon DEF Received
  <2> HIDE DEF f
  <2>3. f \in Ends /\ f.open = e.open /\ Completed(e, f, seg)
    BY <1>4, <2>2 DEF Ends, Completed
  <2> QED BY <2>3
<1>5. CASE /\ "RST" \notin seg.flags /\ seg.flags # {"SYN"}
           /\ seg.flags # {"SYN", "ACK"} /\ f # e
  <2> DEFINE a == e.acked \/ seg.ack > 0
             r == IF "FIN" \in seg.flags /\ seg.seq = e.rcv THEN 2 ELSE e.rcv
  <2>1. ~(e.rcv = 0 \/ seg.ack > e.snd) /\ f = [e EXCEPT !.acked = a, !.rcv = r]
    BY <1>5, Zenon DEF Received
  <2>2. a \in BOOLEAN /\ (a <=> e.acked \/ seg.ack > 0)
    BY Zenon
  <2>3. r \in 0 .. 2 /\ (r = e.rcv \/ (r = 2 /\ "FIN" \in seg.flags))
    BY DEF Ends
  <2> HIDE DEF f, a, r
  <2>4. f \in Ends /\ f.snd = e.snd /\ f.rcv = r /\ f.acked = a /\ f.open = e.open
    BY <2>1, <2>2, <2>3 DEF Ends
  <2>5. e.rcv > 0
    BY <2>1 DEF Ends
  <2>6. Advanced(e, f, seg)
    BY <1>5, <2>2, <2>3, <2>4, <2>5, Zenon DEF Advanced
  <2> QED BY <2>4, <2>6
<1> QED BY <1>1, <1>2, <1>3, <1>4, <1>5

LEMMA ReceivedGrows ==
  ASSUME NEW e \in Ends, e.snd = 0 => e.rcv = 0, NEW seg \in AllSegments
  PROVE  Received(e, seg) \in Ends /\ Grown(e, Received(e, seg))
<1> DEFINE f == Received(e, seg)
<1> SUFFICES f \in Ends /\ Grown(e, f)
  OBVIOUS
<1>1. /\ f \in Ends /\ (~e.open => ~f.open)
      /\ \/ SameNumbers(e, f) \/ Opened(e, f, seg)
         \/ Completed(e, f, seg) \/ Advanced(e, f, seg)
  BY WhatReceivedDoes
<1> HIDE DEF f
<1>2. CASE SameNumbers(e, f)
  BY <1>1, <1>2 DEF Ends, SameNumbers, Grown
<1>3. CASE Opened(e, f, seg)
  BY <1>1, <1>3 DEF Ends, Opened, Grown
<1>4. CASE Completed(e, f, seg)
  BY <1>1, <1>4 DEF Ends, Completed, Grown
<1>5. CASE Advanced(e, f, seg)
  BY <1>1, <1>5 DEF Ends, Advanced, Grown
<1> QED BY <1>1, <1>2, <1>3, <1>4, <1>5

LEMMA ClientReceives ==
  ASSUME NEW c \in Ends, NEW s \in Ends, Agree(c, s), NEW seg \in AllSegments,
         seg.from = "server", "RST" \notin seg.flags => SentBy(s, seg)
  PROVE  Agree(Received(c, seg), s)
<1> DEFINE f == Received(c, seg)
<1> SUFFICES Agree(f, s)
  OBVIOUS
<1>1. /\ f \in Ends
      /\ \/ SameNumbers(c, f) \/ Opened(c, f, seg)
         \/ Completed(c, f, seg) \/ Advanced(c, f, seg)
  BY WhatReceivedDoes
<1> HIDE DEF f
<1>2. CASE SameNumbers(c, f)
  BY <1>1, <1>2 DEF Agree, SameNumbers, Ends
<1>3. CASE Opened(c, f, seg)
  BY <1>3 DEF Opened, SentBy, TcpFlags
<1>4. CASE Completed(c, f, seg)
  <2>1. SentBy(s, seg) /\ s.snd > 0
    BY <1>4 DEF Completed, SentBy
  <2> QED BY <1>1, <1>4, <2>1 DEF Agree, Completed, Ends
<1>5. CASE Advanced(c, f, seg)
  <2>1. "FIN" \in seg.flags => s.snd = 2
    BY <1>5 DEF Advanced, SentBy
  <2> QED BY <1>1, <1>5, <2>1 DEF Agree, Advanced, Ends
<1> QED BY <1>1, <1>2, <1>3, <1>4, <1>5

LEMMA ServerReceives ==
  ASSUME NEW c \in Ends, NEW s \in Ends, Agree(c, s), NEW seg \in AllSegments,
         seg.from = "client", "RST" \notin seg.flags => SentBy(c, seg)
  PROVE  Agree(c, Received(s, seg))
<1> DEFINE f == Received(s, seg)
<1> SUFFICES Agree(c, f)
  OBVIOUS
<1>1. /\ f \in Ends
      /\ \/ SameNumbers(s, f) \/ Opened(s, f, seg)
         \/ Completed(s, f, seg) \/ Advanced(s, f, seg)
  BY WhatReceivedDoes
<1> HIDE DEF f
<1>2. CASE SameNumbers(s, f)
  BY <1>1, <1>2 DEF Agree, SameNumbers, Ends
<1>3. CASE Opened(s, f, seg)
  <2>1. c.snd > 0
    BY <1>3 DEF Opened, SentBy, TcpFlags
  <2> QED BY <1>1, <1>3, <2>1 DEF Agree, Opened, Ends
<1>4. CASE Completed(s, f, seg)
  BY <1>4 DEF Agree, Completed
<1>5. CASE Advanced(s, f, seg)
  <2>1. /\ "FIN" \in seg.flags => c.snd = 2
        /\ seg.ack > 0 => c.rcv > 0
    BY <1>5 DEF Advanced, SentBy, AllSegments, Ends
  <2> QED BY <1>1, <1>5, <2>1 DEF Agree, Advanced, Ends
<1> QED BY <1>1, <1>2, <1>3, <1>4, <1>5

\* What an end sends, it has done; only the client sends a bare SYN, as the
\* server answers one.
LEMMA SendableSent ==
  ASSUME NEW from \in {"client", "server"}, NEW e \in Ends,
         from = "server" /\ e.snd > 0 => e.rcv > 0,
         NEW seg \in Sendable(from, e)
  PROVE  seg \in AllSegments /\ seg.from = from /\ SentBy(e, seg)
<1>1. e.open /\ e.snd > 0
  BY DEF Sendable, Ends
<1>2. CASE e.rcv = 0
  BY <1>1, <1>2 DEF Sendable, Segment, AllSegments, SentBy, Ends, TcpFlags
<1>3. CASE e.rcv > 0
  <2>1. \/ seg = Segment(from, {"ACK"}, e.snd, e.rcv)
        \/ seg = Segment(from, {"SYN", "ACK"}, 0, e.rcv)
        \/ e.snd = 2 /\ seg = Segment(from, {"FIN", "ACK"}, 1, e.rcv)
    BY <1>1, <1>3 DEF Sendable
  <2> QED BY <1>1, <1>3, <2>1 DEF Segment, AllSegments, SentBy, Ends, TcpFlags
<1> QED BY <1>2, <1>3 DEF Ends

-----------------------------------------------------------------------------
\* Steps of the ends.

EndsGrow ==
  /\ client' \in Ends /\ server' \in Ends
  /\ Grown(client, client') /\ Grown(server, server')
  /\ Agree(client', server')

LEMMA SentLater ==
  ASSUME TypeOK, EndsGrow, NEW seg \in AllSegments, SentBy(End(seg.from), seg)
  PROVE  SentBy(End(seg.from)', seg)
<1>1. CASE seg.from = "client"
  BY <1>1, SentStays DEF TypeOK, EndsGrow, End
<1>2. CASE seg.from = "server"
  BY <1>2, SentStays DEF TypeOK, EndsGrow, End
<1> QED BY <1>1, <1>2 DEF AllSegments

\* A step of an end keeps the invariant when what it sends besides is its own.
LEMMA EndsPreserve ==
  ASSUME ConnInv, EndsGrow, NEW extra, Sends(extra),
         \A seg \in extra : seg \in AllSegments /\ SentBy(End(seg.from)', seg),
         UNCHANGED <<passed, hooked, flow, opener>>, resets' = {}
  PROVE  ConnInv'
<1>1. \A seg \in wire' : seg \in AllSegments /\ SentBy(End(seg.from)', seg)
  <2> SUFFICES ASSUME NEW seg \in wire'
               PROVE  seg \in AllSegments /\ SentBy(End(seg.from)', seg)
    OBVIOUS
  <2>1. CASE seg \in wire
    BY <2>1, SentLater DEF ConnInv, TypeOK, SegmentsSent
  <2>2. CASE seg \in Sendable("client", client')
    <3>1. seg \in AllSegments /\ seg.from = "client" /\ SentBy(client', seg)
      BY <2>2, SendableSent DEF EndsGrow
    <3> QED BY <3>1 DEF End
  <2>3. CASE seg \in Sendable("server", server')
    <3>1. seg \in AllSegments /\ seg.from = "server" /\ SentBy(server', seg)
      BY <2>3, SendableSent DEF EndsGrow, Agree
    <3> QED BY <3>1 DEF End
  <2> QED BY <2>1, <2>2, <2>3 DEF Sends
<1>2. SegmentsSent'
  <2>1. \A seg \in passed : "RST" \notin seg.flags => SentBy(End(seg.from)', seg)
    BY SentLater DEF ConnInv, TypeOK, SegmentsSent
  <2> QED BY <1>1, <2>1 DEF SegmentsSent
<1>3. TypeOK'
  BY <1>1 DEF ConnInv, TypeOK, EndsGrow
<1>4. /\ client.snd <= client'.snd /\ client.rcv <= client'.rcv /\ (~client.open => ~client'.open)
      /\ client \in Ends /\ client' \in Ends
  BY DEF ConnInv, TypeOK, EndsGrow, Grown
<1>5. FlowFollows'
  <2> SUFFICES ASSUME flow # None, opener = "client"
               PROVE  /\ flow.entry["IN"].seq <= client'.snd /\ flow.entry["IN"].ack <= client'.rcv
                      /\ flow.entry["IN"].seq > 0 => client'.rcv > 0 \/ ~client'.open
    BY DEF ConnInv, FlowFollows
  <2>1. flow.entry["IN"].seq \in 0 .. 2 /\ flow.entry["IN"].ack \in 0 .. 2
    BY DEF ConnInv, FlowFollows, Dirs
  <2> QED BY <1>4, <2>1 DEF ConnInv, FlowFollows, Ends
<1>6. ResetNumbers' /\ ResetAfterHandshake' /\ ResetNotAhead'
  BY DEF ResetNumbers, ResetAfterHandshake, ResetNotAhead
<1>7. MarkNamesClient'
  BY DEF ConnInv, MarkNamesClient
<1>8. ClosingIsTrue'
  <2>1. /\ client.snd = 2 => client'.snd = 2
        /\ server.snd = 2 => server'.snd = 2
    BY DEF ConnInv, TypeOK, EndsGrow, Grown, Ends
  <2> QED BY <2>1 DEF ConnInv, ClosingIsTrue
<1> QED BY <1>2, <1>3, <1>5, <1>6, <1>7, <1>8 DEF ConnInv, EndsGrow

LEMMA ConnectPreserves == ConnInv /\ Connect => ConnInv'
<1> SUFFICES ASSUME ConnInv, Connect PROVE ConnInv'
  OBVIOUS
<1>1. /\ client \in Ends /\ server \in Ends /\ Agree(client, server)
      /\ client.snd = 0 /\ client' = [client EXCEPT !.snd = 1] /\ server' = server
  BY DEF ConnInv, TypeOK, Connect
<1>2. /\ client' \in Ends /\ client'.snd = 1 /\ client'.rcv = client.rcv
      /\ client'.acked = client.acked
  BY <1>1 DEF Ends
<1>3. EndsGrow
  BY <1>1, <1>2 DEF EndsGrow, Grown, Agree, Ends
<1> QED BY <1>3, EndsPreserve DEF Connect

LEMMA ClosePreserves == ConnInv /\ Close => ConnInv'
<1> SUFFICES ASSUME ConnInv, Close PROVE ConnInv'
  OBVIOUS
<1>1. client \in Ends /\ server \in Ends /\ Agree(client, server)
  BY DEF ConnInv, TypeOK
<1>2. EndsGrow
  <2>1. CASE /\ client.snd = 1
             /\ client' = [client EXCEPT !.snd = 2] /\ server' = server
    <3>1. /\ client' \in Ends /\ client'.snd = 2 /\ client'.rcv = client.rcv
          /\ client'.acked = client.acked
      BY <1>1, <2>1 DEF Ends
    <3> QED BY <1>1, <2>1, <3>1 DEF EndsGrow, Grown, Agree, Ends
  <2>2. CASE /\ server.snd = 1
             /\ server' = [server EXCEPT !.snd = 2] /\ client' = client
    <3>1. /\ server' \in Ends /\ server'.snd = 2 /\ server'.rcv = server.rcv
          /\ server'.acked = server.acked
      BY <1>1, <2>2 DEF Ends
    <3> QED BY <1>1, <2>2, <3>1 DEF EndsGrow, Grown, Agree, Ends
  <2> QED BY <2>1, <2>2 DEF Close
<1> QED BY <1>2, EndsPreserve DEF Close

\* What an end that was reset answers was in its reach before the reset.
LEMMA RefusalSent ==
  ASSUME NEW to \in {"client", "server"}, NEW e \in Ends, NEW f \in Ends,
         NEW seg \in AllSegments, "RST" \notin seg.flags => SentBy(f, seg),
         f.rcv <= e.snd, ~e.open, seg.from # to, NEW ans \in Refusal(to, seg)
  PROVE  ans \in AllSegments /\ ans.from = to /\ SentBy(e, ans)
<1>1. CASE "RST" \notin seg.flags /\ "ACK" \in seg.flags
  <2>1. ans = Segment(to, {"RST"}, seg.ack, 0) /\ seg.ack <= f.rcv
    BY <1>1 DEF Refusal, SentBy
  <2>2. seg.ack <= e.snd /\ seg.ack \in 0 .. 2 /\ e.rcv >= 0
    BY <2>1 DEF AllSegments, Ends
  <2> QED BY <2>1, <2>2 DEF Segment, AllSegments, SentBy, TcpFlags
<1>2. CASE "RST" \notin seg.flags /\ "ACK" \notin seg.flags
  <2>1. seg.flags = {"SYN"} /\ seg.from = "client" /\ seg.seq = 0 /\ to = "server"
    BY <1>2 DEF SentBy
  <2>2. ans = Segment(to, {"RST", "ACK"}, 0, 1)
    BY <1>2, <2>1 DEF Refusal
  <2> QED BY <2>1, <2>2 DEF Segment, AllSegments, SentBy, TcpFlags, Ends
<1> QED BY <1>1, <1>2 DEF Refusal

LEMMA ReceivePreserves == ConnInv /\ Receive => ConnInv'
<1> SUFFICES ASSUME ConnInv, Receive PROVE ConnInv'
  OBVIOUS
<1>1. client \in Ends /\ server \in Ends /\ Agree(client, server)
  BY DEF ConnInv, TypeOK
<1>2. PICK seg \in passed :
        IF seg.from = "server"
          THEN /\ client' = IF client.open THEN Received(client, seg) ELSE client
               /\ UNCHANGED server
               /\ Sends(IF client.open THEN {} ELSE Refusal("client", seg))
          ELSE /\ server' = IF server.open THEN Received(server, seg) ELSE server
               /\ UNCHANGED client
               /\ Sends(IF server.open THEN {} ELSE Refusal("server", seg))
  BY DEF Receive
<1>3. seg \in AllSegments /\ ("RST" \notin seg.flags => SentBy(End(seg.from), seg))
  BY DEF ConnInv, TypeOK, SegmentsSent
<1>4. CASE seg.from = "server"
  <2> DEFINE extra == IF client.open THEN {} ELSE Refusal("client", seg)
  <2>1. "RST" \notin seg.flags => SentBy(server, seg)
    BY <1>3, <1>4 DEF End
  <2>2. EndsGrow
    <3>1. CASE client.open
      BY <1>1, <1>2, <1>3, <1>4, <2>1, <3>1, ReceivedGrows, ClientReceives
         DEF EndsGrow, Grown, Agree, Ends
    <3>2. CASE ~client.open
      BY <1>1, <1>2, <1>4, <3>2 DEF EndsGrow, Grown, Ends
    <3> QED BY <3>1, <3>2
  <2>3. \A ans \in extra : ans \in AllSegments /\ SentBy(End(ans.from)', ans)
    <3> SUFFICES ASSUME NEW ans \in extra
                 PROVE  ans \in AllSegments /\ SentBy(End(ans.from)', ans)
      OBVIOUS
    <3>1. ans \in Refusal("client", seg) /\ client' = client /\ ~client.open
      BY <1>2, <1>4
    <3>2. ans \in AllSegments /\ ans.from = "client" /\ SentBy(client, ans)
      BY <1>1, <1>3, <1>4, <2>1, <3>1, RefusalSent DEF Agree
    <3> QED BY <3>1, <3>2 DEF End
  <2>4. Sends(extra)
    BY <1>2, <1>4
  <2> HIDE DEF extra
  <2> QED BY <2>2, <2>3, <2>4, EndsPreserve DEF Receive
<1>5. CASE seg.from = "client"
  <2> DEFINE extra == IF server.open THEN {} ELSE Refusal("server", seg)
  <2>1. "RST" \notin seg.flags => SentBy(client, seg)
    BY <1>3, <1>5 DEF End
  <2>2. EndsGrow
    <3>1. CASE server.open
      BY <1>1, <1>2, <1>3, <1>5, <2>1, <3>1, ReceivedGrows, ServerReceives
         DEF EndsGrow, Grown, Agree, Ends
    <3>2. CASE ~server.open
      BY <1>1, <1>2, <1>5, <3>2 DEF EndsGrow, Grown, Ends
    <3> QED BY <3>1, <3>2
  <2>3. \A ans \in extra : ans \in AllSegments /\ SentBy(End(ans.from)', ans)
    <3> SUFFICES ASSUME NEW ans \in extra
                 PROVE  ans \in AllSegments /\ SentBy(End(ans.from)', ans)
      OBVIOUS
    <3>1. ans \in Refusal("server", seg) /\ server' = server /\ ~server.open
      BY <1>2, <1>5
    <3>2. ans \in AllSegments /\ ans.from = "server" /\ SentBy(server, ans)
      BY <1>1, <1>3, <1>5, <2>1, <3>1, RefusalSent DEF Agree
    <3> QED BY <3>1, <3>2 DEF End
  <2>4. Sends(extra)
    BY <1>2, <1>5
  <2> HIDE DEF extra
  <2> QED BY <2>2, <2>3, <2>4, EndsPreserve DEF Receive
<1> QED BY <1>3, <1>4, <1>5 DEF AllSegments

-----------------------------------------------------------------------------
\* What a segment does to the flow.

LEMMA TransferType ==
  ASSUME NEW old \in TcpStates, NEW event, NEW dir
  PROVE  tcp_state_transfer(old, event, dir) \in TcpStates
  BY DEF tcp_state_transfer, OnSyn, OnAck, OnFin, OnRst, TcpStates

\* Which events lead to a state: ESTABLISHED needs an ACK, the states of a
\* closing connection the FIN of their side.
LEMMA WhatLeadsTo ==
  ASSUME NEW old, NEW event, NEW dir
  PROVE  LET new == tcp_state_transfer(old, event, dir) IN
         /\ new = "ESTABLISHED" => event = "ACK"
         /\ new = "FIN_WAIT" => old = "FIN_WAIT" \/ (event = "FIN" /\ dir = "IN")
         /\ new = "TIME_WAIT" => old = "FIN_WAIT"
         /\ new = "CLOSE_WAIT" => old = "CLOSE_WAIT" \/ (event = "FIN" /\ dir # "IN")
  BY DEF tcp_state_transfer, OnSyn, OnAck, OnFin, OnRst

LEMMA EventOfFlags ==
  ASSUME NEW flags
  PROVE  /\ flags_to_events(flags) = "ACK" => flags = {"ACK"}
         /\ flags_to_events(flags) = "FIN" => "FIN" \in flags
  BY DEF flags_to_events

\* g is f after a segment of one side: its numbers are kept, all else is as it was.
Kept(f, g, dir, seg) ==
  \A d \in Dirs :
    /\ g.entry[d].mac <=> f.entry[d].mac
    /\ g.entry[d].sw_if_index = f.entry[d].sw_if_index
    /\ g.entry[d].seq = IF d = dir THEN seg.seq ELSE f.entry[d].seq
    /\ g.entry[d].ack = IF d = dir THEN seg.ack ELSE f.entry[d].ack

LEMMA TrackKeeps ==
  ASSUME NEW f \in FlowRecord, NEW dir \in Dirs, NEW seg \in AllSegments
  PROVE  LET g == tcp_track_sequence(f, dir, seg) IN
         /\ g \in FlowRecord /\ Kept(f, g, dir, seg)
         /\ g.three_way_handshake = f.three_way_handshake
<1> DEFINE e == [f.entry[dir] EXCEPT !.seq = seg.seq, !.ack = seg.ack]
           g == tcp_track_sequence(f, dir, seg)
<1> SUFFICES /\ g \in FlowRecord /\ Kept(f, g, dir, seg)
             /\ g.three_way_handshake = f.three_way_handshake
  OBVIOUS
<1>1. f.entry[dir] \in FlowEntry /\ seg.seq \in SeqNos /\ seg.ack \in SeqNos
  BY ConnectionConstants DEF FlowRecord, AllSegments
<1>2. /\ e \in FlowEntry
      /\ e.seq = seg.seq /\ e.ack = seg.ack
      /\ e.sw_if_index = f.entry[dir].sw_if_index /\ e.mac = f.entry[dir].mac
  BY <1>1 DEF FlowEntry
<1>3. g = [f EXCEPT !.entry[dir] = e]
  BY Zenon DEF tcp_track_sequence
<1> HIDE DEF e, g
<1>4. /\ g \in FlowRecord
      /\ g.three_way_handshake = f.three_way_handshake
      /\ g.entry[dir] = e
      /\ \A d \in Dirs : d # dir => g.entry[d] = f.entry[d]
  BY <1>2, <1>3 DEF FlowRecord
<1>5. Kept(f, g, dir, seg)
  BY <1>2, <1>4, Zenon DEF Kept
<1> QED BY <1>4, <1>5

LEMMA UpdateKeeps ==
  ASSUME NEW f \in FlowRecord, NEW dir \in Dirs, NEW seg \in AllSegments
  PROVE  LET g == tcp_update_state(f, dir, seg) IN
         /\ g \in FlowRecord /\ Kept(f, g, dir, seg)
         /\ g.three_way_handshake = f.three_way_handshake
         /\ g.state = tcp_state_transfer(f.state, flags_to_events(seg.flags), dir)
<1> DEFINE h == tcp_track_sequence(f, dir, seg)
           s == tcp_state_transfer(f.state, flags_to_events(seg.flags), dir)
           g == tcp_update_state(f, dir, seg)
<1> SUFFICES /\ g \in FlowRecord /\ Kept(f, g, dir, seg)
             /\ g.three_way_handshake = f.three_way_handshake
             /\ g.state = s
  OBVIOUS
<1>1. /\ h \in FlowRecord /\ Kept(f, h, dir, seg)
      /\ h.three_way_handshake = f.three_way_handshake
  BY TrackKeeps
<1>2. s \in TcpStates
  BY TransferType DEF FlowRecord
<1>3. g = [h EXCEPT !.state = s]
  BY Zenon DEF tcp_update_state
<1> HIDE DEF g, h, s
<1>4. /\ g \in FlowRecord /\ g.entry = h.entry /\ g.state = s
      /\ g.three_way_handshake = f.three_way_handshake
  BY <1>1, <1>2, <1>3 DEF FlowRecord
<1> QED BY <1>1, <1>4, Zenon DEF Kept

LEMMA InitKeeps ==
  ASSUME NEW f \in FlowRecord, NEW dir \in Dirs, NEW seg \in AllSegments
  PROVE  LET g == tcp_init_state(f, dir, seg) IN
         /\ g \in FlowRecord /\ Kept(f, g, dir, seg)
         /\ g.three_way_handshake <=> f.three_way_handshake \/ seg.flags = {"SYN"}
         /\ g.state = tcp_state_transfer("START", flags_to_events(seg.flags), dir)
<1> DEFINE h == tcp_track_sequence(f, dir, seg)
           s == tcp_state_transfer("START", flags_to_events(seg.flags), dir)
           m == h.three_way_handshake \/ seg.flags = {"SYN"}
           g == tcp_init_state(f, dir, seg)
<1> SUFFICES /\ g \in FlowRecord /\ Kept(f, g, dir, seg)
             /\ g.three_way_handshake <=> f.three_way_handshake \/ seg.flags = {"SYN"}
             /\ g.state = s
  OBVIOUS
<1>1. /\ h \in FlowRecord /\ Kept(f, h, dir, seg)
      /\ h.three_way_handshake = f.three_way_handshake
  BY TrackKeeps
<1>2. s \in TcpStates
  BY TransferType DEF TcpStates
<1>3. m \in BOOLEAN /\ (m <=> f.three_way_handshake \/ seg.flags = {"SYN"})
  BY <1>1, Zenon
<1>4. g = [h EXCEPT !.three_way_handshake = m, !.state = s]
  BY Zenon DEF tcp_init_state
<1> HIDE DEF g, h, s, m
<1>5. /\ g \in FlowRecord /\ g.entry = h.entry /\ g.state = s
      /\ g.three_way_handshake = m
  BY <1>1, <1>2, <1>3, <1>4 DEF FlowRecord
<1> QED BY <1>1, <1>3, <1>5, Zenon DEF Kept

LEMMA NewFlowStarts ==
  ASSUME NEW key \in FlowKeys, NEW in \in Interfaces
  PROVE  LET f == NewFlow(key, in) IN
         /\ f \in FlowRecord
         /\ ~f.three_way_handshake /\ ~f.entry["OUT"].mac
         /\ f.entry["IN"].sw_if_index = in
         /\ \A d \in Dirs : f.entry[d].seq = 0 /\ f.entry[d].ack = 0
<1> DEFINE f0 == [ZeroFlow EXCEPT !.refcount = 1]
           e1 == [ZeroEntry EXCEPT !.key = key]
           f1 == flow_table_update_flow(f0, key, "IN")
           e2 == [e1 EXCEPT !.sw_if_index = in]
           f2 == flow_table_init_flow(f0, key, in, "IN")
           e3 == [e2 EXCEPT !.mac = TRUE, !.vlan = key.vlan]
           Is(f, e) == /\ f \in FlowRecord /\ ~f.three_way_handshake
                       /\ f.entry["IN"] = e /\ f.entry["OUT"] = ZeroEntry
<1>1. ZeroEntry \in FlowEntry /\ ~ZeroEntry.mac /\ ZeroEntry.seq = 0 /\ ZeroEntry.ack = 0
  BY FlowConstants DEF ZeroEntry, FlowEntry
<1>2. /\ e1 \in FlowEntry /\ e2 \in FlowEntry /\ e3 \in FlowEntry
      /\ e3.sw_if_index = in /\ e3.seq = 0 /\ e3.ack = 0
  BY <1>1 DEF FlowEntry, FlowKeys
<1>3. Is(f0, ZeroEntry)
  <2>1. /\ ZeroFlow \in FlowRecord /\ ~ZeroFlow.three_way_handshake
        /\ ZeroFlow.entry["IN"] = ZeroEntry /\ ZeroFlow.entry["OUT"] = ZeroEntry
    BY <1>1 DEF ZeroFlow, FlowRecord, TcpStates, Dirs
  <2> QED BY <2>1 DEF FlowRecord
<1>4. f1 = [f0 EXCEPT !.entry["IN"] = e1]
  <2>1. f1 = [f0 EXCEPT !.entry["IN"] = [f0.entry["IN"] EXCEPT !.key = key]]
    BY Zenon DEF flow_table_update_flow
  <2> QED BY <1>3, <2>1, Zenon
<1>5. f2 = [f1 EXCEPT !.key = key, !.entry["IN"] = [f1.entry["IN"] EXCEPT !.sw_if_index = in]]
  BY Zenon DEF flow_table_init_flow
<1>6. NewFlow(key, in) =
        [f2 EXCEPT !.entry["IN"] = [f2.entry["IN"] EXCEPT !.mac = TRUE, !.vlan = key.vlan]]
  BY Zenon DEF NewFlow
<1> HIDE DEF f0, f1, f2, e1, e2, e3
<1>7. Is(f1, e1)
  BY <1>2, <1>3, <1>4 DEF FlowRecord, Dirs
<1>8. Is(f2, e2)
  <2>1. f1.entry["IN"] = e1
    BY <1>7
  <2>2. f2 = [f1 EXCEPT !.key = key, !.entry["IN"] = e2]
    BY <1>5, <2>1, Zenon DEF e2
  <2> QED BY <1>2, <1>7, <2>2 DEF FlowRecord, Dirs
<1>9. Is(NewFlow(key, in), e3)
  <2>1. f2.entry["IN"] = e2
    BY <1>8
  <2>2. NewFlow(key, in) = [f2 EXCEPT !.entry["IN"] = e3]
    BY <1>6, <2>1, Zenon DEF e3
  <2> QED BY <1>2, <1>8, <2>2 DEF FlowRecord, Dirs
<1> QED BY <1>1, <1>2, <1>9, Zenon DEF Dirs

-----------------------------------------------------------------------------
\* Steps of the bridge.

\* The parts of the invariant that are about the resets and the flow.
ResetsInv ==
  /\ \A frame \in resets : frame.to \in Interfaces \cup {0} /\ frame.seq \in SeqNos
  /\ ResetNumbers /\ ResetAfterHandshake /\ ResetNotAhead

FlowInv ==
  /\ flow \in FlowRecord \cup {None} /\ opener \in {"client", "server"}
  /\ FlowFollows /\ MarkNamesClient /\ ClosingIsTrue
  /\ ResetsInv

LEMMA IgnorePreserves ==
  ASSUME ConnInv, Ignore, UNCHANGED <<client, server>>
  PROVE  FlowInv'
<1>1. /\ flow' = flow /\ opener' = opener /\ resets' = {}
      /\ client' = client /\ server' = server
  BY DEF Ignore
<1>2. End(opener)' = End(opener)
  BY <1>1 DEF End
<1> QED BY <1>1, <1>2 DEF ConnInv, TypeOK, FlowInv, ResetsInv, FlowFollows, ResetNumbers,
     ResetAfterHandshake, ResetNotAhead, MarkNamesClient, ClosingIsTrue

LEMMA TrackPreserves ==
  ASSUME ConnInv, NEW seg \in wire, Track(seg), UNCHANGED <<client, server>>
  PROVE  FlowInv'
<1>1. /\ seg \in AllSegments /\ SentBy(End(seg.from), seg)
      /\ client \in Ends /\ server \in Ends
  BY DEF ConnInv, TypeOK, SegmentsSent
<1>2. PICK key \in FlowKeys, in \in Interfaces :
        /\ flow' = tcp_init_state(NewFlow(key, in), "IN", seg)
        /\ seg.from = "client" => in = ClientSide
  <2>1. Key \in FlowKeys /\ flow_key_reverse(Key) \in FlowKeys
    BY ConnectionConstants DEF flow_key_reverse, FlowKeys
  <2>2. ClientSide \in Interfaces /\ ServerSide \in Interfaces
    BY ConnectionConstants
  <2> QED BY <2>1, <2>2 DEF Track
<1> DEFINE f == NewFlow(key, in)
<1>3. /\ f \in FlowRecord
      /\ ~f.three_way_handshake /\ ~f.entry["OUT"].mac
      /\ f.entry["IN"].sw_if_index = in
      /\ \A d \in Dirs : f.entry[d].seq = 0 /\ f.entry[d].ack = 0
  BY NewFlowStarts
<1> HIDE DEF f
<1>4. /\ flow' \in FlowRecord /\ Kept(f, flow', "IN", seg)
      /\ flow'.three_way_handshake <=> f.three_way_handshake \/ seg.flags = {"SYN"}
      /\ flow'.state = tcp_state_transfer("START", flags_to_events(seg.flags), "IN")
  BY <1>1, <1>2, <1>3, InitKeeps DEF f, Dirs
<1>5. opener' = seg.from /\ resets' = {} /\ End(opener)' = End(seg.from)
  BY DEF Track, End
<1>6. opener' \in {"client", "server"}
  BY <1>1, <1>5 DEF AllSegments
<1>7. FlowFollows'
  <2>1. /\ flow'.entry["IN"].seq = seg.seq /\ flow'.entry["IN"].ack = seg.ack
        /\ flow'.entry["OUT"].seq = 0 /\ flow'.entry["OUT"].ack = 0
        /\ flow'.entry["IN"].sw_if_index = in
    BY <1>3, <1>4 DEF Kept, Dirs
  <2>2. ~flow'.entry["OUT"].mac
    BY <1>3, <1>4, Zenon DEF Kept, Dirs
  <2>3. /\ seg.seq \in 0 .. 2 /\ seg.ack \in 0 .. 2
        /\ seg.from = "client" =>
             /\ seg.seq <= client.snd /\ seg.ack <= client.rcv
             /\ seg.seq > 0 => client.rcv > 0 \/ ~client.open
    BY <1>1 DEF AllSegments, SentBy, End
  <2> QED BY <1>2, <1>5, <2>1, <2>2, <2>3 DEF FlowFollows, Dirs
<1>8. MarkNamesClient'
  <2>1. flow'.three_way_handshake => seg.from = "client"
    BY <1>1, <1>3, <1>4, Zenon DEF SentBy
  <2> QED BY <1>5, <2>1 DEF MarkNamesClient
<1>9. ClosingIsTrue'
  <2>1. flow'.state \notin {"FIN_WAIT", "TIME_WAIT", "CLOSE_WAIT"}
    BY <1>4 DEF tcp_state_transfer, OnSyn, OnAck, OnFin, OnRst
  <2> QED BY <2>1 DEF ClosingIsTrue
<1>10. ResetsInv'
  BY <1>5 DEF ResetsInv, ResetNumbers, ResetAfterHandshake, ResetNotAhead
<1> QED BY <1>4, <1>5, <1>6, <1>7, <1>8, <1>9, <1>10 DEF FlowInv

LEMMA TrackAgainPreserves ==
  ASSUME ConnInv, NEW seg \in wire, TrackAgain(seg), UNCHANGED <<client, server>>
  PROVE  FlowInv'
<1> DEFINE dir == IF seg.from = opener THEN "IN" ELSE "OUT"
           event == flags_to_events(seg.flags)
<1>1. /\ seg \in AllSegments /\ SentBy(End(seg.from), seg)
      /\ client \in Ends /\ server \in Ends /\ Agree(client, server)
      /\ opener \in {"client", "server"}
  BY DEF ConnInv, TypeOK, SegmentsSent
<1>2. /\ flow # None /\ flow \in FlowRecord /\ flow' = tcp_update_state(flow, dir, seg)
      /\ IF WantsReset(flow') THEN resets' \in tcp_send_reset(flow') ELSE resets' = {}
      /\ opener' = opener /\ client' = client /\ server' = server
  BY DEF ConnInv, TypeOK, TrackAgain
<1>3. dir \in Dirs /\ (dir = "IN" <=> seg.from = opener)
  BY DEF Dirs
<1>4. /\ flow' \in FlowRecord /\ Kept(flow, flow', dir, seg)
      /\ flow'.three_way_handshake = flow.three_way_handshake
      /\ flow'.state = tcp_state_transfer(flow.state, event, dir)
  BY <1>1, <1>2, <1>3, UpdateKeeps
<1> HIDE DEF dir, event
<1>5. End(opener)' = End(opener)
  BY <1>2 DEF End
\* The record is not compared with None here: the facts hold of what it is.
<1>6. /\ \A d \in Dirs : flow'.entry[d].seq \in 0 .. 2 /\ flow'.entry[d].ack \in 0 .. 2
      /\ opener = "client" =>
           /\ flow'.entry["IN"].sw_if_index = ClientSide
           /\ flow'.entry["IN"].seq <= client.snd /\ flow'.entry["IN"].ack <= client.rcv
           /\ flow'.entry["IN"].seq > 0 => client.rcv > 0 \/ ~client.open
      /\ ~flow'.entry["OUT"].mac
  <2>1. \A d \in Dirs : flow'.entry[d].seq \in 0 .. 2 /\ flow'.entry[d].ack \in 0 .. 2
    BY <1>1, <1>2, <1>4 DEF ConnInv, FlowFollows, Kept, AllSegments
  <2>2. /\ flow'.entry["IN"].sw_if_index = flow.entry["IN"].sw_if_index
        /\ opener = "client" =>
             /\ flow'.entry["IN"].seq <= client.snd /\ flow'.entry["IN"].ack <= client.rcv
             /\ flow'.entry["IN"].seq > 0 => client.rcv > 0 \/ ~client.open
    <3>1. CASE dir = "IN"
      BY <1>1, <1>3, <1>4, <3>1 DEF Kept, SentBy, Dirs, End
    <3>2. CASE dir # "IN"
      BY <1>2, <1>4, <3>2 DEF ConnInv, FlowFollows, Kept, Dirs
    <3> QED BY <3>1, <3>2
  <2>3. ~flow'.entry["OUT"].mac
    BY <1>2, <1>4, Zenon DEF ConnInv, FlowFollows, Kept, Dirs
  <2> QED BY <1>2, <2>1, <2>2, <2>3 DEF ConnInv, FlowFollows
<1>7. flow'.three_way_handshake => opener = "client"
  BY <1>2, <1>4 DEF ConnInv, MarkNamesClient
<1>8. ClosingIsTrue'
  <2>1. /\ flow'.state = "FIN_WAIT" => flow.state = "FIN_WAIT" \/ (event = "FIN" /\ dir = "IN")
        /\ flow'.state = "TIME_WAIT" => flow.state = "FIN_WAIT"
        /\ flow'.state = "CLOSE_WAIT" => flow.state = "CLOSE_WAIT" \/ (event = "FIN" /\ dir # "IN")
    BY <1>4, WhatLeadsTo
  <2>2. event = "FIN" => End(seg.from).snd = 2
    BY <1>1, EventOfFlags DEF event, SentBy
  <2>3. seg.from \in {"client", "server"}
    BY <1>1 DEF AllSegments
  <2> QED BY <1>1, <1>2, <1>3, <2>1, <2>2, <2>3 DEF ConnInv, ClosingIsTrue, End
\* A reset is sent on a bare ACK, which either end sends once it has received
\* something. A client that has not would only obey a reset that has its next
\* number, and the flow has none from it but that of the SYN.
<1>9. ASSUME WantsReset(flow') PROVE ResetsInv'
  <2>1. flow'.state = "ESTABLISHED" /\ flow'.three_way_handshake
    BY <1>9 DEF WantsReset
  <2>2. opener = "client" /\ End(opener) = client
    BY <1>7, <2>1 DEF End
  <2>3. seg.flags = {"ACK"}
    BY <1>4, <2>1, WhatLeadsTo, EventOfFlags DEF event
  <2>4. server.rcv > 0
    <3>1. End(seg.from).rcv > 0 /\ seg.from \in {"client", "server"}
      BY <1>1, <2>3 DEF SentBy, AllSegments
    <3> QED BY <1>1, <3>1 DEF End, Agree
  <2>5. \A frame \in resets' : frame = ResetFrame(flow', "IN")
    BY <1>2, <1>6, <1>9 DEF tcp_send_reset, Dirs
  <2>6. \A frame \in resets' :
           /\ frame.to = ClientSide
           /\ frame.seq = flow'.entry["IN"].ack /\ frame.ack = flow'.entry["IN"].seq
    BY <1>6, <2>2, <2>5 DEF ResetFrame
  <2>7. flow'.entry["IN"].seq \in 0 .. 2 /\ flow'.entry["IN"].ack \in 0 .. 2
    BY <1>6 DEF Dirs
  <2>8. ClientSide \in Interfaces /\ flow'.entry["IN"].ack \in SeqNos
    BY <2>7, ConnectionConstants
  <2>9. ASSUME NEW frame \in resets', Counts(client, ResetFlags, frame.seq, frame.ack)
        PROVE  client.acked
    <3>1. CASE client.rcv = 0
      <4>1. client.open /\ frame.ack = client.snd /\ client.snd > 0
        BY <2>9, <3>1 DEF Counts
      <4> QED BY <1>1, <1>6, <2>2, <2>6, <3>1, <4>1 DEF Ends
    <3>2. CASE client.rcv # 0
      BY <1>1, <3>2 DEF Agree, Ends
    <3> QED BY <3>1, <3>2
  <2>10. ResetAfterHandshake'
    BY <1>2, <2>4, <2>9 DEF ResetAfterHandshake
  <2> QED
    BY <1>2, <1>6, <2>2, <2>6, <2>7, <2>8, <2>10
    DEF ResetsInv, ResetNumbers, ResetNotAhead
<1>10. ASSUME ~WantsReset(flow') PROVE ResetsInv'
  BY <1>2, <1>10 DEF ResetsInv, ResetNumbers, ResetAfterHandshake, ResetNotAhead
<1>11. FlowFollows' /\ MarkNamesClient'
  BY <1>2, <1>5, <1>6, <1>7 DEF FlowFollows, MarkNamesClient
<1> QED BY <1>1, <1>2, <1>4, <1>8, <1>9, <1>10, <1>11 DEF FlowInv

\* The resets of the bridge are segments, with no claim about the ends.
LEMMA InjectedType ==
  ASSUME NEW frames, \A frame \in frames : frame.seq \in 0 .. 2 /\ frame.ack \in 0 .. 2,
         NEW seg \in Injected(frames)
  PROVE  seg \in AllSegments /\ "RST" \in seg.flags
<1>1. PICK frame \in frames, from \in {"client", "server"} :
        seg = Segment(from, {"RST", "ACK"}, frame.seq, frame.ack)
  BY DEF Injected, ResetFlags
<1> QED BY <1>1 DEF Segment, AllSegments, TcpFlags

LEMMA BridgePreserves == ConnInv /\ Bridge => ConnInv'
<1> SUFFICES ASSUME ConnInv, Bridge PROVE ConnInv'
  OBVIOUS
<1>1. PICK seg \in wire :
        /\ Track(seg) \/ TrackAgain(seg) \/ Ignore
        /\ passed' \subseteq passed \cup {seg} \cup Injected(resets')
  BY DEF Bridge
<1>2. UNCHANGED <<client, server, wire, hooked>>
  BY DEF Bridge
<1>3. FlowInv'
  BY <1>1, <1>2, TrackPreserves, TrackAgainPreserves, IgnorePreserves
<1>4. \A late \in passed' :
        late \in AllSegments /\ ("RST" \notin late.flags => SentBy(End(late.from), late))
  <2> SUFFICES ASSUME NEW late \in passed'
               PROVE  /\ late \in AllSegments
                      /\ "RST" \notin late.flags => SentBy(End(late.from), late)
    OBVIOUS
  <2>1. CASE late \in passed
    BY <2>1 DEF ConnInv, TypeOK, SegmentsSent
  <2>2. CASE late = seg
    BY <2>2 DEF ConnInv, TypeOK, SegmentsSent
  <2>3. CASE late \in Injected(resets')
    BY <1>3, <2>3, InjectedType DEF FlowInv, ResetsInv, ResetNumbers
  <2> QED BY <1>1, <2>1, <2>2, <2>3
<1>5. SegmentsSent'
  BY <1>2, <1>4 DEF ConnInv, SegmentsSent, End
<1>6. TypeOK'
  BY <1>2, <1>3, <1>4 DEF ConnInv, TypeOK, FlowInv, ResetsInv
<1> QED BY <1>2, <1>3, <1>5, <1>6 DEF ConnInv, FlowInv, ResetsInv

LEMMA EnablePreserves == ConnInv /\ Enable => ConnInv'
<1> SUFFICES ASSUME ConnInv, Enable PROVE ConnInv'
  OBVIOUS
<1>1. UNCHANGED <<client, server, wire, passed, flow, opener>> /\ resets' = {} /\ hooked' \in BOOLEAN
  BY DEF Enable
<1> QED BY <1>1 DEF ConnInv, TypeOK, SegmentsSent, FlowFollows, ResetNumbers,
     ResetAfterHandshake, ResetNotAhead, MarkNamesClient, ClosingIsTrue, End

-----------------------------------------------------------------------------
\* The theorems.

LEMMA ConnInvInit == Init => ConnInv
<1> SUFFICES ASSUME Init PROVE ConnInv
  OBVIOUS
<1>1. Agree(client, server) /\ client \in Ends /\ server \in Ends
  BY StartIsAnEnd DEF Init, Start, Agree
<1> QED BY <1>1 DEF Init, ConnInv, TypeOK, SegmentsSent, FlowFollows, ResetNumbers,
     ResetAfterHandshake, ResetNotAhead, MarkNamesClient, ClosingIsTrue

LEMMA ConnInvStep == ConnInv /\ [Next]_vars => ConnInv'
<1>1. ConnInv /\ UNCHANGED vars => ConnInv'
  BY DEF vars, ConnInv, TypeOK, SegmentsSent, FlowFollows, ResetNumbers,
     ResetAfterHandshake, ResetNotAhead, MarkNamesClient, ClosingIsTrue, End
<1> QED BY <1>1, ConnectPreserves, ClosePreserves, ReceivePreserves, EnablePreserves,
     BridgePreserves DEF Next

LEMMA ConnInvariant == Spec => []ConnInv
  BY ConnInvInit, ConnInvStep, PTL DEF Spec

\* The two ends, the segments and the flow between them stay well typed.
THEOREM ConnectionTypeCorrect == Spec => []TypeOK
  BY ConnInvariant, PTL DEF ConnInv

\* However many segments are lost, repeated or overtaken: tcp_update_state asks for
\* no reset before the server has answered the client, and one that is sent in the
\* middle of the handshake is one the client ignores.
THEOREM ResetsAfterHandshake == Spec => []ResetAfterHandshake
  BY ConnInvariant, PTL DEF ConnInv

\* tcp_send_reset never sends a number that is ahead of the client.
THEOREM ResetsNotAhead == Spec => []ResetNotAhead
  BY ConnInvariant, PTL DEF ConnInv

\* The mark of tcp_init_state is set only in a flow that the client opened.
THEOREM MarksNameClients == Spec => []MarkNamesClient
  BY ConnInvariant, PTL DEF ConnInv

\* A closing state of the flow stands for a FIN that its side has sent.
THEOREM ClosingsAreTrue == Spec => []ClosingIsTrue
  BY ConnInvariant, PTL DEF ConnInv
=============================================================================
