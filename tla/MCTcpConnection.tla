-------------------------- MODULE MCTcpConnection --------------------------
(***************************************************************************)
(* An instance of TcpConnection for TLC. The numbers of the server's entry  *)
(* are written and never read, as the server is not reset, so ConnView     *)
(* leaves them out.                                                        *)
(***************************************************************************)
EXTENDS TcpConnection

MCKey == [src |-> "client", dst |-> "server", src_port |-> 1, dst_port |-> 2,
          protocol |-> TCP, vlan |-> 0]

Tracked ==
  IF flow = None THEN None
  ELSE <<flow.state, flow.three_way_handshake, flow.entry["IN"], flow.entry["OUT"].mac>>

ConnView == <<client, server, wire, passed, hooked, Tracked, opener, resets>>
=============================================================================
