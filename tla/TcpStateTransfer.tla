-------------------------- MODULE TcpStateTransfer --------------------------
(***************************************************************************)
(* The TCP connection tracker's tables (core/proto/tcp_state_transfer.h).  *)
(* The bridge watches both directions of a connection; a tracked flow has  *)
(* one state, driven by an event per packet and by the packet's direction. *)
(***************************************************************************)

TcpStates == {"START", "CLOSE", "SYN_SENT", "SYN_RCVD", "ESTABLISHED",
              "FIN_WAIT", "CLOSE_WAIT", "TIME_WAIT", "UNKNOWN"}

TcpEvents == {"UNKNOWN", "SYN", "ACK", "FIN", "RST"}

\* TCP_FLAG_CONCERNED: the flags left after the mask, the others are ignored.
TcpFlags == {"SYN", "ACK", "FIN", "RST"}

\* IN is the direction of the packet that created the flow.
Dirs == {"IN", "OUT"}

\* flags_events_map: every combination that is not listed is event 0, UNKNOWN.
flags_to_events(flags) ==
  CASE flags \in {{"SYN"}, {"SYN", "ACK"}} -> "SYN"
    [] flags = {"ACK"}                     -> "ACK"
    [] flags \in {{"FIN"}, {"FIN", "ACK"}} -> "FIN"
    [] flags = {"RST"}                     -> "RST"
    [] OTHER                               -> "UNKNOWN"

\* Mutant: a SYN reopens a flow that is UNKNOWN.
OnSynReopens(old) ==
  CASE old \in {"START", "CLOSE", "TIME_WAIT", "UNKNOWN"} -> "SYN_SENT"
    [] old = "SYN_SENT" -> "SYN_RCVD"
    [] OTHER            -> "UNKNOWN"

\* The rows of for_each_tcp_state_transfer_entry, one operator per event.
OnSyn(old) ==
  CASE old \in {"START", "CLOSE", "TIME_WAIT"} -> "SYN_SENT"
    [] old = "SYN_SENT"                        -> "SYN_RCVD"
    [] OTHER                                   -> "UNKNOWN"

OnAck(old) ==
  CASE old \in {"CLOSE_WAIT", "FIN_WAIT"} -> old
    [] old \in {"TIME_WAIT", "UNKNOWN"}   -> "UNKNOWN"
    [] OTHER                              -> "ESTABLISHED"

\* Mutant: the directions are swapped.
OnFin_swapped(old, dir) ==
  CASE old = "ESTABLISHED"              -> IF dir = "OUT" THEN "FIN_WAIT" ELSE "CLOSE_WAIT"
    [] old = "FIN_WAIT"                 -> "TIME_WAIT"
    [] old \in {"TIME_WAIT", "UNKNOWN"} -> "UNKNOWN"
    [] OTHER                            -> "CLOSE"

OnFin(old, dir) ==
  CASE old = "ESTABLISHED"              -> IF dir = "IN" THEN "FIN_WAIT" ELSE "CLOSE_WAIT"
    [] old = "FIN_WAIT"                 -> "TIME_WAIT"
    [] old \in {"TIME_WAIT", "UNKNOWN"} -> "UNKNOWN"
    [] OTHER                            -> "CLOSE"

OnRst(old) == IF old = "UNKNOWN" THEN "UNKNOWN" ELSE "CLOSE"

tcp_state_transfer(old, event, dir) ==
  CASE event = "SYN" -> OnSyn(old)
    [] event = "ACK" -> OnAck(old)
    [] event = "FIN" -> OnFin(old, dir)
    [] event = "RST" -> OnRst(old)
    [] OTHER         -> "UNKNOWN"
=============================================================================
