------------------------------ MODULE FlowConns ------------------------------
(***************************************************************************)
(* The flow table implements ConnTable. A flow in use is a connection; the *)
(* reverse entry, the hash table, the buffers and the timers are hidden.   *)
(***************************************************************************)
EXTENDS FlowTable

ConnOf(f) ==
  IF f.refcount = 0 THEN None
  ELSE [key |-> f.key, via |-> f.entry["IN"].sw_if_index, state |-> f.state,
        watched |-> f.three_way_handshake,
        last |-> [d \in Dirs |-> [seq |-> f.entry[d].seq, ack |-> f.entry[d].ack]]]

Conns == [i \in FlowIdx |-> ConnOf(flows[i])]

Promise == INSTANCE ConnTable WITH Slots <- FlowIdx, conns <- Conns

ASSUME ConnConstants == None \notin Promise!Conn

\* The flow table keeps the promise of ConnTable, whatever order the hooks of
\* its packets run in, even when one connection is split into two flows: a
\* packet moves a flow of its own connection, in the direction it travels, and
\* resets only answer the opener. It takes a hash without collisions and a hash
\* table that never moves; ip4_input_process and ip4_output_process do not
\* look at what they find.
ConnSpec == Promise!Spec
=============================================================================
