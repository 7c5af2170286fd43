------------------------------ MODULE FlowTable ------------------------------
(***************************************************************************)
(* One worker's flow table, driven by the packets of an L2 bridge.         *)
(*                                                                         *)
(* The worker owns a pool of flows, a hash table from hashed keys to flow  *)
(* entries and a timer wheel (flow_table_wrk_ctx_t); nobody else touches   *)
(* them. A buffer passes the hook nodes of the graph: ip4_pre_process and  *)
(* ip4_input_process when it comes in on an interface that is enabled,     *)
(* ip4_output_process when it leaves by one. In between it carries its     *)
(* flow's index in its first data word, and other buffers, of the same     *)
(* connection or not, are processed: the two hooks of one packet are two   *)
(* separate steps. The first data word outlives the packet: it is in the   *)
(* buffer's memory, and the next packet gets the buffer as it is.          *)
(***************************************************************************)
EXTENDS Flow, FlowTimer, FiniteSets

CONSTANTS
  Buffers,
  Packets,    \* the packets the bridged hosts may send
  HashVals,   \* the 64-bit values of flow_table_hash
  FlowHash,   \* flow_table_hash, as a function of the key
  GrowAt      \* entries at which vppinfra's hash table moves to a larger one

ASSUME TableConstants ==
  /\ Packets \subseteq Packet
  /\ FlowHash \in [FlowKeys -> HashVals]
  /\ GrowAt \in Nat
  /\ None \notin FlowIdx \X Dirs

VARIABLES
  hooked,        \* the interfaces vnetfilter is enabled on
  flows,         \* the pool
  table,         \* hash value -> flow entry
  table_stale,   \* flows_hash_table is the address of a table that has moved
  bufs,          \* the buffers
  resets         \* the RST frames the last step handed to output nodes

vars == <<hooked, flows, table, table_stale, bufs, resets, timerVars>>

FLOW_UNSET == 0

\* phase: "free", or the way the packet came in: "flow" (the input hook stored
\* its flow), "noflow" (the pool was full), "unhooked" (the hook was not
\* enabled there). slot: the first data word.
Buffer == [phase: {"free", "flow", "noflow", "unhooked"},
           pkt: Packet \cup {None}, in: Interfaces \cup {0}, slot: FlowIdx]

Frame == [to: Interfaces \cup {0}, key: FlowKeys,
          vlan: Vlans, seq: SeqNos, ack: SeqNos]

TypeOK ==
  /\ hooked \subseteq Interfaces
  /\ flows \in [FlowIdx -> FlowRecord]
  /\ table \in [HashVals -> (FlowIdx \X Dirs) \cup {None}]
  /\ table_stale \in BOOLEAN
  /\ bufs \in [Buffers -> Buffer]
  /\ resets \subseteq Frame
  /\ TimerTypeOK

FreeBuffer(slot) == [phase |-> "free", pkt |-> None, in |-> 0, slot |-> slot]

Init ==
  /\ hooked = {}
  /\ flows = [i \in FlowIdx |-> ZeroFlow]
  /\ table = [h \in HashVals |-> None]
  /\ table_stale = FALSE
  /\ bufs = [b \in Buffers |-> FreeBuffer(0)]
  /\ resets = {}
  /\ TimerInit

-----------------------------------------------------------------------------
\* The hash table. The code calls hash_set on a local copy of the pointer, so
\* when the table grows the copy moves and wrk->flows_hash_table does not. From
\* then on the worker reads memory that was given back: it may still see what
\* was there or nothing, and what it stores may be kept or lost. (That others
\* may write there by then is left out.)
hash_get(hash, value) ==
  value = table[hash] \/ (table_stale /\ value = None)

Grows(t) == Cardinality({h \in HashVals : t[h] # None}) >= GrowAt

\* Mutants: the entry is not stored; the flow's first entry is stored always.
hash_set_lost(hash, value) == UNCHANGED <<table, table_stale>>

hash_set_first(hash, value) ==
  /\ table' = [table EXCEPT ![hash] = <<value[1], "IN">>]
  /\ UNCHANGED table_stale

hash_set(hash, value) ==
  /\ \/ table' = [table EXCEPT ![hash] = value]
     \/ table_stale /\ UNCHANGED table
  /\ table_stale' = (table_stale \/ Grows(table'))

\* Mutant: an exhausted pool takes flow 0 again, its entries stay in the table.
pool_get_recycling(i) ==
  \/ flows[i].refcount = 0 /\ \A j \in 0 .. i - 1 : flows[j].refcount = 1
  \/ i = 0 /\ \A j \in FlowIdx : flows[j].refcount = 1

\* pool_get: the pool hands out its indices in order, flows are never put back.
pool_get(i) ==
  /\ flows[i].refcount = 0
  /\ \A j \in 0 .. i - 1 : flows[j].refcount = 1

pool_full == \A i \in FlowIdx : flows[i].refcount = 1

\* Mutant: a flow's timer is started, not updated, on every packet.
UpdateTimerRestarts(i, pkt) ==
  IF pkt.protocol = TCP THEN flow_expiration_timer_set(i) ELSE UNCHANGED timerVars

\* Only the TCP handler touches the timer.
UpdateTimer(i, pkt) ==
  IF pkt.protocol = TCP THEN flow_expiration_timer_update(i)
  ELSE UNCHANGED timerVars

\* Mutant: the flow's index is not stored in the buffer.
ArriveUnset(b, phase, pkt, in, slot) ==
  bufs' = [bufs EXCEPT ![b] = [phase |-> phase, pkt |-> pkt, in |-> in,
                               slot |-> bufs[b].slot]]

\* A buffer comes in: vlib_buffer_init_flow, then vlib_buffer_set_flow.
Arrive(b, phase, pkt, in, slot) ==
  bufs' = [bufs EXCEPT ![b] = [phase |-> phase, pkt |-> pkt, in |-> in, slot |-> slot]]

-----------------------------------------------------------------------------
\* The input side, on an enabled interface: ip4_pre_process resets the word,
\* ip4_input_process looks the key up. All of it is one step of the node.

\* The key is not in the table and the pool has a flow.
ip4_input_create(b, pkt, in) ==
  LET key == parse_key(pkt) IN
  /\ hash_get(FlowHash[key], None)
  /\ \E i \in FlowIdx :
       /\ pool_get(i)
       /\ flows' = [flows EXCEPT ![i] = init_state(NewFlow(key, in), "IN", pkt)]
       /\ hash_set(FlowHash[key], <<i, "IN">>)
       /\ Arrive(b, "flow", pkt, in, i)
       /\ UpdateTimer(i, pkt)
  /\ resets' = {}
  /\ UNCHANGED hooked

\* The pool is exhausted: the packet is accepted with the word at FLOW_UNSET.
ip4_input_full(b, pkt, in) ==
  /\ hash_get(FlowHash[parse_key(pkt)], None)
  /\ pool_full
  /\ Arrive(b, "noflow", pkt, in, FLOW_UNSET)
  /\ resets' = {}
  /\ UNCHANGED <<hooked, flows, table, table_stale, timerVars>>

\* The key's hash is in the table: the entry found there is taken, whatever
\* its key is, and its position in the flow is the packet's direction.
ip4_input_update(b, pkt, in) ==
  \E i \in FlowIdx, dir \in Dirs :
    /\ hash_get(FlowHash[parse_key(pkt)], <<i, dir>>)
    /\ LET f == update_state(flows[i], dir, pkt) IN
       /\ flows' = [flows EXCEPT ![i] = f]
       /\ IF pkt.protocol = TCP /\ WantsReset(f)
            THEN resets' \in tcp_send_reset(f)
            ELSE resets' = {}
    /\ Arrive(b, "flow", pkt, in, i)
    /\ UpdateTimer(i, pkt)
    /\ UNCHANGED <<hooked, table, table_stale>>

ip4_input_process(b, pkt, in) ==
  /\ bufs[b].phase = "free"
  /\ in \in hooked
  /\ \/ ip4_input_create(b, pkt, in)
     \/ ip4_input_full(b, pkt, in)
     \/ ip4_input_update(b, pkt, in)

\* No hook on the interface: the packet goes by with the word as it was.
input_unhooked(b, pkt, in) ==
  /\ bufs[b].phase = "free"
  /\ in \notin hooked
  /\ Arrive(b, "unhooked", pkt, in, bufs[b].slot)
  /\ resets' = {}
  /\ UNCHANGED <<hooked, flows, table, table_stale, timerVars>>

\* The output side, on an enabled interface. The index in the word is trusted.
ip4_output_process(b, out) ==
  LET i   == bufs[b].slot
      key == flow_key_reverse(flows[i].key) IN
  /\ bufs[b].phase # "free"
  /\ out \in hooked \ {bufs[b].in}
  /\ IF flows[i].refcount = 1 /\ flows[i].entry["OUT"].key = None
       THEN /\ flows' = [flows EXCEPT ![i] = flow_table_update_flow(flows[i], key, "OUT")]
            /\ hash_set(FlowHash[key], <<i, "OUT">>)
       ELSE UNCHANGED <<flows, table, table_stale>>
  /\ bufs' = [bufs EXCEPT ![b] = FreeBuffer(i)]
  /\ resets' = {}
  /\ UNCHANGED <<hooked, timerVars>>

\* The packet is dropped in the graph, or leaves by an interface with no hook.
leave_unhooked(b) ==
  /\ bufs[b].phase # "free"
  /\ bufs' = [bufs EXCEPT ![b] = FreeBuffer(bufs[b].slot)]
  /\ resets' = {}
  /\ UNCHANGED <<hooked, flows, table, table_stale, timerVars>>

\* The CLI and the timer node run between two turns of the graph, when every
\* packet of the last turn has left it.
GraphIdle == \A b \in Buffers : bufs[b].phase = "free"

vnetfilter_hook_enable_disable(interface) ==
  /\ GraphIdle
  /\ hooked' = IF interface \in hooked THEN hooked \ {interface}
                                       ELSE hooked \cup {interface}
  /\ resets' = {}
  /\ UNCHANGED <<flows, table, table_stale, bufs, timerVars>>

flow_table_timer_update_time ==
  /\ GraphIdle
  /\ Tick
  /\ resets' = {}
  /\ UNCHANGED <<hooked, flows, table, table_stale, bufs>>

-----------------------------------------------------------------------------
Receive(b) ==
  \E pkt \in Packets, in \in Interfaces :
    ip4_input_process(b, pkt, in) \/ input_unhooked(b, pkt, in)

Transmit(b) ==
  leave_unhooked(b) \/ \E out \in Interfaces : ip4_output_process(b, out)

Next ==
  \/ \E b \in Buffers : Receive(b) \/ Transmit(b)
  \/ \E interface \in Interfaces : vnetfilter_hook_enable_disable(interface)
  \/ flow_table_timer_update_time

Spec == Init /\ [][Next]_vars

\* Every turn of the worker's loop runs the timer node, and takes the packets
\* it has polled through the graph to its end.
Fairness ==
  /\ SF_vars(flow_table_timer_update_time)
  /\ \A b \in Buffers : WF_vars(Transmit(b))

FairSpec == Spec /\ Fairness

-----------------------------------------------------------------------------
\* Properties

Live == {i \in FlowIdx : flows[i].refcount = 1}

\* The keys packets can have, in either direction.
Keys == UNION {Connection(parse_key(pkt)) : pkt \in Packets}

\* No two keys of the traffic have the same hash.
NoCollision == \A k, l \in Keys : FlowHash[k] = FlowHash[l] => k = l

\* Every address the hash table holds is that of an entry which is in use, in a
\* flow that is allocated, under the hash of that entry's own key: the fields
\* ip4_input_process reads through it (flow, direction) are set. It holds
\* whatever collides, and for what is left of the table after it has moved.
TableSound ==
  \A h \in HashVals : table[h] # None =>
    \E i \in Live, dir \in Dirs :
      /\ table[h] = <<i, dir>>
      /\ flows[i].entry[dir].key # None
      /\ FlowHash[flows[i].entry[dir].key] = h

\* The two entries of a flow are the two directions of one connection: the IN
\* entry has the key of the flow, the OUT entry, once a packet of the flow has
\* left by an enabled interface, the reverse.
EntriesMirror ==
  \A i \in Live :
    /\ flows[i].key # None
    /\ flows[i].entry["IN"].key = flows[i].key
    /\ flows[i].entry["OUT"].key \in {None, flow_key_reverse(flows[i].key)}

\* No two flows are created for the same key, as long as the worker reads the
\* table it writes: the second packet of a key finds the entry of the first,
\* however the packets and the output hooks of other flows interleave.
OneFlowPerKey ==
  ~table_stale =>
    \A i, j \in Live :
      FlowHash[flows[i].key] = FlowHash[flows[j].key] => i = j

\* Without collisions, a key some entry has been stored for is found, and it is
\* found as that key: the packet gets the direction it travels in, in a flow of
\* its own connection, even when another flow has taken the hash over.
KeysResolve ==
  NoCollision /\ ~table_stale =>
    \A i \in Live, dir \in Dirs :
      LET key == flows[i].entry[dir].key IN
      key # None =>
        \E j \in Live, d \in Dirs :
          table[FlowHash[key]] = <<j, d>> /\ flows[j].entry[d].key = key

\* Without collisions, between the two hooks a buffer names a flow of its own
\* packet's connection, although other packets are processed in between.
BufferNamesItsFlow ==
  NoCollision =>
    \A b \in Buffers : bufs[b].phase = "flow" =>
      LET f == flows[bufs[b].slot] IN
      f.refcount = 1 /\ f.key \in Connection(parse_key(bufs[b].pkt))

\* What a step does to a flow it does for a packet of that flow's connection:
\* one that is received, or one that the input hook gave a flow. (Packets that
\* pass the output hook without are the subject of UnsetIsNoFlow.)
Isolation ==
  [][NoCollision =>
       \A i \in Live : flows'[i] # flows[i] =>
         \E b \in Buffers :
           LET seen == IF bufs[b].phase = "free" THEN bufs'[b] ELSE bufs[b] IN
           /\ bufs'[b] # bufs[b]
           /\ seen.phase = "flow" => flows[i].key \in Connection(parse_key(seen.pkt))
    ]_vars

\* A flow that reached UNKNOWN stays there, whatever arrives, and is never
\* reset: the tracker has given up on it.
UnknownIsFinal ==
  [][\A i \in Live : flows[i].state = "UNKNOWN" =>
       /\ flows'[i].state = "UNKNOWN"
       /\ resets' # {} => flows'[i].entry = flows[i].entry]_vars

-----------------------------------------------------------------------------
\* What the comments say of the program. TLC refutes each.

\* flow.h:225 "set FLOW_UNSET means buffer is not associated with any flow":
\* a packet no input hook gave a flow, in a buffer whose word is FLOW_UNSET,
\* changes no flow when it leaves. (FLOW_UNSET is 0, the index of a flow.)
UnsetIsNoFlow ==
  [][\A b \in Buffers :
       /\ bufs[b].phase \in {"noflow", "unhooked"}
       /\ bufs[b].slot = FLOW_UNSET
       /\ bufs'[b].phase = "free"
       => flows' = flows]_vars

\* ip4_process.c:224 "Save reverse flow_entry to hash table": once a flow has
\* its reverse entry, the hash table has something for the reverse key.
ReverseEntrySaved ==
  \A i \in Live :
    LET key == flows[i].entry["OUT"].key IN
    key # None => table[FlowHash[key]] # None

\* flow.h:116 "timer wheel for flow expiration": flows whose timers have all
\* expired, and that no packet re-arms any more, expire.
IdleFlowsExpire ==
  <>[](\A h \in Handles : timers[h].left = 0) => <>[](Live = {})
=============================================================================
