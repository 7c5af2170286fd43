--------------------------- MODULE FlowConnsProofs ---------------------------
(***************************************************************************)
(* For traffic in which no two keys have one hash: what a lookup in the    *)
(* flow table resolves to (keys resolve to themselves, and buffers name    *)
(* flows of their own packets), and on top of it that the table implements *)
(* the set of connections it promises (FlowConns).                         *)
(***************************************************************************)
EXTENDS FlowConns, FlowTableProofs, FiniteSetTheorems

-----------------------------------------------------------------------------
\* Lookups.

\* Flows are only created for packets.
KeysOfTraffic == \A i \in Live : flows[i].key \in Keys

\* KeysStored, for both entries of each flow.
EntriesStored ==
  ~table_stale =>
    \A i \in Live, dir \in Dirs :
      flows[i].entry[dir].key # None => table[FlowHash[flows[i].entry[dir].key]] # None

\* BufferNamesItsFlow, with the flow's index in the set of live flows.
BuffersNameFlows ==
  NoCollision =>
    \A b \in Buffers : bufs[b].phase = "flow" =>
      /\ bufs[b].slot \in Live
      /\ flows[bufs[b].slot].key \in Connection(parse_key(bufs[b].pkt))

LookupInv == KeysOfTraffic /\ EntriesStored /\ BuffersNameFlows

LEMMA KeysType ==
  /\ Keys \subseteq FlowKeys
  /\ \A key \in Keys : flow_key_reverse(key) \in Keys
  /\ \A pkt \in Packets : parse_key(pkt) \in Keys
<1>1. \A key \in FlowKeys : flow_key_reverse(flow_key_reverse(key)) = key
  BY DEF flow_key_reverse, FlowKeys
<1>2. \A pkt \in Packets : parse_key(pkt) \in FlowKeys
  BY ParseKeyType, TableConstants
<1> QED BY <1>1, <1>2, ReverseType DEF Keys, Connection

LEMMA ReverseTwice ==
  ASSUME NEW key \in FlowKeys PROVE flow_key_reverse(flow_key_reverse(key)) = key
  BY DEF flow_key_reverse, FlowKeys

\* The entry a packet is taken to is the entry of its own key.
LEMMA FoundIsOwn ==
  ASSUME NoCollision, IInv, KeysOfTraffic, NEW key \in Keys,
         NEW i \in FlowIdx, NEW dir \in Dirs, table[FlowHash[key]] = <<i, dir>>
  PROVE  /\ i \in Live
         /\ flows[i].entry[dir].key = key
         /\ key = IF dir = "IN" THEN flows[i].key ELSE flow_key_reverse(flows[i].key)
<1> DEFINE rev == flow_key_reverse(flows[i].key)
<1>1. FlowHash[key] \in HashVals /\ table[FlowHash[key]] # None
  BY KeysType, EntryIsSomething, TableConstants
<1>2. PICK j \in Live, d \in Dirs :
        /\ table[FlowHash[key]] = <<j, d>>
        /\ flows[j].entry[d].key # None
        /\ FlowHash[flows[j].entry[d].key] = FlowHash[key]
  BY <1>1 DEF IInv, FlowInv, TableSound
<1>3. /\ i \in Live /\ flows[i].entry[dir].key # None
      /\ FlowHash[flows[i].entry[dir].key] = FlowHash[key]
  BY <1>2
<1>4. flows[i].entry[dir].key = IF dir = "IN" THEN flows[i].key ELSE rev
  BY <1>3 DEF IInv, FlowInv, EntriesMirror, Dirs
<1>5. flows[i].entry[dir].key \in Keys
  BY <1>3, <1>4, KeysType DEF KeysOfTraffic
<1> QED BY <1>3, <1>4, <1>5 DEF NoCollision

\* The key of a packet and the key of the flow it is found in name the same
\* connection.
LEMMA FoundIsConnection ==
  ASSUME NEW key \in FlowKeys, NEW own \in FlowKeys, NEW dir \in Dirs,
         key = IF dir = "IN" THEN own ELSE flow_key_reverse(own)
  PROVE  own \in Connection(key)
  BY ReverseTwice DEF Connection

-----------------------------------------------------------------------------
\* Buffers keep naming their flows when the keys and refcounts of live flows
\* stay, and all buffers but one stay.
LEMMA BuffersKept ==
  ASSUME BuffersNameFlows, Live \subseteq Live',
         \A i \in Live : flows'[i].key = flows[i].key,
         NEW b \in Buffers, \A c \in Buffers \ {b} : bufs'[c] = bufs[c],
         NoCollision /\ bufs'[b].phase = "flow" =>
           /\ bufs'[b].slot \in Live'
           /\ flows'[bufs'[b].slot].key \in Connection(parse_key(bufs'[b].pkt))
  PROVE  BuffersNameFlows'
<1> SUFFICES ASSUME NoCollision, NEW c \in Buffers, bufs'[c].phase = "flow"
             PROVE  /\ bufs'[c].slot \in Live'
                    /\ flows'[bufs'[c].slot].key \in Connection(parse_key(bufs'[c].pkt))
  BY DEF BuffersNameFlows, NoCollision, Keys, Connection, parse_key, flow_key_reverse
<1>1. CASE c = b
  BY <1>1
<1>2. CASE c # b
  BY <1>2 DEF BuffersNameFlows
<1> QED BY <1>1, <1>2

\* Entries stay stored when keys of entries stay and no hash is emptied.
LEMMA StoredKept ==
  ASSUME EntriesStored, Live' = Live, table_stale' = table_stale, table' = table,
         \A i \in Live, d \in Dirs : flows'[i].entry[d].key = flows[i].entry[d].key
  PROVE  EntriesStored'
  BY DEF EntriesStored

LEMMA CreateLookup ==
  ASSUME IInv, LookupInv, NEW b \in Buffers, NEW pkt \in Packets, NEW in \in Interfaces,
         ip4_input_create(b, pkt, in)
  PROVE  LookupInv'
<1> DEFINE key == parse_key(pkt)
           h == FlowHash[key]
           f == init_state(NewFlow(key, in), "IN", pkt)
<1>1. /\ pkt \in Packet /\ key \in FlowKeys /\ key \in Keys /\ h \in HashVals /\ key # None
      /\ "IN" \in Dirs /\ "OUT" \in Dirs
  BY TableConstants, ParseKeyType, KeyIsSomething, KeysType DEF Dirs
<1>2. PICK i \in FlowIdx :
        /\ flows[i].refcount = 0
        /\ flows' = [flows EXCEPT ![i] = f]
        /\ hash_set(h, <<i, "IN">>)
        /\ Arrive(b, "flow", pkt, in, i)
  BY DEF ip4_input_create, pool_get
<1>3. /\ f.refcount = 1 /\ f.key = key
      /\ f.entry["IN"].key = key /\ f.entry["OUT"].key = None
  BY <1>1, NewFlowType, InitStateType DEF SameEntries
<1>4. key = parse_key(pkt) /\ h = FlowHash[key]
  OBVIOUS
<1> HIDE DEF key, f, h
<1>5. /\ flows'[i] = f
      /\ \A j \in FlowIdx : j # i => flows'[j] = flows[j]
  BY <1>2 DEF IInv, StateType
<1>6. Live' = Live \cup {i} /\ i \notin Live
  BY <1>2, <1>3, <1>5 DEF Live
<1>7. ~table_stale' => ~table_stale /\ table' = [table EXCEPT ![h] = <<i, "IN">>]
  BY <1>1, <1>2, HashSet DEF IInv
<1>8. KeysOfTraffic'
  <2>1. Keys' = Keys
    BY DEF Keys
  <2> QED BY <1>1, <1>3, <1>5, <1>6, <2>1 DEF LookupInv, KeysOfTraffic, Live
<1>9. EntriesStored'
  <2> SUFFICES ASSUME ~table_stale', NEW j \in Live', NEW d \in Dirs,
                      flows'[j].entry[d].key # None
               PROVE  table'[FlowHash[flows'[j].entry[d].key]] # None
    BY DEF EntriesStored
  <2>1. /\ ~table_stale /\ table' = [table EXCEPT ![h] = <<i, "IN">>]
        /\ table \in [HashVals -> (FlowIdx \X Dirs) \cup {None}]
    BY <1>7 DEF IInv, StateType
  <2>2. table'[h] # None
    BY <1>1, <2>1, EntryIsSomething
  <2>3. CASE j = i
    BY <1>3, <1>4, <1>5, <2>2, <2>3 DEF Dirs
  <2>4. CASE j # i
    <3>1. j \in Live /\ flows'[j] = flows[j]
      BY <1>5, <1>6, <2>4 DEF Live
    <3>2. table[FlowHash[flows[j].entry[d].key]] # None
      BY <2>1, <3>1 DEF LookupInv, EntriesStored
    <3> QED BY <2>1, <2>2, <3>1, <3>2
  <2> QED BY <2>3, <2>4
<1>10. BuffersNameFlows'
  <2>1. /\ bufs'[b].slot = i /\ bufs'[b].pkt = pkt
        /\ \A c \in Buffers \ {b} : bufs'[c] = bufs[c]
    BY <1>2 DEF Arrive, IInv, StateType
  <2>2. flows'[i].key \in Connection(parse_key(pkt))
    BY <1>3, <1>4, <1>5 DEF Connection
  <2>3. \A j \in Live : flows'[j].key = flows[j].key
    BY <1>5, <1>6 DEF Live
  <2> QED BY <1>6, <2>1, <2>2, <2>3, BuffersKept DEF LookupInv
<1> QED BY <1>8, <1>9, <1>10 DEF LookupInv

LEMMA UpdateLookup ==
  ASSUME IInv, LookupInv, NEW b \in Buffers, NEW pkt \in Packets, NEW in \in Interfaces,
         ip4_input_update(b, pkt, in)
  PROVE  LookupInv'
<1> DEFINE key == parse_key(pkt)
<1>1. PICK i \in FlowIdx, dir \in Dirs :
        /\ hash_get(FlowHash[key], <<i, dir>>)
        /\ flows' = [flows EXCEPT ![i] = update_state(flows[i], dir, pkt)]
        /\ Arrive(b, "flow", pkt, in, i)
        /\ UNCHANGED <<table, table_stale>>
  BY DEF ip4_input_update
<1>2. pkt \in Packet /\ key \in Keys /\ key \in FlowKeys /\ flows[i] \in FlowRecord
  BY KeysType, TableConstants DEF IInv, StateType
<1>3. table[FlowHash[key]] = <<i, dir>>
  BY <1>1, EntryIsSomething DEF hash_get
<1> DEFINE f == update_state(flows[i], dir, pkt)
<1>4. SameEntries(flows[i], f)
  BY <1>2, UpdateStateType
<1>5. flows' = [flows EXCEPT ![i] = f]
  BY <1>1
<1>6. key = parse_key(pkt)
  OBVIOUS
<1> HIDE DEF f, key
<1>7. /\ Live' = Live
      /\ \A j \in Live : flows'[j].key = flows[j].key
      /\ \A j \in Live, d \in Dirs : flows'[j].entry[d].key = flows[j].entry[d].key
  BY <1>4, <1>5 DEF SameEntries, Live, IInv, StateType
<1>8. KeysOfTraffic' /\ EntriesStored'
  <2>1. Keys' = Keys
    BY DEF Keys
  <2> QED BY <1>1, <1>7, <2>1, StoredKept DEF LookupInv, KeysOfTraffic
<1>9. BuffersNameFlows'
  <2>1. /\ bufs'[b].slot = i /\ bufs'[b].pkt = pkt
        /\ \A c \in Buffers \ {b} : bufs'[c] = bufs[c]
    BY <1>1 DEF Arrive, IInv, StateType
  <2>2. ASSUME NoCollision PROVE i \in Live /\ flows[i].key \in Connection(key)
    <3>1. /\ i \in Live
          /\ key = IF dir = "IN" THEN flows[i].key ELSE flow_key_reverse(flows[i].key)
      BY <1>2, <1>3, <2>2, FoundIsOwn DEF LookupInv
    <3>2. flows[i].key \in FlowKeys
      BY <3>1, LiveKeyType
    <3> QED BY <1>2, <3>1, <3>2, FoundIsConnection
  <2> QED BY <1>6, <1>7, <2>1, <2>2, BuffersKept DEF LookupInv
<1> QED BY <1>8, <1>9 DEF LookupInv

LEMMA OutputLookup ==
  ASSUME IInv, LookupInv, NEW b \in Buffers, NEW out \in Interfaces,
         ip4_output_process(b, out)
  PROVE  LookupInv'
<1> DEFINE i == bufs[b].slot
           key == flow_key_reverse(flows[i].key)
           h == FlowHash[key]
           f == flow_table_update_flow(flows[i], key, "OUT")
<1>1. /\ StateType /\ i \in FlowIdx /\ flows[i] \in FlowRecord
      /\ flows \in [FlowIdx -> FlowRecord]
  BY DEF IInv, StateType, Buffer
<1>2. /\ bufs'[b].phase = "free"
      /\ \A c \in Buffers \ {b} : bufs'[c] = bufs[c]
  BY DEF ip4_output_process, FreeBuffer, IInv, StateType
<1>3. Keys' = Keys
  BY DEF Keys
<1>4. CASE UNCHANGED <<flows, table, table_stale>>
  <2>1. /\ Live' = Live
        /\ \A j \in Live : flows'[j].key = flows[j].key
        /\ \A j \in Live, d \in Dirs : flows'[j].entry[d].key = flows[j].entry[d].key
    BY <1>4 DEF Live
  <2>2. BuffersNameFlows'
    BY <1>2, <2>1, BuffersKept DEF LookupInv
  <2> QED BY <1>3, <1>4, <2>1, <2>2, StoredKept DEF LookupInv, KeysOfTraffic
<1>5. CASE /\ flows[i].refcount = 1
           /\ flows' = [flows EXCEPT ![i] = f]
           /\ hash_set(h, <<i, "OUT">>)
  <2>1. i \in Live /\ "IN" \in Dirs /\ "OUT" \in Dirs
    BY <1>1, <1>5 DEF Live, Dirs
  <2>2. key \in FlowKeys /\ h \in HashVals
    BY <2>1, LiveKeyType, ReverseType, TableConstants
  <2>3. /\ f.refcount = 1 /\ f.key = flows[i].key
        /\ f.entry["IN"] = flows[i].entry["IN"] /\ f.entry["OUT"].key = key
    BY <1>1, <1>5, <2>2, OutFlowType
  <2>4. h = FlowHash[key]
    OBVIOUS
  <2> HIDE DEF key, h, f, i
  <2>5. /\ flows'[i] = f
        /\ \A j \in FlowIdx : j # i => flows'[j] = flows[j]
    BY <1>1, <1>5
  <2>6. Live' = Live /\ \A j \in Live : flows'[j].key = flows[j].key
    BY <1>5, <2>1, <2>3, <2>5 DEF Live
  <2>7. /\ ~table_stale' => ~table_stale /\ table' = [table EXCEPT ![h] = <<i, "OUT">>]
        /\ table \in [HashVals -> (FlowIdx \X Dirs) \cup {None}]
    BY <1>1, <1>5, <2>1, <2>2, HashSet DEF StateType
  <2>8. EntriesStored'
    <3> SUFFICES ASSUME ~table_stale', NEW j \in Live, NEW d \in Dirs,
                        flows'[j].entry[d].key # None
                 PROVE  table'[FlowHash[flows'[j].entry[d].key]] # None
      BY <2>6 DEF EntriesStored
    <3>1. table' = [table EXCEPT ![h] = <<i, "OUT">>] /\ ~table_stale
      BY <2>7
    <3>2. table'[h] # None
      <4>1. table'[h] = <<i, "OUT">>
        BY <2>2, <2>7, <3>1
      <4> QED BY <1>1, <2>1, <4>1, EntryIsSomething DEF Live
    <3>3. CASE j = i /\ d = "OUT"
      BY <2>3, <2>4, <2>5, <3>2, <3>3
    <3>4. CASE ~(j = i /\ d = "OUT")
      <4>1. flows'[j].entry[d] = flows[j].entry[d]
        BY <2>3, <2>5, <3>4 DEF Live, Dirs
      <4>2. table[FlowHash[flows[j].entry[d].key]] # None
        BY <3>1, <4>1 DEF LookupInv, EntriesStored
      <4> QED BY <2>7, <3>1, <3>2, <4>1, <4>2
    <3> QED BY <3>3, <3>4
  <2>9. BuffersNameFlows' /\ KeysOfTraffic'
    BY <1>2, <1>3, <2>6, BuffersKept DEF LookupInv, KeysOfTraffic
  <2> QED BY <2>8, <2>9 DEF LookupInv
<1> QED BY <1>4, <1>5 DEF ip4_output_process

\* A step that changes no flow and gives none to a buffer.
LEMMA QuietLookup ==
  ASSUME LookupInv, UNCHANGED <<flows, table, table_stale>>,
         \A b \in Buffers : bufs'[b] = bufs[b] \/ bufs'[b].phase # "flow"
  PROVE  LookupInv'
<1>1. Live' = Live /\ Keys' = Keys /\ flows' = flows
  BY DEF Live, Keys
<1>2. KeysOfTraffic' /\ EntriesStored'
  BY <1>1, StoredKept DEF LookupInv, KeysOfTraffic
<1>3. BuffersNameFlows'
  <2> SUFFICES ASSUME NoCollision, NEW c \in Buffers, bufs'[c].phase = "flow"
               PROVE  /\ bufs'[c].slot \in Live
                      /\ flows[bufs'[c].slot].key \in Connection(parse_key(bufs'[c].pkt))
    BY <1>1 DEF BuffersNameFlows, NoCollision, Keys, Connection, parse_key, flow_key_reverse
  <2> QED BY DEF LookupInv, BuffersNameFlows
<1> QED BY <1>2, <1>3 DEF LookupInv

LEMMA LookupStep == IInv /\ LookupInv /\ [Next]_vars => LookupInv'
<1> SUFFICES ASSUME IInv, LookupInv, [Next]_vars PROVE LookupInv'
  OBVIOUS
<1>1. bufs \in [Buffers -> Buffer]
  BY DEF IInv, StateType
<1>2. ASSUME NEW b \in Buffers, Receive(b) PROVE LookupInv'
  <2>1. PICK pkt \in Packets, in \in Interfaces :
          ip4_input_process(b, pkt, in) \/ input_unhooked(b, pkt, in)
    BY <1>2 DEF Receive
  <2>2. CASE ip4_input_create(b, pkt, in)
    BY <2>2, CreateLookup
  <2>3. CASE ip4_input_update(b, pkt, in)
    BY <2>3, UpdateLookup
  <2>4. CASE ip4_input_full(b, pkt, in) \/ input_unhooked(b, pkt, in)
    <3>1. \A c \in Buffers : bufs'[c] = bufs[c] \/ bufs'[c].phase # "flow"
      BY <1>1, <2>4 DEF ip4_input_full, input_unhooked, Arrive
    <3> QED BY <2>4, <3>1, QuietLookup DEF ip4_input_full, input_unhooked
  <2> QED BY <2>1, <2>2, <2>3, <2>4 DEF ip4_input_process
<1>3. ASSUME NEW b \in Buffers, Transmit(b) PROVE LookupInv'
  <2>1. CASE leave_unhooked(b)
    <3>1. \A c \in Buffers : bufs'[c] = bufs[c] \/ bufs'[c].phase # "flow"
      BY <1>1, <2>1 DEF leave_unhooked, FreeBuffer
    <3> QED BY <2>1, <3>1, QuietLookup DEF leave_unhooked
  <2> QED BY <1>3, <2>1, OutputLookup DEF Transmit
<1>4. CASE \/ \E interface \in Interfaces : vnetfilter_hook_enable_disable(interface)
           \/ flow_table_timer_update_time
           \/ UNCHANGED vars
  BY <1>4, QuietLookup DEF vnetfilter_hook_enable_disable, flow_table_timer_update_time, vars
<1> QED BY <1>2, <1>3, <1>4 DEF Next

LEMMA LookupInvariant == Spec => [](IInv /\ LookupInv)
<1>1. Init => LookupInv
  BY DEF Init, LookupInv, KeysOfTraffic, EntriesStored, BuffersNameFlows, Live, ZeroFlow,
     FreeBuffer
<1> QED BY <1>1, LookupStep, IInvariant, PTL DEF Spec

\* Without collisions, while the worker reads the table it writes: whatever
\* entry has been stored, a lookup of its key finds an entry of that very key,
\* so the packet gets its own direction in a flow of its own connection.
THEOREM StoredKeysResolve == Spec => []KeysResolve
<1>1. IInv /\ LookupInv => KeysResolve
  <2> SUFFICES ASSUME IInv, LookupInv, NoCollision, ~table_stale,
                      NEW i \in Live, NEW dir \in Dirs, flows[i].entry[dir].key # None
               PROVE  \E j \in Live, d \in Dirs :
                        /\ table[FlowHash[flows[i].entry[dir].key]] = <<j, d>>
                        /\ flows[j].entry[d].key = flows[i].entry[dir].key
    BY DEF KeysResolve
  <2> DEFINE key == flows[i].entry[dir].key
  <2>1. flows[i].key \in Keys /\ key \in {flows[i].key, flow_key_reverse(flows[i].key)}
    BY DEF LookupInv, KeysOfTraffic, IInv, FlowInv, EntriesMirror, Dirs
  <2>2. key \in Keys /\ FlowHash[key] \in HashVals
    BY <2>1, KeysType, TableConstants
  <2>3. table[FlowHash[key]] # None
    BY DEF LookupInv, EntriesStored
  <2>4. PICK j \in FlowIdx, d \in Dirs : table[FlowHash[key]] = <<j, d>>
    BY <2>2, <2>3 DEF IInv, StateType
  <2> HIDE DEF key
  <2>5. j \in Live /\ flows[j].entry[d].key = key
    BY <2>2, <2>4, FoundIsOwn DEF LookupInv
  <2> QED BY <2>4, <2>5 DEF key
<1> QED BY <1>1, LookupInvariant, PTL

\* Without collisions, whatever packets are processed between its two hooks, a
\* buffer names a live flow of its own packet's connection.
THEOREM BuffersNameTheirFlows == Spec => []BufferNamesItsFlow
<1>1. LookupInv => BufferNamesItsFlow
  BY DEF LookupInv, BuffersNameFlows, BufferNamesItsFlow, Live
<1> QED BY <1>1, LookupInvariant, PTL

LEMMA IsolationStep ==
  ASSUME NoCollision, IInv, LookupInv, [Next]_vars, NEW i \in Live, flows'[i] # flows[i]
  PROVE  \E b \in Buffers :
           LET seen == IF bufs[b].phase = "free" THEN bufs'[b] ELSE bufs[b] IN
           /\ bufs'[b] # bufs[b]
           /\ seen.phase = "flow" => flows[i].key \in Connection(parse_key(seen.pkt))
<1>1. /\ bufs \in [Buffers -> Buffer] /\ i \in FlowIdx
      /\ flows \in [FlowIdx -> FlowRecord] /\ flows[i].refcount = 1
  BY DEF IInv, StateType, Live
<1>2. ASSUME NEW b \in Buffers, NEW pkt \in Packets, NEW in \in Interfaces,
             ip4_input_create(b, pkt, in)
      PROVE  FALSE
  <2>1. PICK j \in FlowIdx :
          flows[j].refcount = 0 /\ \E f : flows' = [flows EXCEPT ![j] = f]
    BY <1>2 DEF ip4_input_create, pool_get
  <2> QED BY <1>1, <2>1
<1>3. ASSUME NEW b \in Buffers, NEW pkt \in Packets, NEW in \in Interfaces,
             bufs[b].phase = "free", ip4_input_update(b, pkt, in)
      PROVE  /\ bufs'[b] # bufs[b] /\ bufs[b].phase = "free" /\ bufs'[b].pkt = pkt
             /\ flows[i].key \in Connection(parse_key(pkt))
  <2>1. PICK j \in FlowIdx, dir \in Dirs :
          /\ hash_get(FlowHash[parse_key(pkt)], <<j, dir>>)
          /\ flows' = [flows EXCEPT ![j] = update_state(flows[j], dir, pkt)]
          /\ Arrive(b, "flow", pkt, in, j)
    BY <1>3 DEF ip4_input_update
  <2>2. bufs'[b].phase = "flow" /\ bufs'[b].pkt = pkt /\ i = j
    BY <1>1, <2>1 DEF Arrive
  <2>3. parse_key(pkt) \in Keys /\ parse_key(pkt) \in FlowKeys
    BY KeysType
  <2>4. table[FlowHash[parse_key(pkt)]] = <<i, dir>>
    BY <2>1, <2>2, EntryIsSomething DEF hash_get
  <2>5. parse_key(pkt) = IF dir = "IN" THEN flows[i].key ELSE flow_key_reverse(flows[i].key)
    BY <1>1, <2>3, <2>4, FoundIsOwn DEF LookupInv
  <2>6. flows[i].key \in FlowKeys
    BY LiveKeyType
  <2>7. flows[i].key \in Connection(parse_key(pkt))
    BY <2>3, <2>5, <2>6, FoundIsConnection
  <2> QED BY <1>3, <2>2, <2>7
<1>4. ASSUME NEW b \in Buffers, NEW out \in Interfaces, ip4_output_process(b, out)
      PROVE  /\ bufs'[b] # bufs[b] /\ bufs[b].phase # "free"
             /\ bufs[b].phase = "flow" =>
                  flows[i].key \in Connection(parse_key(bufs[b].pkt))
  <2>1. bufs'[b].phase = "free" /\ bufs[b].phase # "free" /\ bufs[b].slot \in FlowIdx
    BY <1>1, <1>4 DEF ip4_output_process, FreeBuffer, Buffer
  <2>2. i = bufs[b].slot
    BY <1>1, <1>4, <2>1 DEF ip4_output_process
  <2> QED BY <2>1, <2>2 DEF LookupInv, BuffersNameFlows
<1>5. ~UNCHANGED flows
  OBVIOUS
<1>6. PICK b \in Buffers : Receive(b) \/ Transmit(b)
  BY <1>5 DEF Next, vars, vnetfilter_hook_enable_disable, flow_table_timer_update_time
<1>7. CASE Receive(b)
  <2>1. PICK pkt \in Packets, in \in Interfaces : ip4_input_process(b, pkt, in)
    BY <1>5, <1>7 DEF Receive, input_unhooked
  <2>2. ip4_input_update(b, pkt, in) /\ bufs[b].phase = "free"
    BY <1>2, <1>5, <2>1 DEF ip4_input_process, ip4_input_full
  <2> QED BY <1>3, <2>2
<1>8. CASE Transmit(b)
  <2>1. PICK out \in Interfaces : ip4_output_process(b, out)
    BY <1>5, <1>8 DEF Transmit, leave_unhooked
  <2> QED BY <1>4, <2>1
<1> QED BY <1>6, <1>7, <1>8

\* Without collisions, a step changes a live flow only for a packet of that
\* flow's connection, even when the hash table has moved.
THEOREM FlowsAreIsolated == Spec => Isolation
<1>1. IInv /\ LookupInv /\ [Next]_vars =>
        [NoCollision =>
           \A i \in Live : flows'[i] # flows[i] =>
             \E b \in Buffers :
               LET seen == IF bufs[b].phase = "free" THEN bufs'[b] ELSE bufs[b] IN
               /\ bufs'[b] # bufs[b]
               /\ seen.phase = "flow" => flows[i].key \in Connection(parse_key(seen.pkt))
        ]_vars
  BY IsolationStep
<1> QED BY <1>1, LookupInvariant, PTL DEF Spec, Isolation

-----------------------------------------------------------------------------
\* The refinement.

\* The hash table has room for every hash.
RoomyTable == IsFiniteSet(HashVals) /\ Cardinality(HashVals) < GrowAt

LEMMA NeverGrows == ASSUME RoomyTable, NEW t PROVE Grows(t) = FALSE
<1> DEFINE S == {h \in HashVals : t[h] # None}
<1>1. S \subseteq HashVals
  OBVIOUS
<1>2. IsFiniteSet(S) /\ Cardinality(S) <= Cardinality(HashVals)
  BY <1>1, FS_Subset DEF RoomyTable
<1>3. Cardinality(S) \in Nat /\ Cardinality(HashVals) \in Nat
  BY <1>2, FS_CardinalityType DEF RoomyTable
<1> HIDE DEF S
<1>4. ~(Cardinality(S) >= GrowAt)
  BY <1>2, <1>3, TableConstants DEF RoomyTable
<1> QED BY <1>4 DEF Grows, S

-----------------------------------------------------------------------------
\* The operators ConnTable shares with Flow are the same ones.

LEMMA SameKey == ASSUME NEW pkt PROVE Promise!parse_key(pkt) = parse_key(pkt)
  BY DEF Promise!parse_key, parse_key

LEMMA SameReverse ==
  ASSUME NEW key PROVE Promise!flow_key_reverse(key) = flow_key_reverse(key)
  BY DEF Promise!flow_key_reverse, flow_key_reverse

LEMMA SameTransfer ==
  ASSUME NEW old, NEW event, NEW dir
  PROVE  Promise!tcp_state_transfer(old, event, dir) = tcp_state_transfer(old, event, dir)
  BY Zenon DEF Promise!tcp_state_transfer, Promise!OnSyn, Promise!OnAck, Promise!OnFin,
     Promise!OnRst, tcp_state_transfer, OnSyn, OnAck, OnFin, OnRst

LEMMA SameEvents ==
  ASSUME NEW flags PROVE Promise!flags_to_events(flags) = flags_to_events(flags)
  BY Zenon DEF Promise!flags_to_events, flags_to_events

LEMMA SameDirs == Promise!Dirs = Dirs
  BY DEF Promise!Dirs, Dirs
-----------------------------------------------------------------------------
\* What the handlers do to a flow is what ConnTable does to its connection.

\* The parts of an entry no handler touches.
SameSide(e, g) ==
  /\ g.key = e.key /\ g.mac = e.mac /\ g.vlan = e.vlan
  /\ g.sw_if_index = e.sw_if_index

LEMMA Tracked ==
  ASSUME NEW f \in FlowRecord, NEW dir \in Dirs, NEW pkt \in Packet
  PROVE  LET g == tcp_track_sequence(f, dir, pkt) IN
         /\ g \in FlowRecord
         /\ g.refcount = f.refcount /\ g.key = f.key /\ g.state = f.state
         /\ g.three_way_handshake = f.three_way_handshake
         /\ \A d \in Dirs : SameSide(f.entry[d], g.entry[d])
         /\ g.entry[dir].seq = pkt.seq /\ g.entry[dir].ack = pkt.ack
         /\ \A d \in Dirs : d # dir => g.entry[d] = f.entry[d]
<1> DEFINE e == [f.entry[dir] EXCEPT !.seq = pkt.seq, !.ack = pkt.ack]
<1>1. f.entry[dir] \in FlowEntry
  BY DEF FlowRecord
<1>2. SameSide(f.entry[dir], e) /\ e.seq = pkt.seq /\ e.ack = pkt.ack
  BY <1>1 DEF FlowEntry, SameSide
<1>3. tcp_track_sequence(f, dir, pkt) = [f EXCEPT !.entry[dir] = e]
  BY Zenon DEF tcp_track_sequence
<1>4. tcp_track_sequence(f, dir, pkt) \in FlowRecord
  BY TrackType
<1> HIDE DEF e
<1> QED BY <1>2, <1>3, <1>4 DEF FlowRecord, SameSide

\* The connection of a flow, with the values of its parts named.
ConnValue(key, via, state, watched, last) ==
  [key |-> key, via |-> via, state |-> state, watched |-> watched, last |-> last]

Numbers(f) == [d \in Dirs |-> [seq |-> f.entry[d].seq, ack |-> f.entry[d].ack]]

LEMMA ConnParts ==
  ASSUME NEW f, f.refcount = 1
  PROVE  ConnOf(f) = ConnValue(f.key, f.entry["IN"].sw_if_index, f.state,
                               f.three_way_handshake, Numbers(f))
  BY DEF ConnOf, ConnValue, Numbers

LEMMA SeenParts ==
  ASSUME NEW key, NEW via, NEW state, NEW watched, NEW last,
         NEW dir \in Dirs, NEW pkt
  PROVE  Promise!Seen(ConnValue(key, via, state, watched, last), dir, pkt) =
           IF pkt.protocol = TCP
             THEN ConnValue(key, via,
                    tcp_state_transfer(state, flags_to_events(pkt.flags), dir), watched,
                    [last EXCEPT ![dir] = [seq |-> pkt.seq, ack |-> pkt.ack]])
             ELSE ConnValue(key, via, state, watched, last)
<1> DEFINE c == ConnValue(key, via, state, watched, last)
           s == tcp_state_transfer(state, flags_to_events(pkt.flags), dir)
           r == [seq |-> pkt.seq, ack |-> pkt.ack]
<1>1. c.state = state /\ c.last = last
  BY DEF ConnValue
<1>2. Promise!tcp_state_transfer(c.state, Promise!flags_to_events(pkt.flags), dir) = s
  BY <1>1, SameTransfer, SameEvents
<1> DEFINE n == [last EXCEPT ![dir] = r]
<1>3. Promise!Seen(c, dir, pkt) =
        IF pkt.protocol = TCP THEN [c EXCEPT !.state = s, !.last = n] ELSE c
  BY <1>1, <1>2, Zenon DEF Promise!Seen
<1>4. [c EXCEPT !.state = s, !.last = n] = ConnValue(key, via, s, watched, n)
  <2> DEFINE d == [c EXCEPT !.state = s]
  <2> HIDE DEF s, n
  <2>1. d = ConnValue(key, via, s, watched, last)
    BY DEF ConnValue
  <2>2. [c EXCEPT !.state = s, !.last = n] = [d EXCEPT !.last = n]
    BY Zenon
  <2> HIDE DEF c, d
  <2>3. [d EXCEPT !.last = n] = ConnValue(key, via, s, watched, n)
    BY <2>1 DEF ConnValue
  <2> QED BY <2>2, <2>3
<1> QED BY <1>3, <1>4

LEMMA Numbered ==
  ASSUME NEW f, NEW g, NEW dir \in Dirs, NEW pkt,
         g.entry[dir].seq = pkt.seq, g.entry[dir].ack = pkt.ack,
         \A d \in Dirs : d # dir => g.entry[d] = f.entry[d]
  PROVE  Numbers(g) = [Numbers(f) EXCEPT ![dir] = [seq |-> pkt.seq, ack |-> pkt.ack]]
  BY DEF Numbers

LEMMA SeenConn ==
  ASSUME NEW f \in FlowRecord, f.refcount = 1, NEW dir \in Dirs, NEW pkt \in Packet
  PROVE  /\ ConnOf(update_state(f, dir, pkt)) = Promise!Seen(ConnOf(f), dir, pkt)
         /\ \A d \in Dirs : SameSide(f.entry[d], update_state(f, dir, pkt).entry[d])
<1> DEFINE g == tcp_track_sequence(f, dir, pkt)
           s == tcp_state_transfer(f.state, flags_to_events(pkt.flags), dir)
           u == update_state(f, dir, pkt)
           r == [seq |-> pkt.seq, ack |-> pkt.ack]
           via == f.entry["IN"].sw_if_index
<1>1. CASE pkt.protocol = TCP
  <2>1. u = [g EXCEPT !.state = s]
    BY <1>1, Zenon DEF update_state, tcp_update_state
  <2>2. /\ g \in FlowRecord
        /\ g.refcount = f.refcount /\ g.key = f.key
        /\ g.three_way_handshake = f.three_way_handshake
        /\ \A d \in Dirs : SameSide(f.entry[d], g.entry[d])
    BY Tracked
  <2>3. Numbers(g) = [Numbers(f) EXCEPT ![dir] = r]
    BY Tracked, Numbered
  <2> HIDE DEF g, s, u
  <2>4. /\ u.refcount = 1 /\ u.key = f.key /\ u.state = s /\ u.entry = g.entry
        /\ u.three_way_handshake = f.three_way_handshake
    BY <2>1, <2>2 DEF FlowRecord
  <2>5. u.entry["IN"].sw_if_index = via /\ Numbers(u) = [Numbers(f) EXCEPT ![dir] = r]
    BY <2>2, <2>3, <2>4 DEF SameSide, Numbers, Dirs
  <2>6. ConnOf(u) = ConnValue(f.key, via, s, f.three_way_handshake,
                              [Numbers(f) EXCEPT ![dir] = r])
    BY <2>4, <2>5, ConnParts
  <2>7. Promise!Seen(ConnOf(f), dir, pkt) = ConnOf(u)
    <3>1. ConnOf(f) = ConnValue(f.key, via, f.state, f.three_way_handshake, Numbers(f))
      BY ConnParts
    <3>2. \A hs, ns : Promise!Seen(ConnValue(f.key, via, f.state, hs, ns), dir, pkt) =
            ConnValue(f.key, via, s, hs, [ns EXCEPT ![dir] = r])
      <4> TAKE hs, ns
      <4> HIDE DEF via
      <4>1. Promise!Seen(ConnValue(f.key, via, f.state, hs, ns), dir, pkt) =
              IF pkt.protocol = TCP
                THEN ConnValue(f.key, via,
                       tcp_state_transfer(f.state, flags_to_events(pkt.flags), dir), hs,
                       [ns EXCEPT ![dir] = [seq |-> pkt.seq, ack |-> pkt.ack]])
                ELSE ConnValue(f.key, via, f.state, hs, ns)
        BY SeenParts, Zenon
      <4> QED BY <1>1, <4>1, Zenon DEF s
    <3> QED BY <2>6, <3>1, <3>2
  <2> QED BY <2>2, <2>4, <2>7 DEF u
<1>2. CASE pkt.protocol # TCP
  <2>1. u = f
    BY <1>2 DEF update_state
  <2>2. Promise!Seen(ConnOf(f), dir, pkt) = ConnOf(f)
    BY <1>2, Zenon DEF Promise!Seen
  <2> QED BY <2>1, <2>2 DEF SameSide
<1> QED BY <1>1, <1>2

\* The record of a new flow, field by field.
LEMMA NewFlowParts ==
  ASSUME NEW key \in FlowKeys, NEW in \in Interfaces
  PROVE  LET f == NewFlow(key, in) IN
         /\ f.state = "START" /\ f.three_way_handshake = FALSE
         /\ f.entry["IN"].sw_if_index = in /\ f.entry["IN"].vlan = key.vlan
         /\ \A d \in Dirs : f.entry[d].seq = 0 /\ f.entry[d].ack = 0
<1> DEFINE f0 == [ZeroFlow EXCEPT !.refcount = 1]
           f1 == flow_table_update_flow(f0, key, "IN")
           f2 == flow_table_init_flow(f0, key, in, "IN")
           Blank(e) == e \in FlowEntry /\ e.seq = 0 /\ e.ack = 0
           Fresh(f) == /\ f \in FlowRecord /\ f.state = "START"
                       /\ f.three_way_handshake = FALSE
                       /\ \A d \in Dirs : Blank(f.entry[d])
<1>1. "IN" \in Dirs
  BY DEF Dirs
<1>2. Fresh(f0)
  BY ZeroFlowType DEF ZeroFlow, ZeroEntry, FlowRecord
<1>3. f2 = [f1 EXCEPT !.key = key, !.entry["IN"].sw_if_index = in]
  BY Zenon DEF flow_table_init_flow
<1>4. NewFlow(key, in) =
        [f2 EXCEPT !.entry["IN"] = [@ EXCEPT !.mac = TRUE, !.vlan = key.vlan]]
  BY Zenon DEF NewFlow
<1> HIDE DEF f0
<1> DEFINE e1 == [f0.entry["IN"] EXCEPT !.key = key]
<1>5. Fresh(f1)
  <2>1. Blank(e1)
    BY <1>1, <1>2 DEF FlowEntry
  <2>2. f1 = [f0 EXCEPT !.entry["IN"] = e1]
    BY DEF flow_table_update_flow
  <2> HIDE DEF f1, e1
  <2> QED BY <1>1, <1>2, <2>1, <2>2 DEF FlowRecord
<1> HIDE DEF f1, f2
<1> DEFINE e2 == [f1.entry["IN"] EXCEPT !.sw_if_index = in]
<1>6. Fresh(f2) /\ f2.entry["IN"].sw_if_index = in
  <2>1. Blank(e2) /\ e2.sw_if_index = in
    BY <1>1, <1>5 DEF FlowEntry
  <2>2. f2 = [f1 EXCEPT !.key = key, !.entry["IN"] = e2]
    BY <1>3
  <2> HIDE DEF e2
  <2> QED BY <1>1, <1>5, <2>1, <2>2 DEF FlowRecord
<1> DEFINE e3 == [f2.entry["IN"] EXCEPT !.mac = TRUE, !.vlan = key.vlan]
<1>7. Blank(e3) /\ e3.sw_if_index = in /\ e3.vlan = key.vlan
  BY <1>1, <1>6 DEF FlowEntry, FlowKeys
<1>8. NewFlow(key, in) = [f2 EXCEPT !.entry["IN"] = e3]
  BY <1>4
<1> HIDE DEF e3
<1> QED BY <1>1, <1>6, <1>7, <1>8 DEF FlowRecord

LEMMA OpenedConn ==
  ASSUME NEW pkt \in Packet, NEW in \in Interfaces
  PROVE  LET f == init_state(NewFlow(parse_key(pkt), in), "IN", pkt) IN
         /\ ConnOf(f) = Promise!Opened(pkt, in)
         /\ f.refcount = 1 /\ f.key = parse_key(pkt)
         /\ f.entry["IN"].vlan = f.key.vlan /\ f.entry["IN"].sw_if_index = in
         /\ ~f.entry["OUT"].mac
<1> DEFINE key == parse_key(pkt)
           f0 == NewFlow(key, in)
           g == tcp_track_sequence(f0, "IN", pkt)
           s == tcp_state_transfer("START", flags_to_events(pkt.flags), "IN")
           bare == pkt.flags = {"SYN"}
           f == init_state(f0, "IN", pkt)
           zero == [d \in Dirs |-> [seq |-> 0, ack |-> 0]]
           r == [seq |-> pkt.seq, ack |-> pkt.ack]
           n == [zero EXCEPT !["IN"] = r]
<1>1. "IN" \in Dirs /\ "OUT" \in Dirs /\ key \in FlowKeys
  BY ParseKeyType DEF Dirs
<1>2. /\ f0 \in FlowRecord /\ f0.refcount = 1 /\ f0.key = key /\ ~f0.entry["OUT"].mac
      /\ f0.state = "START" /\ f0.three_way_handshake = FALSE
      /\ f0.entry["IN"].sw_if_index = in /\ f0.entry["IN"].vlan = key.vlan
      /\ Numbers(f0) = zero
  <2> HIDE DEF key, f0
  <2>1. /\ f0 \in FlowRecord /\ f0.refcount = 1 /\ f0.key = key
        /\ ~f0.entry["OUT"].mac
    BY <1>1, NewFlowType DEF f0
  <2>2. /\ f0.state = "START" /\ f0.three_way_handshake = FALSE
        /\ f0.entry["IN"].sw_if_index = in /\ f0.entry["IN"].vlan = key.vlan
        /\ \A d \in Dirs : f0.entry[d].seq = 0 /\ f0.entry[d].ack = 0
    BY <1>1, NewFlowParts DEF f0
  <2> QED BY <2>1, <2>2 DEF Numbers
<1> DEFINE w == pkt.protocol = TCP /\ bare
<1>3. Promise!Opened(pkt, in) =
        Promise!Seen(ConnValue(key, in, "START", w, zero), "IN", pkt)
  BY SameKey, SameDirs, Zenon DEF Promise!Opened, Promise!Unnumbered, ConnValue
<1>4. Promise!Opened(pkt, in) = IF pkt.protocol = TCP THEN ConnValue(key, in, s, w, n)
                                ELSE ConnValue(key, in, "START", w, zero)
  <2> HIDE DEF w, key, zero
  <2>1. Promise!Seen(ConnValue(key, in, "START", w, zero), "IN", pkt) =
          IF pkt.protocol = TCP THEN ConnValue(key, in, s, w, n)
          ELSE ConnValue(key, in, "START", w, zero)
    BY <1>1, SeenParts, Zenon
  <2> QED BY <1>3, <2>1, Zenon
<1>5. CASE pkt.protocol = TCP
  <2> DEFINE m == g.three_way_handshake \/ bare
  <2>1. f = [g EXCEPT !.three_way_handshake = m, !.state = s]
    BY <1>5, Zenon DEF init_state, tcp_init_state
  <2>2. /\ g \in FlowRecord /\ g.refcount = 1 /\ g.key = key
        /\ g.three_way_handshake = FALSE
        /\ \A d \in Dirs : SameSide(f0.entry[d], g.entry[d])
    BY <1>1, <1>2, Tracked
  <2>3. Numbers(g) = n
    <3>1. Numbers(g) = [Numbers(f0) EXCEPT !["IN"] = r]
      BY <1>1, <1>2, Tracked, Numbered
    <3> QED BY <1>2, <3>1
  <2>4. m = w
    BY <1>5, <2>2, Zenon
  <2> HIDE DEF key, f0, g, s, f, m, n, w
  <2>5. /\ f.refcount = 1 /\ f.key = key /\ f.state = s /\ f.entry = g.entry
        /\ f.three_way_handshake = m
    BY <2>1, <2>2 DEF FlowRecord
  <2>6. /\ f.entry["IN"].sw_if_index = in /\ f.entry["IN"].vlan = key.vlan
        /\ ~f.entry["OUT"].mac /\ Numbers(f) = n
    BY <1>1, <1>2, <2>2, <2>3, <2>5 DEF SameSide, Numbers
  <2>7. ConnOf(f) = ConnValue(key, in, s, m, n)
    BY <2>5, <2>6, ConnParts
  <2>8. ConnOf(f) = Promise!Opened(pkt, in)
    BY <1>4, <1>5, <2>4, <2>7, Zenon
  <2> QED BY <2>5, <2>6, <2>8 DEF f, f0, key
<1>6. CASE pkt.protocol # TCP
  <2>1. f = f0
    BY <1>6 DEF init_state
  <2>2. w = FALSE
    BY <1>6, Zenon
  <2> HIDE DEF key, f0, f, zero, w
  <2>3. ConnOf(f0) = ConnValue(key, in, "START", FALSE, zero)
    BY <1>2, ConnParts
  <2>4. ConnOf(f) = Promise!Opened(pkt, in)
    BY <1>4, <1>6, <2>1, <2>2, <2>3, Zenon
  <2> QED BY <1>2, <2>1, <2>4 DEF f, f0, key
<1> QED BY <1>5, <1>6

-----------------------------------------------------------------------------
\* What the refinement needs beyond IInv: the table has not moved, the keys of
\* flows are keys of the traffic, the entry that answers has an interface and the
\* flow's own VLAN, and only the opener's MAC addresses are known.
ConnInv ==
  /\ ~table_stale
  /\ \A i \in Live : /\ flows[i].key \in Keys
                     /\ flows[i].entry["IN"].sw_if_index \in Interfaces
                     /\ flows[i].entry["IN"].vlan = flows[i].key.vlan
                     /\ ~flows[i].entry["OUT"].mac

LEMMA ConnsUpdate ==
  ASSUME IInv, NEW i \in FlowIdx, NEW f, flows' = [flows EXCEPT ![i] = f]
  PROVE  Conns' = [Conns EXCEPT ![i] = ConnOf(f)]
<1>1. flows' = [flows EXCEPT ![i] = f] /\ DOMAIN flows = FlowIdx
  BY DEF IInv, StateType
<1>2. \A j \in FlowIdx : flows'[j] = IF j = i THEN f ELSE flows[j]
  BY <1>1
<1>3. Conns' = [j \in FlowIdx |-> ConnOf(flows'[j])]
  BY DEF Conns, ConnOf
<1>4. \A j \in FlowIdx :
        ConnOf(flows'[j]) = IF j = i THEN ConnOf(f) ELSE ConnOf(flows[j])
  BY <1>2
<1>5. Conns = [j \in FlowIdx |-> ConnOf(flows[j])]
  BY DEF Conns
<1> QED BY <1>3, <1>4, <1>5, Zenon

LEMMA ConnOfType ==
  ASSUME NEW f \in FlowRecord, f.refcount = 1, f.key \in FlowKeys,
         f.entry["IN"].sw_if_index \in Interfaces
  PROVE  ConnOf(f) \in Promise!Conn
<1>1. Numbers(f) \in [Dirs -> [seq: SeqNos, ack: SeqNos]]
  BY DEF Numbers, FlowRecord, FlowEntry
<1>2. f.state \in TcpStates /\ f.three_way_handshake \in BOOLEAN
  BY DEF FlowRecord
<1>3. /\ Promise!FlowKeys = FlowKeys /\ Promise!TcpStates = TcpStates
      /\ Promise!Dirs = Dirs
  BY DEF Promise!FlowKeys, FlowKeys, Promise!TcpStates, TcpStates, Promise!Dirs, Dirs
<1>4. ConnOf(f) \in [key: FlowKeys, via: Interfaces, state: TcpStates,
                     watched: BOOLEAN, last: [Dirs -> [seq: SeqNos, ack: SeqNos]]]
  BY <1>1, <1>2, ConnParts DEF ConnValue
<1> QED BY <1>3, <1>4 DEF Promise!Conn

LEMMA ConnOfSomething ==
  ASSUME NEW i \in FlowIdx
  PROVE  /\ flows[i].refcount = 0 => Conns[i] = None
         /\ Conns[i] = ConnOf(flows[i])
  BY DEF Conns, ConnOf

\* The first packet of a key opens a connection.
LEMMA CreateConn ==
  ASSUME RoomyTable, IInv, ConnInv, NEW b \in Buffers, NEW pkt \in Packets,
         NEW in \in Interfaces, ip4_input_create(b, pkt, in)
  PROVE  ConnInv' /\ \E i \in FlowIdx : Promise!Open(i, pkt, in)
<1> DEFINE key == parse_key(pkt)
           f == init_state(NewFlow(key, in), "IN", pkt)
<1>1. PICK i \in FlowIdx :
        /\ flows[i].refcount = 0
        /\ flows' = [flows EXCEPT ![i] = f]
        /\ hash_set(FlowHash[key], <<i, "IN">>)
  BY DEF ip4_input_create, pool_get
<1>2. table[FlowHash[key]] = None /\ resets' = {}
  BY DEF ip4_input_create, hash_get, ConnInv
<1>3. pkt \in Packet /\ key \in Keys
  BY KeysType, TableConstants
<1>4. /\ ConnOf(f) = Promise!Opened(pkt, in) /\ f.refcount = 1 /\ f.key = key
      /\ f.entry["IN"].vlan = f.key.vlan /\ f.entry["IN"].sw_if_index = in
      /\ ~f.entry["OUT"].mac
  BY <1>3, OpenedConn
<1> HIDE DEF f, key
<1>5. /\ flows'[i] = f
      /\ \A j \in FlowIdx : j # i => flows'[j] = flows[j]
  BY <1>1 DEF IInv, StateType
<1>6. ~table_stale'
  BY <1>1, NeverGrows DEF hash_set, ConnInv
<1>7. ConnInv'
  BY <1>3, <1>4, <1>5, <1>6 DEF ConnInv, Live
<1>8. Conns[i] = None /\ Conns' = [Conns EXCEPT ![i] = Promise!Opened(pkt, in)]
  <2>1. Conns[i] = None
    BY <1>1, ConnOfSomething
  <2>2. Conns' = [Conns EXCEPT ![i] = ConnOf(f)]
    BY <1>1, ConnsUpdate
  <2> QED BY <1>4, <2>1, <2>2
<1>9. ASSUME NEW t \in FlowIdx PROVE Conns[t] = None \/ Conns[t].key # key
  <2>1. CASE flows[t].refcount = 0
    BY <2>1, ConnOfSomething
  <2>2. CASE flows[t].refcount # 0
    <3>1. t \in Live
      BY <2>2 DEF Live, IInv, StateType, FlowRecord
    <3>2. flows[t].key # key
      BY <1>2, <3>1 DEF IInv, FlowInv, KeysStored, ConnInv
    <3>3. Conns[t].key = flows[t].key
      BY <3>1, ConnOfSomething, ConnParts DEF Live, ConnValue
    <3> QED BY <3>2, <3>3
  <2> QED BY <2>1, <2>2
<1>10. Promise!Open(i, pkt, in)
  BY <1>2, <1>8, <1>9, SameKey DEF Promise!Open, key
<1> QED BY <1>7, <1>10

\* The frame for the side that opened the connection is ConnTable's answer.
LEMMA AnswerFrame ==
  ASSUME NEW f, f.refcount = 1, f.entry["IN"].key = f.key,
         f.entry["IN"].vlan = f.key.vlan, ~f.entry["OUT"].mac
  PROVE  tcp_send_reset(f) \subseteq SUBSET {Promise!Answer(ConnOf(f))}
<1> DEFINE c == ConnValue(f.key, f.entry["IN"].sw_if_index, f.state,
                          f.three_way_handshake, Numbers(f))
<1>1. ConnOf(f) = c
  BY ConnParts
<1>2. /\ c.via = f.entry["IN"].sw_if_index /\ c.key = f.key
      /\ c.last["IN"].seq = f.entry["IN"].seq /\ c.last["IN"].ack = f.entry["IN"].ack
  BY DEF ConnValue, Numbers, Dirs
<1> HIDE DEF c
<1>3. ResetFrame(f, "IN") = Promise!Answer(c)
  BY <1>2, SameReverse, Zenon DEF ResetFrame, Promise!Answer
<1> QED BY <1>1, <1>3 DEF tcp_send_reset, Dirs

\* A later packet is a segment of the connection whose flow it is taken to, and
\* travels in the direction it is taken to travel in.
LEMMA UpdateConn ==
  ASSUME NoCollision, IInv, ConnInv, NEW b \in Buffers, NEW pkt \in Packets,
         NEW in \in Interfaces, ip4_input_update(b, pkt, in)
  PROVE  /\ ConnInv'
         /\ \E i \in FlowIdx, dir \in Dirs : Promise!Segment(i, dir, pkt)
<1> DEFINE key == parse_key(pkt)
<1>1. PICK i \in FlowIdx, dir \in Dirs :
        LET f == update_state(flows[i], dir, pkt) IN
        /\ hash_get(FlowHash[key], <<i, dir>>)
        /\ flows' = [flows EXCEPT ![i] = f]
        /\ IF pkt.protocol = TCP /\ WantsReset(f) THEN resets' \in tcp_send_reset(f)
                                                 ELSE resets' = {}
        /\ UNCHANGED table_stale
  BY DEF ip4_input_update
<1> DEFINE f == update_state(flows[i], dir, pkt)
           rev == flow_key_reverse(flows[i].key)
<1>2. pkt \in Packet /\ key \in Keys /\ key \in FlowKeys /\ flows[i] \in FlowRecord
  BY KeysType, TableConstants DEF IInv, StateType
<1>3. table[FlowHash[key]] = <<i, dir>> /\ FlowHash[key] \in HashVals
  BY <1>1, <1>2, EntryIsSomething, TableConstants DEF hash_get, ConnInv
<1>4. i \in Live
  BY <1>2, <1>3, FoundIsOwn DEF ConnInv, KeysOfTraffic
<1>6. key = IF dir = "IN" THEN flows[i].key ELSE rev
  BY <1>2, <1>3, FoundIsOwn DEF ConnInv, KeysOfTraffic
<1>7. /\ f.refcount = 1 /\ f.key = flows[i].key
      /\ \A d \in Dirs : SameSide(flows[i].entry[d], f.entry[d])
      /\ ConnOf(f) = Promise!Seen(ConnOf(flows[i]), dir, pkt)
  BY <1>2, <1>4, SeenConn, UpdateStateType DEF Live, SameEntries
<1>8. /\ flows' = [flows EXCEPT ![i] = f] /\ table_stale' = table_stale
      /\ IF pkt.protocol = TCP /\ WantsReset(f) THEN resets' \in tcp_send_reset(f)
                                               ELSE resets' = {}
  BY <1>1
<1> HIDE DEF f, key, rev
<1>9. /\ flows'[i] = f
      /\ \A j \in FlowIdx : j # i => flows'[j] = flows[j]
  BY <1>8 DEF IInv, StateType
<1>10. /\ f.entry["IN"].key = f.key /\ f.entry["IN"].vlan = f.key.vlan
       /\ ~f.entry["OUT"].mac
  BY <1>4, <1>7 DEF SameSide, Dirs, ConnInv, IInv, FlowInv, EntriesMirror
<1>11. ConnInv'
  <2>1. Live' = Live /\ ~table_stale'
    BY <1>4, <1>7, <1>8, <1>9 DEF ConnInv, Live
  <2>2. f.entry["IN"].sw_if_index = flows[i].entry["IN"].sw_if_index
    BY <1>7 DEF SameSide, Dirs
  <2> QED BY <1>4, <1>7, <1>9, <1>10, <2>1, <2>2 DEF ConnInv, Live
<1>12. /\ Conns[i] = ConnOf(flows[i]) /\ Conns[i].key = flows[i].key /\ Conns[i] # None
       /\ Conns' = [Conns EXCEPT ![i] = Promise!Seen(Conns[i], dir, pkt)]
  <2>1. Conns[i] = ConnOf(flows[i]) /\ Conns[i].key = flows[i].key
    BY <1>4, ConnOfSomething, ConnParts DEF Live, ConnValue
  <2>2. ConnOf(flows[i]) \in Promise!Conn
    BY <1>2, <1>4, KeysType, ConnOfType DEF Live, ConnInv
  <2>3. Conns' = [Conns EXCEPT ![i] = ConnOf(f)]
    BY <1>8, ConnsUpdate
  <2> QED BY <1>7, <2>1, <2>2, <2>3, ConnConstants
<1>13. resets' \subseteq Promise!MayReset(Promise!Seen(Conns[i], dir, pkt), pkt)
  <2>1. CASE pkt.protocol = TCP /\ WantsReset(f)
    <3>1. resets' \subseteq {Promise!Answer(ConnOf(f))}
      BY <1>7, <1>8, <1>10, <2>1, AnswerFrame
    <3>2. ConnOf(f).state = "ESTABLISHED" /\ ConnOf(f).watched
      BY <1>7, <2>1, ConnParts DEF ConnValue, WantsReset
    <3> QED BY <1>7, <1>12, <2>1, <3>1, <3>2 DEF Promise!MayReset
  <2>2. CASE ~(pkt.protocol = TCP /\ WantsReset(f))
    BY <1>8, <2>2
  <2> QED BY <2>1, <2>2
<1>14. Promise!Segment(i, dir, pkt)
  BY <1>6, <1>12, <1>13, SameKey, SameReverse DEF Promise!Segment, key, rev
<1> QED BY <1>4, <1>11, <1>14 DEF Live

\* The output hook writes the reverse entry, which no connection shows.
LEMMA OutputConn ==
  ASSUME RoomyTable, IInv, ConnInv, NEW b \in Buffers, NEW out \in Interfaces,
         ip4_output_process(b, out)
  PROVE  ConnInv' /\ Promise!Quiet
<1> DEFINE i == bufs[b].slot
           key == flow_key_reverse(flows[i].key)
           e == [flows[i].entry["OUT"] EXCEPT !.key = key]
           f == flow_table_update_flow(flows[i], key, "OUT")
<1>1. /\ i \in FlowIdx /\ flows[i] \in FlowRecord /\ flows[i].entry["OUT"] \in FlowEntry
      /\ "OUT" \in Dirs /\ "IN" \in Dirs /\ flows \in [FlowIdx -> FlowRecord]
  BY DEF IInv, StateType, Buffer, FlowRecord, Dirs
<1>2. resets' = {} /\ ~table_stale'
  BY NeverGrows DEF ip4_output_process, hash_set, ConnInv
<1>3. flows' = flows \/ flows' = [flows EXCEPT ![i] = f]
  BY DEF ip4_output_process
<1>4. CASE flows' = flows
  BY <1>2, <1>4 DEF ConnInv, Live, Promise!Quiet, Conns
<1>5. CASE flows' = [flows EXCEPT ![i] = f]
  <2>1. f = [flows[i] EXCEPT !.entry["OUT"] = e]
    BY DEF flow_table_update_flow
  <2>2. /\ e.mac = flows[i].entry["OUT"].mac
        /\ e.seq = flows[i].entry["OUT"].seq /\ e.ack = flows[i].entry["OUT"].ack
    BY <1>1 DEF FlowEntry
  <2> HIDE DEF key, e, f, i
  <2>3. /\ f.refcount = flows[i].refcount /\ f.key = flows[i].key
        /\ f.state = flows[i].state /\ f.three_way_handshake = flows[i].three_way_handshake
        /\ f.entry["IN"] = flows[i].entry["IN"] /\ f.entry["OUT"] = e
    BY <1>1, <2>1 DEF FlowRecord
  <2>4. flows'[i] = f /\ \A j \in FlowIdx : j # i => flows'[j] = flows[j]
    BY <1>1, <1>5
  <2>5. ConnInv'
    BY <1>1, <1>2, <2>2, <2>3, <2>4 DEF ConnInv, Live
  <2>6. Numbers(f) = Numbers(flows[i])
    BY <2>2, <2>3 DEF Numbers, Dirs
  <2>7. ConnOf(f) = ConnOf(flows[i])
    <3>1. CASE flows[i].refcount = 0
      BY <2>3, <3>1 DEF ConnOf
    <3>2. CASE flows[i].refcount # 0
      <4>1. flows[i].refcount = 1 /\ f.refcount = 1
        BY <1>1, <2>3, <3>2 DEF FlowRecord
      <4> QED BY <2>3, <2>6, <4>1, ConnParts
    <3> QED BY <3>1, <3>2
  <2>8. Conns' = [Conns EXCEPT ![i] = Conns[i]]
    BY <1>1, <1>5, <2>7, ConnsUpdate, ConnOfSomething
  <2>9. Conns' = Conns
    BY <1>1, <2>8 DEF Conns
  <2> QED BY <1>2, <2>5, <2>9 DEF Promise!Quiet
<1> QED BY <1>3, <1>4, <1>5

\* A step that changes no flow.
LEMMA QuietConn ==
  ASSUME ConnInv, UNCHANGED <<flows, table_stale>>
  PROVE  ConnInv' /\ UNCHANGED Conns
  BY DEF ConnInv, Live, Conns

LEMMA ConnStep ==
  ASSUME RoomyTable, NoCollision, IInv, ConnInv, [Next]_vars
  PROVE  ConnInv' /\ [Promise!Next]_(Promise!vars)
<1> DEFINE Goal == ConnInv' /\ [Promise!Next]_(Promise!vars)
<1>1. ASSUME NEW b \in Buffers, NEW pkt \in Packets, NEW in \in Interfaces,
             ip4_input_process(b, pkt, in) \/ input_unhooked(b, pkt, in)
      PROVE  Goal
  <2>1. CASE ip4_input_create(b, pkt, in)
    BY <2>1, CreateConn DEF Promise!Next
  <2>2. CASE ip4_input_update(b, pkt, in)
    BY <2>2, UpdateConn, SameDirs DEF Promise!Next
  <2>3. CASE ip4_input_full(b, pkt, in) \/ input_unhooked(b, pkt, in)
    BY <2>3, QuietConn DEF ip4_input_full, input_unhooked, Promise!Next, Promise!Quiet
  <2> QED BY <1>1, <2>1, <2>2, <2>3 DEF ip4_input_process
<1>2. ASSUME NEW b \in Buffers, Transmit(b) PROVE Goal
  <2>1. CASE leave_unhooked(b)
    BY <2>1, QuietConn DEF leave_unhooked, Promise!Next, Promise!Quiet
  <2>2. ASSUME NEW out \in Interfaces, ip4_output_process(b, out) PROVE Goal
    BY <2>2, OutputConn DEF Promise!Next
  <2> QED BY <1>2, <2>1, <2>2 DEF Transmit
<1>3. CASE \/ \E interface \in Interfaces : vnetfilter_hook_enable_disable(interface)
           \/ flow_table_timer_update_time
  BY <1>3, QuietConn DEF vnetfilter_hook_enable_disable, flow_table_timer_update_time,
     Promise!Next, Promise!Quiet
<1>4. CASE UNCHANGED vars
  BY <1>4, QuietConn DEF vars, Promise!vars
<1> QED BY <1>1, <1>2, <1>3, <1>4 DEF Next, Receive

\* For any number of connections, packets in flight and enabled interfaces: with
\* no two keys of the traffic under one hash and a hash table that never moves,
\* ip4_input_process and ip4_output_process do to the flows what ConnTable
\* allows: a packet moves its own connection, in its own direction, by the TCP
\* tables, and a reset answers the opener of an established, watched connection.
THEOREM ImplementsConnTable == RoomyTable /\ NoCollision /\ Spec => ConnSpec
<1> SUFFICES ASSUME RoomyTable, NoCollision PROVE Spec => ConnSpec
  BY Zenon
<1>1. Init => ConnInv /\ Promise!Init
  BY ConnOfSomething DEF Init, ConnInv, Live, ZeroFlow, Promise!Init, Conns, ConnOf
<1>2. IInv /\ ConnInv /\ [Next]_vars => ConnInv' /\ [Promise!Next]_(Promise!vars)
  BY ConnStep
<1> QED BY <1>1, <1>2, IInvariant, PTL DEF Spec, ConnSpec, Promise!Spec
=============================================================================
