--------------------------- MODULE FlowTableProofs ---------------------------
(***************************************************************************)
(* Theorems about FlowTimer, for every pool size, set of handles and       *)
(* timeout, and about FlowTable, for every set of buffers, packets and     *)
(* interfaces, every pool size and every hash function.                    *)
(***************************************************************************)
EXTENDS FlowTable, TLAPS

-----------------------------------------------------------------------------
\* The timers of FlowTimer.

TimerInv == TimerTypeOK /\ TimerBelongsToUser

LEMMA TimerInvInit == TimerInit => TimerInv
  BY TimerConstants, SMT DEF TimerInit, TimerInv, TimerTypeOK, TimerBelongsToUser,
     Timer, FlowIdx

\* A tick keeps the type of a timer and its user, and re-arms none.
LEMMA TickedTimer ==
  ASSUME NEW t \in Timer
  PROVE  /\ Ticked(t) \in Timer
         /\ Ticked(t).user = t.user
         /\ Ticked(t).left > 0 => t.left > 0
<1> USE TimerConstants DEF Timer
<1>1. CASE t.left = 0
  BY <1>1 DEF Ticked
<1>2. CASE t.left = 1
  <2> DEFINE f == IF t.freed < MaxFreed THEN t.freed + 1 ELSE MaxFreed
  <2>1. f \in 0 .. MaxFreed
    OBVIOUS
  <2>2. t = [freed |-> t.freed, user |-> t.user, left |-> t.left] /\ t.user \in FlowIdx
    OBVIOUS
  <2>3. Ticked(t) = [t EXCEPT !.left = 0, !.freed = f]
    BY <1>2 DEF Ticked
  <2> HIDE DEF f
  <2>4. Ticked(t) = [freed |-> f, user |-> t.user, left |-> 0]
    BY <2>2, <2>3
  <2> QED BY <2>1, <2>2, <2>4
<1>3. CASE t.left \notin {0, 1}
  <2>1. Ticked(t) = [t EXCEPT !.left = t.left - 1]
    BY <1>3 DEF Ticked
  <2> QED BY <1>3, <2>1
<1> QED BY <1>1, <1>2, <1>3

\* Starting a timer for a flow that has none: whatever timer it is, no handle
\* of another flow is overwritten, and the old users of the timer lose it.
LEMMA SetPreservesInv ==
  ASSUME TimerInv, NEW i \in FlowIdx,
         stop_timer_handle[i] = NoHandle, flow_expiration_timer_set(i)
  PROVE  TimerInv'
<1> USE TimerConstants
<1>1. PICK h \in Handles :
        /\ timers[h].freed > 0
        /\ timers' = [timers EXCEPT
             ![h] = [freed |-> timers[h].freed - 1, user |-> i, left |-> Timeout]]
        /\ stop_timer_handle' = [stop_timer_handle EXCEPT ![i] = h]
  BY DEF flow_expiration_timer_set, Started
<1>2. TimerTypeOK'
  BY <1>1 DEF TimerInv, TimerTypeOK, Timer
<1>3. TimerBelongsToUser'
  <2> SUFFICES ASSUME NEW g \in Handles,
                      \/ timers'[g].left > 0
                      \/ \E j \in FlowIdx : stop_timer_handle'[j] = g
               PROVE  stop_timer_handle'[timers'[g].user] = g
    BY DEF TimerBelongsToUser
  <2>1. CASE g = h
    BY <1>1, <2>1 DEF TimerInv, TimerTypeOK, Timer
  <2>2. CASE g # h
    <3>1. timers'[g] = timers[g] /\ timers[g].user \in FlowIdx
      BY <1>1, <2>2 DEF TimerInv, TimerTypeOK, Timer
    <3>2. \A j \in FlowIdx : stop_timer_handle'[j] = g => stop_timer_handle[j] = g
      BY <1>1, <2>2 DEF TimerInv, TimerTypeOK
    <3>3. stop_timer_handle[timers[g].user] = g
      BY <3>1, <3>2 DEF TimerInv, TimerBelongsToUser
    <3>4. timers[g].user # i
      BY <3>3
    <3> QED BY <1>1, <3>1, <3>3, <3>4 DEF TimerInv, TimerTypeOK
  <2> QED BY <2>1, <2>2
<1> QED BY <1>2, <1>3 DEF TimerInv

\* What re-arming does to the timers: only left changes, and of one timer.
LEMMA Rearmed ==
  ASSUME TimerInv, NEW i \in FlowIdx,
         stop_timer_handle[i] # NoHandle, flow_expiration_timer_rearm(i)
  PROVE  /\ stop_timer_handle[i] \in Handles
         /\ timers' = [timers EXCEPT ![stop_timer_handle[i]].left = Timeout]
         /\ stop_timer_handle' = stop_timer_handle
         /\ \A g \in Handles :
              /\ timers'[g].user = timers[g].user
              /\ timers'[g].left = IF g = stop_timer_handle[i] THEN Timeout ELSE timers[g].left
<1> USE TimerConstants
<1>1. /\ stop_timer_handle[i] \in Handles
      /\ timers' = [timers EXCEPT ![stop_timer_handle[i]].left = Timeout]
      /\ stop_timer_handle' = stop_timer_handle
  BY DEF TimerInv, TimerTypeOK, flow_expiration_timer_rearm
<1> QED BY <1>1 DEF TimerInv, TimerTypeOK, Timer

LEMMA RearmPreservesInv ==
  ASSUME TimerInv, NEW i \in FlowIdx,
         stop_timer_handle[i] # NoHandle, flow_expiration_timer_rearm(i)
  PROVE  TimerInv'
<1> DEFINE h == stop_timer_handle[i]
<1>1. /\ h \in Handles
      /\ timers' = [timers EXCEPT ![h].left = Timeout]
      /\ stop_timer_handle' = stop_timer_handle
      /\ \A g \in Handles :
           /\ timers'[g].user = timers[g].user
           /\ timers'[g].left = IF g = h THEN Timeout ELSE timers[g].left
  BY Rearmed
<1>2. \E j \in FlowIdx : stop_timer_handle[j] = h
  OBVIOUS
<1> HIDE DEF h
<1>3. TimerTypeOK'
  BY <1>1, TimerConstants DEF TimerInv, TimerTypeOK, Timer
<1>4. TimerBelongsToUser'
  BY <1>1, <1>2 DEF TimerInv, TimerBelongsToUser
<1> QED BY <1>3, <1>4 DEF TimerInv

LEMMA TickPreservesInv == TimerInv /\ Tick => TimerInv'
<1> SUFFICES ASSUME TimerInv, Tick PROVE TimerInv'
  OBVIOUS
<1>1. /\ timers' = [h \in Handles |-> Ticked(timers[h])]
      /\ stop_timer_handle' = stop_timer_handle
  BY DEF Tick
<1>2. \A h \in Handles : timers[h] \in Timer
  BY DEF TimerInv, TimerTypeOK
<1>3. TimerTypeOK'
  BY <1>1, <1>2, TickedTimer DEF TimerInv, TimerTypeOK
<1>4. TimerBelongsToUser'
  BY <1>1, <1>2, TickedTimer DEF TimerInv, TimerBelongsToUser
<1> QED BY <1>3, <1>4 DEF TimerInv

LEMMA TimerInvStep == TimerInv /\ [TimerNext]_timerVars => TimerInv'
<1> SUFFICES ASSUME TimerInv, [TimerNext]_timerVars PROVE TimerInv'
  OBVIOUS
<1>1. CASE Tick
  BY <1>1, TickPreservesInv
<1>2. ASSUME NEW i \in FlowIdx, flow_expiration_timer_update(i) PROVE TimerInv'
  BY <1>2, SetPreservesInv, RearmPreservesInv DEF flow_expiration_timer_update
<1>3. CASE UNCHANGED timerVars
  BY <1>3 DEF timerVars, TimerInv, TimerTypeOK, TimerBelongsToUser
<1> QED BY <1>1, <1>2, <1>3 DEF TimerNext

LEMMA TimerInvariant == TimerSpec => []TimerInv
  BY TimerInvInit, TimerInvStep, PTL DEF TimerSpec

\* The timers of timer.h and the handles the flows keep stay well typed.
THEOREM TimerTypeCorrect == TimerSpec => []TimerTypeOK
  BY TimerInvariant, PTL DEF TimerInv

\* A timer in the wheel, or under any flow's handle, reports a flow that holds
\* its handle, however starts, updates through stale handles, expiries and
\* second handings out follow each other (timer.h:28, :47).
THEOREM TimersBelong == TimerSpec => []TimerBelongsToUser
  BY TimerInvariant, PTL DEF TimerInv

\* The timers that report a flow are all put off by a packet of it: in the
\* wheel there is none but the one the flow's handle names, as a flow that has
\* a handle never starts another (timer.h:44).
LEMMA PutOff ==
  ASSUME TimerInv, NEW i \in FlowIdx, flow_expiration_timer_update(i),
         NEW h \in Handles, timers'[h].user = i, timers'[h].left > 0
  PROVE  timers'[h].left = Timeout
<1> USE TimerConstants
<1>1. CASE stop_timer_handle[i] = NoHandle /\ flow_expiration_timer_set(i)
  <2>1. PICK g \in Handles :
          timers' = [timers EXCEPT
            ![g] = [freed |-> timers[g].freed - 1, user |-> i, left |-> Timeout]]
    BY <1>1 DEF flow_expiration_timer_set, Started
  <2>2. CASE h = g
    BY <2>1, <2>2 DEF TimerInv, TimerTypeOK
  <2>3. CASE h # g
    <3>1. timers'[h] = timers[h]
      BY <2>1, <2>3 DEF TimerInv, TimerTypeOK
    <3>2. stop_timer_handle[i] = h
      BY <3>1 DEF TimerInv, TimerBelongsToUser
    <3> QED BY <1>1, <3>2
  <2> QED BY <2>2, <2>3
<1>2. CASE stop_timer_handle[i] # NoHandle /\ flow_expiration_timer_rearm(i)
  <2>1. /\ timers'[h].user = timers[h].user
        /\ timers'[h].left = IF h = stop_timer_handle[i] THEN Timeout ELSE timers[h].left
    BY <1>2, Rearmed
  <2>2. CASE h = stop_timer_handle[i]
    BY <2>1, <2>2
  <2>3. CASE h # stop_timer_handle[i]
    BY <2>1, <2>3 DEF TimerInv, TimerBelongsToUser
  <2> QED BY <2>2, <2>3
<1> QED BY <1>1, <1>2 DEF flow_expiration_timer_update

\* A flow that is in use is never reported: each of its packets puts off every
\* timer that would report it.
THEOREM TimersPutOff == TimerSpec => PacketsPutOff
<1> DEFINE Put == \A i \in FlowIdx :
                    flow_expiration_timer_update(i) =>
                      \A h \in Handles : (timers'[h].user = i /\ timers'[h].left > 0)
                                            => timers'[h].left = Timeout
<1>1. TimerInv => Put
  BY PutOff
<1>2. TimerInv /\ [TimerNext]_timerVars => [Put]_timerVars
  BY <1>1
<1>3. PacketsPutOff <=> [][Put]_timerVars
  BY DEF PacketsPutOff
<1> HIDE DEF Put
<1> QED BY <1>2, <1>3, TimerInvariant, PTL DEF TimerSpec

-----------------------------------------------------------------------------
\* Lemmas about the operators of Flow and TcpStateTransfer.

LEMMA ParseKeyType == ASSUME NEW pkt \in Packet PROVE parse_key(pkt) \in FlowKeys
  BY FlowConstants DEF parse_key, Packet, FlowKeys

LEMMA ReverseType ==
  ASSUME NEW key \in FlowKeys PROVE flow_key_reverse(key) \in FlowKeys
  BY DEF flow_key_reverse, FlowKeys

LEMMA KeyIsSomething == ASSUME NEW key \in FlowKeys PROVE key # None
  BY FlowConstants

\* The state machine never leaves its set of states.
LEMMA TransferType ==
  ASSUME NEW old \in TcpStates, NEW event, NEW dir
  PROVE  tcp_state_transfer(old, event, dir) \in TcpStates
  BY DEF tcp_state_transfer, OnSyn, OnAck, OnFin, OnRst, TcpStates

\* No event leaves UNKNOWN.
LEMMA UnknownAbsorbs ==
  ASSUME NEW event, NEW dir
  PROVE  tcp_state_transfer("UNKNOWN", event, dir) = "UNKNOWN"
  BY DEF tcp_state_transfer, OnSyn, OnAck, OnFin, OnRst

\* The parts of a flow record the handlers of the protocols do not touch.
SameEntries(f, g) ==
  /\ g.refcount = f.refcount
  /\ g.key = f.key
  /\ \A d \in Dirs : /\ g.entry[d].key = f.entry[d].key
                     /\ g.entry[d].mac = f.entry[d].mac

LEMMA TrackType ==
  ASSUME NEW f \in FlowRecord, NEW dir \in Dirs, NEW pkt \in Packet
  PROVE  /\ tcp_track_sequence(f, dir, pkt) \in FlowRecord
         /\ SameEntries(f, tcp_track_sequence(f, dir, pkt))
<1> DEFINE e == [f.entry[dir] EXCEPT !.seq = pkt.seq, !.ack = pkt.ack]
<1>1. f.entry[dir] \in FlowEntry
  BY DEF FlowRecord
<1>2. /\ e \in FlowEntry
      /\ e.key = f.entry[dir].key /\ e.mac = f.entry[dir].mac
  BY <1>1 DEF FlowEntry, Packet
<1>3. tcp_track_sequence(f, dir, pkt) = [f EXCEPT !.entry[dir] = e]
  BY Zenon DEF tcp_track_sequence
<1> HIDE DEF e
<1> QED BY <1>2, <1>3 DEF FlowRecord, SameEntries

LEMMA InitStateType ==
  ASSUME NEW f \in FlowRecord, NEW dir \in Dirs, NEW pkt \in Packet
  PROVE  /\ init_state(f, dir, pkt) \in FlowRecord
         /\ SameEntries(f, init_state(f, dir, pkt))
<1> DEFINE g == tcp_track_sequence(f, dir, pkt)
           s == tcp_state_transfer("START", flags_to_events(pkt.flags), dir)
           m == g.three_way_handshake \/ pkt.flags = {"SYN"}
<1>1. g \in FlowRecord /\ SameEntries(f, g)
  BY TrackType
<1>2. s \in TcpStates
  BY TransferType DEF TcpStates
<1>3. m \in BOOLEAN
  BY Zenon
<1>4. tcp_init_state(f, dir, pkt) = [g EXCEPT !.three_way_handshake = m, !.state = s]
  BY Zenon DEF tcp_init_state
<1> HIDE DEF g, s, m
<1>5. /\ tcp_init_state(f, dir, pkt) \in FlowRecord
      /\ SameEntries(f, tcp_init_state(f, dir, pkt))
  BY <1>1, <1>2, <1>3, <1>4 DEF FlowRecord, SameEntries
<1> QED BY <1>5 DEF init_state, SameEntries

LEMMA UpdateStateType ==
  ASSUME NEW f \in FlowRecord, NEW dir \in Dirs, NEW pkt \in Packet
  PROVE  /\ update_state(f, dir, pkt) \in FlowRecord
         /\ SameEntries(f, update_state(f, dir, pkt))
         /\ f.state = "UNKNOWN" => update_state(f, dir, pkt).state = "UNKNOWN"
<1> DEFINE g == tcp_track_sequence(f, dir, pkt)
           s == tcp_state_transfer(f.state, flags_to_events(pkt.flags), dir)
<1>1. g \in FlowRecord /\ SameEntries(f, g)
  BY TrackType
<1>2. s \in TcpStates /\ (f.state = "UNKNOWN" => s = "UNKNOWN")
  BY TransferType, UnknownAbsorbs DEF FlowRecord
<1>3. tcp_update_state(f, dir, pkt) = [g EXCEPT !.state = s]
  BY Zenon DEF tcp_update_state
<1> HIDE DEF g, s
<1>4. /\ tcp_update_state(f, dir, pkt) \in FlowRecord
      /\ SameEntries(f, tcp_update_state(f, dir, pkt))
      /\ tcp_update_state(f, dir, pkt).state = s
  BY <1>1, <1>2, <1>3 DEF FlowRecord, SameEntries
<1> QED BY <1>2, <1>4 DEF update_state, SameEntries

LEMMA ZeroFlowType == ZeroFlow \in FlowRecord
<1>1. ZeroEntry \in FlowEntry
  BY FlowConstants DEF ZeroEntry, FlowEntry
<1> QED BY <1>1 DEF ZeroFlow, FlowRecord, TcpStates

LEMMA NewFlowType ==
  ASSUME NEW key \in FlowKeys, NEW in \in Interfaces
  PROVE  /\ NewFlow(key, in) \in FlowRecord
         /\ NewFlow(key, in).refcount = 1
         /\ NewFlow(key, in).key = key
         /\ NewFlow(key, in).entry["IN"].key = key
         /\ NewFlow(key, in).entry["OUT"].key = None
         /\ ~NewFlow(key, in).entry["OUT"].mac
<1> DEFINE f0 == [ZeroFlow EXCEPT !.refcount = 1]
           f1 == flow_table_update_flow(f0, key, "IN")
           f2 == flow_table_init_flow(f0, key, in, "IN")
<1>1. /\ f0 \in FlowRecord /\ f0.refcount = 1
      /\ f0.entry["OUT"].key = None /\ ~f0.entry["OUT"].mac
  <2>1. ZeroFlow \in FlowRecord
    BY ZeroFlowType
  <2>2. /\ f0 \in FlowRecord /\ f0.refcount = 1 /\ f0.entry = ZeroFlow.entry
    BY <2>1 DEF FlowRecord
  <2>3. ZeroFlow.entry["OUT"].key = None /\ ~ZeroFlow.entry["OUT"].mac
    BY DEF ZeroFlow, ZeroEntry, Dirs
  <2> QED BY <2>2, <2>3
<1>2. f2 = [f1 EXCEPT !.key = key, !.entry["IN"].sw_if_index = in]
  BY Zenon DEF flow_table_init_flow
<1>3. NewFlow(key, in) =
        [f2 EXCEPT !.entry["IN"] = [@ EXCEPT !.mac = TRUE, !.vlan = key.vlan]]
  BY Zenon DEF NewFlow
<1> HIDE DEF f0
<1>4. /\ f1 \in FlowRecord /\ f1.refcount = 1 /\ f1.entry["IN"].key = key
      /\ f1.entry["OUT"].key = None /\ ~f1.entry["OUT"].mac
  BY <1>1 DEF flow_table_update_flow, FlowRecord, FlowEntry, Dirs
<1> HIDE DEF f1, f2
<1>5. /\ f2 \in FlowRecord /\ f2.refcount = 1 /\ f2.key = key /\ f2.entry["IN"].key = key
      /\ f2.entry["OUT"].key = None /\ ~f2.entry["OUT"].mac
  <2> DEFINE e1 == [f1.entry["IN"] EXCEPT !.sw_if_index = in]
  <2>1. f1.entry["IN"] \in FlowEntry
    BY <1>4 DEF FlowRecord, Dirs
  <2>2. e1 \in FlowEntry /\ e1.key = key
    BY <1>4, <2>1 DEF FlowEntry
  <2>3. f2 = [f1 EXCEPT !.key = key, !.entry["IN"] = e1]
    BY <1>2
  <2> HIDE DEF e1
  <2> QED BY <1>4, <2>2, <2>3 DEF FlowRecord, Dirs
<1> DEFINE e == [f2.entry["IN"] EXCEPT !.mac = TRUE, !.vlan = key.vlan]
<1>6. f2.entry["IN"] \in FlowEntry
  BY <1>5 DEF FlowRecord, Dirs
<1>7. e \in FlowEntry /\ e.key = key
  BY <1>5, <1>6 DEF FlowEntry, FlowKeys
<1>8. NewFlow(key, in) = [f2 EXCEPT !.entry["IN"] = e]
  BY <1>3
<1> HIDE DEF e
<1> QED BY <1>5, <1>7, <1>8 DEF FlowRecord, Dirs

LEMMA OutFlowType ==
  ASSUME NEW f \in FlowRecord, NEW key \in FlowKeys
  PROVE  LET g == flow_table_update_flow(f, key, "OUT") IN
         /\ g \in FlowRecord
         /\ g.refcount = f.refcount /\ g.key = f.key
         /\ g.entry["IN"] = f.entry["IN"]
         /\ g.entry["OUT"].key = key
         /\ g.state = f.state
  BY DEF flow_table_update_flow, FlowRecord, FlowEntry, Dirs

\* Every frame tcp_send_reset may build is for a side with a key.
LEMMA ResetType ==
  ASSUME NEW f \in FlowRecord, NEW frames \in tcp_send_reset(f),
         \A d \in Dirs : f.entry[d].mac => f.entry[d].key # None
  PROVE  frames \subseteq Frame
<1> SUFFICES ASSUME NEW d \in Dirs, f.entry[d].mac PROVE ResetFrame(f, d) \in Frame
  BY DEF tcp_send_reset
<1>1. f.entry[d] \in FlowEntry /\ f.entry[d].key # None
  BY DEF FlowRecord
<1>2. flow_key_reverse(f.entry[d].key) \in FlowKeys
  BY <1>1, ReverseType DEF FlowEntry
<1> QED BY <1>1, <1>2 DEF ResetFrame, Frame, FlowEntry

-----------------------------------------------------------------------------
\* The inductive invariant. OneFlowPerKey needs to know that the table has
\* something for the key of every flow (KeysStored): the lookup that misses is
\* what makes a new key new. TableSound needs the keys of the entries
\* (EntriesMirror), and the type of the frames that a learnt MAC address means
\* a known key (MacsHaveKeys).

MacsHaveKeys ==
  \A i \in FlowIdx, d \in Dirs : flows[i].entry[d].mac => flows[i].entry[d].key # None

KeysStored == ~table_stale => \A i \in Live : table[FlowHash[flows[i].key]] # None

FlowInv == EntriesMirror /\ MacsHaveKeys /\ TableSound /\ KeysStored /\ OneFlowPerKey

StateType ==
  /\ hooked \subseteq Interfaces
  /\ flows \in [FlowIdx -> FlowRecord]
  /\ table \in [HashVals -> (FlowIdx \X Dirs) \cup {None}]
  /\ table_stale \in BOOLEAN
  /\ bufs \in [Buffers -> Buffer]
  /\ resets \subseteq Frame

IInv == StateType /\ FlowInv /\ TimerInv

LEMMA IInvInit == Init => IInv
<1> SUFFICES ASSUME Init PROVE IInv
  OBVIOUS
<1>1. 0 \in FlowIdx
  BY TimerConstants DEF FlowIdx
<1>2. StateType
  BY <1>1, ZeroFlowType DEF Init, StateType, FreeBuffer, Buffer
<1>3. \A i \in FlowIdx : /\ flows[i].refcount = 0
                         /\ \A d \in Dirs : ~flows[i].entry[d].mac
  BY DEF Init, ZeroFlow, ZeroEntry
<1>4. \A h \in HashVals : table[h] = None
  BY DEF Init
<1>5. FlowInv
  BY <1>3, <1>4 DEF FlowInv, EntriesMirror, MacsHaveKeys, TableSound, KeysStored,
     OneFlowPerKey, Live
<1> QED BY <1>2, <1>5, TimerInvInit DEF Init, IInv

\* What hash_set may have done.
LEMMA HashSet ==
  ASSUME StateType, NEW h \in HashVals, NEW v \in FlowIdx \X Dirs, hash_set(h, v)
  PROVE  /\ table' \in [HashVals -> (FlowIdx \X Dirs) \cup {None}]
         /\ table_stale' \in BOOLEAN
         /\ table' \in {table, [table EXCEPT ![h] = v]}
         /\ ~table_stale' => ~table_stale /\ table' = [table EXCEPT ![h] = v]
<1>1. (table_stale \/ Grows(table')) \in BOOLEAN
  BY Zenon
<1>2. table_stale' \in BOOLEAN
  BY <1>1 DEF hash_set
<1>3. table' \in {table, [table EXCEPT ![h] = v]}
  BY DEF hash_set
<1>4. ~table_stale' => ~table_stale /\ table' = [table EXCEPT ![h] = v]
  BY Zenon DEF hash_set
<1>5. table' \in [HashVals -> (FlowIdx \X Dirs) \cup {None}]
  BY <1>3 DEF StateType
<1> QED BY <1>2, <1>3, <1>4, <1>5

LEMMA EntryIsSomething == \A i \in FlowIdx, d \in Dirs : <<i, d>> # None
  BY TableConstants

LEMMA ArriveType ==
  ASSUME StateType, NEW b \in Buffers, NEW phase \in {"flow", "noflow", "unhooked"},
         NEW pkt \in Packet, NEW in \in Interfaces, NEW slot \in FlowIdx,
         Arrive(b, phase, pkt, in, slot)
  PROVE  bufs' \in [Buffers -> Buffer]
  BY DEF StateType, Arrive, Buffer

LEMMA LiveKeyType ==
  ASSUME IInv, NEW i \in Live
  PROVE  /\ flows[i].key \in FlowKeys
         /\ FlowHash[flows[i].key] \in HashVals
<1>1. flows[i] \in FlowRecord /\ flows[i].key # None
  BY DEF IInv, StateType, FlowInv, EntriesMirror, Live
<1> QED BY <1>1, TableConstants DEF FlowRecord

\* The first packet of a key.
LEMMA CreatePreserves ==
  ASSUME IInv, NEW b \in Buffers, NEW pkt \in Packets, NEW in \in Interfaces,
         ip4_input_create(b, pkt, in)
  PROVE  StateType' /\ FlowInv'
<1> DEFINE key == parse_key(pkt)
           h == FlowHash[key]
<1>1. pkt \in Packet /\ key \in FlowKeys /\ h \in HashVals /\ key # None
  BY TableConstants, ParseKeyType, KeyIsSomething
<1>2. PICK i \in FlowIdx :
        /\ flows[i].refcount = 0
        /\ flows' = [flows EXCEPT ![i] = init_state(NewFlow(key, in), "IN", pkt)]
        /\ hash_set(h, <<i, "IN">>)
        /\ Arrive(b, "flow", pkt, in, i)
  BY DEF ip4_input_create, pool_get
<1>3. hash_get(h, None) /\ resets' = {} /\ hooked' = hooked
  BY DEF ip4_input_create
<1> DEFINE f == init_state(NewFlow(key, in), "IN", pkt)
<1>4. "IN" \in Dirs /\ "OUT" \in Dirs
  BY DEF Dirs
<1>5. /\ f \in FlowRecord /\ f.refcount = 1 /\ f.key = key
      /\ f.entry["IN"].key = key /\ f.entry["OUT"].key = None /\ ~f.entry["OUT"].mac
  BY <1>1, <1>4, NewFlowType, InitStateType DEF SameEntries
<1>6. StateType
  BY DEF IInv
<1> HIDE DEF key, f, h
<1>7. /\ flows' \in [FlowIdx -> FlowRecord]
      /\ flows'[i] = f
      /\ \A j \in FlowIdx : j # i => flows'[j] = flows[j]
  BY <1>2, <1>5, <1>6 DEF StateType, f
<1>8. /\ table' \in [HashVals -> (FlowIdx \X Dirs) \cup {None}]
      /\ table_stale' \in BOOLEAN
      /\ table' \in {table, [table EXCEPT ![h] = <<i, "IN">>]}
      /\ ~table_stale' => ~table_stale /\ table' = [table EXCEPT ![h] = <<i, "IN">>]
  BY <1>1, <1>2, <1>4, <1>6, HashSet
<1>9. Live' = Live \cup {i} /\ i \notin Live
  BY <1>2, <1>5, <1>7 DEF Live
<1>10. StateType'
  BY <1>1, <1>2, <1>3, <1>6, <1>7, <1>8, ArriveType DEF StateType
<1>11. EntriesMirror' /\ MacsHaveKeys'
  BY <1>1, <1>5, <1>7, <1>9 DEF IInv, FlowInv, EntriesMirror, MacsHaveKeys, Live, Dirs
<1>12. TableSound'
  <2> SUFFICES ASSUME NEW g \in HashVals, table'[g] # None
               PROVE  \E j \in Live', d \in Dirs :
                        /\ table'[g] = <<j, d>>
                        /\ flows'[j].entry[d].key # None
                        /\ FlowHash[flows'[j].entry[d].key] = g
    BY DEF TableSound
  <2>1. CASE g = h /\ table' = [table EXCEPT ![h] = <<i, "IN">>]
    <3>1. table'[g] = <<i, "IN">>
      BY <2>1, <1>6 DEF StateType
    <3>2. FlowHash[flows'[i].entry["IN"].key] = g
      BY <2>1, <1>5, <1>7 DEF h
    <3> QED BY <3>1, <3>2, <1>1, <1>4, <1>5, <1>7, <1>9
  <2>2. CASE table'[g] = table[g]
    <3>1. PICK j \in Live, d \in Dirs :
            /\ table[g] = <<j, d>>
            /\ flows[j].entry[d].key # None
            /\ FlowHash[flows[j].entry[d].key] = g
      BY <2>2 DEF IInv, FlowInv, TableSound
    <3>2. flows'[j] = flows[j] /\ j \in Live'
      BY <1>7, <1>9 DEF Live
    <3> QED BY <2>2, <3>1, <3>2
  <2> QED BY <2>1, <2>2, <1>6, <1>8 DEF StateType
<1>13. FlowHash[flows'[i].key] = h
  BY <1>5, <1>7 DEF h
<1>14. \A j \in Live : flows'[j].key = flows[j].key /\ FlowHash[flows[j].key] \in HashVals
  BY <1>7, <1>9, LiveKeyType DEF Live
<1>15. KeysStored'
  <2> SUFFICES ASSUME ~table_stale', NEW j \in Live'
               PROVE  table'[FlowHash[flows'[j].key]] # None
    BY DEF KeysStored
  <2>1. ~table_stale /\ table' = [table EXCEPT ![h] = <<i, "IN">>] /\ table'[h] # None
    BY <1>1, <1>4, <1>6, <1>8, EntryIsSomething DEF StateType
  <2>2. CASE j = i
    BY <1>13, <2>1, <2>2
  <2>3. CASE j \in Live
    BY <1>14, <2>1, <2>3 DEF IInv, FlowInv, KeysStored, StateType
  <2> QED BY <2>2, <2>3, <1>9
<1>16. OneFlowPerKey'
  <2> SUFFICES ASSUME ~table_stale', NEW j \in Live', NEW k \in Live',
                      FlowHash[flows'[j].key] = FlowHash[flows'[k].key]
               PROVE  j = k
    BY DEF OneFlowPerKey
  <2>1. ~table_stale /\ table[h] = None
    BY <1>3, <1>8 DEF hash_get
  <2>2. \A l \in Live : FlowHash[flows[l].key] # h
    BY <2>1 DEF IInv, FlowInv, KeysStored
  <2>3. CASE j \in Live /\ k \in Live
    BY <1>14, <2>1, <2>3 DEF IInv, FlowInv, OneFlowPerKey
  <2> QED BY <1>9, <1>13, <1>14, <2>2, <2>3
<1> QED BY <1>10, <1>11, <1>12, <1>15, <1>16 DEF FlowInv

\* A step that leaves the table alone and changes no key, MAC address or
\* refcount of any flow keeps FlowInv.
LEMMA SameEntriesPreserves ==
  ASSUME IInv, UNCHANGED <<table, table_stale>>,
         \A i \in FlowIdx : SameEntries(flows[i], flows'[i])
  PROVE  FlowInv'
<1>1. Live' = Live
  BY DEF Live, SameEntries
<1>2. \A i \in Live : /\ flows'[i].key = flows[i].key
                      /\ \A d \in Dirs : flows'[i].entry[d].key = flows[i].entry[d].key
  BY DEF SameEntries, Live
<1>3. EntriesMirror' /\ MacsHaveKeys'
  BY <1>1 DEF IInv, FlowInv, EntriesMirror, MacsHaveKeys, SameEntries, Live, Dirs
<1>4. TableSound'
  <2> SUFFICES ASSUME NEW g \in HashVals, table[g] # None
               PROVE  \E j \in Live, d \in Dirs :
                        /\ table[g] = <<j, d>>
                        /\ flows'[j].entry[d].key # None
                        /\ FlowHash[flows'[j].entry[d].key] = g
    BY <1>1 DEF TableSound
  <2>1. PICK j \in Live, d \in Dirs :
          /\ table[g] = <<j, d>>
          /\ flows[j].entry[d].key # None
          /\ FlowHash[flows[j].entry[d].key] = g
    BY DEF IInv, FlowInv, TableSound
  <2> QED BY <1>2, <2>1
<1>5. KeysStored'
  BY <1>1, <1>2 DEF IInv, FlowInv, KeysStored
<1>6. OneFlowPerKey'
  BY <1>1, <1>2 DEF IInv, FlowInv, OneFlowPerKey
<1> QED BY <1>3, <1>4, <1>5, <1>6 DEF FlowInv

\* A packet whose hash is in the table.
LEMMA UpdatePreserves ==
  ASSUME IInv, NEW b \in Buffers, NEW pkt \in Packets, NEW in \in Interfaces,
         ip4_input_update(b, pkt, in)
  PROVE  StateType' /\ FlowInv'
<1>1. PICK i \in FlowIdx, dir \in Dirs :
        LET f == update_state(flows[i], dir, pkt) IN
        /\ flows' = [flows EXCEPT ![i] = f]
        /\ resets' \in tcp_send_reset(f) \/ resets' = {}
        /\ Arrive(b, "flow", pkt, in, i)
        /\ UNCHANGED <<hooked, table, table_stale>>
  BY DEF ip4_input_update
<1> DEFINE f == update_state(flows[i], dir, pkt)
<1>2. pkt \in Packet /\ flows[i] \in FlowRecord /\ StateType
  BY TableConstants DEF IInv, StateType
<1>3. f \in FlowRecord /\ SameEntries(flows[i], f)
  BY <1>2, UpdateStateType
<1>4. flows' = [flows EXCEPT ![i] = f] /\ (resets' \in tcp_send_reset(f) \/ resets' = {})
  BY <1>1
<1> HIDE DEF f
<1>5. /\ flows' \in [FlowIdx -> FlowRecord]
      /\ \A j \in FlowIdx : SameEntries(flows[j], flows'[j])
  BY <1>2, <1>3, <1>4 DEF StateType, SameEntries
<1>6. resets' \subseteq Frame
  <2>1. \A d \in Dirs : f.entry[d].mac => f.entry[d].key # None
    BY <1>3 DEF IInv, FlowInv, MacsHaveKeys, SameEntries
  <2> QED BY <1>3, <1>4, <2>1, ResetType
<1>7. StateType'
  BY <1>1, <1>2, <1>5, <1>6, ArriveType DEF StateType
<1> QED BY <1>1, <1>5, <1>7, SameEntriesPreserves

\* A packet that leaves by an enabled interface.
LEMMA OutputPreserves ==
  ASSUME IInv, NEW b \in Buffers, NEW out \in Interfaces, ip4_output_process(b, out)
  PROVE  StateType' /\ FlowInv'
<1> DEFINE i == bufs[b].slot
           key == flow_key_reverse(flows[i].key)
           h == FlowHash[key]
           f == flow_table_update_flow(flows[i], key, "OUT")
<1>1. StateType /\ i \in FlowIdx /\ flows[i] \in FlowRecord
  BY DEF IInv, StateType, Buffer
<1>2. /\ bufs' = [bufs EXCEPT ![b] = FreeBuffer(i)]
      /\ resets' = {} /\ hooked' = hooked
  BY DEF ip4_output_process
<1>3. bufs' \in [Buffers -> Buffer]
  BY <1>1, <1>2 DEF StateType, FreeBuffer, Buffer
<1>4. CASE UNCHANGED <<flows, table, table_stale>>
  <2>1. StateType'
    BY <1>1, <1>2, <1>3, <1>4 DEF StateType
  <2>2. \A j \in FlowIdx : SameEntries(flows[j], flows'[j])
    BY <1>4 DEF SameEntries
  <2> QED BY <1>4, <2>1, <2>2, SameEntriesPreserves
<1>5. CASE /\ flows[i].refcount = 1 /\ flows[i].entry["OUT"].key = None
           /\ flows' = [flows EXCEPT ![i] = f]
           /\ hash_set(h, <<i, "OUT">>)
  <2>1. i \in Live /\ "IN" \in Dirs /\ "OUT" \in Dirs
    BY <1>1, <1>5 DEF Live, Dirs
  <2>2. key \in FlowKeys /\ h \in HashVals /\ key # None
    BY <2>1, LiveKeyType, ReverseType, KeyIsSomething, TableConstants
  <2>3. /\ f \in FlowRecord /\ f.refcount = 1 /\ f.key = flows[i].key
        /\ f.entry["IN"] = flows[i].entry["IN"] /\ f.entry["OUT"].key = key
    BY <1>1, <1>5, <2>2, OutFlowType
  <2>4. key = flow_key_reverse(flows[i].key) /\ h = FlowHash[key]
    OBVIOUS
  <2>5. flows' = [flows EXCEPT ![i] = f] /\ hash_set(h, <<i, "OUT">>)
    BY <1>5
  <2> HIDE DEF key, h, f, i
  <2>6. /\ flows' \in [FlowIdx -> FlowRecord]
        /\ flows'[i] = f
        /\ \A j \in FlowIdx : j # i => flows'[j] = flows[j]
    BY <1>1, <2>3, <2>5 DEF StateType
  <2>7. Live' = Live /\ \A j \in FlowIdx : flows'[j].key = flows[j].key
    BY <1>5, <2>1, <2>3, <2>6 DEF Live
  <2>8. /\ table' \in [HashVals -> (FlowIdx \X Dirs) \cup {None}]
        /\ table_stale' \in BOOLEAN
        /\ table' \in {table, [table EXCEPT ![h] = <<i, "OUT">>]}
        /\ ~table_stale' => ~table_stale /\ table' = [table EXCEPT ![h] = <<i, "OUT">>]
    BY <1>1, <2>1, <2>2, <2>5, HashSet
  <2>9. StateType'
    BY <1>1, <1>2, <1>3, <2>6, <2>8 DEF StateType
  <2>10. EntriesMirror' /\ MacsHaveKeys'
    BY <2>1, <2>2, <2>3, <2>4, <2>6, <2>7
       DEF IInv, FlowInv, EntriesMirror, MacsHaveKeys, Live, Dirs
  <2>11. TableSound'
    <3> SUFFICES ASSUME NEW g \in HashVals, table'[g] # None
                 PROVE  \E j \in Live, d \in Dirs :
                          /\ table'[g] = <<j, d>>
                          /\ flows'[j].entry[d].key # None
                          /\ FlowHash[flows'[j].entry[d].key] = g
      BY <2>7 DEF TableSound
    <3>1. CASE g = h /\ table'[g] = <<i, "OUT">>
      BY <2>1, <2>2, <2>3, <2>4, <2>6, <3>1
    <3>2. CASE table'[g] = table[g]
      <4>1. PICK j \in Live, d \in Dirs :
              /\ table[g] = <<j, d>>
              /\ flows[j].entry[d].key # None
              /\ FlowHash[flows[j].entry[d].key] = g
        BY <3>2 DEF IInv, FlowInv, TableSound
      <4>2. flows'[j].entry[d] = flows[j].entry[d]
        <5>1. CASE j # i
          BY <2>6, <5>1 DEF Live
        <5>2. CASE j = i
          BY <1>5, <2>3, <2>6, <4>1, <5>2 DEF Dirs
        <5> QED BY <5>1, <5>2
      <4> QED BY <3>2, <4>1, <4>2
    <3> QED BY <1>1, <2>8, <3>1, <3>2 DEF StateType
  <2>12. KeysStored'
    <3> SUFFICES ASSUME ~table_stale', NEW j \in Live
                 PROVE  table'[FlowHash[flows[j].key]] # None
      BY <2>7 DEF KeysStored, Live
    <3>1. ~table_stale /\ table' = [table EXCEPT ![h] = <<i, "OUT">>]
      BY <2>8
    <3>2. table[FlowHash[flows[j].key]] # None /\ FlowHash[flows[j].key] \in HashVals
      BY <3>1, LiveKeyType DEF IInv, FlowInv, KeysStored
    <3> QED BY <1>1, <2>1, <3>1, <3>2, EntryIsSomething DEF StateType
  <2>13. OneFlowPerKey'
    BY <2>7, <2>8 DEF IInv, FlowInv, OneFlowPerKey, Live
  <2> QED BY <2>9, <2>10, <2>11, <2>12, <2>13 DEF FlowInv
<1> QED BY <1>4, <1>5 DEF ip4_output_process

\* The buffers after a packet that changes no flow.
LEMMA BuffersOnly ==
  ASSUME IInv, UNCHANGED <<flows, table, table_stale>>, resets' = {},
         hooked' \subseteq Interfaces, bufs' \in [Buffers -> Buffer]
  PROVE  StateType' /\ FlowInv'
<1>1. StateType'
  BY DEF IInv, StateType
<1>2. \A i \in FlowIdx : SameEntries(flows[i], flows'[i])
  BY DEF SameEntries
<1> QED BY <1>1, <1>2, SameEntriesPreserves

-----------------------------------------------------------------------------
\* Each step of the worker is a step of its timers, or leaves them alone.

LEMMA UpdateTimerStep ==
  ASSUME NEW i \in FlowIdx, NEW pkt, UpdateTimer(i, pkt)
  PROVE  [TimerNext]_timerVars
  BY DEF UpdateTimer, TimerNext

LEMMA RefinesTimer == [Next]_vars => [TimerNext]_timerVars
<1> SUFFICES ASSUME [Next]_vars PROVE [TimerNext]_timerVars
  OBVIOUS
<1>1. ASSUME NEW b \in Buffers, Receive(b) PROVE [TimerNext]_timerVars
  <2>1. PICK pkt \in Packets, in \in Interfaces :
          ip4_input_process(b, pkt, in) \/ input_unhooked(b, pkt, in)
    BY <1>1 DEF Receive
  <2>2. CASE ip4_input_create(b, pkt, in)
    BY <2>2, UpdateTimerStep DEF ip4_input_create
  <2>3. CASE ip4_input_full(b, pkt, in) \/ input_unhooked(b, pkt, in)
    BY <2>3 DEF ip4_input_full, input_unhooked
  <2>4. CASE ip4_input_update(b, pkt, in)
    BY <2>4, UpdateTimerStep DEF ip4_input_update
  <2> QED BY <2>1, <2>2, <2>3, <2>4 DEF ip4_input_process
<1>2. ASSUME NEW b \in Buffers, Transmit(b) PROVE [TimerNext]_timerVars
  BY <1>2 DEF Transmit, leave_unhooked, ip4_output_process
<1>3. ASSUME NEW interface \in Interfaces, vnetfilter_hook_enable_disable(interface)
      PROVE  [TimerNext]_timerVars
  BY <1>3 DEF vnetfilter_hook_enable_disable
<1>4. CASE flow_table_timer_update_time
  BY <1>4 DEF flow_table_timer_update_time, TimerNext
<1>5. CASE UNCHANGED vars
  BY <1>5 DEF vars
<1> QED BY <1>1, <1>2, <1>3, <1>4, <1>5 DEF Next

\* The timers of a worker's flow table are the timers of FlowTimer: packets and
\* ticks only ever do to the wheel and the handles what timer.h does.
THEOREM ImplementsTimer == Spec => TimerSpec
<1>1. Init => TimerInit
  BY DEF Init
<1> QED BY <1>1, RefinesTimer, PTL DEF Spec, TimerSpec

-----------------------------------------------------------------------------
\* The inductive invariant is kept by every step.

LEMMA ReceivePreserves ==
  ASSUME IInv, NEW b \in Buffers, Receive(b)
  PROVE  StateType' /\ FlowInv'
<1>1. PICK pkt \in Packets, in \in Interfaces :
        ip4_input_process(b, pkt, in) \/ input_unhooked(b, pkt, in)
  BY DEF Receive
<1>2. /\ StateType /\ pkt \in Packet /\ hooked \subseteq Interfaces
      /\ FLOW_UNSET \in FlowIdx /\ bufs[b].slot \in FlowIdx
  BY TableConstants, TimerConstants DEF IInv, StateType, Buffer, FLOW_UNSET, FlowIdx
<1>3. CASE ip4_input_create(b, pkt, in)
  BY <1>3, CreatePreserves
<1>4. CASE ip4_input_full(b, pkt, in)
  <2>1. bufs' \in [Buffers -> Buffer]
    BY <1>2, <1>4, ArriveType DEF ip4_input_full
  <2> QED BY <1>2, <1>4, <2>1, BuffersOnly DEF ip4_input_full
<1>5. CASE ip4_input_update(b, pkt, in)
  BY <1>5, UpdatePreserves
<1>6. CASE input_unhooked(b, pkt, in)
  <2>1. bufs' \in [Buffers -> Buffer]
    BY <1>2, <1>6, ArriveType DEF input_unhooked
  <2> QED BY <1>2, <1>6, <2>1, BuffersOnly DEF input_unhooked
<1> QED BY <1>1, <1>3, <1>4, <1>5, <1>6 DEF ip4_input_process

LEMMA TransmitPreserves ==
  ASSUME IInv, NEW b \in Buffers, Transmit(b)
  PROVE  StateType' /\ FlowInv'
<1>1. CASE leave_unhooked(b)
  <2>1. hooked \subseteq Interfaces /\ bufs \in [Buffers -> Buffer]
    BY DEF IInv, StateType
  <2>2. bufs' \in [Buffers -> Buffer]
    BY <1>1, <2>1 DEF leave_unhooked, FreeBuffer, Buffer
  <2> QED BY <1>1, <2>1, <2>2, BuffersOnly DEF leave_unhooked
<1>2. ASSUME NEW out \in Interfaces, ip4_output_process(b, out)
      PROVE  StateType' /\ FlowInv'
  BY <1>2, OutputPreserves
<1> QED BY <1>1, <1>2 DEF Transmit

LEMMA IInvStep == IInv /\ [Next]_vars => IInv'
<1> SUFFICES ASSUME IInv, [Next]_vars PROVE IInv'
  OBVIOUS
<1>1. TimerInv'
  BY RefinesTimer, TimerInvStep DEF IInv
<1>2. hooked \subseteq Interfaces /\ bufs \in [Buffers -> Buffer] /\ resets \subseteq Frame
  BY DEF IInv, StateType
<1>3. CASE \E b \in Buffers : Receive(b) \/ Transmit(b)
  BY <1>1, <1>3, ReceivePreserves, TransmitPreserves DEF IInv
<1>4. ASSUME NEW interface \in Interfaces, vnetfilter_hook_enable_disable(interface)
      PROVE  StateType' /\ FlowInv'
  BY <1>2, <1>4, BuffersOnly DEF vnetfilter_hook_enable_disable
<1>5. CASE flow_table_timer_update_time
  <2>1. StateType' /\ FlowInv'
    BY <1>2, <1>5, BuffersOnly DEF flow_table_timer_update_time
  <2> QED BY <1>1, <2>1 DEF IInv
<1>6. CASE UNCHANGED vars
  BY <1>1, <1>6 DEF vars, IInv, StateType, FlowInv, EntriesMirror, MacsHaveKeys, TableSound,
     KeysStored, OneFlowPerKey, Live
<1> QED BY <1>1, <1>3, <1>4, <1>5, <1>6 DEF Next, IInv

LEMMA IInvariant == Spec => []IInv
  BY IInvInit, IInvStep, PTL DEF Spec

-----------------------------------------------------------------------------
\* A flow table stays well typed: every entry's key, every slot of a buffer and
\* every reset frame is one the code's types and its own steps allow.
THEOREM TypeCorrect == Spec => []TypeOK
<1>1. IInv => TypeOK
  BY DEF IInv, StateType, TimerInv, TypeOK
<1> QED BY <1>1, IInvariant, PTL

\* Whatever hashes collide, and for what is left of a table that moved: what
\* ip4_input_process finds under a hash is an entry in use, in an allocated
\* flow, with a key of that hash.
THEOREM TableIsSound == Spec => []TableSound
  BY IInvariant, PTL DEF IInv, FlowInv

\* The two entries of each flow are the two directions of the flow's own key.
THEOREM EntriesAreMirrored == Spec => []EntriesMirror
  BY IInvariant, PTL DEF IInv, FlowInv

\* While the worker reads the table it writes, no second flow is created for a
\* key (nor for a hash) that has one.
THEOREM KeysAreUnique == Spec => []OneFlowPerKey
  BY IInvariant, PTL DEF IInv, FlowInv

LEMMA UnknownStep ==
  ASSUME IInv, [Next]_vars, NEW i \in Live, flows[i].state = "UNKNOWN"
  PROVE  /\ flows'[i].state = "UNKNOWN"
         /\ resets' # {} => flows'[i].entry = flows[i].entry
<1> DEFINE Goal == /\ flows'[i].state = "UNKNOWN"
                   /\ resets' # {} => flows'[i].entry = flows[i].entry
<1>1. i \in FlowIdx /\ flows[i].refcount = 1 /\ flows \in [FlowIdx -> FlowRecord]
  BY DEF Live, IInv, StateType
<1>2. ASSUME NEW b \in Buffers, NEW pkt \in Packets, NEW in \in Interfaces,
             ip4_input_create(b, pkt, in)
      PROVE  Goal
  <2>1. PICK j \in FlowIdx :
          flows[j].refcount = 0 /\ \E f : flows' = [flows EXCEPT ![j] = f]
    BY <1>2 DEF ip4_input_create, pool_get
  <2> QED BY <1>1, <2>1
<1>3. ASSUME NEW b \in Buffers, NEW pkt \in Packets, NEW in \in Interfaces,
             ip4_input_update(b, pkt, in)
      PROVE  Goal
  <2>1. PICK j \in FlowIdx, dir \in Dirs :
          LET f == update_state(flows[j], dir, pkt) IN
          /\ flows' = [flows EXCEPT ![j] = f]
          /\ resets' # {} => f.state = "ESTABLISHED"
    BY <1>3, Zenon DEF ip4_input_update, WantsReset
  <2>2. pkt \in Packet /\ flows[j] \in FlowRecord
    BY <1>1, TableConstants
  <2>3. flows[j].state = "UNKNOWN" => update_state(flows[j], dir, pkt).state = "UNKNOWN"
    BY <2>2, UpdateStateType
  <2>4. CASE j = i
    BY <1>1, <2>1, <2>3, <2>4
  <2>5. CASE j # i
    BY <1>1, <2>1, <2>5
  <2> QED BY <2>4, <2>5
<1>4. ASSUME NEW b \in Buffers, NEW out \in Interfaces, ip4_output_process(b, out)
      PROVE  Goal
  <2>1. resets' = {} /\ bufs[b].slot \in FlowIdx
    BY <1>4 DEF ip4_output_process, IInv, StateType, Buffer
  <2> DEFINE j == bufs[b].slot
             key == flow_key_reverse(flows[j].key)
  <2>2. flows' \in {flows, [flows EXCEPT ![j] = flow_table_update_flow(flows[j], key, "OUT")]}
    BY <1>4 DEF ip4_output_process
  <2>3. flow_table_update_flow(flows[j], key, "OUT").state = flows[j].state
    BY <1>1 DEF flow_table_update_flow, FlowRecord
  <2> QED BY <1>1, <2>1, <2>2, <2>3
<1>5. ASSUME UNCHANGED flows PROVE Goal
  BY <1>5
<1>6. ASSUME NEW b \in Buffers, Receive(b) \/ Transmit(b) PROVE Goal
  <2> HIDE DEF Goal
  <2>1. CASE UNCHANGED flows
    BY <1>5, <2>1
  <2>2. CASE ~UNCHANGED flows
    BY <1>2, <1>3, <1>4, <1>6, <2>2
       DEF Receive, Transmit, ip4_input_process, ip4_input_full, input_unhooked, leave_unhooked
  <2> QED BY <2>1, <2>2
<1>7. CASE \/ \E interface \in Interfaces : vnetfilter_hook_enable_disable(interface)
           \/ flow_table_timer_update_time
           \/ UNCHANGED vars
  BY <1>5, <1>7 DEF vnetfilter_hook_enable_disable, flow_table_timer_update_time, vars
<1> QED BY <1>6, <1>7 DEF Next

\* A flow that reached UNKNOWN stays there, and no packet of it causes a reset.
THEOREM UnknownStays == Spec => UnknownIsFinal
<1>1. IInv /\ [Next]_vars =>
        [\A i \in Live : flows[i].state = "UNKNOWN" =>
           /\ flows'[i].state = "UNKNOWN"
           /\ resets' # {} => flows'[i].entry = flows[i].entry]_vars
  BY UnknownStep
<1> QED BY <1>1, IInvariant, PTL DEF Spec, UnknownIsFinal
=============================================================================
