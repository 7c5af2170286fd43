# A model of vpp-plugins

The repository holds three VPP plugins: a flow table that tracks TCP connections
across a bridge, a sampler of the CPU load, and a runner of scripts on link
changes. This directory specifies them in TLA+: modules translated from the C
code, TLC configurations that check them on small instances, and theorems that
TLAPS proves for every instance. `PROJECT.json` maps each definition to the
lines it was translated from.

## Inventory

Paths are relative to `src/`.

| component | code | state | operations | hard because |
|---|---|---|---|---|
| flow record, TCP handler | `flow_table/core/include/flow.h`, `core/proto/*` | `flow_t`: key, two entries (tuple, interface, MACs, sequence numbers), TCP state, handshake mark | `parse_key`, `init_state`, `update_state`, `tcp_send_reset` | retransmitted, reordered and reused segments; the tracker sees both directions and neither endpoint |
| worker's flow table | `core/ip4_process.c`, `core/flow.c` | flow pool, hash table, one data word per buffer | `ip4_pre_process`, `ip4_input_process`, `ip4_output_process` | the two hooks of a packet are separate; the word outlives the packet; collisions; the pool runs out; the hash table moves |
| timers | `core/include/timer.h`, `core/timer.c` | timer wheel, a handle per flow | start, update, tick and expiry | handles go stale |
| vnetfilter | `flow_table/vnetfilter/*` | hook lists, interfaces the hooks are enabled on | CLI toggle, dispatch of a frame by return values | hooks change between packets; four arcs per interface, switched one by one; a loop unrolled by four that prefetches |
| start-up, protocol registry | `core/init.c`, `core/protocol.c`, `core/flow.c:23`, `core/proto/unimplemented.c` | table of handlers, hook lists, a pool per worker | register, get | order of registration, index 255, division by the workers |
| VLAN tags | `core/ip4_process.c:30`, `tcp_control.h:162` | two words per buffer, fields of the entry | parse, carry, write into a reset | offsets, words that outlive their packet |
| checksums | `tcp_control.h:17` | none | three functions with loops | byte order, carries, odd lengths |
| IPv6 hooks | `core/ip6_process.c` | none | stubs | - |
| `show flow-table` | `core/flow.c:62` | reads | formatting | - |
| cpu_loading | `cpu_loading/*` | idle and total time per thread, sampling interval | dispatch wrapper, sampling process, CLI | measurement in progress while it is reset; 0/0 |
| link_pulse | `link_pulse/*` | list of scripts | add, del, link event | events outrun the scripts they start |

How they interact: the graph of VPP gives a buffer to the hook nodes of
vnetfilter (`node.c`), which call the functions of `process.h` in order. The
input functions look up or create the flow and call the protocol's handler,
which updates the TCP state, the timer and, for an established flow, sends
resets. The input functions leave the flow's index in the buffer; the output
function reads it there. The timer node runs before each turn of the graph. The
other two plugins share nothing with the flow table. `cpu_loading` wraps every
node dispatch of every thread, and a process of the main thread reads and clears
the counters under the worker barrier. `link_pulse` is called on the main thread
for commands and for link events, and forks a child per script.

What makes each correct, in one line: a key finds one flow, in the direction
the packet travels; a packet changes its own connection's flow only; the TCP
state follows the table and resets answer the side they go to; an idle flow's
timer expires and is the flow's own; a buffer goes where its own hooks say; the
arcs of an interface are switched alike but for refusals that are told; every
protocol finds its own handler; a reset stays in the VLANs of its flow and its checksum is one a receiver accepts;
a sample counts what was measured once each; the list of scripts owns its
vectors and starts its scripts in order.

## Modules

The flow table:

* `TcpStateTransfer` - the TCP tables as operators: flags to events, and the
  next state per event and direction. The 90 rows are grouped by event.
* `Flow` - what one packet does to one `flow_t`. Operators only. The entry's
  `flow` pointer and tuple are one field, `key`, which is `None` while the
  pointer is NULL. MAC addresses are a flag: learnt or still zero.
* `FlowTimer` - timers of a worker and the flows' handles. `Tick` is one tick
  of the wheel, which is external (`Started`, `Ticked`); a timer that expires is
  freed, also when it has been freed before, and its callback changes nothing.
* `FlowTable` - EXTENDS `Flow` and `FlowTimer` and composes them: the pool
  (`flows`), the hash table (`table`, `table_stale`), the buffers (`bufs`, with
  their data word `slot`), the enabled interfaces (`hooked`) and the reset
  frames of the last step (`resets`). One action per node visit, CLI command
  and timer turn.
* `ConnTable` - the abstract promise: slots that hold a connection, known by the
  key of its first packet, its state, and the last numbers of each side. No hash
  table, no buffers, no reverse entries.
* `FlowConns` - the refinement mapping from `FlowTable` to `ConnTable`. A flow
  in use is a connection; `ConnSpec` is the abstract specification under it.
* `TcpConnection` - the handler of `Flow` in its surroundings: a client, a
  server, and a network that loses, repeats and reorders on both sides of the
  bridge; the hooks are enabled at any point; resets travel to the ends and act
  on them. The ends and the network are external and follow RFC 9293 and 5961 as
  far as flags and numbers of a SYN and a FIN go: an end may send a bare ACK from
  its first received segment on (3.10.7.4), as a server does that answers a SYN
  which comes twice, and close before its SYN is acknowledged (3.10.4).
* `VlanTags` - tags of a frame, through `ip4_pre_process`, the words of the
  buffer, the flow's entry and into a reset with its checksums.
* `Checksum` - the checksum functions, as operators that `VlanTags` uses.

vnetfilter and start-up:

* `VnetFilter` - one hook node: the loop by four, the loop by one, the calls of
  the hooks on each buffer, traces and prefetches.
* `HookCommand` - `vnetfilter enable-disable`: reading the words of the line,
  then one step per arc, which may refuse. How often each arc is enabled is
  counted, as VPP does. `Startup` composes it.
* `Startup` - the functions of `VLIB_INIT_FUNCTION`, then those of
  `VLIB_MAIN_LOOP_ENTER_FUNCTION`, in any order within their round, then the
  commands, with which packets come.

The other plugins:

* `CpuLoading` - the wrapper in three steps per thread (node, total, idle), the
  barrier, the sampling process, the command.
* `LinkPulse` - the list of scripts as pointers into a heap of vectors, the
  command with its error paths, link events and `fork`.
* `LinkListener` - what the comment at the top of `link_pulse.c` promises: a list
  of scripts and the order they are started in. `LinkPulse` implements it
  (`ListenerSpec`).

`MCFlowTable`, `MCTcpConnection`, `MCVnetFilter`, `MCStartup`, `MCVlanTags`,
`MCCpuLoading` and `MCLinkPulse` hold the instances for TLC. The theorems are in
`FlowTableProofs` (the timers and the table), `FlowConnsProofs` (lookups and the
refinement of `ConnTable`), `TcpConnectionProofs`, `StartupProofs` (with those
about `HookCommand`), `VlanTagsProofs` (with `Checksum`), `VnetFilterProofs`, `CpuLoadingProofs` and
`LinkPulseProofs`.

### Decisions worth knowing

* *The hash table that moves.* vppinfra's `hash_set` assigns the new address to
  its first argument, which is a local variable at `ip4_process.c:175` and
  `:227`. After a growth (`GrowAt` entries) `wrk->flows_hash_table` is the
  address of memory that was freed. `table_stale` says so; a lookup then returns
  what is in the table or nothing, and a store is kept or lost. Other contents of
  freed memory, or an abort, are not modelled: what holds is claimed for reads
  that still see old contents or a cleared block.
* *`pool_get`* hands out indices in order and returns NULL at the end, as the
  code expects (`flow.h:182`, `ip4_process.c:156`). A build of vppinfra that
  aborts on a full fixed pool stops there instead.
* *Collisions.* `FlowHash` is any function. `KeysResolve`, `BufferNamesItsFlow`
  and `Isolation` are stated for traffic without collisions, because with one the
  code does mix flows up (`ip4_process.c:180` says TODO). `TypeOK`, `TableSound`,
  `EntriesMirror` and `OneFlowPerKey` are proved with them; the instances for TLC
  have none.
* *Graph turns.* The CLI and the timer node run while no packet is in flight
  (`GraphIdle`). A packet may arrive whenever a buffer is free, which is more
  than the graph allows within one turn; the order of the hooks of different
  packets is left open, because it depends on how nodes are scheduled.
* *Bridge.* A packet never leaves by the interface it came in on; it may be
  dropped, or leave by an interface without hooks. Flooding one packet to
  several interfaces is not modelled.
* *Reset frames.* `tcp_send_reset` may send any subset of the frames of sides
  whose MACs are known, since a missing interface or an exhausted buffer pool
  suppresses some. The frames go to the output node of the interface and are not
  seen by the hooks. `Checksum` and `VlanTags` have what is in them; the rest of
  their layout is left out.
* *Timeouts.* All states have 5 seconds (`tcp_state_transfer.h:113`), hence one
  constant `Timeout`.
* *Free timers.* vppinfra's pool of timers takes one that is freed twice into its
  list of free ones twice, and hands it out twice. `freed` counts that, up to
  `MaxFreed`. The code gets there: a timer expires, a packet of its flow re-arms it
  through the stale handle (`timer.h:47`), and it expires again. What such a timer
  does to the lists of the wheel's slots, in which it may then be twice, is left
  out, so the model is kinder than the wheel from there on.
* *Two ends.* In `TcpConnection` a packet passes both hooks before the next one
  comes, so a connection has one flow; that it may have two is a question of
  `FlowTable`. On the bridge's side a set `wire` holds everything
  the ends may have sent, which is loss, repetition and reordering without a
  bound. Behind the bridge at most `MaxLate` segments are under way at once, each
  of which may be lost or come twice.
* *One connection.* The client opens it once; an end that was reset opens no
  other. Data is left out, a FIN is all that follows the SYN in an end's numbers.
* *Reset of an end.* A reset that has the expected number closes an end, in SYN-SENT
  one whose ACK is acceptable; any other is ignored (RFC 5961, RFC 9293 3.10.7.3). What is left of the connection afterwards is part of the
  model: the other end goes on, and is refused with resets.
* *Frames with tags.* The second of two tags is of type 802.1Q, as VPP only calls
  a frame IPv4 when it has at most two tags of which the second is such a one.
* *Byte order.* `Checksum` has a little-endian host. A byte has `Byte` values, so
  that all short segments can be tried. A sum is taken at once, modulo 2^32, and
  then folded as the loop folds it.
* *Resets in `VlanTags`* are sent between two frames, and one of them is followed
  until the next frame: a reset reads the entry and not the buffer in hand.
* *Dead code.* `hook##_hook_process` (`hook.c`), `flow_expiration_timer_reset`
  and the `priority` of a hook are never used. `Startup` keeps the order of
  registration, which is what decides.
* *Enabling an arc.* `vnet_l2_feature_enable_disable` adds the hook to an arc again
  when it is there, one disable takes one away, and disabling where there is none
  succeeds (`Switched`). What a packet meets on an arc whose hook is there twice is
  left out: `FlowTable` has hooks that are on or off.
* *Where a frame begins.* The nodes before the hooks leave any of `L2Offsets` in
  `l2_hdr_offset`. The hooks read the tags behind it and the IP header without it.
* *Words of a line.* `HookCommand` reads a line as words: "disable", the name of
  an interface, or another word. `unformat` skips blanks and matches as far as it
  can, which is not modelled.
* *The sampling process* waits for a time or an event and nobody signals it one.
  `vlib_process_get_events` gives ~0 then, so the loop is never left. With an
  interval of 0 the wait is over at once.
* *The barrier* is called for, then held when all workers are parked at the top
  of their loop. The main thread runs nodes, the process and commands one after
  the other and is never in the wrapper while it samples.
* *Vectors.* `LinkPulse` gives a vector any free address. A vector that is freed
  is `None` in `heap`; running out of memory aborts VPP and is left out.

## Runs

Passing:

| run | configuration | question | instance |
|---|---|---|---|
| table | `FlowTable_table` | keys and buffers keep their flows, a packet that has a flow changes its own connection only, timers of the composed system | 2 TCP connections in both directions, 2 flows, 2 buffers, growth at 4 entries; 850 K states up to symmetry |
| tcp | `FlowTable_tcp` | the flow table implements `ConnTable`; UNKNOWN is final | 1 connection opened, used and closed, 2 flows, 2 buffers, 2 numbers, a table that never moves; 484 K states |
| timers | `FlowTimer_pass` | handles and the timers they name, also stale ones; expiry | 3 flows, 3 timers, 3 ticks, `MaxFreed` = 2; 15 K states |
| ends | `TcpConnection_ends` | what the tracker believes and does, against the ends | 1 connection, `MaxLate` = 1; 148 K states |
| tags | `VlanTags_tags` | headers are found in frames that begin with the data, flows and resets keep to their VLANs, a receiver accepts each checksum | 3 tags, of which 2 have one id and different priority and 2 ids that agree in 8 bits; bytes of 2 bits, all segments up to 3 bytes and two of 9 and 10; frames at 0 and 50; 170 K states |
| frame | `VnetFilter_frame` | a buffer goes where its hooks say | frames of 1 to 13 buffers, 2 hooks |
| order | `Startup_order` | handlers, tables and hook lists after any order; arcs are apart by refusals only, and switched as asked | 0 or 3 workers, 7 protocols, 2 interfaces, lines of up to 2 words, up to two refusals of an interface, hooks enabled up to twice; 961 K states up to symmetry |
| sample | `CpuLoading_sample` | samples are exact and recur | 2 workers and the main thread, intervals of 0 and 1; 511 K states |
| scripts | `LinkPulse_scripts` | vectors and order of scripts | 4 paths for a list of 3, 4 vectors, 2 children |

Refuted, each a statement of the repository that the code does not keep (the
lines are in `PROJECT.json` under `findings`):

| run | what TLC shows |
|---|---|
| unset | `FLOW_UNSET` is the index of the first flow: a packet without a flow touches flow 0 |
| reverse | the table's address goes stale when it moves, a reverse entry is stored where nobody looks |
| expire | nothing frees an idle flow |

The models also have the following, which differ from what a comment, a message or
a diagram of the repository says; no run is spent on them.

| code | what it says | what it does, and where the model has it |
|---|---|---|
| `ip4_process.c:151` | `flow.h:85` "flow entry for each direction" | packets of both directions that cross before the output hook make two flows (`ip4_input_create`; `ConnTable` allows it) |
| `tcp_state_transfer.h:72` | the diagram in `docs/` draws CLOSE_WAIT, FIN, TIME_WAIT | the state is CLOSE (`OnFin`); the last ACK makes it ESTABLISHED once more, and a marked flow is then reset |
| `tcp_state_transfer.h:38` | `flow.h:97` "is tracking the complete three-way handshake?" | a marked flow is ESTABLISHED by a bare ACK after the first SYN (`OnAck`), such as the server's answer to a SYN that comes twice, and is then reset (`tcp.c:108`) before the handshake is complete; the client ignores the numbers of that reset (`ResetAfterHandshake`) |
| `timer.h:47` | `flow.h:116` "timer wheel for flow expiration" | a stale handle re-arms whichever timer it names by then: a free one, which is freed again when it expires and may then be handed to two flows, or another flow's (`flow_expiration_timer_rearm`, `Ticked`) |
| `ip4_process.c:167` | `tcp_control.h:140` "MAC addresses not learned yet, skip" | those of the side that answers are never learnt, it is never reset (`ConnSpec`: only the opener is) |
| `vnetfilter/node.c:129` | `node.c:30` prints "next index" | the trace is written before the hooks decide and always says drop (`turn_starts`) |
| `vnetfilter/cli.c:26` | `cli.c:40` has the grammar of a line | an unknown word ends the line and what stands before it is done (`SwitchedAsAsked`) |
| `unimplemented.c:54` | `:53` "for all protocols" | protocol 255 gets none (`unimplemented_protocol_handler_register`); `OwnHandler` is about the others |
| `vnetfilter/cli.c:32`, `node.c:60` | `node.c:51` "Enable or disable a feature on an interface" | VPP counts: enabled with one arc refused, enabled again and disabled without a refusal, an interface has three arcs enabled (`Switched`; `ApartByRefusals` says no more than that the refusal was told) |
| `ip4_process.c:74` | `:28` "L3 header offset", of a packet that `:40` reads behind `l2_hdr_offset` | the offset is counted from the Ethernet header and used from the start of the data, so the header of a frame at 50 is read 50 bytes too early (`ip4_pre_process`; `HeaderFound` is about frames at 0) |
| `tcp_control.h:165` | `:162` "Add VLAN tags if present" | an 802.1ad tag is answered with an 802.1Q tag (`ResetTags`) |
| `cpu_loading_cli.c:39` | `:40` "please input a valid sampling time" | 0 is accepted, and the main thread then samples for ever (`SamplesRecur` asks it back in its loop for other intervals only) |

The bounds of the flow table: two connections are the least that can be mixed up,
and their four keys the least with both directions; two buffers are one packet
between its hooks and one that overtakes it; two flows are fewer than the four
keys, so the pool runs out in `table`, and the hash table moves when it has all
four. In `tcp` two flows let both directions have one, and two values for a
sequence number tell the right number from any other. `MaxFlows`, `Handles`,
`Timeout`, `GrowAt` and `MaxFreed` are the only bounds; `MaxFreed` is 1 here, so that
a timer is freed while it is free and not handed out twice, and 2 in `timers`, where
two flows get one timer. The buffers are symmetric, and so are
the two peers of `table` and the interfaces of `order`; no run with symmetry checks liveness.

Of the others: 13 buffers are three turns by four, two of which prefetch and one
of which does not, and a tail. `MaxLate` = 1 is enough for a late segment to
change an end after any other segments passed the bridge, as the ends repeat what
they sent; it keeps segments behind the bridge from overtaking each other.
`ends` and `tcp` use a VIEW that leaves out fields no guard reads. Lines of two
words have a name and "disable" in either order, two names, or an unknown word in
either place. Hooks enabled twice (`MaxEnables`) and two refusals of
an interface's arcs (`MaxRefusals`) are enough for a refusal that a second command
does not make up for, and for two arcs that refuse in opposite directions. The
protocols of `order` are the three with a handler, both ends of the range and two
others; without workers and with three are the two ways the flows are divided.
`MaxTime` bounds what a thread measures between two samples:
one dispatch that takes time, and any number after a sample. A list limit of 3
with 4 paths reaches the full list, a middle that is removed and a duplicate; the
code has 10. `ThreadCounts`, `Protocols`, `MaxWords`, `Byte`, `Segments` and
`TagWords` are the other bounds.

### Fairness

`FlowTimer`: weak fairness of `Tick`, because the pre-input node runs on every
turn of the worker's loop. `FlowTable`: weak fairness of each buffer's
`Transmit`, because a turn runs until no frame is pending, and strong fairness
of the timer node, which is enabled between turns only. `CpuLoading`: weak
fairness of the rest of a wrapper once its node has returned, of parking, of the
process and of a command that runs, because threads do not stop in the middle of
their code; strong fairness of the clock, which the main thread looks at between
other work, and which is off while that work is done. Packets, link events and the CLI are never obliged to
come. Deadlock is checked in every run.

## Proofs

All theorems hold for every value of the constants that satisfies the named
assumptions (`FlowConstants`, `TimerConstants`, `TableConstants`, `ConnConstants`,
`ConnectionConstants`, `CommandConstants`, `StartupConstants`, `ByteConstant`,
`TagConstants`, `BytesConstants`, `NoneIsNoInfo`, `FilterConstants`, `CpuConstants`,
`LinkConstants`): sentinels are not values, the pool is not empty, hashes are of
the declared type, and the like. Some say something about the system: the sequence
numbers contain the three that an end of `TcpConnection` uses, the limit on flows
is at least one and at least the number of workers, the words of tags have 16 bits,
and what is summed fits a u32.

*FlowTimer.* `TimerInv`, the type with `TimerBelongsToUser`, is inductive: a start
gives a flow without a handle a free timer and makes the flow its user; an update
of a flow with a handle changes only `left`; a tick changes no user. That a timer
may be free, in the wheel and named by handles all at once takes nothing away from
it. From it follows the action property: any timer that would report a flow is the
one its handle names (`Rearmed`, `PutOff`). `TimerTypeCorrect`, `TimersBelong`,
`TimersPutOff`.

*FlowTable.* `ImplementsTimer`: each action maps to a timer step or a stutter.
The inductive invariant is

    IInv == StateType /\ (EntriesMirror /\ MacsHaveKeys /\ TableSound
                          /\ KeysStored /\ OneFlowPerKey) /\ TimerInv

`OneFlowPerKey` is not inductive: a new flow is made on a lookup that misses, so
one must know that the table has something under the hash of every live flow
(`KeysStored`), which in turn needs the table not to be stale. The type of reset
frames needs `MacsHaveKeys`: a side whose MACs are known has a tuple. There is
one lemma per action (`CreatePreserves`, `UpdatePreserves`, `OutputPreserves`;
`BuffersOnly` for the rest), on lemmas about the operators of `Flow`.
Consequences: `TypeCorrect`, `TableIsSound`, `EntriesAreMirrored`,
`KeysAreUnique`, and the action property `UnknownStays`.

*Lookups.* On top of `IInv`,

    LookupInv == KeysOfTraffic /\ EntriesStored /\ BuffersNameFlows

says that flows are only made for packets, that both entries of a flow are in
the table while it is not stale, and that a buffer between its hooks names a
live flow of its connection. Without collisions an entry that is found is the
entry of that key (`FoundIsOwn`). `StoredKeysResolve`, `BuffersNameTheirFlows`,
and from both the action property `FlowsAreIsolated`: of packets that have a flow
and went through the input hook. A packet that did neither touches flow 0 or the
flow of an earlier packet, which the run `unset` shows. The theorems state the
properties as they are, with the absence of collisions as a condition inside.

*Refinement.* `ImplementsConnTable == RoomyTable /\ NoCollision /\ Spec =>
ConnSpec`. A creation is an `Open`, an update a `Segment` in the direction of the
entry that was found, everything else `Quiet`. `RoomyTable` says that the hash
table has room for every hash, so that it never moves; `NoCollision` that no two
keys of the traffic share a hash. The mapping needs one more invariant
(`ConnInv`) than `LookupInv`. Both conditions are needed: with either of them
broken the code does not do what `ConnTable` says (runs `reverse` and, for
collisions, the TODO at `ip4_process.c:180`).

*TcpConnection.* The tracker sees segments in any order and any number of times,
and the ends do not. Two ideas carry the proof: what an end has sent and received
only grows, so whatever it has once said stays true of it (`SentStays`), and the
flow keeps what one segment of each side said, so it is never ahead of the ends.

    ConnInv == Agree /\ SegmentsSent /\ FlowFollows /\ ResetNumbers
               /\ TypeOK /\ ResetAfterHandshake /\ ResetNotAhead
               /\ MarkNamesClient /\ ClosingIsTrue

`Agree` is how far the two ends can be apart (neither has more than the other
sent, the client completes the handshake first), `SegmentsSent` that every
segment on either side of the bridge, other than the bridge's own resets, is
something its end has said, `FlowFollows` that the tracked numbers are within what the
opener has said and that the other side's MAC address is unknown. That last part is
what `ResetNotAhead` rests on, as only the opener is ever reset. A reset in the
middle of the handshake has the numbers of the client's SYN, which a client in
SYN-SENT does not obey (`Counts`), hence `ResetsAfterHandshake`. A segment that
reaches an end does one of four things to it (`WhatReceivedDoes`), and the hook does
one thing to the flow. The capacity `MaxLate` plays no part in the proof, so the
theorems are about any number of late segments, where the run has one.

*Startup and HookCommand.* `StartInv` gives the state as a function of what has
been called so far: the handler of every protocol (`Registered`), the hook lists
(`Listed`), the tables (`Allocated`), and that no function is called before its
round (`InOrder`). When packets come everything has been called, and
`PacketsFindHandlers` (for all protocols but 255), `PacketsFindTables` and
`PreHooksFirst` are what is left;
the second needs that dividing the flows leaves none of the workers without
(`Shares`). For the commands, `Sides` says that two arcs of an interface are apart by
no more than they refused; when the running command has passed one of them and not
the other (`Waiting`), the other is taken for what the command will make it
(`Meant`). Switching both keeps two counts as near as they were, also at 0, and
a refusal costs one (`SwitchedNear`). `AsLine` says that the command does what its
line says. `ArcsApartByRefusals` and the action property `SwitchesAsAsked` are proved
for any set of interfaces, lines of any length and any number of refusals.

*VlanTags.* `VlanInv` follows one flow's tags: the buffer has what its frame is parsed to
(`BufferOfFrame`), the entry has what the frames taken for it are parsed to
(`EntryOfFrames`), a reset has what the entry has (`ResetOfEntry`). The lemmas
say that packing two identifiers into a word and taking them out again is the
identity (`Unpacked`), that frames which are parsed alike are of the same VLANs
(`SameParse`), and that the tags of a reset are those of the frame its entry was
made from (`ResetSameVlans`). `HeadersFound`, `FlowsAreOfOneVlan`,
`ResetsInVlan`, for any set of tags of 16 bits; the first for frames that begin with
the data of their buffer.

*Checksum.* `ReceiversAccept` is about all bytes of all headers and addresses that
the u32 has room for (`BytesConstants`; the code's 54 bytes are far below). One's
complement sums are sums modulo u16 - 1 (`Wraps`), in which turning a word over
multiplies it by `Byte`, as `Byte` squared is 1 there (`TurnedOver`), so the sum
in memory order times `Byte` is that in network order (`WordsTurned`,
`PseudoTurned`); folding twice is enough and keeps the sum (`FoldedOnce`,
`FoldedSum`); so the receiver's total is a multiple of u16 - 1, and not 0
(`ChecksumAccepted`). What a fold computes is shown by induction over the sets of
indices that are still to be added, stated as a fact about sets (`SetInduction`,
`PartInduction`); that a function folds as `Folded` does, by naming one.

*VnetFilter.* `FilterInv` has the shape of the two loops: where `first`, `turn`
and `n_left_from` are with respect to each other, what is prefetched at that
point, and how far the watched buffer is. As any buffer may be the watched one,
`HooksDecideEveryBuffer` is about all of them, in frames of any size and lists
of any length. `PrefetchStaysInFrame`, `FilterTypeCorrect`.

*CpuLoading.* `CpuInv` says that what a thread did since its last sample is in
its counters or in the hands of its wrapper (`NothingLost`), and that the main
thread is out of the wrapper while it samples (`MainIsOut`). With the workers
parked nothing is in anyone's hands, hence `SamplesAreExact` and
`LoadingsInRange`. `CpuTypeCorrect`.

*LinkPulse.* `PulseInv` is the type with `VectorsOwned` and the position of an
event in the list. Each action is one of three outcomes of a command, a step of
an event or the end of a child; the lemmas on sequences say what appending and
deleting do to the texts under the pointers. `PulseTypeCorrect`,
`VectorsAreOwned`, and `ImplementsListener`, the refinement of `LinkListener`.

Only model-checked: liveness (`TimerRunsDown`, `SamplesRecur`), which is beyond the
prover, and the refuted properties, whose runs give the counterexample.

## Plan

Next: that `ConnTable` keeps promises of its own for any number of connections; a
model of VPP's interface pool for the interface numbers that outlive their
interface (`tcp_control.h:126`).

## Not modelled

* IPv6: the hooks are stubs that accept everything, so no flow is IPv6 and the
  IPv6 branches of `tcp_send_reset` are never taken. `Checksum` has the IPv6
  checksum function all the same.
* `show flow-table`, `show cpu-loading`, `show link_pulse scripts`: they read and
  format.
* The node for stolen buffers, which traces and frees nothing, the error counters
  and the formatting of traces.
* Several workers at once: they share no state of the flow table, so a second
  worker adds to `FlowTable` only that a connection may be seen in part, which
  the runs contain, as packets may come without hooks.
* VPP itself: the graph, the buffer pool, the hash table, the timer wheel, the
  barrier, feature arcs and `unformat` appear as the code uses them.
