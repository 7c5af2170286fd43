------------------------------ MODULE VlanTags ------------------------------
(***************************************************************************)
(* The VLAN tags of a packet on their way through the plugin: parsed from  *)
(* the frame by ip4_pre_process, carried in two words of the buffer to     *)
(* ip4_input_process, kept in the flow, and written again into the resets  *)
(* that are sent for the flow. One flow, any of them, is followed; other   *)
(* packets with other tags come between its packets and its resets.        *)
(*                                                                         *)
(* A frame is the sequence of its tags, each a type and the 16 bits of     *)
(* priority, CFI and VLAN ID; behind the last one is an IPv4 header. The   *)
(* second of two tags is of type VLAN. It begins l2_hdr_offset into the    *)
(* data of its buffer: past 0 when outer headers were taken off. Of a      *)
(* reset's bytes only those that one of its checksums covers are modelled, *)
(* for both IP versions.                                                   *)
(***************************************************************************)
EXTENDS Checksum

CONSTANTS
  TagWords,    \* the 16 bits of tags: priority_cfi_and_id in host order
  L2Offsets,   \* where frames begin in the data of their buffers
  AddrBytes,   \* the addresses of resets to try, source and destination in one
  Segments,    \* headers to try, with the checksum field zero
  IP_PROTOCOL_TCP,
  None

\* The values of the 16 bits of a tag, and of the identifier that is twelve of them.
TagSize == 65536
IdSize == 4096

ASSUME TagConstants ==
  /\ TagWords \subseteq 0 .. TagSize - 1
  /\ L2Offsets \subseteq Nat
  /\ IP_PROTOCOL_TCP \in 0 .. Byte - 1

\* What is summed is short enough for the sum of its words to fit a u32, as it does
\* in the code: a header of 20 bytes and addresses of at most 32.
ASSUME BytesConstants ==
  /\ Segments \cup AddrBytes \subseteq Seq(0 .. Byte - 1)
  /\ \A a \in AddrBytes : Len(a) % 2 = 0
  /\ \A seg \in Segments : Len(seg) + 2 <= u16
  /\ \A seg \in Segments, a \in AddrBytes : Len(seg) + Len(a) + 2 <= u16

ETHERNET_TYPE_IP4 == 2048
ETHERNET_TYPE_VLAN == 33024
ETHERNET_TYPE_DOT1AD == 34984

Tag(types) == [type: types, priority_cfi_and_id: TagWords]

Frames ==
  {<<>>} \cup {<<t>> : t \in Tag({ETHERNET_TYPE_VLAN, ETHERNET_TYPE_DOT1AD})} \cup
  {<<t, u>> : t \in Tag({ETHERNET_TYPE_VLAN, ETHERNET_TYPE_DOT1AD}),
              u \in Tag({ETHERNET_TYPE_VLAN})}

\* The type field n tags into the frame.
EtherType(frame, n) ==
  IF n < Len(frame) THEN frame[n + 1].type ELSE ETHERNET_TYPE_IP4

\* Mutant: priority and CFI are taken for a part of the identifier.
VlanId_unmasked(tag) == tag.priority_cfi_and_id

VlanId(tag) == tag.priority_cfi_and_id % IdSize

SizeOfEthernetHeader == 14

VARIABLES
  frame,         \* the frame in the worker's hands
  l2_hdr_offset, \* of its buffer, left by the nodes before
  opaque,        \* of its buffer: unused[0], unused[1] and l3_hdr_offset
  entry,         \* the VLAN fields of the flow's entry, None before its first packet
  taken,         \* history: the first and the last frame that were taken for the flow
  reset          \* history: a reset sent since the last frame, and one of its checksums

vars == <<frame, l2_hdr_offset, opaque, entry, taken, reset>>

\* flow_key_t and flow_entry_t have the same fields.
VlanInfo == [outer_vlan_id: 0 .. TagSize - 1, inner_vlan_id: 0 .. TagSize - 1, vlan_present: 0 .. 2]

ASSUME NoneIsNoInfo == None \notin VlanInfo

\* The IPv4 header has a checksum, and the TCP header of either version.
Summed ==
  [kind: {"ip4"}, addrs: {<<>>}, seg: {h \in Segments : Len(h) % 2 = 0}] \cup
  [kind: {"tcp"}, addrs: AddrBytes, seg: Segments]

TypeOK ==
  /\ frame \in Frames \cup {None}
  /\ l2_hdr_offset \in L2Offsets \cup {0}
  /\ opaque \in [vlan: 0 .. IdSize * TagSize - 1, present: 0 .. 2, l3_hdr_offset: 0 .. 22]
  /\ entry \in VlanInfo \cup {None}
  /\ taken = None \/ taken \in Frames \X Frames
  /\ reset = None \/ reset.summed \in Summed

\* The words of a new buffer hold what its last packet left there.
Init ==
  /\ frame = None /\ l2_hdr_offset = 0
  /\ opaque \in [vlan: {0, 65537}, present: {0, 2}, l3_hdr_offset: {0}]
  /\ entry = None /\ taken = None /\ reset = None

-----------------------------------------------------------------------------
has_outer(fr) == EtherType(fr, 0) \in {ETHERNET_TYPE_VLAN, ETHERNET_TYPE_DOT1AD}

has_inner(fr) == has_outer(fr) /\ EtherType(fr, 1) = ETHERNET_TYPE_VLAN

parse_vlan_tags(fr) ==
  [outer_vlan_id |-> IF has_outer(fr) THEN VlanId(fr[1]) ELSE 0,
   inner_vlan_id |-> IF has_inner(fr) THEN VlanId(fr[2]) ELSE 0,
   vlan_present  |-> IF has_inner(fr) THEN 2 ELSE IF has_outer(fr) THEN 1 ELSE 0]

\* Mutant: an inner tag is not counted.
l3_offset_of_one(fr) == SizeOfEthernetHeader + (IF has_outer(fr) THEN 4 ELSE 0)

l3_offset_of(fr) ==
  SizeOfEthernetHeader + (IF has_outer(fr) THEN 4 ELSE 0) + (IF has_inner(fr) THEN 4 ELSE 0)

\* A frame comes in, its beginning noted by the nodes before. Both identifiers go
\* into one word. The offset of the IP header is counted from the frame's beginning
\* and stored as one into the data, where the hooks look for the header.
ip4_pre_process(fr, at) ==
  LET v == parse_vlan_tags(fr) IN
  /\ frame = None /\ frame' = fr /\ l2_hdr_offset' = at
  /\ opaque' = [vlan |-> v.outer_vlan_id * TagSize + v.inner_vlan_id,
                present |-> v.vlan_present, l3_hdr_offset |-> l3_offset_of(fr)]
  /\ reset' = None
  /\ UNCHANGED <<entry, taken>>

\* Mutant: the identifiers are read with eight bits.
vlan_of_narrow(words) ==
  [outer_vlan_id |-> (words.vlan \div TagSize) % 256, inner_vlan_id |-> words.vlan % 256,
   vlan_present |-> words.present]

vlan_of(words) ==
  [outer_vlan_id |-> (words.vlan \div TagSize) % TagSize, inner_vlan_id |-> words.vlan % TagSize,
   vlan_present |-> words.present]

\* The flow's first packet gives its entry the fields of the key, a later one has
\* the same key. Packets of other flows leave it alone.
ip4_input_process ==
  /\ frame # None /\ frame' = None /\ l2_hdr_offset' = 0
  /\ \/ /\ entry = None /\ entry' = vlan_of(opaque)
        /\ taken' = <<frame, frame>>
     \/ /\ entry = vlan_of(opaque)
        /\ taken' = <<taken[1], frame>>
        /\ UNCHANGED entry
     \/ UNCHANGED <<entry, taken>>
  /\ UNCHANGED <<opaque, reset>>

-----------------------------------------------------------------------------
\* tcp_send_reset

\* Whatever the type, priority and CFI of the tag were that the identifier is from.
tag_of(id) == [type |-> ETHERNET_TYPE_VLAN, priority_cfi_and_id |-> id % IdSize]

\* Mutant: the inner tag is written first.
ResetTags_swapped(v) ==
  CASE v.vlan_present = 0 -> <<>>
    [] v.vlan_present = 1 -> <<tag_of(v.outer_vlan_id)>>
    [] OTHER              -> <<tag_of(v.inner_vlan_id), tag_of(v.outer_vlan_id)>>

ResetTags(v) ==
  CASE v.vlan_present = 0 -> <<>>
    [] v.vlan_present = 1 -> <<tag_of(v.outer_vlan_id)>>
    [] OTHER              -> <<tag_of(v.outer_vlan_id), tag_of(v.inner_vlan_id)>>

reset_l3_offset(v) == SizeOfEthernetHeader + 4 * v.vlan_present

\* One reset between two frames is followed.
tcp_send_reset(c) ==
  /\ frame = None /\ entry # None /\ reset = None
  /\ reset' = [frame |-> ResetTags(entry), l3_hdr_offset |-> reset_l3_offset(entry),
               summed |-> c, checksum |-> checksum_of(c.kind, c.addrs, IP_PROTOCOL_TCP, c.seg)]
  /\ UNCHANGED <<frame, l2_hdr_offset, opaque, entry, taken>>

Next ==
  \/ \E fr \in Frames, at \in L2Offsets : ip4_pre_process(fr, at)
  \/ ip4_input_process
  \/ \E c \in Summed : tcp_send_reset(c)

Spec == Init /\ [][Next]_vars

-----------------------------------------------------------------------------
\* Properties

L3Header(fr) == SizeOfEthernetHeader + 4 * Len(fr)

\* The hooks look for the IP header of a packet where it is, whatever its tags are
\* and its buffer carried before, when the frame begins with the data. When it
\* begins later they look that much too early: ip4_process.c:40 reads the tags
\* behind l2_hdr_offset, :77 and :122 the IP header without it.
HeaderFound ==
  frame # None /\ l2_hdr_offset = 0 =>
    opaque.l3_hdr_offset = l2_hdr_offset + L3Header(frame)

SameVlans(fr, gr) ==
  /\ Len(fr) = Len(gr)
  /\ \A n \in DOMAIN fr : VlanId(fr[n]) = VlanId(gr[n])

\* A reset belongs to the VLANs of the packets of its flow: as many tags, the
\* same identifiers in the same places, and the IP header behind them.
ResetInVlan ==
  reset # None =>
    /\ SameVlans(reset.frame, taken[1])
    /\ reset.l3_hdr_offset = L3Header(reset.frame)

\* A frame taken for a flow by its key is of the VLANs of the flow's first frame:
\* the words of the buffer keep apart what the frames keep apart.
FlowsOfOneVlan == taken # None => SameVlans(taken[1], taken[2])

\* The host that gets a reset accepts its checksums: the sum of the words in memory
\* order, its carries wrapped around, is that in network order turned over. It fits
\* the field.
ReceiverAccepts ==
  reset # None =>
    /\ reset.checksum \in 0 .. u16 - 1
    /\ Accepted(reset.summed.kind, reset.summed.addrs, IP_PROTOCOL_TCP, reset.summed.seg,
                reset.checksum)
=============================================================================
