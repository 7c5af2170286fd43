----------------------------- MODULE MCVlanTags -----------------------------
(***************************************************************************)
(* An instance of VlanTags for TLC: three tags, two of the same VLAN and   *)
(* two of identifiers that agree in eight bits. A byte has two bits; a     *)
(* segment has up to three bytes, or as many as a u32 allows, all ones.     *)
(***************************************************************************)
EXTENDS VlanTags

MCTagWords == {1, 257, 8449}

MCAddrBytes == {<<1, 2>>, <<3, 3, 3, 2>>}

MCSegments ==
  BoundedSeq(0 .. Byte - 1, 3) \cup
  {[n \in 1 .. 9 |-> Byte - 1], [n \in 1 .. 10 |-> Byte - 1]}
=============================================================================
