------------------------------ MODULE Checksum ------------------------------
(***************************************************************************)
(* The checksums of a reset (tcp_control.h), for a byte of any number of   *)
(* values. The host is little-endian and sums the words as they lie in     *)
(* memory; only numbers it has in registers are turned over by htons. The  *)
(* three functions differ in what they put before the bytes they sum.      *)
(***************************************************************************)
EXTENDS Integers, SequencesExt

CONSTANT Byte        \* the number of values of a byte: 256 in the code

ASSUME ByteConstant == Byte \in Nat \ {0, 1}

u16 == Byte * Byte
u32 == u16 * u16

\* A number in a register turned over, as its two bytes lie in memory.
htons(n) == Byte * (n % Byte) + (n \div Byte)

\* An odd byte at the end counts as the low byte of a word.
SumOfWords(bytes) ==
  SumFunction([i \in 1 .. Len(bytes) |-> IF i % 2 = 1 THEN bytes[i] ELSE Byte * bytes[i]])

\* Mutant: the length of the segment is added as it is in the register.
pseudo_host_order(kind, addrs, proto, len) ==
  IF kind = "ip4" THEN 0 ELSE SumOfWords(addrs) + htons(proto) + len

\* The IPv4 header has no pseudo header; that of IPv6 has longer addresses and a
\* length of two words, the high one of which is 0 for a u16.
pseudo(kind, addrs, proto, len) ==
  IF kind = "ip4" THEN 0 ELSE SumOfWords(addrs) + htons(proto) + htons(len)

\* while (sum >> 16)
Folded[sum \in Nat] ==
  IF sum >= u16 THEN Folded[(sum % u16) + (sum \div u16)] ELSE sum

\* The value of the checksum field, as a register.
checksum_of(kind, addrs, proto, seg) ==
  u16 - 1 - Folded[(pseudo(kind, addrs, proto, Len(seg)) + SumOfWords(seg)) % u32]

-----------------------------------------------------------------------------
\* What a receiver computes: RFC 1071, with the words in network order.

NetWords(bytes) ==
  SumFunction([i \in 1 .. Len(bytes) |-> IF i % 2 = 1 THEN Byte * bytes[i] ELSE bytes[i]])

\* The words of the packet with its checksum, which is stored as it is in the
\* register, its low byte first, have the one's complement sum -0.
Accepted(kind, addrs, proto, seg, checksum) ==
  LET total == NetWords(seg) + htons(checksum) +
               (IF kind = "ip4" THEN 0 ELSE NetWords(addrs) + proto + Len(seg))
  IN  total > 0 /\ total % (u16 - 1) = 0
=============================================================================
