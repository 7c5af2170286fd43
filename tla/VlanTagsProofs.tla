--------------------------- MODULE VlanTagsProofs ---------------------------
(***************************************************************************)
(* Proofs about VlanTags and Checksum. For frames with any tags: what is   *)
(* parsed, packed into the buffer, unpacked, kept and written again is the *)
(* same VLANs all the way. For resets of any bytes, of any size, the host  *)
(* that receives them finds the checksum right: one's complement sums are  *)
(* sums modulo u16 - 1, where turning a word over multiplies it by Byte.   *)
(***************************************************************************)
EXTENDS VlanTags, TLAPS, FiniteSetTheorems, WellFoundedInduction

-----------------------------------------------------------------------------
\* Frames.

LEMMA Sizes == TagSize \in Nat /\ IdSize \in Nat /\ 0 < IdSize /\ IdSize < TagSize
  BY DEF TagSize, IdSize

LEMMA TagId == \A w \in TagWords : w % IdSize \in 0 .. IdSize - 1
<1>1. \A w \in TagWords : w \in Nat
  BY TagConstants, Sizes
<1> QED BY <1>1, Sizes

\* A frame has the tags its types say.
LEMMA FrameTags ==
  ASSUME NEW fr \in Frames
  PROVE  /\ Len(fr) \in 0 .. 2
         /\ DOMAIN fr = 1 .. Len(fr)
         /\ has_outer(fr) <=> Len(fr) >= 1
         /\ has_inner(fr) <=> Len(fr) = 2
         /\ \A n \in 1 .. Len(fr) : VlanId(fr[n]) \in 0 .. IdSize - 1
<1> DEFINE Outer == Tag({ETHERNET_TYPE_VLAN, ETHERNET_TYPE_DOT1AD})
           Inner == Tag({ETHERNET_TYPE_VLAN})
<1>1. \A t \in Outer : /\ t.type \in {ETHERNET_TYPE_VLAN, ETHERNET_TYPE_DOT1AD}
                       /\ VlanId(t) \in 0 .. IdSize - 1
  BY TagId DEF Tag, VlanId
<1>2. \A t \in Inner : t.type = ETHERNET_TYPE_VLAN /\ VlanId(t) \in 0 .. IdSize - 1
  BY TagId DEF Tag, VlanId
<1> Frames = {<<>>} \cup {<<t>> : t \in Outer} \cup {<<t, u>> : t \in Outer, u \in Inner}
  BY DEF Frames
<1> HIDE DEF Outer, Inner
<1>3. \/ fr = <<>> \/ \E t \in Outer : fr = <<t>>
      \/ \E t \in Outer, u \in Inner : fr = <<t, u>>
  OBVIOUS
<1>4. CASE fr = <<>>
  BY <1>4 DEF has_outer, has_inner, EtherType, ETHERNET_TYPE_VLAN, ETHERNET_TYPE_DOT1AD,
     ETHERNET_TYPE_IP4
<1>5. ASSUME NEW t \in Outer, fr = <<t>>
      PROVE  /\ Len(fr) = 1 /\ DOMAIN fr = 1 .. 1 /\ fr[1] = t
             /\ has_outer(fr) /\ ~has_inner(fr)
  BY <1>1, <1>5 DEF has_outer, has_inner, EtherType, ETHERNET_TYPE_VLAN, ETHERNET_TYPE_DOT1AD,
     ETHERNET_TYPE_IP4
<1>6. ASSUME NEW t \in Outer, NEW u \in Inner, fr = <<t, u>>
      PROVE  /\ Len(fr) = 2 /\ DOMAIN fr = 1 .. 2 /\ fr[1] = t /\ fr[2] = u
             /\ has_outer(fr) /\ has_inner(fr)
  BY <1>1, <1>2, <1>6 DEF has_outer, has_inner, EtherType, ETHERNET_TYPE_VLAN,
     ETHERNET_TYPE_DOT1AD, ETHERNET_TYPE_IP4
<1>7. CASE \E t \in Outer : fr = <<t>>
  BY <1>1, <1>5, <1>7
<1>8. CASE \E t \in Outer, u \in Inner : fr = <<t, u>>
  BY <1>1, <1>2, <1>6, <1>8
<1> QED BY <1>3, <1>4, <1>7, <1>8

\* What a frame's tags are parsed to.
LEMMA ParsedTags ==
  ASSUME NEW fr \in Frames
  PROVE  LET v == parse_vlan_tags(fr) IN
         /\ v \in [outer_vlan_id: 0 .. IdSize - 1, inner_vlan_id: 0 .. IdSize - 1, vlan_present: 0 .. 2]
         /\ v.vlan_present = Len(fr)
         /\ Len(fr) >= 1 => v.outer_vlan_id = VlanId(fr[1])
         /\ Len(fr) = 2 => v.inner_vlan_id = VlanId(fr[2])
<1>1. /\ Len(fr) >= 1 => VlanId(fr[1]) \in 0 .. IdSize - 1
      /\ Len(fr) = 2 => VlanId(fr[2]) \in 0 .. IdSize - 1
  BY FrameTags
<1> DEFINE outer == IF has_outer(fr) THEN VlanId(fr[1]) ELSE 0
           inner == IF has_inner(fr) THEN VlanId(fr[2]) ELSE 0
           depth == IF has_inner(fr) THEN 2 ELSE IF has_outer(fr) THEN 1 ELSE 0
<1>2. parse_vlan_tags(fr) =
        [outer_vlan_id |-> outer, inner_vlan_id |-> inner, vlan_present |-> depth]
  BY Zenon DEF parse_vlan_tags
<1>3. /\ outer \in 0 .. IdSize - 1 /\ inner \in 0 .. IdSize - 1
      /\ depth = Len(fr) /\ depth \in 0 .. 2
      /\ Len(fr) >= 1 => outer = VlanId(fr[1])
      /\ Len(fr) = 2 => inner = VlanId(fr[2])
  BY <1>1, FrameTags, Sizes
<1> HIDE DEF outer, inner, depth
<1> QED BY <1>2, <1>3

LEMMA SameParse ==
  ASSUME NEW fr \in Frames, NEW gr \in Frames, parse_vlan_tags(fr) = parse_vlan_tags(gr)
  PROVE  SameVlans(fr, gr)
<1>1. Len(fr) = Len(gr) /\ DOMAIN fr = 1 .. Len(fr) /\ Len(fr) \in 0 .. 2
  BY FrameTags, ParsedTags
<1>2. /\ Len(fr) >= 1 => VlanId(fr[1]) = VlanId(gr[1])
      /\ Len(fr) = 2 => VlanId(fr[2]) = VlanId(gr[2])
  BY <1>1, ParsedTags
<1>3. \A n \in 1 .. Len(fr) : n = 1 \/ (n = 2 /\ Len(fr) = 2)
  BY <1>1
<1> QED BY <1>1, <1>2, <1>3 DEF SameVlans

\* Two identifiers in one word come out as they went in.
LEMMA Unpacked ==
  ASSUME NEW outer \in 0 .. IdSize - 1, NEW inner \in 0 .. IdSize - 1
  PROVE  /\ outer * TagSize + inner \in 0 .. IdSize * TagSize - 1
         /\ ((outer * TagSize + inner) \div TagSize) % TagSize = outer
         /\ (outer * TagSize + inner) % TagSize = inner
<1>1. outer * TagSize + inner \in Nat /\ outer * TagSize + inner < IdSize * TagSize
  BY DEF TagSize, IdSize
<1>2. ((outer * TagSize + inner) \div TagSize) % TagSize = outer
  BY DEF TagSize, IdSize
<1>3. (outer * TagSize + inner) % TagSize = inner
  BY DEF TagSize, IdSize
<1>4. IdSize * TagSize \in Nat
  BY Sizes
<1> DEFINE w == outer * TagSize + inner
           n == IdSize * TagSize
<1>5. w \in Nat /\ n \in Nat /\ w < n
  BY <1>1, <1>4
<1> HIDE DEF w, n
<1>6. w \in 0 .. n - 1
  BY <1>5
<1> QED BY <1>2, <1>3, <1>6 DEF w, n

\* A reset has the tags of the frame its entry was made from.
LEMMA ResetSameVlans ==
  ASSUME NEW fr \in Frames
  PROVE  LET v == parse_vlan_tags(fr) IN
         /\ SameVlans(ResetTags(v), fr)
         /\ reset_l3_offset(v) = L3Header(ResetTags(v))
<1> DEFINE v == parse_vlan_tags(fr)
<1> SUFFICES SameVlans(ResetTags(v), fr) /\ reset_l3_offset(v) = L3Header(ResetTags(v))
  OBVIOUS
<1>1. /\ v.outer_vlan_id \in 0 .. IdSize - 1 /\ v.inner_vlan_id \in 0 .. IdSize - 1
      /\ v.vlan_present \in 0 .. 2 /\ v.vlan_present = Len(fr)
      /\ Len(fr) >= 1 => v.outer_vlan_id = VlanId(fr[1])
      /\ Len(fr) = 2 => v.inner_vlan_id = VlanId(fr[2])
  BY ParsedTags
<1>2. \A id \in 0 .. IdSize - 1 : VlanId(tag_of(id)) = id
  <2>1. \A id : tag_of(id).priority_cfi_and_id = id % IdSize
    BY DEF tag_of
  <2>2. \A id \in 0 .. IdSize - 1 : (id % IdSize) % IdSize = id
    BY DEF IdSize
  <2> QED BY <2>1, <2>2, Zenon DEF VlanId
<1> HIDE DEF v
<1> DEFINE one == <<tag_of(v.outer_vlan_id)>>
           two == <<tag_of(v.outer_vlan_id), tag_of(v.inner_vlan_id)>>
<1>3. /\ v.vlan_present = 0 => ResetTags(v) = <<>>
      /\ v.vlan_present = 1 => ResetTags(v) = one
      /\ v.vlan_present = 2 => ResetTags(v) = two
  <2>1. ResetTags(v) = CASE v.vlan_present = 0 -> <<>>
                         [] v.vlan_present = 1 -> one
                         [] OTHER              -> two
    BY Zenon DEF ResetTags
  <2> HIDE DEF one, two
  <2> QED BY <2>1
<1>4. /\ DOMAIN one = 1 .. 1 /\ Len(one) = 1 /\ one[1] = tag_of(v.outer_vlan_id)
      /\ DOMAIN two = 1 .. 2 /\ Len(two) = 2 /\ two[1] = tag_of(v.outer_vlan_id)
      /\ two[2] = tag_of(v.inner_vlan_id)
  OBVIOUS
<1> HIDE DEF one, two
<1>5. CASE Len(fr) = 0
  BY <1>1, <1>3, <1>5 DEF SameVlans, reset_l3_offset, L3Header
<1>6. CASE Len(fr) = 1
  <2>1. ResetTags(v) = one
    BY <1>1, <1>3, <1>6
  <2>2. \A n \in DOMAIN one : VlanId(one[n]) = VlanId(fr[n])
    BY <1>1, <1>2, <1>4, <1>6
  <2> QED BY <1>1, <1>4, <1>6, <2>1, <2>2 DEF SameVlans, reset_l3_offset, L3Header
<1>7. CASE Len(fr) = 2
  <2>1. ResetTags(v) = two
    BY <1>1, <1>3, <1>7
  <2>2. \A n \in DOMAIN two : n = 1 \/ n = 2
    BY <1>4
  <2>3. \A n \in DOMAIN two : VlanId(two[n]) = VlanId(fr[n])
    BY <1>1, <1>2, <1>4, <1>7, <2>2
  <2> QED BY <1>1, <1>4, <1>7, <2>1, <2>3 DEF SameVlans, reset_l3_offset, L3Header
<1> QED BY <1>1, <1>5, <1>6, <1>7

-----------------------------------------------------------------------------
\* Sums. What a fold over a set computes is shown by induction over the sets of
\* indices that are still to be added.

\* Induction over the naturals, as a fact about sets.
LEMMA SetInduction ==
  ASSUME NEW K \in SUBSET Nat, 0 \in K, \A k \in K : k + 1 \in K
  PROVE  K = Nat
<1>1. SUFFICES ASSUME Nat \ K # {} PROVE FALSE
  OBVIOUS
<1>2. PICK x \in Nat \ K : \A y \in Nat \ K : <<y, x>> \notin OpToRel(<, Nat)
  BY <1>1, NatLessThanWellFounded, WFMin, Zenon
<1>3. \A y \in Nat : y < x => y \in K
  BY <1>2 DEF OpToRel
<1>4. x \in Nat /\ x # 0 /\ x \notin K
  BY <1>2
<1>5. x - 1 \in Nat /\ x - 1 < x /\ (x - 1) + 1 = x
  BY <1>4
<1> QED BY <1>3, <1>4, <1>5

\* The element a fold takes out of a set.
Taken(s) == CHOOSE x \in s : TRUE

LEMMA TakenFrom == ASSUME NEW s, s # {} PROVE Taken(s) \in s
  BY DEF Taken

\* The sets of indices of a sequence of n numbers.
Parts(n) == SUBSET (1 .. n)

LEMMA PartSizes ==
  ASSUME NEW n \in Nat, NEW s \in Parts(n)
  PROVE  /\ Cardinality(s) \in Nat /\ Cardinality(s) <= n
         /\ Cardinality(s) = 0 <=> s = {}
         /\ s # {} => /\ Taken(s) \in 1 .. n
                      /\ s \ {Taken(s)} \in Parts(n)
                      /\ Cardinality(s \ {Taken(s)}) = Cardinality(s) - 1
<1>1. IsFiniteSet(1 .. n) /\ Cardinality(1 .. n) = n
  BY FS_Interval
<1>2. IsFiniteSet(s) /\ Cardinality(s) <= n
  BY <1>1, FS_Subset DEF Parts
<1>3. Cardinality(s) \in Nat
  BY <1>2, FS_CardinalityType
<1>4. s # {} => Cardinality(s \ {Taken(s)}) = Cardinality(s) - 1
  BY <1>2, TakenFrom, FS_RemoveElement
<1>5. Cardinality(s) = 0 <=> s = {}
  BY <1>2, FS_EmptySet
<1>6. s # {} => Taken(s) \in 1 .. n /\ s \ {Taken(s)} \in Parts(n)
  BY TakenFrom DEF Parts
<1> QED BY <1>2, <1>3, <1>4, <1>5, <1>6

LEMMA WholeIsPart == \A n \in Nat : 1 .. n \in Parts(n) /\ {} \in Parts(n)
  BY DEF Parts

LEMMA PartInduction ==
  ASSUME NEW n \in Nat, NEW Q \in SUBSET Parts(n), {} \in Q,
         \A s \in Parts(n) : s # {} /\ s \ {Taken(s)} \in Q => s \in Q
  PROVE  Q = Parts(n)
<1> DEFINE K == {k \in Nat : \A s \in Parts(n) : Cardinality(s) <= k => s \in Q}
<1>1. 0 \in K
  <2>1. \A s \in Parts(n) : Cardinality(s) \in Nat /\ (Cardinality(s) = 0 => s = {})
    BY PartSizes, Zenon
  <2>2. \A s \in Parts(n) : Cardinality(s) <= 0 => s = {}
    BY <2>1
  <2> QED BY <2>2
<1>2. ASSUME NEW k \in K PROVE k + 1 \in K
  <2>1. k \in Nat /\ \A s \in Parts(n) : Cardinality(s) <= k => s \in Q
    OBVIOUS
  <2>2. ASSUME NEW s \in Parts(n), Cardinality(s) <= k + 1, s # {} PROVE s \in Q
    <3> DEFINE t == s \ {Taken(s)}
    <3>1. t \in Parts(n) /\ Cardinality(t) = Cardinality(s) - 1
      BY <2>2, PartSizes
    <3>2. Cardinality(s) \in Nat
      BY PartSizes
    <3>3. Cardinality(t) <= k
      BY <2>1, <2>2, <3>1, <3>2
    <3>4. t \in Q
      BY <2>1, <3>1, <3>3
    <3> QED BY <2>2, <3>4
  <2>3. \A s \in Parts(n) : Cardinality(s) <= k + 1 => s \in Q
    BY <2>2
  <2> QED BY <2>1, <2>3
<1>3. K \subseteq Nat
  OBVIOUS
<1>4. K = Nat
  <2> HIDE DEF K
  <2> QED BY <1>1, <1>2, <1>3, SetInduction
<1>5. ASSUME NEW s \in Parts(n) PROVE s \in Q
  <2>1. Cardinality(s) \in Nat /\ Cardinality(s) <= n
    BY PartSizes
  <2>2. n \in K
    BY <1>4
  <2> QED BY <2>1, <2>2
<1> QED BY <1>5

\* What SumFunction computes: a function of the sets of indices still to be added.
SumOver(f) ==
  CHOOSE iter : iter = [s \in SUBSET DOMAIN f |->
                          IF s = {} THEN 0 ELSE f[Taken(s)] + iter[s \ {Taken(s)}]]

LEMMA SumFunctionIs == ASSUME NEW f PROVE SumFunction(f) = SumOver(f)[DOMAIN f]
  BY DEF SumFunction, SumFunctionOnSet, FoldFunctionOnSet, MapThenFoldSet, Taken, SumOver

\* There is one.
LEMMA SumExists ==
  ASSUME NEW n \in Nat, NEW f \in [1 .. n -> Nat]
  PROVE  \E g \in [Parts(n) -> Nat] :
           g = [s \in Parts(n) |-> IF s = {} THEN 0 ELSE f[Taken(s)] + g[s \ {Taken(s)}]]
<1> DEFINE Sum(g, s) == IF s = {} THEN 0 ELSE f[Taken(s)] + g[s \ {Taken(s)}]
           Upto(k, g) == \A s \in Parts(n) : Cardinality(s) <= k => g[s] = Sum(g, s)
           K == {k \in Nat : \E g \in [Parts(n) -> Nat] : Upto(k, g)}
<1>1. ASSUME NEW g \in [Parts(n) -> Nat], NEW s \in Parts(n) PROVE Sum(g, s) \in Nat
  <2>1. s # {} => Taken(s) \in 1 .. n /\ s \ {Taken(s)} \in Parts(n)
    BY PartSizes, Zenon
  <2>2. s # {} => f[Taken(s)] \in Nat /\ g[s \ {Taken(s)}] \in Nat
    BY <2>1
  <2> QED BY <2>2
<1>2. \A s \in Parts(n) : /\ Cardinality(s) \in Nat /\ Cardinality(s) <= n
                          /\ Cardinality(s) = 0 => s = {}
                          /\ s # {} => /\ s \ {Taken(s)} \in Parts(n)
                                       /\ Cardinality(s \ {Taken(s)}) = Cardinality(s) - 1
  BY PartSizes, Zenon
<1>3. 0 \in K
  <2> DEFINE g == [s \in Parts(n) |-> 0]
  <2>1. g \in [Parts(n) -> Nat]
    OBVIOUS
  <2>2. \A s \in Parts(n) : Cardinality(s) <= 0 => s = {}
    <3>1. \A s \in Parts(n) : Cardinality(s) \in Nat /\ (Cardinality(s) = 0 => s = {})
      BY <1>2, Zenon
    <3> QED BY <3>1
  <2>3. \A s \in Parts(n) : s = {} => g[s] = Sum(g, s)
    OBVIOUS
  <2>4. Upto(0, g)
    BY <2>2, <2>3
  <2> HIDE DEF g, Upto
  <2> QED BY <2>1, <2>4
<1>4. ASSUME NEW k \in K PROVE k + 1 \in K
  <2>1. PICK g \in [Parts(n) -> Nat] : Upto(k, g)
    OBVIOUS
  <2> DEFINE h == [s \in Parts(n) |-> Sum(g, s)]
  <2>2. h \in [Parts(n) -> Nat]
    BY <1>1
  <2>3. ASSUME NEW s \in Parts(n), Cardinality(s) <= k + 1 PROVE h[s] = Sum(h, s)
    <3>1. CASE s = {}
      BY <3>1
    <3>2. CASE s # {}
      <4> DEFINE t == s \ {Taken(s)}
      <4>1. /\ t \in Parts(n) /\ Cardinality(t) = Cardinality(s) - 1
            /\ Cardinality(s) \in Nat
        BY <3>2, <1>2, Zenon
      <4> HIDE DEF t
      <4>2. k \in Nat /\ Cardinality(t) <= k
        BY <2>3, <4>1
      <4>3. h[t] = Sum(g, t) /\ g[t] = Sum(g, t)
        BY <2>1, <4>1, <4>2
      <4>4. h[s] = f[Taken(s)] + g[t]
        BY <3>2 DEF t
      <4>5. Sum(h, s) = f[Taken(s)] + h[t]
        BY <3>2 DEF t
      <4> HIDE DEF h, Sum
      <4> QED BY <4>3, <4>4, <4>5
    <3> QED BY <3>1, <3>2
  <2>4. Upto(k + 1, h)
    BY <2>3
  <2> HIDE DEF Upto, h
  <2> QED BY <2>2, <2>4
<1>5. K \subseteq Nat
  OBVIOUS
<1>6. n \in K
  <2> HIDE DEF K
  <2> QED BY <1>3, <1>4, <1>5, SetInduction
<1>7. PICK g \in [Parts(n) -> Nat] : Upto(n, g)
  BY <1>6
<1>8. \A s \in Parts(n) : g[s] = Sum(g, s)
  <2> HIDE DEF Sum
  <2> QED BY <1>2, <1>7
<1>9. g = [s \in Parts(n) |-> Sum(g, s)]
  <2> HIDE DEF Sum
  <2> QED BY <1>8
<1> QED BY <1>9

\* Sums are natural numbers, and are made one index at a time.
LEMMA SumOverSteps ==
  ASSUME NEW n \in Nat, NEW f \in [1 .. n -> Nat]
  PROVE  /\ SumOver(f) \in [Parts(n) -> Nat]
         /\ SumOver(f)[{}] = 0
         /\ \A s \in Parts(n) :
              s # {} => SumOver(f)[s] = f[Taken(s)] + SumOver(f)[s \ {Taken(s)}]
<1> DEFINE F == SumOver(f)
<1>1. PICK g \in [Parts(n) -> Nat] :
        g = [s \in Parts(n) |-> IF s = {} THEN 0 ELSE f[Taken(s)] + g[s \ {Taken(s)}]]
  BY SumExists, Zenon
<1>2. F = [s \in Parts(n) |-> IF s = {} THEN 0 ELSE f[Taken(s)] + F[s \ {Taken(s)}]]
  <2>1. SUBSET DOMAIN f = Parts(n)
    BY DEF Parts
  <2>2. F = CHOOSE iter : iter = [s \in Parts(n) |->
                                   IF s = {} THEN 0 ELSE f[Taken(s)] + iter[s \ {Taken(s)}]]
    BY <2>1, Zenon DEF SumOver
  <2> HIDE DEF F
  <2> QED BY <1>1, <2>2, Zenon
<1> HIDE DEF F
<1> DEFINE Q == {s \in Parts(n) : F[s] = g[s]}
<1>3. {} \in Parts(n)
  BY WholeIsPart
<1>4. F[{}] = 0 /\ g[{}] = 0
  BY <1>1, <1>2, <1>3
<1>5. ASSUME NEW s \in Parts(n), s # {}
      PROVE  /\ F[s] = f[Taken(s)] + F[s \ {Taken(s)}]
             /\ g[s] = f[Taken(s)] + g[s \ {Taken(s)}]
  BY <1>1, <1>2, <1>5
<1>6. ASSUME NEW s \in Parts(n), s # {}, s \ {Taken(s)} \in Q PROVE s \in Q
  BY <1>5, <1>6
<1>7. Q \in SUBSET Parts(n) /\ {} \in Q
  BY <1>3, <1>4
<1>8. Q = Parts(n)
  <2> HIDE DEF Q
  <2> QED BY <1>6, <1>7, PartInduction
<1>9. \A s \in Parts(n) : F[s] \in Nat
  BY <1>8
<1>10. F \in [Parts(n) -> Nat]
  BY <1>2, <1>9
<1> QED BY <1>4, <1>5, <1>10 DEF F

-----------------------------------------------------------------------------
\* Sums modulo u16 - 1, in which the carries of a sum of words are wrapped around.

LEMMA Words16 == Byte \in Nat /\ Byte >= 2 /\ u16 \in Nat /\ u16 = Byte * Byte /\ u16 >= 2 * Byte
<1> DEFINE b == Byte
<1>1. b \in Nat /\ b >= 2
  BY ByteConstant
<1> HIDE DEF b
<1>2. b * b \in Nat /\ b * b >= 2 * b
  BY <1>1
<1> QED BY <1>1, <1>2 DEF u16, b

Wraps(a, b) == \E k \in Int : a = b + k * (u16 - 1)

LEMMA WrapsItself == ASSUME NEW a \in Int PROVE Wraps(a, a)
<1> DEFINE m == u16 - 1
<1>1. m \in Int
  BY Words16
<1>2. a = a + 0 * m
  BY <1>1
<1> QED BY <1>2 DEF Wraps

LEMMA WrapsAdd ==
  ASSUME NEW a \in Int, NEW b \in Int, NEW c \in Int, NEW d \in Int, Wraps(a, b), Wraps(c, d)
  PROVE  Wraps(a + c, b + d)
<1> DEFINE m == u16 - 1
<1>1. m \in Int
  BY Words16
<1>2. PICK k \in Int : a = b + k * m
  BY DEF Wraps
<1>3. PICK l \in Int : c = d + l * m
  BY DEF Wraps
<1> HIDE DEF m
<1>4. a + c = (b + d) + (k + l) * m /\ k + l \in Int
  BY <1>1, <1>2, <1>3
<1> QED BY <1>4 DEF Wraps, m

LEMMA WrapsTimes ==
  ASSUME NEW a \in Int, NEW b \in Int, Wraps(a, b)
  PROVE  Wraps(Byte * a, Byte * b)
<1> DEFINE m == u16 - 1
<1>1. m \in Int /\ Byte \in Int
  BY Words16
<1>2. PICK k \in Int : a = b + k * m
  BY DEF Wraps
<1> HIDE DEF m
<1>3. Byte * a = Byte * b + (Byte * k) * m /\ Byte * k \in Int
  BY <1>1, <1>2
<1> QED BY <1>3 DEF Wraps, m

LEMMA WrapsOn ==
  ASSUME NEW a \in Int, NEW b \in Int, NEW c \in Int, Wraps(a, b), Wraps(b, c)
  PROVE  Wraps(a, c)
<1> DEFINE m == u16 - 1
<1>1. m \in Int
  BY Words16
<1>2. PICK k \in Int : a = b + k * m
  BY DEF Wraps
<1>3. PICK l \in Int : b = c + l * m
  BY DEF Wraps
<1> HIDE DEF m
<1>4. a = c + (k + l) * m /\ k + l \in Int
  BY <1>1, <1>2, <1>3
<1> QED BY <1>4 DEF Wraps, m

\* A number that wraps to 0 has no remainder.
LEMMA WrapsToZero ==
  ASSUME NEW a \in Nat, Wraps(a, 0)
  PROVE  a % (u16 - 1) = 0
<1> DEFINE m == u16 - 1
<1>1. m \in Nat /\ m > 0
  BY Words16
<1>2. PICK k \in Int : a = 0 + k * m
  BY DEF Wraps
<1> HIDE DEF m
<1> DEFINE q == a \div m
           r == a % m
<1>3. q \in Int /\ r \in 0 .. m - 1 /\ a = m * q + r
  BY <1>1
<1> HIDE DEF q, r
<1> DEFINE d == k - q
<1>4. d \in Int /\ r = m * d
  BY <1>1, <1>2, <1>3
<1> HIDE DEF d
<1>5. d >= 1 => m * d >= m
  BY <1>1, <1>4
<1>6. d <= -1 => m * d <= -m
  BY <1>1, <1>4
<1>7. d = 0
  BY <1>1, <1>3, <1>4, <1>5, <1>6
<1>8. r = 0
  BY <1>1, <1>4, <1>7
<1> QED BY <1>8 DEF r, m

\* Turning a number over multiplies it by Byte, and so does turning it back.
LEMMA TurnedOver ==
  ASSUME NEW n \in 0 .. u16 - 1
  PROVE  /\ htons(n) \in 0 .. u16 - 1
         /\ Wraps(htons(n), Byte * n) /\ Wraps(n, Byte * htons(n))
         /\ htons(n) <= Byte * n /\ n <= Byte * htons(n)
<1> DEFINE b == Byte
           q == n \div b
           r == n % b
           m == u16 - 1
           h == b * r + q
<1>1. b \in Nat /\ b >= 2 /\ m = b * b - 1 /\ n \in Nat /\ n <= m /\ m \in Nat
  BY Words16
<1>2. htons(n) = h
  BY DEF htons
<1> HIDE DEF b, m
<1>3. q \in Int /\ r \in 0 .. b - 1 /\ n = b * q + r
  BY <1>1
<1> HIDE DEF q, r
<1>4. q \in 0 .. b - 1
  <2>1. q <= -1 => b * q <= -b
    BY <1>1, <1>3
  <2>2. q >= b => b * q >= b * b
    BY <1>1, <1>3
  <2> QED BY <1>1, <1>3, <2>1, <2>2
<1>5. h \in Int /\ h >= 0 /\ h <= m
  <2>1. b * r >= 0 /\ b * r <= b * (b - 1)
    BY <1>1, <1>3
  <2>2. b * (b - 1) = b * b - b
    BY <1>1
  <2> QED BY <1>1, <1>3, <1>4, <2>1, <2>2
<1>6. h = b * n + (-q) * m
  <2>1. b * n = b * b * q + b * r
    BY <1>1, <1>3
  <2>2. (-q) * m = q - b * b * q
    BY <1>1, <1>3
  <2> QED BY <1>1, <1>3, <2>1, <2>2
<1>7. n = b * h + (-r) * m
  <2>1. b * h = b * b * r + b * q
    BY <1>1, <1>3
  <2>2. (-r) * m = r - b * b * r
    BY <1>1, <1>3
  <2> QED BY <1>1, <1>3, <2>1, <2>2
<1>8. h <= b * n
  <2>1. q * m >= 0
    BY <1>1, <1>4
  <2>2. (-q) * m = -(q * m)
    BY <1>1, <1>3
  <2> QED BY <1>1, <1>3, <1>5, <1>6, <2>1, <2>2
<1>9. n <= b * h
  <2>1. r * m >= 0
    BY <1>1, <1>3
  <2>2. (-r) * m = -(r * m)
    BY <1>1, <1>3
  <2>3. b * h \in Int
    BY <1>1, <1>5
  <2> QED BY <1>1, <1>3, <1>7, <2>1, <2>2, <2>3
<1>10. -q \in Int /\ -r \in Int
  BY <1>3
<1> HIDE DEF h
<1>11. Wraps(h, b * n)
  BY <1>6, <1>10 DEF Wraps, m
<1>12. Wraps(n, b * h)
  BY <1>7, <1>10 DEF Wraps, m
<1>13. h \in 0 .. u16 - 1
  BY <1>5 DEF m
<1> QED BY <1>2, <1>8, <1>11, <1>12, <1>13, <1>9 DEF b

-----------------------------------------------------------------------------
\* Folding.

Once(sum) == (sum % u16) + (sum \div u16)

LEMMA FoldedOnce ==
  ASSUME NEW n \in Nat, n >= u16
  PROVE  /\ Once(n) \in Nat /\ Once(n) > 0
         /\ \E q \in Nat : n = Once(n) + q * (u16 - 1)
         /\ Wraps(Once(n), n)
         /\ n < 2 * u16 - 1 => Once(n) < u16
         /\ n < u32 => Once(n) < 2 * u16 - 1
<1> DEFINE u == u16
           m == u16 - 1
           q == n \div u
           r == n % u
           o == r + q
<1>1. u \in Nat /\ u >= 4 /\ m = u - 1 /\ n >= u /\ m \in Nat
  BY Words16
<1>2. Once(n) = o
  BY DEF Once
<1>3. u32 = u * u
  BY DEF u32
<1> HIDE DEF u, m
<1>4. q \in Int /\ r \in 0 .. u - 1 /\ n = u * q + r
  BY <1>1
<1> HIDE DEF q, r
<1>5. q >= 1
  <2>1. q <= 0 => u * q <= 0
    BY <1>1, <1>4
  <2> QED BY <1>1, <1>4, <2>1
<1>6. o \in Nat /\ o > 0
  BY <1>4, <1>5
<1>7. n = o + q * m
  <2>1. q * m = u * q - q
    BY <1>1, <1>4
  <2> QED BY <1>1, <1>4, <2>1
<1>8. o = n + (-q) * m
  <2>1. (-q) * m = -(q * m)
    BY <1>1, <1>4
  <2> QED BY <1>1, <1>4, <1>6, <1>7, <2>1
<1>9. n < 2 * u - 1 => o < u
  <2>1. q >= 2 => u * q >= 2 * u
    BY <1>1, <1>4
  <2>2. q = 1 => u * q = u
    BY <1>1
  <2> QED BY <1>1, <1>4, <1>5, <2>1, <2>2
<1>10. n < u * u => o < 2 * u - 1
  <2>1. q >= u => u * q >= u * u
    BY <1>1, <1>4
  <2>2. u * u \in Int
    BY <1>1
  <2> QED BY <1>1, <1>4, <1>5, <2>1, <2>2
<1>11. q \in Nat /\ -q \in Int
  BY <1>4, <1>5
<1> HIDE DEF o
<1>12. Wraps(o, n)
  BY <1>8, <1>11 DEF Wraps, m
<1> QED BY <1>2, <1>3, <1>6, <1>7, <1>9, <1>10, <1>11, <1>12 DEF u, m

LEMMA RemainderAgain ==
  ASSUME NEW m \in Nat, m > 0, NEW a \in Nat, NEW k \in Nat
  PROVE  (a + k * m) % m = a % m
<1> DEFINE b == a + k * m
<1>1. b \in Nat
  BY DEF b
<1> DEFINE q == a \div m
           r == a % m
<1>2. q \in Int /\ r \in 0 .. m - 1 /\ a = m * q + r
  OBVIOUS
<1> HIDE DEF q, r
<1>3. b = a + k * m
  OBVIOUS
<1> HIDE DEF b
<1> DEFINE p == b \div m
           s == b % m
<1>4. p \in Int /\ s \in 0 .. m - 1 /\ b = m * p + s
  BY <1>1
<1> HIDE DEF p, s
<1> DEFINE d == q + k - p
<1>5. d \in Int /\ s - r = m * d
  <2>1. m * d = m * q + k * m - m * p
    BY <1>2, <1>4
  <2>2. k * m \in Int /\ m * q \in Int /\ m * p \in Int
    BY <1>2, <1>4
  <2> QED BY <1>2, <1>3, <1>4, <2>1, <2>2
<1> HIDE DEF d
<1>6. (d >= 1 => m * d >= m) /\ (d <= -1 => m * d <= -m) /\ (d = 0 => m * d = 0)
  BY <1>5
<1>7. s = r
  BY <1>2, <1>4, <1>5, <1>6
<1> QED BY <1>7 DEF r, s, b

\* There is a function that folds: the remainder, with u16 - 1 for 0.
LEMMA FoldedExists ==
  \E g : g = [sum \in Nat |-> IF sum >= u16 THEN g[(sum % u16) + (sum \div u16)] ELSE sum]
<1> DEFINE m == u16 - 1
           g == [n \in Nat |-> IF n = 0 THEN 0 ELSE ((n - 1) % m) + 1]
<1>1. m \in Nat /\ m > 0 /\ u16 = m + 1 /\ u16 \in Nat
  BY Words16
<1>2. ASSUME NEW n \in Nat, n >= u16 PROVE g[n] = g[Once(n)]
  <2>1. PICK q \in Nat : n = Once(n) + q * m
    BY <1>2, FoldedOnce
  <2>2. Once(n) \in Nat /\ Once(n) > 0
    BY <1>2, FoldedOnce
  <2> DEFINE o == Once(n)
  <2> HIDE DEF o, m
  <2>3. o \in Nat /\ o - 1 \in Nat /\ o # 0 /\ n = o + q * m
    BY <2>1, <2>2 DEF o
  <2>4. n - 1 = (o - 1) + q * m
    <3>1. q * m \in Nat
      BY <1>1
    <3> QED BY <2>3, <3>1
  <2>5. (n - 1) % m = (o - 1) % m
    <3>1. ((o - 1) + q * m) % m = (o - 1) % m
      BY <1>1, <2>3, RemainderAgain, Zenon
    <3> QED BY <2>4, <3>1, Zenon
  <2>6. n # 0
    BY <1>1, <1>2
  <2> QED BY <2>3, <2>5, <2>6 DEF o
<1>3. ASSUME NEW n \in Nat, n < u16 PROVE g[n] = n
  <2>1. CASE n = 0
    BY <2>1
  <2>2. CASE n # 0
    <3> HIDE DEF m
    <3>1. n - 1 \in 0 .. m - 1
      BY <1>1, <1>3, <2>2
    <3>2. (n - 1) % m = n - 1
      BY <1>1, <3>1
    <3> QED BY <2>2, <3>2
  <2> QED BY <2>1, <2>2
<1>4. DOMAIN g = Nat
  OBVIOUS
<1>5. \A n \in Nat : g[n] = IF n >= u16 THEN g[(n % u16) + (n \div u16)] ELSE n
  <2> HIDE DEF g
  <2> SUFFICES ASSUME NEW n \in Nat
               PROVE  g[n] = IF n >= u16 THEN g[(n % u16) + (n \div u16)] ELSE n
    OBVIOUS
  <2>1. n >= u16 \/ n < u16
    BY <1>1
  <2>2. n < u16 => ~(n >= u16)
    BY <1>1
  <2>3. n >= u16 => g[n] = g[(n % u16) + (n \div u16)]
    BY <1>2, Zenon DEF Once
  <2> QED BY <1>3, <2>1, <2>2, <2>3, Zenon
<1>6. g = [n \in Nat |-> g[n]]
  OBVIOUS
<1> HIDE DEF g
<1>7. g = [n \in Nat |-> IF n >= u16 THEN g[(n % u16) + (n \div u16)] ELSE n]
  BY <1>4, <1>5, <1>6, Zenon
<1> QED BY <1>7, Zenon

\* A sum of 32 bits is folded at most twice.
LEMMA FoldedSum ==
  ASSUME NEW n \in Nat, n < u32
  PROVE  /\ Folded[n] \in Nat /\ Folded[n] < u16
         /\ Wraps(Folded[n], n) /\ (Folded[n] = 0 <=> n = 0)
<1>1. Folded = [sum \in Nat |->
                  IF sum >= u16 THEN Folded[(sum % u16) + (sum \div u16)] ELSE sum]
  BY FoldedExists, Zenon DEF Folded
<1>2. \A i \in Nat : Folded[i] = IF i >= u16 THEN Folded[Once(i)] ELSE i
  BY <1>1, Zenon DEF Once
<1>3. u16 \in Nat
  BY Words16
<1>4. \A i \in Nat : /\ i < u16 => Folded[i] = i
                     /\ i >= u16 => Folded[i] = Folded[Once(i)]
  BY <1>2, <1>3
<1>5. n >= u16 => n # 0
  BY Words16
<1>6. CASE n < u16
  BY <1>4, <1>6, WrapsItself
<1>7. CASE n >= u16
  <2> DEFINE o == Once(n)
             p == Once(o)
  <2>1. o \in Nat /\ o > 0 /\ Wraps(o, n) /\ o < 2 * u16 - 1
    BY <1>7, FoldedOnce
  <2> HIDE DEF o
  <2>2. Folded[n] = Folded[o]
    BY <1>4, <1>7 DEF o
  <2>3. CASE o < u16
    BY <1>4, <1>7, <1>5, <2>1, <2>2, <2>3
  <2>4. CASE o >= u16
    <3>1. p \in Nat /\ p > 0 /\ Wraps(p, o) /\ p < u16
      BY <2>1, <2>4, FoldedOnce
    <3>2. Folded[o] = Folded[p]
      BY <1>4, <2>1, <2>4
    <3> HIDE DEF p
    <3>3. Folded[p] = p
      BY <1>4, <3>1
    <3>4. Wraps(p, n)
      BY <2>1, <3>1, WrapsOn
    <3> QED BY <1>7, <1>5, <2>2, <3>1, <3>2, <3>3, <3>4
  <2> QED BY <1>3, <2>1, <2>3, <2>4
<1> QED BY <1>3, <1>6, <1>7

-----------------------------------------------------------------------------
\* Sums of words, in memory order and in network order.

LEMMA Times ==
  ASSUME NEW a \in Nat, NEW b \in Nat
  PROVE  Byte * a \in Nat /\ Byte * b \in Nat /\ Byte * (a + b) = Byte * a + Byte * b
  BY Words16

\* The second list is the first turned over.
LEMMA SumsTurned ==
  ASSUME NEW n \in Nat, NEW f \in [1 .. n -> Nat], NEW g \in [1 .. n -> Nat],
         \A i \in 1 .. n : /\ f[i] <= u16 - 1
                          /\ Wraps(g[i], Byte * f[i]) /\ f[i] <= Byte * g[i]
  PROVE  /\ SumFunction(f) \in Nat /\ SumFunction(f) <= n * (u16 - 1)
         /\ SumFunction(g) \in Nat
         /\ Wraps(SumFunction(g), Byte * SumFunction(f))
         /\ SumFunction(f) <= Byte * SumFunction(g)
<1> DEFINE m == u16 - 1
           F == SumOver(f)
           G == SumOver(g)
           Turned(s) == /\ F[s] <= Cardinality(s) * m
                        /\ Wraps(G[s], Byte * F[s]) /\ F[s] <= Byte * G[s]
           Q == {s \in Parts(n) : Turned(s)}
<1>1. /\ F \in [Parts(n) -> Nat] /\ F[{}] = 0
      /\ \A s \in Parts(n) : s # {} => F[s] = f[Taken(s)] + F[s \ {Taken(s)}]
  BY SumOverSteps, Zenon
<1>2. /\ G \in [Parts(n) -> Nat] /\ G[{}] = 0
      /\ \A s \in Parts(n) : s # {} => G[s] = g[Taken(s)] + G[s \ {Taken(s)}]
  BY SumOverSteps, Zenon
<1>3. Byte \in Nat /\ m \in Nat
  BY Words16
<1>4. \A i \in 1 .. n : f[i] <= m
  OBVIOUS
<1> HIDE DEF F, G, m
<1>5. {} \in Parts(n) /\ 1 .. n \in Parts(n)
  BY WholeIsPart
<1>6. Turned({})
  <2>1. Cardinality({}) = 0
    BY FS_EmptySet
  <2>2. Byte * 0 = 0 /\ 0 * m = 0
    BY <1>3
  <2>3. Wraps(0, 0)
    BY WrapsItself
  <2> QED BY <1>1, <1>2, <2>1, <2>2, <2>3
<1>7. ASSUME NEW s \in Parts(n), s # {}, s \ {Taken(s)} \in Q PROVE s \in Q
  <2> DEFINE t == s \ {Taken(s)}
             i == Taken(s)
  <2>1. /\ t \in Parts(n) /\ i \in 1 .. n
        /\ Cardinality(t) = Cardinality(s) - 1 /\ Cardinality(s) \in Nat
    BY <1>7, PartSizes, Zenon
  <2>2. F[s] = f[i] + F[t] /\ G[s] = g[i] + G[t]
    BY <1>1, <1>2, <1>7
  <2>3. Turned(t)
    BY <1>7
  <2> HIDE DEF t, i
  <2>4. f[i] \in Nat /\ g[i] \in Nat /\ F[t] \in Nat /\ G[t] \in Nat
    BY <1>1, <1>2, <2>1
  <2>5. f[i] <= m /\ Wraps(g[i], Byte * f[i]) /\ f[i] <= Byte * g[i]
    BY <1>4, <2>1
  <2>6. F[s] <= Cardinality(s) * m
    <3> DEFINE c == Cardinality(s)
    <3>1. c \in Nat /\ F[t] <= (c - 1) * m /\ (c - 1) * m = c * m - m
      BY <1>3, <2>1, <2>3
    <3>2. c * m \in Nat
      BY <1>3, <2>1
    <3> HIDE DEF c
    <3>3. F[s] <= c * m
      BY <1>3, <2>2, <2>4, <2>5, <3>1, <3>2
    <3> QED BY <3>3 DEF c
  <2>7. /\ Byte * f[i] \in Nat /\ Byte * F[t] \in Nat
        /\ Byte * g[i] \in Nat /\ Byte * G[t] \in Nat
        /\ Byte * (f[i] + F[t]) = Byte * f[i] + Byte * F[t]
        /\ Byte * (g[i] + G[t]) = Byte * g[i] + Byte * G[t]
    BY <2>4, Times, Zenon
  <2>8. Wraps(g[i] + G[t], Byte * f[i] + Byte * F[t])
    <3>1. \A k : k \in Nat => k \in Int
      OBVIOUS
    <3> QED BY <2>3, <2>4, <2>5, <2>7, <3>1, WrapsAdd, Zenon
  <2>9. Wraps(G[s], Byte * F[s])
    BY <2>2, <2>7, <2>8
  <2>10. F[s] <= Byte * G[s]
    <3> DEFINE x == Byte * g[i]
               y == Byte * G[t]
    <3>1. Byte * G[s] = x + y
      BY <2>2, <2>7, Zenon
    <3>2. x \in Nat /\ y \in Nat /\ f[i] <= x /\ F[t] <= y
      BY <2>3, <2>5, <2>7
    <3> HIDE DEF x, y
    <3>3. f[i] + F[t] <= x + y
      BY <2>4, <3>2
    <3> QED BY <2>2, <3>1, <3>3
  <2> QED BY <2>6, <2>9, <2>10
<1>8. Q \in SUBSET Parts(n) /\ {} \in Q
  BY <1>5, <1>6
<1>9. Q = Parts(n)
  <2> HIDE DEF Q
  <2> QED BY <1>7, <1>8, PartInduction
<1>10. Turned(1 .. n)
  BY <1>5, <1>9
<1>11. Cardinality(1 .. n) = n
  BY FS_Interval
<1>12. F[1 .. n] \in Nat /\ G[1 .. n] \in Nat
  BY <1>1, <1>2, <1>5
<1>13. SumFunction(f) = F[1 .. n] /\ SumFunction(g) = G[1 .. n]
  <2>1. DOMAIN f = 1 .. n /\ DOMAIN g = 1 .. n
    OBVIOUS
  <2> QED BY <2>1, SumFunctionIs, Zenon DEF F, G
<1> QED BY <1>10, <1>11, <1>12, <1>13 DEF m

\* A receiver that sums the same bytes in network order gets the sum turned over.
LEMMA WordsTurned ==
  ASSUME NEW bytes \in Seq(0 .. Byte - 1)
  PROVE  /\ SumOfWords(bytes) \in Nat /\ SumOfWords(bytes) <= Len(bytes) * (u16 - 1)
         /\ NetWords(bytes) \in Nat
         /\ Wraps(NetWords(bytes), Byte * SumOfWords(bytes))
         /\ SumOfWords(bytes) <= Byte * NetWords(bytes)
<1> DEFINE n == Len(bytes)
           f == [i \in 1 .. n |-> IF i % 2 = 1 THEN bytes[i] ELSE Byte * bytes[i]]
           g == [i \in 1 .. n |-> IF i % 2 = 1 THEN Byte * bytes[i] ELSE bytes[i]]
<1>1. n \in Nat /\ \A i \in 1 .. n : bytes[i] \in 0 .. Byte - 1
  <2> DEFINE D == 0 .. Byte - 1
  <2>1. bytes \in Seq(D)
    OBVIOUS
  <2> HIDE DEF D
  <2>2. Len(bytes) \in Nat /\ \A i \in 1 .. Len(bytes) : bytes[i] \in D
    BY <2>1
  <2> QED BY <2>2 DEF D
<1>2. ASSUME NEW i \in 1 .. n
      PROVE  /\ f[i] \in Nat /\ g[i] \in Nat /\ f[i] <= u16 - 1
             /\ Wraps(g[i], Byte * f[i]) /\ f[i] <= Byte * g[i]
  <2> DEFINE a == bytes[i]
             b == Byte
  <2>1. a \in Nat /\ a <= b - 1 /\ b \in Nat /\ b >= 2 /\ u16 = b * b
    BY <1>1, Words16
  <2>2. \/ f[i] = a /\ g[i] = b * a
        \/ f[i] = b * a /\ g[i] = a
    OBVIOUS
  <2> HIDE DEF f, g, a, b
  <2>3. b * a \in Nat /\ a <= b * a /\ b * a <= b * b - b
    <3>1. b * a <= b * (b - 1)
      BY <2>1
    <3>2. b * (b - 1) = b * b - b
      BY <2>1
    <3>3. b * a >= a
      BY <2>1
    <3>4. b * a \in Nat
      BY <2>1
    <3> QED BY <3>1, <3>2, <3>3, <3>4
  <2>4. b * (b * a) = a + a * (u16 - 1) /\ a \in Int /\ b * (b * a) \in Int
    BY <2>1
  <2>5. a = b * (b * a) + (-a) * (u16 - 1) /\ -a \in Int
    BY <2>1
  <2>6. Wraps(a, b * (b * a))
    BY <2>5 DEF Wraps
  <2>7. Wraps(b * a, b * a)
    BY <2>3, WrapsItself
  <2>8. a <= b * (b * a) /\ a <= b * b - 1 /\ b * a <= b * b - 1
    <3>1. b * b \in Nat /\ a * (u16 - 1) >= 0
      BY <2>1
    <3>2. a * (u16 - 1) \in Int
      BY <2>1
    <3> QED BY <2>1, <2>3, <2>4, <3>1, <3>2
  <2>9. CASE f[i] = a /\ g[i] = b * a
    BY <2>1, <2>3, <2>7, <2>8, <2>9 DEF b
  <2>10. CASE f[i] = b * a /\ g[i] = a
    BY <2>1, <2>3, <2>6, <2>8, <2>10 DEF b
  <2> QED BY <2>2, <2>9, <2>10
<1>3. f \in [1 .. n -> Nat] /\ g \in [1 .. n -> Nat]
  <2>1. \A i \in 1 .. n : f[i] \in Nat /\ g[i] \in Nat
    BY <1>2
  <2>2. f = [i \in 1 .. n |-> f[i]] /\ g = [i \in 1 .. n |-> g[i]]
    OBVIOUS
  <2> HIDE DEF f, g
  <2> QED BY <2>1, <2>2
<1>4. SumOfWords(bytes) = SumFunction(f) /\ NetWords(bytes) = SumFunction(g)
  BY Zenon DEF SumOfWords, NetWords
<1> HIDE DEF f, g, n
<1>5. /\ SumFunction(f) \in Nat /\ SumFunction(f) <= n * (u16 - 1)
      /\ SumFunction(g) \in Nat
      /\ Wraps(SumFunction(g), Byte * SumFunction(f))
      /\ SumFunction(f) <= Byte * SumFunction(g)
  <2>1. \A i \in 1 .. n : f[i] <= u16 - 1 /\ Wraps(g[i], Byte * f[i]) /\ f[i] <= Byte * g[i]
    BY <1>2
  <2> QED BY <1>1, <1>3, <2>1, SumsTurned
<1> QED BY <1>4, <1>5 DEF n

-----------------------------------------------------------------------------
\* The checksum.

\* What precedes the segment in the sum, for the receiver.
NetPseudo(kind, addrs, proto, len) ==
  IF kind = "ip4" THEN 0 ELSE NetWords(addrs) + proto + len

LEMMA PseudoTurned ==
  ASSUME NEW kind, NEW addrs \in Seq(0 .. Byte - 1),
         NEW proto \in 0 .. Byte - 1, NEW len \in 0 .. u16 - 1
  PROVE  LET P == pseudo(kind, addrs, proto, len)
             N == NetPseudo(kind, addrs, proto, len) IN
         /\ P \in Nat /\ P <= (Len(addrs) + 2) * (u16 - 1)
         /\ N \in Nat
         /\ Wraps(N, Byte * P) /\ P <= Byte * N
<1> DEFINE P == pseudo(kind, addrs, proto, len)
           N == NetPseudo(kind, addrs, proto, len)
           m == u16 - 1
           l == Len(addrs)
<1> SUFFICES /\ P \in Nat /\ P <= (l + 2) * m
             /\ N \in Nat
             /\ Wraps(N, Byte * P) /\ P <= Byte * N
  OBVIOUS
<1>1. Byte \in Nat /\ m \in Nat
  BY Words16
<1>2. l \in Nat
  <2> DEFINE D == 0 .. Byte - 1
  <2>1. addrs \in Seq(D)
    OBVIOUS
  <2> HIDE DEF D
  <2> QED BY <2>1
<1>3. CASE kind = "ip4"
  <2>1. P = 0 /\ N = 0
    BY <1>3 DEF pseudo, NetPseudo
  <2> HIDE DEF m, l, P, N
  <2>2. Wraps(0, 0) /\ Byte * 0 = 0
    BY <1>1, WrapsItself
  <2>3. (l + 2) * m >= 0
    BY <1>1, <1>2
  <2> QED BY <2>1, <2>2, <2>3
<1>4. CASE kind # "ip4"
  <2> DEFINE A == SumOfWords(addrs)
             B == NetWords(addrs)
             p == htons(proto)
             e == htons(len)
  <2>1. /\ A \in Nat /\ A <= l * m /\ B \in Nat
        /\ Wraps(B, Byte * A) /\ A <= Byte * B
    BY WordsTurned
  <2>2. /\ p \in 0 .. m /\ Wraps(proto, Byte * p) /\ p <= Byte * proto
        /\ proto \in Nat
    <3>1. proto \in 0 .. u16 - 1
      BY Words16
    <3> QED BY <3>1, TurnedOver
  <2>3. /\ e \in 0 .. m /\ Wraps(len, Byte * e) /\ e <= Byte * len
        /\ len \in Nat
    BY TurnedOver, Words16
  <2>4. P = A + p + e /\ N = B + proto + len
    BY <1>4 DEF pseudo, NetPseudo
  <2> HIDE DEF A, B, p, e, m, l, P, N
  <2>5. p \in Nat /\ e \in Nat /\ p <= m /\ e <= m
    BY <1>1, <2>2, <2>3
  <2>6. P \in Nat /\ N \in Nat
    BY <2>1, <2>2, <2>3, <2>4, <2>5
  <2>7. P <= (l + 2) * m
    <3>1. (l + 2) * m = l * m + m + m /\ l * m \in Nat
      BY <1>1, <1>2
    <3> QED BY <1>1, <2>1, <2>4, <2>5, <3>1
  <2>8. /\ Byte * A \in Nat /\ Byte * p \in Nat /\ Byte * e \in Nat
        /\ Byte * (A + p) = Byte * A + Byte * p
        /\ Byte * ((A + p) + e) = Byte * (A + p) + Byte * e
    <3>1. A + p \in Nat
      BY <2>1, <2>5
    <3> QED BY <2>1, <2>5, <3>1, Times, Zenon
  <2>9. /\ Byte * B \in Nat /\ Byte * proto \in Nat /\ Byte * len \in Nat
        /\ Byte * (B + proto) = Byte * B + Byte * proto
        /\ Byte * ((B + proto) + len) = Byte * (B + proto) + Byte * len
    <3>1. B + proto \in Nat
      BY <2>1, <2>2
    <3> QED BY <2>1, <2>2, <2>3, <3>1, Times, Zenon
  <2>10. Wraps(B + proto, Byte * A + Byte * p)
    BY <2>1, <2>2, <2>8, WrapsAdd
  <2>11. Wraps((B + proto) + len, (Byte * A + Byte * p) + Byte * e)
    BY <2>1, <2>2, <2>3, <2>8, <2>10, WrapsAdd
  <2>12. Wraps(N, Byte * P)
    BY <2>4, <2>8, <2>11
  <2>13. P <= Byte * N
    <3> DEFINE x == Byte * B
               y == Byte * proto
               z == Byte * len
    <3>1. Byte * N = (x + y) + z
      BY <2>4, <2>9, Zenon
    <3>2. /\ x \in Nat /\ y \in Nat /\ z \in Nat
          /\ A <= x /\ p <= y /\ e <= z
      BY <2>1, <2>2, <2>3, <2>9
    <3> HIDE DEF x, y, z
    <3>3. (A + p) + e <= (x + y) + z
      BY <2>1, <2>5, <3>2
    <3> QED BY <2>4, <3>1, <3>3
  <2> QED BY <2>6, <2>7, <2>12, <2>13
<1> QED BY <1>3, <1>4

\* RFC 1071, for any bytes few enough for their sum to fit a u32.
LEMMA ChecksumAccepted ==
  ASSUME NEW kind, NEW addrs \in Seq(0 .. Byte - 1), NEW seg \in Seq(0 .. Byte - 1),
         NEW proto \in 0 .. Byte - 1, Len(seg) + Len(addrs) + 2 <= u16
  PROVE  LET c == checksum_of(kind, addrs, proto, seg) IN
         c \in 0 .. u16 - 1 /\ Accepted(kind, addrs, proto, seg, c)
<1> DEFINE c == checksum_of(kind, addrs, proto, seg)
           P == pseudo(kind, addrs, proto, Len(seg))
           N == NetPseudo(kind, addrs, proto, Len(seg))
           W == SumOfWords(seg)
           X == NetWords(seg)
           m == u16 - 1
           S == P + W
           F == Folded[S]
           h == htons(c)
           total == (X + h) + N
<1> SUFFICES c \in 0 .. m /\ Accepted(kind, addrs, proto, seg, c)
  OBVIOUS
<1>1. Byte \in Nat /\ Byte >= 2 /\ m \in Nat /\ m > 0 /\ u16 = m + 1 /\ u32 = (m + 1) * (m + 1)
  BY Words16 DEF u32
<1>2. Len(addrs) \in Nat /\ Len(seg) \in Nat
  <2> DEFINE D == 0 .. Byte - 1
  <2>1. addrs \in Seq(D) /\ seg \in Seq(D)
    OBVIOUS
  <2> HIDE DEF D
  <2> QED BY <2>1
<1>3. Len(seg) \in 0 .. u16 - 1
  BY <1>1, <1>2
<1>4. /\ P \in Nat /\ P <= (Len(addrs) + 2) * m /\ N \in Nat
      /\ Wraps(N, Byte * P) /\ P <= Byte * N
  BY <1>3, PseudoTurned
<1>5. /\ W \in Nat /\ W <= Len(seg) * m /\ X \in Nat
      /\ Wraps(X, Byte * W) /\ W <= Byte * X
  BY WordsTurned
<1>6. checksum_of(kind, addrs, proto, seg) = m - Folded[S % u32]
  BY DEF checksum_of
<1>7. Accepted(kind, addrs, proto, seg, c) <=> (total > 0 /\ total % m = 0)
  <2>1. Accepted(kind, addrs, proto, seg, c) <=>
          (NetWords(seg) + htons(c) + N > 0 /\ (NetWords(seg) + htons(c) + N) % (u16 - 1) = 0)
    BY Zenon DEF Accepted, NetPseudo
  <2> QED BY <2>1, Zenon
<1>8. S \in Nat /\ S < u32
  <2> DEFINE a == Len(addrs)
             l == Len(seg)
  <2>1. a \in Nat /\ l \in Nat /\ l + a + 2 <= m + 1
    BY <1>1, <1>2
  <2>2. P <= (a + 2) * m /\ W <= l * m
    BY <1>4, <1>5
  <2> HIDE DEF a, l, P, W, m
  <2>3. (a + 2) * m + l * m = (l + a + 2) * m
    BY <1>1, <2>1
  <2>4. (l + a + 2) * m <= (m + 1) * m
    BY <1>1, <2>1
  <2>5. (m + 1) * m < (m + 1) * (m + 1)
    BY <1>1
  <2>6. /\ (a + 2) * m \in Nat /\ l * m \in Nat /\ (l + a + 2) * m \in Nat
        /\ (m + 1) * m \in Nat /\ (m + 1) * (m + 1) \in Nat
    BY <1>1, <2>1
  <2>7. P \in Nat /\ W \in Nat
    BY <1>4, <1>5
  <2> QED BY <1>1, <2>2, <2>3, <2>4, <2>5, <2>6, <2>7
<1>9. c = m - F
  <2>1. u32 \in Nat
    BY <1>1
  <2> HIDE DEF S
  <2>2. S % u32 = S
    BY <1>8, <2>1
  <2> QED BY <1>6, <2>2, Zenon
<1>10. F \in Nat /\ F < u16 /\ Wraps(F, S) /\ (F = 0 <=> S = 0)
  BY <1>8, FoldedSum
<1> HIDE DEF c, P, N, W, X, F, m
<1>11. c \in 0 .. m /\ c \in Nat
  BY <1>1, <1>9, <1>10
<1>12. /\ h \in Nat /\ Wraps(h, Byte * c) /\ c <= Byte * h
  <2>1. c \in 0 .. u16 - 1
    BY <1>11 DEF m
  <2>2. h \in 0 .. u16 - 1 /\ Wraps(h, Byte * c) /\ c <= Byte * h
    BY <2>1, TurnedOver
  <2> QED BY <1>1, <2>2
<1> HIDE DEF h
<1>13. total \in Nat
  BY <1>4, <1>5, <1>12
<1>14. total > 0
  <2>1. X = 0 => W = 0
    BY <1>1, <1>5
  <2>2. N = 0 => P = 0
    BY <1>1, <1>4
  <2>3. h = 0 => c = 0
    BY <1>1, <1>11, <1>12
  <2>4. c = 0 => S # 0
    BY <1>1, <1>9, <1>10
  <2> QED BY <1>4, <1>5, <1>12, <2>1, <2>2, <2>3, <2>4
<1>15. Wraps(total, 0)
  <2>1. /\ Byte * W \in Nat /\ Byte * c \in Nat /\ Byte * P \in Nat
        /\ Byte * (W + c) = Byte * W + Byte * c
        /\ Byte * ((W + c) + P) = Byte * (W + c) + Byte * P
    <3>1. W + c \in Nat
      BY <1>5, <1>11
    <3> QED BY <1>4, <1>5, <1>11, <3>1, Times, Zenon
  <2>2. Wraps(X + h, Byte * W + Byte * c)
    BY <1>5, <1>12, <2>1, WrapsAdd
  <2>3. Wraps((X + h) + N, (Byte * W + Byte * c) + Byte * P)
    BY <1>4, <1>5, <1>12, <2>1, <2>2, WrapsAdd
  <2>4. Wraps(total, Byte * ((W + c) + P))
    BY <2>1, <2>3
  <2>5. Wraps((W + c) + P, 0)
    <3>1. PICK k \in Int : F = S + k * m
      BY <1>10 DEF Wraps, m
    <3>2. (W + c) + P = 0 + (1 - k) * m
      <4>1. (1 - k) * m = m - k * m /\ k * m \in Int
        BY <1>1, <3>1
      <4> QED BY <1>1, <1>4, <1>5, <1>9, <1>10, <3>1, <4>1
    <3>3. 1 - k \in Int
      BY <3>1
    <3> QED BY <3>2, <3>3 DEF Wraps, m
  <2>6. Wraps(Byte * ((W + c) + P), 0)
    <3>1. (W + c) + P \in Int /\ Byte * 0 = 0
      BY <1>1, <1>4, <1>5, <1>11
    <3> QED BY <2>5, <3>1, WrapsTimes
  <2>7. total \in Int /\ Byte * ((W + c) + P) \in Int
    BY <1>1, <1>4, <1>5, <1>11, <1>13
  <2> HIDE DEF total
  <2> QED BY <2>4, <2>6, <2>7, WrapsOn
<1>16. total % m = 0
  <2> HIDE DEF total
  <2> QED BY <1>13, <1>15, WrapsToZero DEF m
<1> QED BY <1>7, <1>11, <1>14, <1>16

ResetAccepted(c) ==
  LET sum == checksum_of(c.kind, c.addrs, IP_PROTOCOL_TCP, c.seg) IN
  sum \in 0 .. u16 - 1 /\ Accepted(c.kind, c.addrs, IP_PROTOCOL_TCP, c.seg, sum)

\* The checksums of resets are of such bytes.
LEMMA SummedAccepted == ASSUME NEW c \in Summed PROVE ResetAccepted(c)
<1> DEFINE D == 0 .. Byte - 1
<1>1. \A seg \in Segments : seg \in Seq(D) /\ Len(seg) + 2 <= u16
  BY BytesConstants
<1>2. \A a \in AddrBytes : a \in Seq(D)
  BY BytesConstants
<1>3. \A seg \in Segments, a \in AddrBytes : Len(seg) + Len(a) + 2 <= u16
  BY BytesConstants
<1>4. IP_PROTOCOL_TCP \in D
  BY TagConstants
<1>5. <<>> \in Seq(D) /\ Len(<<>>) = 0
  OBVIOUS
<1>6. \A seg \in Segments : Len(seg) \in Nat
  <2> HIDE DEF D
  <2> QED BY <1>1
<1>7. /\ c.seg \in Segments
      /\ (c.addrs = <<>> \/ c.addrs \in AddrBytes)
  BY DEF Summed
<1>8. c.addrs = <<>> => Len(c.seg) + Len(c.addrs) + 2 <= u16
  BY <1>1, <1>5, <1>6, <1>7
<1>9. /\ c.addrs \in Seq(D) /\ c.seg \in Seq(D)
      /\ Len(c.seg) + Len(c.addrs) + 2 <= u16
  <2> HIDE DEF D
  <2> QED BY <1>1, <1>2, <1>3, <1>5, <1>7, <1>8
<1> QED BY <1>4, <1>9, ChecksumAccepted DEF ResetAccepted

-----------------------------------------------------------------------------
\* The invariant: the words of the buffer are those of the frame, and the entry has
\* the tags of every frame that was taken for it.

BufferOfFrame ==
  frame # None =>
    /\ vlan_of(opaque) = parse_vlan_tags(frame)
    /\ opaque.l3_hdr_offset = L3Header(frame)

EntryOfFrames ==
  /\ entry = None => taken = None
  /\ entry # None =>
       /\ taken \in Frames \X Frames
       /\ parse_vlan_tags(taken[1]) = entry /\ parse_vlan_tags(taken[2]) = entry

\* A reset is of the entry that is there, and gone when the next frame comes.
ResetOfEntry ==
  reset # None => frame = None /\ entry # None

VlanInv ==
  /\ TypeOK /\ BufferOfFrame /\ EntryOfFrames /\ ResetOfEntry
  /\ ResetInVlan /\ ReceiverAccepts

LEMMA VlanInvInit == Init => VlanInv
<1> SUFFICES ASSUME Init PROVE VlanInv
  OBVIOUS
<1>1. \A w \in {0, 65537} : w \in 0 .. IdSize * TagSize - 1
  <2> DEFINE n == IdSize * TagSize
  <2>1. n \in Nat /\ 65537 < n
    BY DEF IdSize, TagSize
  <2> HIDE DEF n
  <2>2. \A w \in {0, 65537} : w \in 0 .. n - 1
    BY <2>1
  <2> QED BY <2>2 DEF n
<1>2. opaque \in [vlan: 0 .. IdSize * TagSize - 1, present: 0 .. 2, l3_hdr_offset: 0 .. 22]
  BY <1>1 DEF Init
<1> QED BY <1>2 DEF Init, VlanInv, TypeOK, BufferOfFrame, EntryOfFrames, ResetOfEntry,
     ResetInVlan, ReceiverAccepts

LEMMA PreProcessPreserves ==
  ASSUME VlanInv, NEW fr \in Frames, NEW at \in L2Offsets, ip4_pre_process(fr, at)
  PROVE  VlanInv'
<1> DEFINE v == parse_vlan_tags(fr)
           w == v.outer_vlan_id * TagSize + v.inner_vlan_id
<1>1. /\ v \in [outer_vlan_id: 0 .. IdSize - 1, inner_vlan_id: 0 .. IdSize - 1,
                vlan_present: 0 .. 2]
      /\ v.vlan_present = Len(fr)
  BY ParsedTags
<1>2. /\ frame' = fr /\ reset' = None /\ entry' = entry /\ taken' = taken
      /\ opaque' = [vlan |-> w, present |-> v.vlan_present, l3_hdr_offset |-> l3_offset_of(fr)]
      /\ l2_hdr_offset' = at
  BY DEF ip4_pre_process
<1> HIDE DEF v
<1>3. /\ w \in 0 .. IdSize * TagSize - 1
      /\ (w \div TagSize) % TagSize = v.outer_vlan_id /\ w % TagSize = v.inner_vlan_id
  BY <1>1, Unpacked
<1> HIDE DEF w
<1>4. l3_offset_of(fr) = L3Header(fr) /\ L3Header(fr) \in 0 .. 22
  <2> DEFINE n == Len(fr)
             outer == IF has_outer(fr) THEN 4 ELSE 0
             inner == IF has_inner(fr) THEN 4 ELSE 0
  <2>1. n \in 0 .. 2 /\ (has_outer(fr) <=> n >= 1) /\ (has_inner(fr) <=> n = 2)
    BY FrameTags
  <2>2. l3_offset_of(fr) = 14 + outer + inner /\ L3Header(fr) = 14 + 4 * n
    BY Zenon DEF l3_offset_of, L3Header, SizeOfEthernetHeader
  <2>3. /\ outer = IF n >= 1 THEN 4 ELSE 0
        /\ inner = IF n = 2 THEN 4 ELSE 0
    BY <2>1, Zenon
  <2> HIDE DEF n, outer, inner
  <2> QED BY <2>1, <2>2, <2>3
<1>5. vlan_of(opaque') = v
  BY <1>1, <1>2, <1>3 DEF vlan_of
<1>6. BufferOfFrame'
  BY <1>2, <1>4, <1>5 DEF BufferOfFrame, v
<1>7. TypeOK'
  BY <1>1, <1>2, <1>3, <1>4 DEF VlanInv, TypeOK
<1> QED BY <1>2, <1>6, <1>7 DEF VlanInv, EntryOfFrames, ResetOfEntry, ResetInVlan,
     ReceiverAccepts

LEMMA InputProcessPreserves == VlanInv /\ ip4_input_process => VlanInv'
<1> SUFFICES ASSUME VlanInv, ip4_input_process PROVE VlanInv'
  OBVIOUS
<1>1. /\ frame # None /\ frame \in Frames /\ frame' = None
      /\ vlan_of(opaque) = parse_vlan_tags(frame)
      /\ reset = None /\ reset' = None /\ opaque' = opaque /\ l2_hdr_offset' = 0
  BY DEF VlanInv, TypeOK, BufferOfFrame, ResetOfEntry, ip4_input_process
<1>2. vlan_of(opaque) \in VlanInfo /\ vlan_of(opaque) # None
  <2>1. parse_vlan_tags(frame) \in VlanInfo
    BY <1>1, ParsedTags, Sizes DEF VlanInfo
  <2> QED BY <1>1, <2>1, NoneIsNoInfo
<1>3. /\ BufferOfFrame' /\ ResetOfEntry' /\ ResetInVlan' /\ ReceiverAccepts'
  BY <1>1 DEF BufferOfFrame, ResetOfEntry, ResetInVlan, ReceiverAccepts
<1>4. CASE entry = None /\ entry' = vlan_of(opaque) /\ taken' = <<frame, frame>>
  <2>1. /\ taken' \in Frames \X Frames /\ taken'[1] = frame /\ taken'[2] = frame
    BY <1>1, <1>4
  <2> QED BY <1>1, <1>2, <1>3, <1>4, <2>1 DEF VlanInv, TypeOK, EntryOfFrames
<1>5. CASE entry = vlan_of(opaque) /\ taken' = <<taken[1], frame>> /\ entry' = entry
  <2>1. taken \in Frames \X Frames /\ parse_vlan_tags(taken[1]) = entry
    BY <1>2, <1>5 DEF VlanInv, EntryOfFrames
  <2>2. /\ taken' \in Frames \X Frames /\ taken'[1] = taken[1] /\ taken'[2] = frame
    BY <1>1, <1>5, <2>1
  <2> QED BY <1>1, <1>2, <1>3, <1>5, <2>1, <2>2 DEF VlanInv, TypeOK, EntryOfFrames
<1>6. CASE entry' = entry /\ taken' = taken
  BY <1>1, <1>3, <1>6 DEF VlanInv, TypeOK, EntryOfFrames
<1> QED BY <1>4, <1>5, <1>6 DEF ip4_input_process

LEMMA SendResetPreserves ==
  ASSUME VlanInv, NEW c \in Summed, tcp_send_reset(c)
  PROVE  VlanInv'
<1>1. /\ frame = None /\ entry # None
      /\ frame' = frame /\ opaque' = opaque /\ entry' = entry /\ taken' = taken
      /\ l2_hdr_offset' = l2_hdr_offset
  BY DEF tcp_send_reset
<1>2. /\ reset'.frame = ResetTags(entry) /\ reset'.l3_hdr_offset = reset_l3_offset(entry)
      /\ reset'.summed = c
  BY DEF tcp_send_reset
<1>3. taken[1] \in Frames /\ entry = parse_vlan_tags(taken[1])
  BY <1>1 DEF VlanInv, EntryOfFrames
<1>4. ResetInVlan'
  BY <1>1, <1>2, <1>3, ResetSameVlans DEF ResetInVlan
<1>5. ReceiverAccepts'
  <2>1. /\ reset'.checksum = checksum_of(c.kind, c.addrs, IP_PROTOCOL_TCP, c.seg)
        /\ reset'.summed = c
    BY DEF tcp_send_reset
  <2>2. ResetAccepted(c)
    BY SummedAccepted
  <2> QED BY <2>1, <2>2 DEF ReceiverAccepts, ResetAccepted
<1> QED BY <1>1, <1>2, <1>4, <1>5 DEF VlanInv, TypeOK, BufferOfFrame, EntryOfFrames, ResetOfEntry

LEMMA VlanInvStep == VlanInv /\ [Next]_vars => VlanInv'
<1>1. VlanInv /\ UNCHANGED vars => VlanInv'
  BY DEF vars, VlanInv, TypeOK, BufferOfFrame, EntryOfFrames, ResetOfEntry, ResetInVlan,
     ReceiverAccepts
<1> QED BY <1>1, PreProcessPreserves, InputProcessPreserves, SendResetPreserves DEF Next

LEMMA VlanInvariant == Spec => []VlanInv
  BY VlanInvInit, VlanInvStep, PTL DEF Spec

-----------------------------------------------------------------------------
\* The theorems.

\* The words of the buffer and the fields of the entry keep their widths.
THEOREM VlanTypeCorrect == Spec => []TypeOK
  BY VlanInvariant, PTL DEF VlanInv

\* The offset ip4_pre_process stores is that of the IP header, for a frame that begins
\* with the data of its buffer.
THEOREM HeadersFound == Spec => []HeaderFound
<1>1. VlanInv => HeaderFound
  <2> SUFFICES ASSUME VlanInv, frame # None, l2_hdr_offset = 0
               PROVE  opaque.l3_hdr_offset = l2_hdr_offset + L3Header(frame)
    BY DEF HeaderFound
  <2>1. opaque.l3_hdr_offset = L3Header(frame) /\ opaque.l3_hdr_offset \in 0 .. 22
    BY DEF VlanInv, TypeOK, BufferOfFrame
  <2> QED BY <2>1
<1> QED BY <1>1, VlanInvariant, PTL

\* The frames that flow_key_t takes for one flow are of the same VLANs.
THEOREM FlowsAreOfOneVlan == Spec => []FlowsOfOneVlan
<1>1. VlanInv => FlowsOfOneVlan
  <2> SUFFICES ASSUME VlanInv, taken # None PROVE SameVlans(taken[1], taken[2])
    BY DEF FlowsOfOneVlan
  <2>1. /\ taken[1] \in Frames /\ taken[2] \in Frames
        /\ parse_vlan_tags(taken[1]) = parse_vlan_tags(taken[2])
    BY DEF VlanInv, EntryOfFrames
  <2> QED BY <2>1, SameParse
<1> QED BY <1>1, VlanInvariant, PTL

\* tcp_send_reset puts the reset into the VLANs of the flow, its header behind them.
THEOREM ResetsInVlan == Spec => []ResetInVlan
  BY VlanInvariant, PTL DEF VlanInv

\* The checksums tcp_send_reset computes on a little-endian host are right for the
\* receiver, for all bytes of a header and addresses that the u32 has room for.
THEOREM ReceiversAccept == Spec => []ReceiverAccepts
  BY VlanInvariant, PTL DEF VlanInv
=============================================================================
