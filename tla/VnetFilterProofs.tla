-------------------------- MODULE VnetFilterProofs --------------------------
(***************************************************************************)
(* Proofs about VnetFilter for any frame size and any list of hooks. The   *)
(* loops are at buffer first + k: the watched buffer is before it and all  *)
(* done, after it and untouched, or it is that buffer and its calls are    *)
(* those the inner loop has made.                                          *)
(***************************************************************************)
EXTENDS VnetFilter, SequenceTheorems, TLAPS

HookSet == {Hooks[i] : i \in DOMAIN Hooks}
Calls == HookSet \X Actions

\* Where the two loops are.
LoopShape ==
  /\ Idle => turn = 0 /\ n_left_from = 0
  /\ ~Idle => first + n_left_from = n_vectors /\ watched < n_vectors
  /\ turn <= n_left_from
  /\ k = turn => j = 0 /\ result = "VNF_ACCEPT"

\* What is touched ahead is the next four, and they are there.
PrefetchShape ==
  /\ prefetched # {} => n_left_from >= IF turn = 0 THEN 4 ELSE 8
  /\ \A b \in prefetched : b < n_vectors
  /\ Idle => prefetched = {}

InOrder ==
  /\ Len(seen) <= Len(Hooks)
  /\ \A i \in DOMAIN seen : seen[i][1] = Hooks[i]
  /\ \A i \in DOMAIN seen : i < Len(seen) => seen[i][2] = "VNF_ACCEPT"

WatchedProgress ==
  ~Idle =>
    /\ watched < first + k =>
         /\ LastSeen = "VNF_ACCEPT" => Len(seen) = Len(Hooks)
         /\ nexts[watched] = NextOf(LastSeen)
    /\ watched = first + k => Len(seen) = j /\ result = LastSeen
    /\ watched > first + k => seen = <<>>

FilterInv == TypeOK /\ LoopShape /\ PrefetchShape /\ InOrder /\ WatchedProgress

LEMMA HookFacts ==
  /\ Len(Hooks) \in Nat /\ DOMAIN Hooks = 1 .. Len(Hooks)
  /\ \A i \in 1 .. Len(Hooks) : Hooks[i] \in HookSet
  /\ FrameSize \in Nat /\ Buffers = 0 .. FrameSize - 1
BY FilterConstants, LenProperties DEF HookSet, Buffers

\* The history after one more call.
LEMMA OneMoreCall ==
  ASSUME NEW s \in Seq(Calls), NEW h \in HookSet, NEW action \in Actions
  PROVE  LET new == Append(s, <<h, action>>) IN
         /\ new \in Seq(Calls) /\ Len(new) = Len(s) + 1 /\ Len(s) \in Nat
         /\ DOMAIN new = 1 .. Len(s) + 1 /\ new # <<>>
         /\ \A i \in 1 .. Len(s) : new[i] = s[i]
         /\ new[Len(s) + 1] = <<h, action>>
<1> DEFINE new == Append(s, <<h, action>>)
<1>1. <<h, action>> \in Calls
  BY DEF Calls
<1>2. /\ new \in Seq(Calls) /\ Len(new) = Len(s) + 1 /\ Len(s) \in Nat
      /\ \A i \in 1 .. Len(s) : new[i] = s[i]
      /\ new[Len(s) + 1] = <<h, action>>
  BY <1>1, AppendProperties, LenProperties
<1>3. DOMAIN new = 1 .. Len(new)
  BY <1>2, LenProperties
<1>4. new # <<>>
  <2> HIDE DEF new
  <2> QED
    BY <1>2, EmptySeq
<1> HIDE DEF new
<1>5. DOMAIN new = 1 .. Len(s) + 1
  BY <1>2, <1>3
<1> QED
  BY <1>2, <1>4, <1>5 DEF new

LEMMA FilterInit == Init => FilterInv
<1> SUFFICES ASSUME Init PROVE FilterInv
  OBVIOUS
<1>1. seen \in Seq(Calls) /\ Len(seen) = 0 /\ DOMAIN seen = {}
  BY EmptySeq DEF Init
<1>2. TypeOK
  <2>1. nexts \in [Buffers -> Nexts \cup {Unset}] /\ traced \in [Buffers -> Nexts \cup {Unset}]
    BY DEF Init, Nothing
  <2> QED
    BY <1>1, <2>1, HookFacts DEF Init, TypeOK, Actions, Calls, HookSet
<1>3. LoopShape /\ PrefetchShape /\ WatchedProgress
  BY DEF Init, LoopShape, PrefetchShape, WatchedProgress, Idle
<1>4. InOrder
  BY <1>1, HookFacts DEF InOrder
<1> QED
  BY <1>2, <1>3, <1>4 DEF FilterInv

LEMMA FrameComes ==
  ASSUME FilterInv, NEW n \in 1 .. FrameSize, dispatch(n)
  PROVE  FilterInv'
<1> USE HookFacts
<1>1. seen' \in Seq(Calls) /\ Len(seen') = 0 /\ DOMAIN seen' = {}
  BY EmptySeq DEF dispatch
<1>2. /\ n_vectors = 0 /\ n_vectors' = n /\ n_left_from' = n /\ first' = 0 /\ turn' = 0 /\ k' = 0
      /\ nexts' = Nothing /\ traced' = Nothing /\ prefetched' = {} /\ seen' = <<>>
      /\ watched' \in 0 .. n - 1 /\ j' = j /\ result' = result
  BY DEF dispatch, Idle
<1>3. j = 0 /\ result = "VNF_ACCEPT"
  BY <1>2 DEF FilterInv, LoopShape, Idle, TypeOK
<1>4. TypeOK'
  <2>1. nexts' \in [Buffers -> Nexts \cup {Unset}] /\ traced' \in [Buffers -> Nexts \cup {Unset}]
    BY <1>2 DEF Nothing
  <2>2. watched' \in Buffers
    BY <1>2
  <2> QED
    BY <1>1, <1>2, <1>3, <2>1, <2>2 DEF TypeOK, Actions, Calls, HookSet
<1>5. LoopShape' /\ PrefetchShape'
  BY <1>2, <1>3 DEF LoopShape, PrefetchShape, Idle
<1>6. InOrder'
  BY <1>1 DEF InOrder
<1>7. WatchedProgress'
  BY <1>1, <1>2, <1>3 DEF WatchedProgress, Idle, LastSeen
<1> QED
  BY <1>4, <1>5, <1>6, <1>7 DEF FilterInv

LEMMA TurnStarts ==
  ASSUME FilterInv, NEW is_trace \in BOOLEAN, turn_starts(is_trace)
  PROVE  FilterInv'
<1> USE HookFacts
<1> DEFINE n == turn_size
<1>1. /\ n_vectors # 0 /\ n_left_from > 0 /\ turn = 0
      /\ turn' = n /\ k' = 0 /\ j' = 0 /\ result' = "VNF_ACCEPT"
      /\ nexts' = [b \in Buffers |-> IF b \in Turn THEN "DROP" ELSE nexts[b]]
      /\ prefetched' = IF n = 4 /\ n_left_from >= 8 THEN first + 4 .. first + 7 ELSE {}
      /\ UNCHANGED <<n_vectors, n_left_from, first, watched, seen>>
  BY DEF turn_starts, Idle, may_prefetch
<1>2. n \in {1, 4} /\ n <= n_left_from
  BY <1>1 DEF turn_size, FilterInv, TypeOK
<1>3. /\ first \in Nat /\ n_left_from \in Nat /\ n_vectors \in 0 .. FrameSize
      /\ first + n_left_from = n_vectors /\ k = 0 /\ j = 0 /\ result = "VNF_ACCEPT"
      /\ watched < n_vectors /\ watched \in Nat
  BY <1>1 DEF FilterInv, TypeOK, LoopShape, Idle
<1> HIDE DEF n
<1>4. Turn \subseteq Buffers /\ \A b \in Turn : b >= first
  BY <1>2, <1>3 DEF Turn, n
<1>5. TypeOK'
  <2>1. nexts' \in [Buffers -> Nexts \cup {Unset}]
    BY <1>1 DEF FilterInv, TypeOK, Nexts
  <2>2. traced' \in [Buffers -> Nexts \cup {Unset}]
    BY DEF turn_starts, FilterInv, TypeOK, Nexts
  <2>3. prefetched' \subseteq Nat
    BY <1>1, <1>3
  <2> QED
    BY <1>1, <1>2, <1>3, <2>1, <2>2, <2>3 DEF FilterInv, TypeOK, Actions
<1>6. LoopShape'
  BY <1>1, <1>2, <1>3 DEF FilterInv, LoopShape, Idle
<1>7. PrefetchShape'
  BY <1>1, <1>2, <1>3 DEF PrefetchShape, Idle
<1>8. InOrder'
  BY <1>1 DEF FilterInv, InOrder
<1>9. WatchedProgress'
  <2>1. LastSeen' = LastSeen
    BY <1>1 DEF LastSeen
  <2>2. watched < first => nexts'[watched] = nexts[watched]
    BY <1>1, <1>3, <1>4 DEF FilterInv, TypeOK
  <2>3. first + k = first /\ first' + k' = first
    BY <1>1, <1>3
  <2> QED
    BY <1>1, <1>3, <2>1, <2>2, <2>3 DEF FilterInv, WatchedProgress, Idle, NextOf
<1> QED
  BY <1>5, <1>6, <1>7, <1>8, <1>9 DEF FilterInv

LEMMA TurnEnds == FilterInv /\ turn_ends => FilterInv'
<1> SUFFICES ASSUME FilterInv, turn_ends PROVE FilterInv'
  OBVIOUS
<1> USE HookFacts
<1>1. /\ turn > 0 /\ k = turn /\ turn' = 0 /\ k' = 0
      /\ first' = first + turn /\ n_left_from' = n_left_from - turn
      /\ UNCHANGED <<n_vectors, j, result, nexts, traced, prefetched, watched, seen>>
  BY DEF turn_ends
<1>2. /\ first \in Nat /\ n_left_from \in 0 .. n_vectors /\ n_vectors \in 0 .. FrameSize
      /\ turn \in {1, 4} /\ turn <= n_left_from
      /\ n_vectors # 0 /\ first + n_left_from = n_vectors /\ j = 0 /\ result = "VNF_ACCEPT"
  BY <1>1 DEF FilterInv, TypeOK, LoopShape, Idle
<1>3. TypeOK'
  BY <1>1, <1>2 DEF FilterInv, TypeOK
<1>4. LoopShape'
  BY <1>1, <1>2 DEF FilterInv, LoopShape, Idle
<1>5. PrefetchShape'
  BY <1>1, <1>2 DEF FilterInv, PrefetchShape, Idle
<1>6. InOrder'
  BY <1>1 DEF FilterInv, InOrder
<1>7. WatchedProgress'
  <2>1. first' + k' = first + k
    BY <1>1, <1>2
  <2> QED
    BY <1>1, <1>2, <2>1 DEF FilterInv, WatchedProgress, Idle, LastSeen, NextOf
<1> QED
  BY <1>3, <1>4, <1>5, <1>6, <1>7 DEF FilterInv

LEMMA HookCalled ==
  ASSUME FilterInv, NEW action \in Actions, call_hook(action)
  PROVE  FilterInv'
<1> USE HookFacts
<1>1. /\ turn > 0 /\ k < turn /\ j < Len(Hooks) /\ result = "VNF_ACCEPT"
      /\ result' = action /\ j' = j + 1
      /\ UNCHANGED <<n_vectors, n_left_from, first, turn, k, nexts, traced, prefetched, watched>>
  BY DEF call_hook, MoreHooks
<1>2. /\ n_vectors # 0 /\ j \in Nat /\ first \in Nat /\ k \in Nat /\ watched \in Nat
      /\ seen \in Seq(Calls) /\ j + 1 \in 1 .. Len(Hooks) /\ Hooks[j + 1] \in HookSet
  BY <1>1 DEF FilterInv, TypeOK, LoopShape, Idle, Calls, HookSet
<1>3. LoopShape' /\ PrefetchShape'
  BY <1>1, <1>2 DEF FilterInv, TypeOK, LoopShape, PrefetchShape, Idle
<1>4. ASSUME seen' \in Seq(Calls) PROVE TypeOK'
  BY <1>1, <1>2, <1>4 DEF FilterInv, TypeOK, Calls, HookSet
<1>5. CASE first + k # watched
  <2>1. seen' = seen
    BY <1>5 DEF call_hook
  <2>2. InOrder' /\ LastSeen' = LastSeen
    BY <2>1 DEF FilterInv, InOrder, LastSeen
  <2>3. WatchedProgress'
    BY <1>1, <1>2, <1>5, <2>1, <2>2 DEF FilterInv, WatchedProgress, Idle, NextOf
  <2> QED
    BY <1>2, <1>3, <1>4, <2>1, <2>2, <2>3 DEF FilterInv
<1>6. CASE first + k = watched
  <2>1. seen' = Append(seen, <<Hooks[j + 1], action>>)
    BY <1>6 DEF call_hook
  <2>2. Len(seen) = j /\ result = LastSeen
    BY <1>2, <1>6 DEF FilterInv, WatchedProgress, Idle
  <2>3. /\ seen' \in Seq(Calls) /\ Len(seen') = Len(seen) + 1
        /\ DOMAIN seen' = 1 .. Len(seen) + 1 /\ seen' # <<>>
        /\ \A i \in 1 .. Len(seen) : seen'[i] = seen[i]
        /\ seen'[Len(seen) + 1] = <<Hooks[j + 1], action>>
    BY <1>2, <2>1, OneMoreCall, Zenon
  <2>4. DOMAIN seen = 1 .. j
    BY <1>2, <2>2, LenProperties
  <2>5. /\ Len(seen') = j + 1 /\ DOMAIN seen' = 1 .. j + 1
        /\ \A i \in 1 .. j : seen'[i] = seen[i]
        /\ seen'[j + 1][1] = Hooks[j + 1] /\ seen'[j + 1][2] = action
    BY <2>2, <2>3
  <2>6. LastSeen' = action
    BY <2>3, <2>5 DEF LastSeen
  <2>7. ASSUME NEW i \in 1 .. j PROVE seen[i][1] = Hooks[i] /\ seen[i][2] = "VNF_ACCEPT"
    <3>1. seen[i][1] = Hooks[i] /\ (i < j => seen[i][2] = "VNF_ACCEPT")
      BY <2>2, <2>4 DEF FilterInv, InOrder
    <3>2. CASE i = j
      <4>1. seen # <<>>
        BY <2>2, <3>2, <1>2, EmptySeq
      <4> QED
        BY <1>1, <2>2, <3>1, <3>2, <4>1 DEF LastSeen
    <3> QED
      BY <1>2, <3>1, <3>2
  <2>8. InOrder'
    BY <1>1, <1>2, <2>5, <2>7 DEF InOrder
  <2>9. WatchedProgress'
    BY <1>1, <1>2, <1>6, <2>5, <2>6 DEF WatchedProgress, Idle
  <2> QED
    BY <1>3, <1>4, <2>3, <2>8, <2>9 DEF FilterInv
<1> QED
  BY <1>5, <1>6

LEMMA VerdictTaken == FilterInv /\ process_verdict => FilterInv'
<1> SUFFICES ASSUME FilterInv, process_verdict PROVE FilterInv'
  OBVIOUS
<1> USE HookFacts
<1>1. /\ turn > 0 /\ k < turn /\ (j < Len(Hooks) => result # "VNF_ACCEPT")
      /\ nexts' = [nexts EXCEPT ![first + k] = NextOf(result)]
      /\ k' = k + 1 /\ j' = 0 /\ result' = "VNF_ACCEPT"
      /\ UNCHANGED <<n_vectors, n_left_from, first, turn, traced, prefetched, watched, seen>>
  BY DEF process_verdict, MoreHooks
<1>2. /\ n_vectors # 0 /\ j \in 0 .. Len(Hooks) /\ first \in Nat /\ k \in Nat /\ watched \in Nat
      /\ turn \in {1, 4} /\ turn <= n_left_from /\ first + n_left_from = n_vectors
      /\ n_vectors \in 0 .. FrameSize /\ n_left_from \in Nat /\ result \in Actions
  BY <1>1 DEF FilterInv, TypeOK, LoopShape, Idle
<1>3. first + k \in Buffers /\ nexts \in [Buffers -> Nexts \cup {Unset}]
  BY <1>1, <1>2 DEF FilterInv, TypeOK
<1>4. NextOf(result) \in Nexts
  BY DEF NextOf, Nexts
<1>5. TypeOK'
  <2>1. nexts' \in [Buffers -> Nexts \cup {Unset}]
    BY <1>1, <1>3, <1>4
  <2>2. k' \in 0 .. turn' /\ j' \in 0 .. Len(Hooks) /\ result' \in Actions
    BY <1>1, <1>2 DEF Actions
  <2> QED
    BY <1>1, <2>1, <2>2 DEF FilterInv, TypeOK
<1>6. LoopShape' /\ PrefetchShape' /\ InOrder'
  BY <1>1, <1>2 DEF FilterInv, LoopShape, PrefetchShape, InOrder, Idle
<1>7. WatchedProgress'
  <2>1. LastSeen' = LastSeen
    BY <1>1 DEF LastSeen
  <2>2. first' + k' = (first + k) + 1
    BY <1>1, <1>2
  <2>3. CASE watched < first + k
    <3>1. nexts'[watched] = nexts[watched]
      BY <1>1, <1>2, <1>3, <2>3 DEF FilterInv, TypeOK
    <3> QED
      BY <1>1, <1>2, <2>1, <2>2, <2>3, <3>1 DEF FilterInv, WatchedProgress, Idle, NextOf
  <2>4. CASE watched = first + k
    <3>1. Len(seen) = j /\ result = LastSeen
      BY <1>2, <2>4 DEF FilterInv, WatchedProgress, Idle
    <3>2. nexts'[watched] = NextOf(LastSeen)
      BY <1>1, <1>3, <2>4, <3>1
    <3>3. LastSeen = "VNF_ACCEPT" => Len(seen) = Len(Hooks)
      <4>1. result = "VNF_ACCEPT" => j = Len(Hooks)
        <5> DEFINE h == Len(Hooks)
        <5>1. h \in Nat /\ j \in 0 .. h /\ (j < h => result # "VNF_ACCEPT")
          BY <1>1, <1>2
        <5> HIDE DEF h
        <5>2. ~(j < h) => j = h
          BY <5>1
        <5> QED
          BY <5>1, <5>2, Zenon DEF h
      <4> QED
        BY <3>1, <4>1, Zenon
    <3>4. NextOf(LastSeen)' = NextOf(LastSeen)
      BY <2>1 DEF NextOf
    <3> QED
      BY <1>1, <1>2, <2>1, <2>2, <2>4, <3>2, <3>3, <3>4 DEF WatchedProgress, Idle
  <2>5. CASE watched > first + k
    <3>1. seen = <<>> /\ Len(seen) = 0
      BY <1>2, <2>5 DEF FilterInv, WatchedProgress, Idle
    <3>2. LastSeen = "VNF_ACCEPT"
      BY <3>1 DEF LastSeen
    <3> QED
      BY <1>1, <1>2, <2>1, <2>2, <2>5, <3>1, <3>2 DEF WatchedProgress, Idle
  <2> QED
    BY <1>2, <2>3, <2>4, <2>5
<1> QED
  BY <1>5, <1>6, <1>7 DEF FilterInv

LEMMA FrameLeaves == FilterInv /\ enqueue => FilterInv'
<1> SUFFICES ASSUME FilterInv, enqueue PROVE FilterInv'
  OBVIOUS
<1>1. /\ n_vectors # 0 /\ n_left_from = 0 /\ turn = 0 /\ n_vectors' = 0 /\ first' = 0
      /\ UNCHANGED <<n_left_from, turn, k, j, result, nexts, traced, prefetched, watched, seen>>
  BY DEF enqueue, Idle
<1>2. prefetched = {}
  BY <1>1 DEF FilterInv, PrefetchShape
<1>3. TypeOK' /\ LoopShape' /\ PrefetchShape' /\ InOrder' /\ WatchedProgress'
  BY <1>1, <1>2, HookFacts DEF FilterInv, TypeOK, LoopShape, PrefetchShape, InOrder, WatchedProgress, Idle
<1> QED
  BY <1>3 DEF FilterInv

LEMMA FilterStep == FilterInv /\ [Next]_vars => FilterInv'
<1> SUFFICES ASSUME FilterInv, [Next]_vars PROVE FilterInv'
  OBVIOUS
<1>1. CASE UNCHANGED vars
  BY <1>1 DEF vars, FilterInv, TypeOK, LoopShape, PrefetchShape, InOrder, WatchedProgress, Idle, LastSeen, NextOf
<1>2. CASE Next
  BY <1>2, FrameComes, TurnStarts, TurnEnds, HookCalled, VerdictTaken, FrameLeaves DEF Next
<1> QED
  BY <1>1, <1>2

LEMMA FilterInvariant == Spec => []FilterInv
  BY FilterInit, FilterStep, PTL DEF Spec

\* Every variable of the loops keeps its type: no turn takes more than is left.
THEOREM FilterTypeCorrect == Spec => []TypeOK
<1>1. FilterInv => TypeOK
  BY DEF FilterInv
<1> QED
  BY FilterInvariant, <1>1, PTL

\* On every buffer of a frame of any size the hooks are called once each, in
\* order, up to the first that does not accept, and that one decides.
THEOREM HooksDecideEveryBuffer == Spec => []HooksDecide
<1>1. ASSUME FilterInv PROVE HooksDecide
  <2>1. FrameDone => first = n_vectors /\ watched < first + k /\ ~Idle
    BY <1>1 DEF FilterInv, TypeOK, LoopShape, FrameDone
  <2>2. FrameDone => nexts[watched] = NextOf(LastSeen) /\ (LastSeen = "VNF_ACCEPT" => Len(seen) = Len(Hooks))
    BY <1>1, <2>1 DEF FilterInv, WatchedProgress
  <2>3. LastSeen \in Actions
    <3>1. CASE seen = <<>>
      BY <3>1 DEF LastSeen, Actions
    <3>2. CASE seen # <<>>
      <4>1. seen \in Seq(Calls)
        BY <1>1 DEF FilterInv, TypeOK, Calls, HookSet
      <4>2. Len(seen) \in 1 .. Len(seen)
        BY <3>2, <4>1, EmptySeq, LenProperties
      <4>3. seen[Len(seen)] \in Calls
        BY <4>1, <4>2, ElementOfSeq
      <4> QED
        BY <3>2, <4>3 DEF LastSeen, Calls
    <3> QED
      BY <3>1, <3>2
  <2> QED
    BY <1>1, <2>2, <2>3 DEF HooksDecide, FilterInv, InOrder, NextOf, Actions
<1> QED
  BY FilterInvariant, <1>1, PTL

\* The prefetch never reads past the frame, whatever its size.
THEOREM PrefetchStaysInFrame == Spec => []PrefetchInFrame
<1>1. FilterInv => PrefetchInFrame
  BY DEF FilterInv, PrefetchShape, PrefetchInFrame
<1> QED
  BY FilterInvariant, <1>1, PTL
=============================================================================
