----------------------------- MODULE VnetFilter -----------------------------
(***************************************************************************)
(* A hook node of vnetfilter: a frame of buffers is taken four at a time,  *)
(* what is left one at a time. On every buffer the hooks of the node's     *)
(* list are called in the order of their registration until one returns    *)
(* something else than VNF_ACCEPT, and the last result decides where the   *)
(* buffer goes. The list does not change once packets flow.                *)
(*                                                                         *)
(* One buffer of the frame, any of them, is watched: seen is what its      *)
(* hooks returned. A buffer is its index in the frame.                     *)
(***************************************************************************)
EXTENDS Naturals, Sequences

CONSTANTS
  Hooks,      \* the process list of the node: a sequence of functions
  FrameSize,  \* VLIB_FRAME_SIZE
  Unset       \* the value of a variable that was not set yet

ASSUME FilterConstants ==
  /\ Hooks \in Seq({Hooks[i] : i \in DOMAIN Hooks})
  /\ FrameSize \in Nat
  /\ Unset \notin {"VNF_ACCEPT", "VNF_DROP", "VNF_STOLEN", "VNF_STOP"}
  /\ Unset \notin {"DROP", "STOLEN", "feature"}

Actions == {"VNF_ACCEPT", "VNF_DROP", "VNF_STOLEN", "VNF_STOP"}

\* VNETFILTER_HOOK_NEXT_DROP is 0; "feature" is what vnet_feature_next_u16 gives.
Nexts == {"DROP", "STOLEN", "feature"}

Buffers == 0 .. FrameSize - 1

VARIABLES
  n_vectors,    \* the frame's size; 0 between frames
  n_left_from,
  first,        \* b - bufs: the first buffer of this turn of the loop
  turn,         \* how many buffers this turn takes
  k,            \* the buffer of this turn whose hooks are called
  j,            \* the hook to call next
  result,       \* what the last hook called for the buffer returned
  nexts,
  traced,       \* the next_index in the trace of each buffer
  prefetched,   \* the buffers whose header was touched ahead
  watched, seen \* history: a buffer, and <<hook, result>> of its calls

vars == <<n_vectors, n_left_from, first, turn, k, j, result, nexts, traced, prefetched, watched, seen>>

TypeOK ==
  /\ n_vectors \in 0 .. FrameSize /\ n_left_from \in 0 .. n_vectors
  /\ first \in 0 .. n_vectors /\ turn \in {0, 1, 4} /\ k \in 0 .. turn
  /\ j \in 0 .. Len(Hooks) /\ result \in Actions
  /\ nexts \in [Buffers -> Nexts \cup {Unset}]
  /\ traced \in [Buffers -> Nexts \cup {Unset}]
  /\ prefetched \subseteq Nat
  /\ watched \in Buffers
  /\ seen \in Seq({Hooks[i] : i \in DOMAIN Hooks} \X Actions)

Nothing == [b \in Buffers |-> Unset]

Init ==
  /\ n_vectors = 0 /\ n_left_from = 0 /\ first = 0 /\ turn = 0 /\ k = 0 /\ j = 0
  /\ result = "VNF_ACCEPT"
  /\ nexts = Nothing /\ traced = Nothing /\ prefetched = {}
  /\ watched \in Buffers /\ seen = <<>>

-----------------------------------------------------------------------------
\* vnetfilter_hook_process_inline

Idle == n_vectors = 0

\* The frame comes: nexts is an array on the stack and holds anything.
dispatch(n) ==
  /\ Idle
  /\ n_vectors' = n /\ n_left_from' = n
  /\ first' = 0 /\ turn' = 0 /\ k' = 0
  /\ nexts' = Nothing /\ traced' = Nothing /\ prefetched' = {}
  /\ watched' \in 0 .. n - 1 /\ seen' = <<>>
  /\ UNCHANGED <<j, result>>

\* Mutant: prefetches in the last turn too.
may_prefetch_always == TRUE

\* Four more after the four of this turn.
may_prefetch == n_left_from >= 8

\* Mutant: the tail is taken by four as well.
turn_size_wide == 4

turn_size == IF n_left_from >= 4 THEN 4 ELSE 1

Turn == first .. first + turn_size - 1

\* A turn of one of the two loops starts; the trace of a frame with the flag is
\* written with the next that is in the array then.
turn_starts(is_trace) ==
  /\ ~Idle /\ n_left_from > 0 /\ turn = 0
  /\ turn' = turn_size /\ k' = 0 /\ j' = 0 /\ result' = "VNF_ACCEPT"
  /\ nexts' = [b \in Buffers |-> IF b \in Turn THEN "DROP" ELSE nexts[b]]
  /\ traced' = [b \in Buffers |-> IF is_trace /\ b \in Turn THEN "DROP" ELSE traced[b]]
  /\ prefetched' = IF turn_size = 4 /\ may_prefetch THEN first + 4 .. first + 7 ELSE {}
  /\ UNCHANGED <<n_vectors, n_left_from, first, watched, seen>>

turn_ends ==
  /\ turn > 0 /\ k = turn
  /\ turn' = 0 /\ k' = 0
  /\ first' = first + turn
  /\ n_left_from' = n_left_from - turn
  /\ UNCHANGED <<n_vectors, j, result, nexts, traced, prefetched, watched, seen>>

-----------------------------------------------------------------------------
\* vnetfilter_hook_process, for buffer first + k

MoreHooks == turn > 0 /\ k < turn /\ j < Len(Hooks) /\ result = "VNF_ACCEPT"

\* A hook returns any action.
call_hook(action) ==
  /\ MoreHooks
  /\ result' = action
  /\ j' = j + 1
  /\ seen' = IF first + k = watched THEN Append(seen, <<Hooks[j + 1], action>>) ELSE seen
  /\ UNCHANGED <<n_vectors, n_left_from, first, turn, k, nexts, traced, prefetched, watched>>

\* Mutant: a buffer the hooks stop at is dropped.
NextOf_stop_drops(action) ==
  CASE action \in {"VNF_DROP", "VNF_STOP"} -> "DROP"
    [] action = "VNF_STOLEN" -> "STOLEN"
    [] OTHER -> "feature"

NextOf(action) ==
  CASE action = "VNF_DROP" -> "DROP"
    [] action = "VNF_STOLEN" -> "STOLEN"
    [] OTHER -> "feature"

\* The next buffer starts with VNF_ACCEPT and the first hook.
process_verdict ==
  /\ turn > 0 /\ k < turn /\ ~MoreHooks
  /\ nexts' = [nexts EXCEPT ![first + k] = NextOf(result)]
  /\ k' = k + 1 /\ j' = 0 /\ result' = "VNF_ACCEPT"
  /\ UNCHANGED <<n_vectors, n_left_from, first, turn, traced, prefetched, watched, seen>>

\* vlib_buffer_enqueue_to_next: every buffer leaves for its next.
enqueue ==
  /\ ~Idle /\ n_left_from = 0 /\ turn = 0
  /\ n_vectors' = 0 /\ first' = 0
  /\ UNCHANGED <<n_left_from, turn, k, j, result, nexts, traced, prefetched, watched, seen>>

-----------------------------------------------------------------------------
Next ==
  \/ \E n \in 1 .. FrameSize : dispatch(n)
  \/ \E is_trace \in BOOLEAN : turn_starts(is_trace)
  \/ turn_ends
  \/ \E action \in Actions : call_hook(action)
  \/ process_verdict
  \/ enqueue

Spec == Init /\ [][Next]_vars

-----------------------------------------------------------------------------
\* Properties

FrameDone == ~Idle /\ n_left_from = 0 /\ turn = 0

\* What the last hook called on the watched buffer returned.
LastSeen == IF seen = <<>> THEN "VNF_ACCEPT" ELSE seen[Len(seen)][2]

\* When a frame leaves, the hooks have been called on every buffer of it once
\* each, in the order of the list, up to the first that did not accept and no
\* further, and the buffer goes where the last result says; also for the buffers
\* of the tail and around the border between the two loops.
HooksDecide ==
  FrameDone =>
    /\ Len(seen) <= Len(Hooks)
    /\ \A i \in DOMAIN seen : seen[i][1] = Hooks[i]
    /\ \A i \in DOMAIN seen : i < Len(seen) => seen[i][2] = "VNF_ACCEPT"
    /\ LastSeen = "VNF_ACCEPT" => Len(seen) = Len(Hooks)
    /\ nexts[watched] =
         IF LastSeen \in {"VNF_ACCEPT", "VNF_STOP"} THEN "feature"
         ELSE IF LastSeen = "VNF_DROP" THEN "DROP" ELSE "STOLEN"

\* Only buffers of the frame that are still to come are touched ahead: past the
\* end of the frame bufs holds addresses of nothing.
PrefetchInFrame == \A b \in prefetched : b < n_vectors
=============================================================================
