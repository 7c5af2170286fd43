-------------------------- MODULE CpuLoadingProofs --------------------------
(***************************************************************************)
(* Proofs about CpuLoading for any number of threads and nodes. What a     *)
(* thread did since its last sample is in its counters or still in the     *)
(* wrapper's hands; with the workers at the barrier and the main thread    *)
(* out of the wrapper nothing is in anyone's hands.                        *)
(***************************************************************************)
EXTENDS CpuLoading, TLAPS

\* What the wrapper of t has measured and not added yet.
PendingTotal(t) == IF at[t] = "ran" THEN job[t].delta ELSE 0

PendingIdle(t) ==
  IF at[t] \in {"ran", "counted"} /\ job[t].idle /\ TypeOfNode(t, job[t].node) # "none"
    THEN job[t].delta ELSE 0

\* The part of TypeOK that needs no other fact.
Types ==
  /\ at \in [Threads -> {"loop", "ran", "counted", "parked"}]
  /\ job \in [Threads -> [node: Nodes, delta: 0 .. MaxTime, idle: BOOLEAN]]
  /\ idle_time \in [PollTypes -> [Threads -> Nat]]
  /\ total_time \in [Threads -> Nat]
  /\ last_cpu_loading \in [Threads -> (0 .. MaxTime) \X (0 .. MaxTime)]
  /\ sampling_time \in Nat
  /\ main \in {"loop", "awake", "sampling", "cli"}
  /\ cursor \in 0 .. NThreads
  /\ barrier \in BOOLEAN
  /\ spent \in [Threads -> 0 .. MaxTime] /\ idled \in [Threads -> 0 .. MaxTime]

\* No time is lost: it is counted, or pending.
CountedAt(t) ==
  /\ total_time[t] + PendingTotal(t) = spent[t]
  /\ IdleTime(t) + PendingIdle(t) = idled[t]
  /\ idled[t] <= spent[t]

NothingLost == \A t \in Threads : CountedAt(t)

\* The main thread does one thing at a time.
MainIsOut ==
  /\ at[0] # "parked"
  /\ main # "loop" => at[0] = "loop"

CpuInv == Types /\ NothingLost /\ MainIsOut /\ LoadingInRange

LEMMA ThreadZero == 0 \in Threads /\ Workers \subseteq Threads /\ Threads \subseteq Nat
  BY CpuConstants DEF Threads, Workers

LEMMA CpuInit == Init => CpuInv
<1> SUFFICES ASSUME Init PROVE CpuInv
  OBVIOUS
<1> USE CpuConstants, ThreadZero
<1> DEFINE n == CHOOSE n \in Nodes : TRUE
<1>1. n \in Nodes
  OBVIOUS
<1>2. [node |-> n, delta |-> 0, idle |-> FALSE] \in [node: Nodes, delta: 0 .. MaxTime, idle: BOOLEAN]
  BY <1>1
<1> HIDE DEF n
<1>3. Types
  <2>1. job \in [Threads -> [node: Nodes, delta: 0 .. MaxTime, idle: BOOLEAN]]
    BY <1>2 DEF Init, n
  <2>2. idle_time \in [PollTypes -> [Threads -> Nat]] /\ total_time \in [Threads -> Nat]
    BY DEF Init, Zero
  <2>3. spent \in [Threads -> 0 .. MaxTime] /\ idled \in [Threads -> 0 .. MaxTime]
    BY DEF Init, Zero
  <2>4. last_cpu_loading \in [Threads -> (0 .. MaxTime) \X (0 .. MaxTime)]
    BY DEF Init
  <2>5. at \in [Threads -> {"loop", "ran", "counted", "parked"}]
    BY DEF Init
  <2>6. /\ sampling_time \in Nat /\ main \in {"loop", "awake", "sampling", "cli"}
        /\ cursor \in 0 .. NThreads /\ barrier \in BOOLEAN
    <3>1. sampling_time = 1 /\ main = "loop" /\ cursor = 0 /\ barrier = FALSE
      BY DEF Init
    <3>2. sampling_time \in Nat /\ cursor \in 0 .. NThreads
      BY <3>1
    <3> QED
      BY <3>1, <3>2, Zenon
  <2> QED
    BY <2>1, <2>2, <2>3, <2>4, <2>5, <2>6 DEF Types
<1>4. NothingLost
  BY DEF Init, NothingLost, CountedAt, PendingTotal, PendingIdle, IdleTime, Zero, PollTypes
<1>5. MainIsOut /\ LoadingInRange
  BY DEF Init, MainIsOut, LoadingInRange
<1> QED
  BY <1>3, <1>4, <1>5 DEF CpuInv

\* A step that touches neither the counters nor what is pending loses nothing.
LEMMA CountersUntouched ==
  ASSUME CpuInv,
         UNCHANGED <<job, idle_time, total_time, spent, idled>>,
         at' \in [Threads -> {"loop", "ran", "counted", "parked"}],
         \A t \in Threads : at'[t] = at[t] \/ {at[t], at'[t]} \subseteq {"loop", "parked"}
  PROVE  NothingLost'
<1> SUFFICES ASSUME NEW t \in Threads PROVE CountedAt(t)'
  BY DEF NothingLost
<1>1. CountedAt(t)
  BY DEF CpuInv, NothingLost
<1>2. PendingTotal(t)' = PendingTotal(t) /\ PendingIdle(t)' = PendingIdle(t)
  BY DEF PendingTotal, PendingIdle, TypeOfNode, Polls
<1>3. IdleTime(t)' = IdleTime(t)
  BY DEF IdleTime
<1> QED
  BY <1>1, <1>2, <1>3 DEF CountedAt

LEMMA NodeRuns ==
  ASSUME CpuInv, NEW t \in Threads, NEW node \in Nodes, NEW delta \in 1 .. MaxTime,
         NEW idle \in BOOLEAN, node_function(t, node, delta, idle)
  PROVE  CpuInv'
<1> USE CpuConstants, ThreadZero
<1>1. Types /\ NothingLost /\ MainIsOut /\ LoadingInRange
  BY DEF CpuInv
<1> DEFINE rec == [node |-> node, delta |-> delta, idle |-> idle]
<1>2. /\ at[t] = "loop" /\ spent[t] + delta <= MaxTime
      /\ t = 0 => main = "loop"
      /\ at' = [at EXCEPT ![t] = "ran"] /\ job' = [job EXCEPT ![t] = rec]
      /\ spent' = [spent EXCEPT ![t] = @ + delta]
      /\ UNCHANGED <<idle_time, total_time, samplerVars>>
  BY DEF node_function, MayDispatch
<1>3. idled' = [idled EXCEPT ![t] = IF idle /\ TypeOfNode(t, node) # "none" THEN @ + delta ELSE @]
  BY DEF node_function, TypeOfNode, PollTypes
<1>4. rec \in [node: Nodes, delta: 0 .. MaxTime, idle: BOOLEAN]
  OBVIOUS
<1>5. rec.node = node /\ rec.delta = delta /\ rec.idle = idle
  OBVIOUS
<1> HIDE DEF rec
<1>6. CountedAt(t)
  BY <1>1 DEF NothingLost
<1>7. total_time[t] \in Nat /\ spent[t] \in 0 .. MaxTime /\ idled[t] \in 0 .. MaxTime
  BY <1>1 DEF Types
<1>8. Types'
  <2>1. spent' \in [Threads -> 0 .. MaxTime] /\ idled' \in [Threads -> 0 .. MaxTime]
    BY <1>1, <1>2, <1>3, <1>6, <1>7 DEF Types, CountedAt
  <2>2. at' \in [Threads -> {"loop", "ran", "counted", "parked"}]
        /\ job' \in [Threads -> [node: Nodes, delta: 0 .. MaxTime, idle: BOOLEAN]]
    BY <1>1, <1>2, <1>4 DEF Types
  <2> QED
    BY <2>1, <2>2, <1>1, <1>2 DEF Types, samplerVars
<1>9. NothingLost'
  <2> SUFFICES ASSUME NEW u \in Threads PROVE CountedAt(u)'
    BY DEF NothingLost
  <2>0. CountedAt(u) /\ IdleTime(u)' = IdleTime(u)
    BY <1>1, <1>2 DEF NothingLost, IdleTime
  <2>1. CASE u # t
    <3>1. PendingTotal(u)' = PendingTotal(u) /\ PendingIdle(u)' = PendingIdle(u)
      BY <2>1, <1>1, <1>2 DEF PendingTotal, PendingIdle, TypeOfNode, Polls, Types
    <3>2. spent'[u] = spent[u] /\ idled'[u] = idled[u]
      BY <2>1, <1>1, <1>2, <1>3 DEF Types
    <3> QED
      BY <2>0, <3>1, <3>2, <1>2 DEF CountedAt
  <2>2. CASE u = t
    <3>1. PendingTotal(t) = 0 /\ PendingIdle(t) = 0
      BY <1>2 DEF PendingTotal, PendingIdle
    <3>2. at'[t] = "ran" /\ job'[t] = rec
      BY <1>1, <1>2 DEF Types
    <3>3. PendingTotal(t)' = delta
      BY <3>2, <1>5 DEF PendingTotal
    <3>4. PendingIdle(t)' = IF idle /\ TypeOfNode(t, node) # "none" THEN delta ELSE 0
      BY <3>2, <1>5 DEF PendingIdle, TypeOfNode, Polls
    <3>5. spent'[t] = spent[t] + delta
          /\ idled'[t] = IF idle /\ TypeOfNode(t, node) # "none" THEN idled[t] + delta ELSE idled[t]
      BY <1>1, <1>2, <1>3 DEF Types
    <3>6. IdleTime(t) \in Nat
      BY <1>1 DEF Types, IdleTime, PollTypes
    <3> DEFINE isIdle == idle /\ TypeOfNode(t, node) # "none"
    <3> HIDE DEF isIdle
    <3>7. PendingIdle(t)' + idled[t] = idled'[t] /\ idled'[t] <= spent'[t]
      BY <3>4, <3>5, <1>6, <1>7 DEF CountedAt
    <3>8. total_time'[t] + PendingTotal(t)' = spent'[t]
      BY <3>1, <3>3, <3>5, <1>6, <1>7, <1>2 DEF CountedAt
    <3>9. IdleTime(t)' + PendingIdle(t)' = idled'[t]
      BY <2>0, <2>2, <3>1, <3>4, <3>6, <3>7, <1>6, <1>7 DEF CountedAt
    <3> QED
      BY <3>7, <3>8, <3>9, <2>2 DEF CountedAt
  <2> QED
    BY <2>1, <2>2
<1>10. MainIsOut'
  BY <1>1, <1>2 DEF MainIsOut, Types, samplerVars
<1>11. LoadingInRange'
  BY <1>1, <1>2 DEF LoadingInRange, samplerVars
<1> QED
  BY <1>8, <1>9, <1>10, <1>11 DEF CpuInv

LEMMA TotalAdded ==
  ASSUME CpuInv, NEW t \in Threads, add_total_time(t)
  PROVE  CpuInv'
<1> USE CpuConstants, ThreadZero
<1>1. Types /\ NothingLost /\ MainIsOut /\ LoadingInRange
  BY DEF CpuInv
<1>2. job[t].delta \in Nat /\ total_time[t] \in Nat
  BY <1>1 DEF Types
<1>3. Types'
  BY <1>1, <1>2 DEF Types, add_total_time, samplerVars
<1>4. NothingLost'
  <2> SUFFICES ASSUME NEW u \in Threads PROVE CountedAt(u)'
    BY DEF NothingLost
  <2>0. CountedAt(u) /\ IdleTime(u)' = IdleTime(u)
    BY <1>1 DEF NothingLost, IdleTime, add_total_time
  <2>1. PendingIdle(u)' = PendingIdle(u)
    BY <1>1 DEF PendingIdle, TypeOfNode, Polls, add_total_time, Types
  <2>2. total_time'[u] + PendingTotal(u)' = total_time[u] + PendingTotal(u)
    BY <1>1, <1>2 DEF PendingTotal, add_total_time, Types
  <2> QED
    BY <2>0, <2>1, <2>2 DEF CountedAt, add_total_time
<1>5. MainIsOut' /\ LoadingInRange'
  BY <1>1 DEF MainIsOut, LoadingInRange, add_total_time, Types, samplerVars
<1> QED
  BY <1>3, <1>4, <1>5 DEF CpuInv

LEMMA IdleAdded ==
  ASSUME CpuInv, NEW t \in Threads, add_idle_time(t)
  PROVE  CpuInv'
<1> USE CpuConstants, ThreadZero
<1>1. Types /\ NothingLost /\ MainIsOut /\ LoadingInRange
  BY DEF CpuInv
<1>2. job[t].delta \in Nat /\ job[t].idle \in BOOLEAN
  BY <1>1 DEF Types
<1>3. \A p \in PollTypes : idle_time[p] \in [Threads -> Nat]
  BY <1>1 DEF Types
<1>4. \A p \in PollTypes : idle_time'[p] =
        IF job[t].idle /\ p = TypeOfNode(t, job[t].node)
          THEN [idle_time[p] EXCEPT ![t] = @ + job[t].delta] ELSE idle_time[p]
  BY DEF add_idle_time
<1>5. ASSUME NEW p \in PollTypes PROVE idle_time'[p] \in [Threads -> Nat]
  <2>1. idle_time[p] \in [Threads -> Nat]
    BY <1>3
  <2>2. [idle_time[p] EXCEPT ![t] = @ + job[t].delta] \in [Threads -> Nat]
    BY <2>1, <1>2
  <2>3. idle_time'[p] \in {[idle_time[p] EXCEPT ![t] = @ + job[t].delta], idle_time[p]}
    BY <1>4
  <2> QED
    BY <2>1, <2>2, <2>3
<1>6. Types'
  <2>1. idle_time' \in [PollTypes -> [Threads -> Nat]]
    BY <1>5 DEF add_idle_time
  <2>2. at' \in [Threads -> {"loop", "ran", "counted", "parked"}]
    BY <1>1 DEF Types, add_idle_time
  <2> QED
    BY <1>1, <2>1, <2>2 DEF Types, add_idle_time, samplerVars
<1>7. NothingLost'
  <2> SUFFICES ASSUME NEW u \in Threads PROVE CountedAt(u)'
    BY DEF NothingLost
  <2>0. CountedAt(u)
    BY <1>1 DEF NothingLost
  <2>1. PendingTotal(u)' = PendingTotal(u)
    BY <1>1 DEF PendingTotal, add_idle_time, Types
  <2>2. IdleTime(u)' + PendingIdle(u)' = IdleTime(u) + PendingIdle(u)
    <3>0. idle_time["dpdk"][u] \in Nat /\ idle_time["virtio"][u] \in Nat
      BY <1>3 DEF PollTypes
    <3>1. CASE u # t
      <4>1. PendingIdle(u)' = PendingIdle(u)
        BY <3>1, <1>1 DEF PendingIdle, TypeOfNode, Polls, add_idle_time, Types
      <4>2. \A p \in PollTypes : idle_time'[p][u] = idle_time[p][u]
        BY <3>1, <1>3, <1>4
      <4> QED
        BY <4>1, <4>2 DEF IdleTime, PollTypes
    <3>2. CASE u = t
      <4>1. at[t] = "counted" /\ at'[t] = "loop" /\ job' = job
        BY <1>1 DEF add_idle_time, Types
      <4>2. PendingIdle(t)' = 0
        BY <4>1 DEF PendingIdle
      <4>3. TypeOfNode(t, job[t].node) \in {"dpdk", "virtio", "none"}
        BY DEF TypeOfNode
      <4> DEFINE k == TypeOfNode(t, job[t].node)
      <4>4. PendingIdle(t) = IF job[t].idle /\ k # "none" THEN job[t].delta ELSE 0
        BY <4>1 DEF PendingIdle
      <4>5. \A p \in PollTypes : idle_time'[p][t] =
              IF job[t].idle /\ p = k THEN idle_time[p][t] + job[t].delta ELSE idle_time[p][t]
        BY <1>3, <1>4
      <4>6. /\ idle_time'["dpdk"][t] =
                 IF job[t].idle /\ "dpdk" = k THEN idle_time["dpdk"][t] + job[t].delta ELSE idle_time["dpdk"][t]
            /\ idle_time'["virtio"][t] =
                 IF job[t].idle /\ "virtio" = k THEN idle_time["virtio"][t] + job[t].delta ELSE idle_time["virtio"][t]
        BY <4>5 DEF PollTypes
      <4> HIDE DEF k
      <4>7. k \in {"dpdk", "virtio", "none"}
        BY <4>3 DEF k
      <4>8. IdleTime(t)' = IdleTime(t) + PendingIdle(t)
        <5>1. CASE job[t].idle /\ k = "dpdk"
          BY <5>1, <4>4, <4>6, <3>0, <3>2, <1>2 DEF IdleTime
        <5>2. CASE job[t].idle /\ k = "virtio"
          BY <5>2, <4>4, <4>6, <3>0, <3>2, <1>2 DEF IdleTime
        <5>3. CASE ~job[t].idle \/ k = "none"
          BY <5>3, <4>4, <4>6, <3>0, <3>2, <1>2 DEF IdleTime
        <5> QED
          BY <5>1, <5>2, <5>3, <4>7, <1>2
      <4>9. IdleTime(t) + PendingIdle(t) \in Nat
        BY <3>0, <3>2, <4>4, <1>2 DEF IdleTime
      <4> QED
        BY <4>2, <4>8, <4>9, <3>2
    <3> QED
      BY <3>1, <3>2
  <2> QED
    BY <2>0, <2>1, <2>2 DEF CountedAt, add_idle_time
<1>8. MainIsOut' /\ LoadingInRange'
  BY <1>1 DEF MainIsOut, LoadingInRange, add_idle_time, Types, samplerVars
<1> QED
  BY <1>6, <1>7, <1>8 DEF CpuInv

\* With everybody at the barrier nothing is pending.
LEMMA HeldIsExact ==
  ASSUME CpuInv, may_sample, NEW t \in Threads
  PROVE  total_time[t] = spent[t] /\ IdleTime(t) = idled[t]
<1> USE ThreadZero
<1>1. at[t] \in {"loop", "parked"}
  BY DEF CpuInv, MainIsOut, may_sample, Held, Workers
<1>2. PendingTotal(t) = 0 /\ PendingIdle(t) = 0
  BY <1>1 DEF PendingTotal, PendingIdle
<1>3. total_time[t] \in Nat /\ IdleTime(t) \in Nat
  BY DEF CpuInv, Types, IdleTime, PollTypes
<1> QED
  BY <1>2, <1>3 DEF CpuInv, NothingLost, CountedAt

LEMMA ThreadSampled ==
  ASSUME CpuInv, sample_thread
  PROVE  CpuInv'
<1> USE CpuConstants, ThreadZero
<1>1. Types /\ NothingLost /\ MainIsOut /\ LoadingInRange
  BY DEF CpuInv
<1>2. cursor \in Threads /\ cursor + 1 \in 0 .. NThreads
  BY <1>1 DEF sample_thread, Types, Threads
<1>3. total_time[cursor] = spent[cursor] /\ IdleTime(cursor) = idled[cursor]
  BY <1>2, HeldIsExact DEF sample_thread
<1>4. CountedAt(cursor) /\ spent[cursor] \in 0 .. MaxTime /\ idled[cursor] \in 0 .. MaxTime
  BY <1>1, <1>2 DEF NothingLost, Types
<1> DEFINE c == cursor
           pair == <<IdleTime(c), total_time[c]>>
<1>5. last_cpu_loading' = [last_cpu_loading EXCEPT ![c] = pair]
  BY DEF sample_thread
<1>6. pair \in (0 .. MaxTime) \X (0 .. MaxTime) /\ pair[1] <= pair[2]
  BY <1>3, <1>4 DEF CountedAt
<1>7. \A p \in PollTypes : idle_time[p] \in [Threads -> Nat]
  BY <1>1 DEF Types
<1>8. \A p \in PollTypes : idle_time'[p] = [idle_time[p] EXCEPT ![c] = 0]
  BY DEF sample_thread, reset_times
<1> HIDE DEF pair, c
<1>9. Types'
  <2>1. idle_time' \in [PollTypes -> [Threads -> Nat]]
    BY <1>7, <1>8 DEF sample_thread, reset_times
  <2>2. last_cpu_loading' \in [Threads -> (0 .. MaxTime) \X (0 .. MaxTime)]
    BY <1>1, <1>5, <1>6 DEF Types
  <2>3. total_time' \in [Threads -> Nat] /\ spent' \in [Threads -> 0 .. MaxTime]
        /\ idled' \in [Threads -> 0 .. MaxTime]
    <3>1. /\ total_time' = [total_time EXCEPT ![cursor] = 0]
          /\ spent' = [spent EXCEPT ![cursor] = 0] /\ idled' = [idled EXCEPT ![cursor] = 0]
      BY DEF sample_thread, reset_times
    <3>2. 0 \in 0 .. MaxTime /\ total_time \in [Threads -> Nat]
          /\ spent \in [Threads -> 0 .. MaxTime] /\ idled \in [Threads -> 0 .. MaxTime]
      BY <1>1 DEF Types
    <3> QED
      BY <3>1, <3>2
  <2> QED
    BY <1>1, <1>2, <2>1, <2>2, <2>3 DEF Types, sample_thread
<1>10. NothingLost'
  <2> SUFFICES ASSUME NEW u \in Threads PROVE CountedAt(u)'
    BY DEF NothingLost
  <2>0. CountedAt(u) /\ PendingTotal(u)' = PendingTotal(u) /\ PendingIdle(u)' = PendingIdle(u)
    BY <1>1 DEF NothingLost, PendingTotal, PendingIdle, TypeOfNode, Polls, sample_thread
  <2>1. CASE u # c
    <3>1. IdleTime(u)' = IdleTime(u)
      BY <2>1, <1>7, <1>8 DEF IdleTime, PollTypes
    <3>2. total_time'[u] = total_time[u] /\ spent'[u] = spent[u] /\ idled'[u] = idled[u]
      BY <2>1, <1>1, <1>2 DEF sample_thread, reset_times, Types, c
    <3> QED
      BY <2>0, <3>1, <3>2 DEF CountedAt
  <2>2. CASE u = c
    <3>1. \A p \in PollTypes : idle_time'[p][u] = 0
      BY <2>2, <1>7, <1>8
    <3>2. IdleTime(u)' = 0
      BY <3>1 DEF IdleTime, PollTypes
    <3>3. total_time'[u] = 0 /\ spent'[u] = 0 /\ idled'[u] = 0
      BY <2>2, <1>1 DEF sample_thread, reset_times, Types, c
    <3>4. at[u] \in {"loop", "parked"}
      BY <1>1 DEF MainIsOut, sample_thread, may_sample, Held, Workers
    <3>5. PendingTotal(u) = 0 /\ PendingIdle(u) = 0
      BY <3>4 DEF PendingTotal, PendingIdle
    <3> QED
      BY <2>0, <3>2, <3>3, <3>5 DEF CountedAt
  <2> QED
    BY <2>1, <2>2
<1>11. MainIsOut'
  BY <1>1 DEF MainIsOut, sample_thread
<1>12. LoadingInRange'
  BY <1>1, <1>5, <1>6 DEF LoadingInRange, Types
<1> QED
  BY <1>9, <1>10, <1>11, <1>12 DEF CpuInv

\* The steps of the barrier, of the process and of the CLI move threads between
\* their loops and the barrier only.
LEMMA OtherSteps ==
  ASSUME CpuInv,
         \/ \E t \in Threads : park(t)
         \/ clock_expires \/ process_starts \/ barrier_release
         \/ cli_starts \/ cpu_loading_set_sampling_time
  PROVE  CpuInv'
<1> USE CpuConstants, ThreadZero
<1>1. Types /\ NothingLost /\ MainIsOut /\ LoadingInRange
  BY DEF CpuInv
<1>2. UNCHANGED <<job, idle_time, total_time, spent, idled, last_cpu_loading>>
  BY DEF park, clock_expires, process_starts, barrier_release, cli_starts,
         cpu_loading_set_sampling_time, wrapperVars, samplerVars
<1>3. /\ at' \in [Threads -> {"loop", "ran", "counted", "parked"}]
      /\ \A t \in Threads : at'[t] = at[t] \/ {at[t], at'[t]} \subseteq {"loop", "parked"}
      /\ at'[0] = at[0]
  BY <1>1 DEF Types, MainIsOut, Workers, park, clock_expires, process_starts, barrier_release, cli_starts,
         cpu_loading_set_sampling_time, wrapperVars, samplerVars, Released
<1>4. NothingLost'
  BY <1>2, <1>3, CountersUntouched
<1>5. /\ sampling_time' \in Nat /\ main' \in {"loop", "awake", "sampling", "cli"}
      /\ cursor' \in 0 .. NThreads /\ barrier' \in BOOLEAN
  <2>1. /\ sampling_time \in Nat /\ main \in {"loop", "awake", "sampling", "cli"}
        /\ cursor \in 0 .. NThreads /\ barrier \in BOOLEAN
    BY <1>1 DEF Types
  <2>2. ASSUME NEW t \in Threads, park(t) PROVE <1>5
    BY <2>1, <2>2 DEF park, samplerVars
  <2>3. CASE clock_expires \/ process_starts \/ cli_starts
    BY <2>1, <2>3 DEF clock_expires, process_starts, cli_starts
  <2>4. CASE barrier_release
    <3>1. /\ cursor' = 0 /\ main' = (IF sampling_time > 0 THEN "loop" ELSE "awake")
          /\ barrier' = FALSE /\ sampling_time' = sampling_time
      BY <2>4 DEF barrier_release
    <3>2. cursor' \in 0 .. NThreads /\ main' \in {"loop", "awake"}
      BY <3>1
    <3> QED
      BY <2>1, <3>1, <3>2, Zenon
  <2>5. CASE cpu_loading_set_sampling_time
    <3>1. /\ sampling_time' \in SamplingTimes \cup {sampling_time} /\ main' = "loop"
          /\ cursor' = cursor /\ barrier' = FALSE
      BY <2>5 DEF cpu_loading_set_sampling_time
    <3>2. sampling_time' \in Nat
      BY <2>1, <3>1
    <3> QED
      BY <2>1, <3>1, <3>2, Zenon
  <2> QED
    BY <2>2, <2>3, <2>4, <2>5
<1>6. Types'
  BY <1>1, <1>2, <1>3, <1>5 DEF Types
<1>7. MainIsOut'
  BY <1>1, <1>3 DEF MainIsOut, park, clock_expires, process_starts, barrier_release, cli_starts,
         cpu_loading_set_sampling_time, wrapperVars, samplerVars
<1> QED
  BY <1>1, <1>2, <1>4, <1>6, <1>7 DEF CpuInv, LoadingInRange

LEMMA CpuStep == CpuInv /\ [Next]_vars => CpuInv'
<1> SUFFICES ASSUME CpuInv, [Next]_vars PROVE CpuInv'
  OBVIOUS
<1>1. CASE UNCHANGED vars
  BY <1>1 DEF CpuInv, Types, NothingLost, CountedAt, PendingTotal, PendingIdle, IdleTime, TypeOfNode, Polls,
              MainIsOut, LoadingInRange, vars, wrapperVars, samplerVars
<1>2. CASE Next
  <2>1. ASSUME NEW t \in Threads, Thread(t) PROVE CpuInv'
    BY <2>1, NodeRuns, TotalAdded, IdleAdded, OtherSteps DEF Thread
  <2>2. CASE sample_thread
    BY <2>2, ThreadSampled
  <2> QED
    BY <1>2, <2>1, <2>2, OtherSteps DEF Next, Sampler
<1> QED
  BY <1>1, <1>2

LEMMA CpuInvariant == Spec => []CpuInv
  BY CpuInit, CpuStep, PTL DEF Spec

LEMMA CountersBounded == CpuInv => TypeOK
<1> SUFFICES ASSUME CpuInv PROVE TypeOK
  OBVIOUS
<1>1. Types /\ NothingLost
  BY DEF CpuInv
<1>2. ASSUME NEW t \in Threads
      PROVE  /\ total_time[t] \in 0 .. MaxTime
             /\ \A p \in PollTypes : idle_time[p][t] \in 0 .. MaxTime
  <2>1. CountedAt(t) /\ total_time[t] \in Nat /\ spent[t] \in 0 .. MaxTime /\ idled[t] \in 0 .. MaxTime
        /\ idle_time["dpdk"][t] \in Nat /\ idle_time["virtio"][t] \in Nat
    BY <1>1 DEF Types, NothingLost, PollTypes
  <2>2. PendingTotal(t) \in Nat /\ PendingIdle(t) \in Nat
    BY <1>1, CpuConstants DEF Types, PendingTotal, PendingIdle
  <2>3. total_time[t] \in 0 .. MaxTime
    BY <2>1, <2>2, CpuConstants DEF CountedAt
  <2>4. idle_time["dpdk"][t] \in 0 .. MaxTime /\ idle_time["virtio"][t] \in 0 .. MaxTime
    BY <2>1, <2>2, CpuConstants DEF CountedAt, IdleTime
  <2> QED
    BY <2>3, <2>4 DEF PollTypes
<1>3. total_time \in [Threads -> 0 .. MaxTime]
  BY <1>1, <1>2 DEF Types
<1>4. idle_time \in [PollTypes -> [Threads -> 0 .. MaxTime]]
  <2>1. \A p \in PollTypes : idle_time[p] \in [Threads -> 0 .. MaxTime]
    BY <1>1, <1>2 DEF Types
  <2> QED
    BY <2>1, <1>1 DEF Types
<1> QED
  BY <1>1, <1>3, <1>4 DEF TypeOK, Types

\* Every variable of the plugin stays of its type, and no counter passes the
\* bound on the time measured between two samples.
THEOREM CpuTypeCorrect == Spec => []TypeOK
  BY CpuInvariant, CountersBounded, PTL

\* The idle time of every sample is part of its total time, for any number of
\* threads and any interleaving of their wrappers with the sampler.
THEOREM LoadingsInRange == Spec => []LoadingInRange
<1>1. CpuInv => LoadingInRange
  BY DEF CpuInv
<1> QED
  BY CpuInvariant, <1>1, PTL

\* The sampler finds exactly what each thread did since its last sample.
THEOREM SamplesAreExact == Spec => []SampleIsExact
<1>1. CpuInv => SampleIsExact
  BY HeldIsExact DEF SampleIsExact
<1> QED
  BY CpuInvariant, <1>1, PTL
=============================================================================
