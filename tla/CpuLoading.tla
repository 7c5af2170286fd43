----------------------------- MODULE CpuLoading -----------------------------
(***************************************************************************)
(* The cpu_loading plugin. A wrapper around every node dispatch measures,  *)
(* on each thread, the time spent and the part of it a polling node spent  *)
(* finding nothing. A process of the main thread wakes up per sampling     *)
(* interval, stops the workers at the barrier, and turns the counters of   *)
(* every thread into a percentage and resets them.                         *)
(*                                                                         *)
(* Thread 0 is the main thread: it runs nodes, the process and the CLI one *)
(* after the other. The others are workers, which look at the barrier at   *)
(* the top of their loop only.                                             *)
(***************************************************************************)
EXTENDS Naturals

CONSTANTS
  NThreads,       \* vlib_get_n_threads
  Nodes,          \* indices of graph nodes
  Polling,        \* polling_node_index: the node of each type on each thread
  Absent,         \* ~0, for a polling node that does not exist
  SamplingTimes,  \* what may be given to the CLI
  MaxTime         \* bound of the time a thread measures between two samples

Threads == 0 .. NThreads - 1
Workers == Threads \ {0}

\* for_each_poll_type_node: the input nodes that poll.
PollTypes == {"dpdk", "virtio"}

ASSUME CpuConstants ==
  /\ NThreads \in Nat \ {0}
  /\ Polling \in [PollTypes -> [Threads -> Nodes \cup {Absent}]]
  /\ Nodes # {} /\ Absent \notin Nodes
  /\ SamplingTimes \subseteq Nat
  /\ MaxTime \in Nat

VARIABLES
  at,                \* where each thread is: "loop", in the wrapper, "parked"
  job,               \* what the wrapper measured: node, time, idle or not
  idle_time,         \* per type of polling node and thread
  total_time,        \* per thread
  last_cpu_loading,  \* per thread, <<idle, total>>: 100 - idle * 100 / total
  sampling_time,
  main,              \* the main thread: in its "loop", or in a process
  cursor,            \* the thread the sampler is at
  barrier,           \* the main thread has called for the barrier
  spent, idled       \* history: what each thread did since it was sampled

wrapperVars == <<at, job, idle_time, total_time, spent, idled>>
samplerVars == <<last_cpu_loading, sampling_time, main, cursor, barrier>>
vars == <<wrapperVars, samplerVars>>

TypeOK ==
  /\ at \in [Threads -> {"loop", "ran", "counted", "parked"}]
  /\ job \in [Threads -> [node: Nodes, delta: 0 .. MaxTime, idle: BOOLEAN]]
  /\ idle_time \in [PollTypes -> [Threads -> 0 .. MaxTime]]
  /\ total_time \in [Threads -> 0 .. MaxTime]
  /\ last_cpu_loading \in [Threads -> (0 .. MaxTime) \X (0 .. MaxTime)]
  /\ sampling_time \in Nat
  /\ main \in {"loop", "awake", "sampling", "cli"}
  /\ cursor \in 0 .. NThreads
  /\ barrier \in BOOLEAN
  /\ spent \in [Threads -> 0 .. MaxTime] /\ idled \in [Threads -> 0 .. MaxTime]

Zero == [t \in Threads |-> 0]

\* cpu_loading_init and cpu_loading_last_init, before any thread runs nodes. The
\* default interval, 1.5, is some time that is not 0.
Init ==
  /\ at = [t \in Threads |-> "loop"]
  /\ job = [t \in Threads |-> [node |-> CHOOSE n \in Nodes : TRUE, delta |-> 0, idle |-> FALSE]]
  /\ idle_time = [p \in PollTypes |-> Zero]
  /\ total_time = Zero
  /\ last_cpu_loading = [t \in Threads |-> <<0, 0>>]
  /\ sampling_time = 1
  /\ main = "loop" /\ cursor = 0 /\ barrier = FALSE
  /\ spent = Zero /\ idled = Zero

-----------------------------------------------------------------------------
\* cpu_loading_time_statistics, the wrapper: the node runs, its time is added to
\* the total, then to the idle time. The sampler may look in between.

Polls(p, t, node) == Polling[p][t] = node

\* The first type the node is of: the loop breaks there.
TypeOfNode(t, node) ==
  IF Polls("dpdk", t, node) THEN "dpdk"
  ELSE IF Polls("virtio", t, node) THEN "virtio" ELSE "none"

\* A thread takes a node: a worker looks at the barrier first, the main thread
\* has no process running.
MayDispatch(t) ==
  at[t] = "loop" /\ IF t = 0 THEN main = "loop" ELSE ~barrier

node_function(t, node, delta, idle) ==
  /\ MayDispatch(t)
  /\ spent[t] + delta <= MaxTime
  /\ at' = [at EXCEPT ![t] = "ran"]
  /\ job' = [job EXCEPT ![t] = [node |-> node, delta |-> delta, idle |-> idle]]
  /\ spent' = [spent EXCEPT ![t] = @ + delta]
  /\ idled' = [idled EXCEPT ![t] =
                 IF idle /\ \E p \in PollTypes : Polls(p, t, node) THEN @ + delta ELSE @]
  /\ UNCHANGED <<idle_time, total_time, samplerVars>>

add_total_time(t) ==
  /\ at[t] = "ran"
  /\ at' = [at EXCEPT ![t] = "counted"]
  /\ total_time' = [total_time EXCEPT ![t] = @ + job[t].delta]
  /\ UNCHANGED <<job, idle_time, spent, idled, samplerVars>>

\* Only when the node found nothing.
add_idle_time(t) ==
  /\ at[t] = "counted"
  /\ at' = [at EXCEPT ![t] = "loop"]
  /\ idle_time' = [p \in PollTypes |->
       IF job[t].idle /\ p = TypeOfNode(t, job[t].node)
         THEN [idle_time[p] EXCEPT ![t] = @ + job[t].delta] ELSE idle_time[p]]
  /\ UNCHANGED <<job, total_time, spent, idled, samplerVars>>

-----------------------------------------------------------------------------
\* The barrier: a worker parks at the top of its loop while it is called for.

park(t) ==
  /\ t \in Workers /\ at[t] = "loop" /\ barrier
  /\ at' = [at EXCEPT ![t] = "parked"]
  /\ UNCHANGED <<job, idle_time, total_time, spent, idled, samplerVars>>

Held == barrier /\ \A t \in Workers : at[t] = "parked"

Released == [t \in Threads |-> IF at[t] = "parked" THEN "loop" ELSE at[t]]

-----------------------------------------------------------------------------
\* cpu_loading_process. vlib_process_wait_for_event_or_clock suspends the process
\* until the interval is over; nobody signals it, so it never leaves its loop.

clock_expires ==
  /\ main = "loop" /\ at[0] = "loop"
  /\ main' = "awake"
  /\ UNCHANGED <<wrapperVars, last_cpu_loading, sampling_time, cursor, barrier>>

\* Mutant: the test of the event is the wrong way round, the process returns.
process_starts_ended ==
  /\ main = "awake"
  /\ main' = "loop"
  /\ UNCHANGED <<wrapperVars, last_cpu_loading, sampling_time, cursor, barrier>>

process_starts ==
  /\ main = "awake"
  /\ main' = "sampling" /\ barrier' = TRUE
  /\ UNCHANGED <<wrapperVars, last_cpu_loading, sampling_time, cursor>>

\* Mutant: the workers are not stopped.
may_sample_unsynced == main = "sampling"

may_sample == main = "sampling" /\ Held

IdleTime(t) == idle_time["dpdk"][t] + idle_time["virtio"][t]

\* Mutant: the total is not reset.
reset_idle_only(t) ==
  idle_time' = [p \in PollTypes |-> [idle_time[p] EXCEPT ![t] = 0]] /\ UNCHANGED total_time

\* Mutant: the idle times are not reset.
reset_total_only(t) ==
  total_time' = [total_time EXCEPT ![t] = 0] /\ UNCHANGED idle_time

reset_times(t) ==
  /\ total_time' = [total_time EXCEPT ![t] = 0]
  /\ idle_time' = [p \in PollTypes |-> [idle_time[p] EXCEPT ![t] = 0]]

\* One turn of the loop over the threads.
sample_thread ==
  /\ may_sample /\ cursor < NThreads
  /\ last_cpu_loading' = [last_cpu_loading EXCEPT ![cursor] =
                            <<IdleTime(cursor), total_time[cursor]>>]
  /\ reset_times(cursor)
  /\ spent' = [spent EXCEPT ![cursor] = 0] /\ idled' = [idled EXCEPT ![cursor] = 0]
  /\ cursor' = cursor + 1
  /\ UNCHANGED <<at, job, sampling_time, main, barrier>>

\* The workers go on, and the process waits again: an interval of 0 is over at
\* once, without the main thread getting back to its loop.
barrier_release ==
  /\ main = "sampling" /\ cursor = NThreads
  /\ barrier' = FALSE /\ at' = Released
  /\ cursor' = 0
  /\ main' = IF sampling_time > 0 THEN "loop" ELSE "awake"
  /\ UNCHANGED <<job, idle_time, total_time, spent, idled, last_cpu_loading, sampling_time>>

-----------------------------------------------------------------------------
\* The CLI runs its commands under the barrier. `show cpu-loading` only reads.

cli_starts ==
  /\ main = "loop" /\ at[0] = "loop"
  /\ main' = "cli" /\ barrier' = TRUE
  /\ UNCHANGED <<wrapperVars, last_cpu_loading, sampling_time, cursor>>

\* Any number is accepted; the interval the process is waiting for stays.
cpu_loading_set_sampling_time ==
  /\ main = "cli" /\ Held
  /\ sampling_time' \in SamplingTimes \cup {sampling_time}
  /\ main' = "loop" /\ barrier' = FALSE /\ at' = Released
  /\ UNCHANGED <<job, idle_time, total_time, spent, idled, last_cpu_loading, cursor>>

-----------------------------------------------------------------------------
Sampler == process_starts \/ sample_thread \/ barrier_release

Thread(t) ==
  \/ \E node \in Nodes, delta \in 1 .. MaxTime, idle \in BOOLEAN :
       node_function(t, node, delta, idle)
  \/ add_total_time(t) \/ add_idle_time(t) \/ park(t)

Next ==
  \/ \E t \in Threads : Thread(t)
  \/ clock_expires \/ Sampler
  \/ cli_starts \/ cpu_loading_set_sampling_time

Spec == Init /\ [][Next]_vars

\* Threads finish the node they run and see the barrier; the main thread finishes
\* what it is in; the clock, as it is reached between other work of the main
\* thread over and over, expires.
Fairness ==
  /\ \A t \in Threads : WF_vars(add_total_time(t)) /\ WF_vars(add_idle_time(t)) /\ WF_vars(park(t))
  /\ WF_vars(Sampler) /\ WF_vars(cpu_loading_set_sampling_time)
  /\ SF_vars(clock_expires)

FairSpec == Spec /\ Fairness

-----------------------------------------------------------------------------
\* Properties

\* Every percentage is between 0 and 100, or 0/0 for a thread that ran nothing:
\* the idle time of a sample is part of its total time. The workers add the two
\* one after the other; a sample in between would see the one without the other.
LoadingInRange == \A t \in Threads : last_cpu_loading[t][1] <= last_cpu_loading[t][2]

\* When a thread is sampled, its counters are exactly what it did since it was
\* last sampled: nothing is lost between samples, or counted in two of them.
SampleIsExact ==
  may_sample => \A t \in Threads : t >= cursor =>
    total_time[t] = spent[t] /\ IdleTime(t) = idled[t]

\* All threads are sampled again and again, and the main thread and the workers
\* get back to their loops again and again, but for an interval of 0: the
\* command takes it as valid (cpu_loading_cli.c:39), and from then on the main
\* thread does nothing but sample.
SamplesRecur ==
  /\ []<>(main = "sampling" /\ cursor = NThreads)
  /\ []<>((main = "loop" /\ ~barrier) \/ sampling_time = 0)
=============================================================================
