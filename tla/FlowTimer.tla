------------------------------ MODULE FlowTimer ------------------------------
(***************************************************************************)
(* The expiration timers of one worker's flows (timer.h, timer.c) on the   *)
(* vppinfra timer wheel. A flow keeps the handle its first packet was      *)
(* given in stop_timer_handle; the wheel frees a timer when it expires,    *)
(* and the flow is not told. What a tick does to a timer is the wheel's;   *)
(* a timer has one place in it, as the lists of its slots are left out.    *)
(***************************************************************************)
EXTENDS Integers

CONSTANTS
  MaxFlows,   \* size of the worker's flow pool
  Handles,    \* timers the wheel can hand out
  NoHandle,   \* ~0, the handle of a flow that has not started a timer
  Timeout,    \* ticks; the same for every TCP state in tcp_state_timeout
  MaxFreed    \* bound: how often a timer is counted in the list of free ones

ASSUME TimerConstants ==
  /\ MaxFlows \in Nat \ {0}
  /\ NoHandle \notin Handles
  /\ Timeout \in Nat \ {0}
  /\ MaxFreed \in Nat \ {0}

FlowIdx == 0 .. MaxFlows - 1

VARIABLES
  timers,             \* the wheel's timers, by handle
  stop_timer_handle   \* the handle each flow keeps

timerVars == <<timers, stop_timer_handle>>

\* freed: how often the list of free timers names this one, which may be handed
\* out as often. left: ticks until it expires, 0 when it is in no slot of the
\* wheel. A timer may be free and in the wheel, and free more than once.
Timer == [freed: 0 .. MaxFreed, user: FlowIdx, left: 0 .. Timeout]

TimerTypeOK ==
  /\ timers \in [Handles -> Timer]
  /\ stop_timer_handle \in [FlowIdx -> Handles \cup {NoHandle}]

TimerInit ==
  /\ timers = [h \in Handles |-> [freed |-> 1, user |-> 0, left |-> 0]]
  /\ stop_timer_handle = [i \in FlowIdx |-> NoHandle]

-----------------------------------------------------------------------------
\* tw_timer_start: the timer of any entry of the free list is handed out.
Started(h, i) ==
  /\ timers[h].freed > 0
  /\ timers' = [timers EXCEPT ![h] = [freed |-> @.freed - 1, user |-> i, left |-> Timeout]]

\* Mutant: the handle of the new timer is not kept.
timer_set_unkept(i) == (\E h \in Handles : Started(h, i)) /\ UNCHANGED stop_timer_handle

flow_expiration_timer_set(i) ==
  \E h \in Handles :
    /\ Started(h, i)
    /\ stop_timer_handle' = [stop_timer_handle EXCEPT ![i] = h]

\* Mutant: the new interval is one tick too long.
timer_rearm_late(i) ==
  /\ timers' = [timers EXCEPT ![stop_timer_handle[i]].left = Timeout + 1]
  /\ UNCHANGED stop_timer_handle

\* tw_timer_update does not look whether the timer is allocated, nor whose it
\* is: after an expiry the handle may name a timer that is free, which goes back
\* into the wheel and is freed once more when it expires, or another flow's.
flow_expiration_timer_rearm(i) ==
  /\ timers' = [timers EXCEPT ![stop_timer_handle[i]].left = Timeout]
  /\ UNCHANGED stop_timer_handle

\* Mutant: the handle is never looked at, each packet starts a timer.
timer_update_restarts(i) == flow_expiration_timer_set(i)

\* Every TCP packet of flow i.
flow_expiration_timer_update(i) ==
  \/ stop_timer_handle[i] = NoHandle /\ flow_expiration_timer_set(i)
  \/ stop_timer_handle[i] # NoHandle /\ flow_expiration_timer_rearm(i)

\* Mutant: the last tick of a timer is lost.
TickedStuck(t) == IF t.left <= 1 THEN t ELSE [t EXCEPT !.left = t.left - 1]

\* What one tick does to one timer: it comes nearer, and is freed when it is
\* due, however often it has been freed before.
Ticked(t) ==
  CASE t.left = 0 -> t
    [] t.left = 1 -> [t EXCEPT !.left = 0,
                               !.freed = IF @ < MaxFreed THEN @ + 1 ELSE MaxFreed]
    [] OTHER -> [t EXCEPT !.left = t.left - 1]

\* flow_table_timer_update_time: one tick of the wheel, from the pre-input node.
\* The callback, flow_expired_timers_dispatch, prints the user of each expired
\* timer and does nothing else: no flow is freed, its handle stays.
Tick ==
  /\ \E h \in Handles : timers[h].left > 0
  /\ timers' = [h \in Handles |-> Ticked(timers[h])]
  /\ UNCHANGED stop_timer_handle

TimerNext == Tick \/ \E i \in FlowIdx : flow_expiration_timer_update(i)

TimerSpec == TimerInit /\ [][TimerNext]_timerVars

\* The pre-input node runs on every turn of the worker's loop.
FairTimerSpec == TimerSpec /\ WF_timerVars(Tick)

-----------------------------------------------------------------------------
\* A timer that will expire, or that some flow can re-arm, reports a flow that
\* holds its handle and so can re-arm it too, also when it was freed under both
\* or was handed out twice.
TimerBelongsToUser ==
  \A h \in Handles :
    (timers[h].left > 0 \/ \E i \in FlowIdx : stop_timer_handle[i] = h)
      => stop_timer_handle[timers[h].user] = h

\* A packet of a flow puts off every timer that would report the flow, whatever
\* became of its handle: no timer is left behind (timer.h:44, :47) that expires
\* while the flow is in use.
PacketsPutOff ==
  [][\A i \in FlowIdx :
       flow_expiration_timer_update(i) =>
         \A h \in Handles : (timers'[h].user = i /\ timers'[h].left > 0)
                               => timers'[h].left = Timeout]_timerVars

\* A timer that no packet re-arms runs down: the wheel never forgets one.
TimerRunsDown ==
  \A h \in Handles : []<>(timers[h].left = 0 \/ timers[h].left = Timeout)
=============================================================================
