------------------------------ MODULE Startup -------------------------------
(***************************************************************************)
(* The start of the flow table plugin. VPP calls the init functions of all *)
(* plugins in an order of its own, then the functions registered for the   *)
(* entry of the main loop, again in any order; then commands come, and     *)
(* with them packets on the interfaces whose hooks are enabled. The plugin *)
(* relies on the two rounds to have the handlers of the protocols it knows *)
(* put over the handler for all the others.                                *)
(***************************************************************************)
EXTENDS HookCommand, Naturals

CONSTANTS
  ThreadCounts,             \* the numbers of worker threads to try
  Protocols,                \* the protocol numbers to try
  FLOW_TABLE_MAX_FLOWS,
  None                      \* NULL

ASSUME StartupConstants ==
  /\ ThreadCounts \subseteq Nat /\ FLOW_TABLE_MAX_FLOWS \in Nat \ {0}
  /\ \A n \in ThreadCounts : FLOW_TABLE_MAX_FLOWS >= n
  /\ Protocols \subseteq 0 .. 255
  /\ None \notin Nat

IP_PROTOCOL_ICMP == 1
IP_PROTOCOL_TCP == 6
IP_PROTOCOL_UDP == 17
IP_PROTOCOL_RESERVED == 255

HookNodes == {"l2_input_ip4", "l2_output_ip4", "l2_input_ip6", "l2_output_ip6"}

Functions ==
  {"flow_table_init", "unimplemented_protocol_handler_register", "flow_table_main_init",
   "tcp_protocol_handler_register", "udp_protocol_handler_register",
   "icmp_protocol_handler_register"}

\* Mutant: the handler for all protocols is registered with the others.
RoundOf_all_late(f) == IF f = "flow_table_init" THEN "init" ELSE "enter"

\* VLIB_INIT_FUNCTION or VLIB_MAIN_LOOP_ENTER_FUNCTION.
RoundOf(f) ==
  IF f \in {"flow_table_init", "unimplemented_protocol_handler_register"}
    THEN "init" ELSE "enter"

VARIABLES
  n_threads,          \* vtm->n_threads: the workers
  round,              \* "init", "enter", then "running"
  called,             \* the functions that were called
  hook_process_list,  \* of each hook node
  protocol_handlers,
  wrk_ctx             \* of each thread: the size of its pool, None without one

startVars == <<n_threads, round, called, hook_process_list, protocol_handlers, wrk_ctx>>
vars == <<startVars, commandVars>>

TypeOK ==
  /\ CommandTypeOK
  /\ n_threads \in ThreadCounts
  /\ round \in {"init", "enter", "running"}
  /\ called \subseteq Functions
  /\ \A h \in HookNodes : Len(hook_process_list[h]) <= 2
  /\ protocol_handlers \in [Protocols -> {"icmp", "tcp", "udp", "unimplemented", None}]
  /\ wrk_ctx \in [0 .. n_threads -> (0 .. FLOW_TABLE_MAX_FLOWS) \cup {None}]

Init ==
  /\ n_threads \in ThreadCounts
  /\ round = "init" /\ called = {}
  /\ hook_process_list = [h \in HookNodes |-> <<>>]
  /\ protocol_handlers = [p \in Protocols |-> None]
  /\ wrk_ctx = [t \in 0 .. n_threads |-> None]
  /\ CommandInit

May(f) == round = RoundOf(f) /\ f \notin called

Calls(f) == May(f) /\ called' = called \cup {f} /\ UNCHANGED <<n_threads, round, commandVars>>

-----------------------------------------------------------------------------
\* Mutant: the input hook is listed before the one that clears the buffer.
hooks_swapped ==
  [l2_input_ip4 |-> <<"ip4_input_process", "ip4_pre_process">>,
   l2_output_ip4 |-> <<"ip4_output_process">>,
   l2_input_ip6 |-> <<"ip6_pre_process", "ip6_input_process">>,
   l2_output_ip6 |-> <<"ip6_output_process">>]

\* for_each_flow_table_hook; the priority is stored and not looked at.
for_each_flow_table_hook ==
  [l2_input_ip4 |-> <<"ip4_pre_process", "ip4_input_process">>,
   l2_output_ip4 |-> <<"ip4_output_process">>,
   l2_input_ip6 |-> <<"ip6_pre_process", "ip6_input_process">>,
   l2_output_ip6 |-> <<"ip6_output_process">>]

\* Every hook is appended to the list of its node.
flow_table_init ==
  /\ Calls("flow_table_init")
  /\ hook_process_list' =
       [h \in HookNodes |-> hook_process_list[h] \o for_each_flow_table_hook[h]]
  /\ UNCHANGED <<protocol_handlers, wrk_ctx>>

protocol_handler_register(ps, handler) ==
  /\ protocol_handlers' = [p \in Protocols |-> IF p \in ps THEN handler ELSE protocol_handlers[p]]
  /\ UNCHANGED <<hook_process_list, wrk_ctx>>

\* for i < IP_PROTOCOL_RESERVED
unimplemented_protocol_handler_register ==
  /\ Calls("unimplemented_protocol_handler_register")
  /\ protocol_handler_register({p \in Protocols : p < IP_PROTOCOL_RESERVED}, "unimplemented")

tcp_protocol_handler_register ==
  /\ Calls("tcp_protocol_handler_register")
  /\ protocol_handler_register({IP_PROTOCOL_TCP}, "tcp")

udp_protocol_handler_register ==
  /\ Calls("udp_protocol_handler_register")
  /\ protocol_handler_register({IP_PROTOCOL_UDP}, "udp")

icmp_protocol_handler_register ==
  /\ Calls("icmp_protocol_handler_register")
  /\ protocol_handler_register({IP_PROTOCOL_ICMP}, "icmp")

\* The main thread, number 0, has a table only when it is the only thread.
num_threads == 1 + n_threads

n_workers == IF num_threads = 1 THEN 1 ELSE n_threads

\* Mutant: every worker gets all the flows.
prealloc_flows_all == FLOW_TABLE_MAX_FLOWS

prealloc_flows_per_wrk == FLOW_TABLE_MAX_FLOWS \div n_workers

flow_table_main_init ==
  /\ Calls("flow_table_main_init")
  /\ wrk_ctx' = [t \in 0 .. n_threads |->
       IF num_threads > 1 /\ t = 0 THEN None ELSE prealloc_flows_per_wrk]
  /\ UNCHANGED <<hook_process_list, protocol_handlers>>

-----------------------------------------------------------------------------
\* VPP's part: the rounds, and then the commands.

NextRound ==
  /\ round # "running" /\ \A f \in Functions : RoundOf(f) = round => f \in called
  /\ round' = IF round = "init" THEN "enter" ELSE "running"
  /\ UNCHANGED <<n_threads, called, hook_process_list, protocol_handlers, wrk_ctx, commandVars>>

Command == round = "running" /\ CommandNext /\ UNCHANGED startVars

Next ==
  \/ flow_table_init \/ unimplemented_protocol_handler_register
  \/ tcp_protocol_handler_register \/ udp_protocol_handler_register
  \/ icmp_protocol_handler_register \/ flow_table_main_init
  \/ NextRound
  \/ Command

Spec == Init /\ [][Next]_vars

-----------------------------------------------------------------------------
\* Properties

\* Packets reach the hooks of an interface.
PacketsCome == \E i \in Interfaces, arc \in Arcs : enabled[i][arc] > 0

\* The workers receive them when there are any.
PacketThreads == IF n_threads = 0 THEN {0} ELSE 1 .. n_threads

Own(p) ==
  CASE p = IP_PROTOCOL_ICMP -> "icmp"
    [] p = IP_PROTOCOL_TCP  -> "tcp"
    [] p = IP_PROTOCOL_UDP  -> "udp"
    [] OTHER                -> "unimplemented"

\* In whatever order the functions were called, a packet finds the handler of its
\* protocol: the default one is there for all the others and never hides another.
\* Nothing is said of protocol 255: unimplemented.c:53 wants it registered too,
\* and :54 ends before it.
OwnHandler ==
  PacketsCome => \A p \in Protocols \ {IP_PROTOCOL_RESERVED} : protocol_handlers[p] = Own(p)

\* A packet finds a table on its thread, however many workers there are, and all
\* tables together hold no more flows than the plugin is meant to.
TableForEveryPacket ==
  PacketsCome =>
    \A t \in PacketThreads :
      /\ wrk_ctx[t] # None /\ wrk_ctx[t] > 0
      /\ wrk_ctx[t] * n_workers <= FLOW_TABLE_MAX_FLOWS

\* A packet's buffer is cleared by the pre hook before the input hook reads what
\* the buffer names.
PreBeforeInput ==
  PacketsCome =>
    \A h \in {"l2_input_ip4", "l2_input_ip6"} :
      /\ Len(hook_process_list[h]) = 2
      /\ hook_process_list[h][1] \in {"ip4_pre_process", "ip6_pre_process"}
=============================================================================
