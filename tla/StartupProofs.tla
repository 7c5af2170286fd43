--------------------------- MODULE StartupProofs ---------------------------
(***************************************************************************)
(* Proofs about Startup and HookCommand, for any number of workers, any    *)
(* set of interfaces and lines of any length: whatever the order of the    *)
(* registrations, packets find what they need; and whatever arcs refuse,   *)
(* a command does to an interface what its line asked for, and the arcs of *)
(* an interface are apart by what was refused.                             *)
(***************************************************************************)
EXTENDS Startup, TLAPS, SequenceTheorems

-----------------------------------------------------------------------------
\* The invariant.

InitRound == {f \in Functions : RoundOf(f) = "init"}

\* No function is called before its round or after it, and packets come last.
InOrder ==
  /\ round = "init" => called \subseteq InitRound
  /\ round # "init" => InitRound \subseteq called
  /\ round = "running" => called = Functions
  /\ round # "running" => \A i \in Interfaces, arc \in Arcs : enabled[i][arc] = 0

\* The handler of a protocol after the functions of fs were called, in the order
\* of their rounds: the default one is there when the others come.
Current(p, fs) ==
  IF p = IP_PROTOCOL_ICMP /\ "icmp_protocol_handler_register" \in fs THEN "icmp"
  ELSE IF p = IP_PROTOCOL_TCP /\ "tcp_protocol_handler_register" \in fs THEN "tcp"
  ELSE IF p = IP_PROTOCOL_UDP /\ "udp_protocol_handler_register" \in fs THEN "udp"
  ELSE IF p < IP_PROTOCOL_RESERVED /\ "unimplemented_protocol_handler_register" \in fs
    THEN "unimplemented"
  ELSE None

Registered ==
  protocol_handlers = [p \in Protocols |-> Current(p, called)]

Listed ==
  \A h \in HookNodes :
    hook_process_list[h] = IF "flow_table_init" \in called THEN for_each_flow_table_hook[h]
                                                          ELSE <<>>

Allocated ==
  wrk_ctx = [t \in 0 .. n_threads |->
    IF "flow_table_main_init" \notin called \/ (n_threads > 0 /\ t = 0)
      THEN None ELSE prealloc_flows_per_wrk]

\* The running command has not come to the arc.
Waiting(i, n) == i = command.sw_if_index /\ n >= command.arc

Count(i, n) == enabled[i][ArcOrder[n]]
Refusals(i, n) == refused[i][ArcOrder[n]]

\* How often the arc is enabled once the running command has switched it.
Meant(i, n) == IF Waiting(i, n) THEN Switched(Count(i, n), command.enable) ELSE Count(i, n)

\* Two arcs of an interface are apart by no more than they refused. When the running
\* command has passed one of the two, the other is taken for what it is meant to be.
Near(i, a, b) ==
  LET d == Refusals(i, a) + Refusals(i, b) IN
  IF Waiting(i, a) <=> Waiting(i, b) THEN Count(i, a) <= Count(i, b) + d
                                     ELSE Meant(i, a) <= Meant(i, b) + d

Sides == \A i \in Interfaces : \A a, b \in 1 .. 4 : Near(i, a, b)

\* The running command does what its line says.
AsLine ==
  command.sw_if_index # Unspecified =>
    /\ Contains(line, command.sw_if_index)
    /\ command.enable <=> enable_disable_of(line)

StartInv == TypeOK /\ InOrder /\ Registered /\ Listed /\ Allocated /\ Sides /\ AsLine

-----------------------------------------------------------------------------
\* Lemmas about the operators.

\* Dividing the flows gives every worker some, as none is left without.
LEMMA Shares ==
  ASSUME NEW n \in ThreadCounts, n_threads = n
  PROVE  /\ n_workers \in Nat /\ n_workers > 0
         /\ prealloc_flows_per_wrk \in 0 .. FLOW_TABLE_MAX_FLOWS
         /\ prealloc_flows_per_wrk > 0
         /\ prealloc_flows_per_wrk * n_workers <= FLOW_TABLE_MAX_FLOWS
<1> DEFINE a == FLOW_TABLE_MAX_FLOWS
           b == n_workers
<1>1. a \in Nat /\ a > 0 /\ b \in Nat /\ b > 0 /\ b <= a
  BY StartupConstants DEF n_workers, num_threads
<1> HIDE DEF a, b
<1>2. a \div b \in Nat /\ a \div b > 0 /\ (a \div b) * b <= a /\ a \div b <= a
  <2> DEFINE q == a \div b
             r == a % b
  <2>1. q \in Int /\ r \in 0 .. b - 1 /\ a = b * q + r
    BY <1>1
  <2> HIDE DEF q, r
  <2>2. q > 0
    <3> SUFFICES ASSUME q <= 0 PROVE FALSE
      BY <2>1
    <3>1. b * q <= 0
      BY <1>1, <2>1
    <3>2. q = 0
      BY <1>1, <2>1
    <3> QED BY <1>1, <2>1, <3>2
  <2>3. q * b = b * q /\ b * q <= a
    BY <1>1, <2>1
  <2>4. q <= b * q
    BY <1>1, <2>1, <2>2
  <2> QED BY <1>1, <2>1, <2>2, <2>3, <2>4 DEF q
<1> QED BY <1>1, <1>2 DEF prealloc_flows_per_wrk, a, b

LEMMA HookListType ==
  ASSUME NEW h \in HookNodes
  PROVE  /\ <<>> \o for_each_flow_table_hook[h] = for_each_flow_table_hook[h]
         /\ Len(for_each_flow_table_hook[h]) <= 2
<1>1. \A a, b : /\ <<a, b>> \in Seq({a, b}) /\ Len(<<a, b>>) <= 2
               /\ <<a>> \in Seq({a, b}) /\ Len(<<a>>) <= 2
  OBVIOUS
<1>2. \E a, b : for_each_flow_table_hook[h] \in {<<a>>, <<a, b>>}
  <2>1. /\ for_each_flow_table_hook["l2_input_ip4"] = <<"ip4_pre_process", "ip4_input_process">>
        /\ for_each_flow_table_hook["l2_output_ip4"] = <<"ip4_output_process">>
        /\ for_each_flow_table_hook["l2_input_ip6"] = <<"ip6_pre_process", "ip6_input_process">>
        /\ for_each_flow_table_hook["l2_output_ip6"] = <<"ip6_output_process">>
    BY DEF for_each_flow_table_hook
  <2> QED BY <2>1, Zenon DEF HookNodes
<1> DEFINE hooks == for_each_flow_table_hook[h]
<1>3. PICK a, b : hooks = <<a>> \/ hooks = <<a, b>>
  BY <1>2
<1> HIDE DEF hooks
<1>4. hooks \in Seq({a, b}) /\ Len(hooks) <= 2
  BY <1>1, <1>3
<1>5. <<>> \o hooks = hooks
  BY <1>4, ConcatEmptySeq
<1> QED BY <1>4, <1>5 DEF hooks

LEMMA CurrentType ==
  ASSUME NEW p, NEW fs
  PROVE  Current(p, fs) \in {"icmp", "tcp", "udp", "unimplemented", None}
  BY DEF Current

LEMMA ArcsInOrder ==
  /\ \A n \in 1 .. 4 : ArcOrder[n] \in Arcs
  /\ \A n, m \in 1 .. 4 : ArcOrder[n] = ArcOrder[m] => n = m
  /\ \A arc \in Arcs : \E n \in 1 .. 4 : ArcOrder[n] = arc
  /\ Len(ArcOrder) = 4
<1>1. /\ ArcOrder[1] = "l2-input-ip4" /\ ArcOrder[2] = "l2-input-ip6"
      /\ ArcOrder[3] = "l2-output-ip4" /\ ArcOrder[4] = "l2-output-ip6"
      /\ Len(ArcOrder) = 4
  BY DEF ArcOrder
<1>2. \A n \in 1 .. 4 : n \in {1, 2, 3, 4}
  OBVIOUS
<1> QED BY <1>1, <1>2 DEF Arcs

LEMMA LineType ==
  /\ <<>> \in Lines
  /\ \A l \in Lines : \E m \in 0 .. MaxWords : l \in [1 .. m -> Words]
<1>1. <<>> \in [1 .. 0 -> Words]
  OBVIOUS
<1> QED BY <1>1, CommandConstants DEF Lines, BoundedSeq, SeqOf

\* A switch changes a count by one at most, and two counts not against each other.
LEMMA SwitchedNear ==
  ASSUME NEW e \in BOOLEAN, NEW x \in Nat, NEW y \in Nat, NEW d \in Nat
  PROVE  /\ Switched(x, e) \in Nat
         /\ Switched(x, e) <= x + 1 /\ x <= Switched(x, e) + 1
         /\ x <= y + d => Switched(x, e) <= Switched(y, e) + d
  BY DEF Switched

LEMMA CountType ==
  ASSUME CommandTypeOK, NEW i \in Interfaces, NEW n \in 1 .. 4
  PROVE  Count(i, n) \in Nat /\ Refusals(i, n) \in Nat
<1>1. ArcOrder[n] \in Arcs
  BY ArcsInOrder
<1> QED BY <1>1 DEF CommandTypeOK, Count, Refusals

\* What is read of a line is on it.
LEMMA NamedIsOnLine ==
  ASSUME NEW l \in Lines, NEW i \in Interfaces, NamesLast(l, i)
  PROVE  Contains(l, i)
<1>1. PICK m \in 0 .. MaxWords : l \in [1 .. m -> Words]
  BY LineType
<1>2. i # Unspecified
  BY CommandConstants
<1>3. PICK n \in DOMAIN l : l[n] = i
  BY <1>2, Zenon DEF NamesLast, Names, Understood
<1>4. DOMAIN l = 1 .. m /\ Len(l) = m
  BY <1>1, CommandConstants
<1> QED BY <1>3, <1>4 DEF Contains

-----------------------------------------------------------------------------
\* The calls.

LEMMA InitRoundIs == InitRound = {"flow_table_init", "unimplemented_protocol_handler_register"}
  BY DEF InitRound, RoundOf, Functions

\* What every call keeps.
LEMMA CallKeeps ==
  ASSUME StartInv, NEW f \in Functions, Calls(f)
  PROVE  /\ InOrder' /\ Sides' /\ AsLine' /\ CommandTypeOK'
         /\ n_threads' = n_threads /\ n_threads \in ThreadCounts
         /\ round' \in {"init", "enter", "running"} /\ called' \subseteq Functions
         /\ called' = called \cup {f} /\ called \subseteq Functions
         /\ round = RoundOf(f)
<1>1. /\ round = RoundOf(f) /\ called' = called \cup {f} /\ n_threads' = n_threads
      /\ round' = round /\ enabled' = enabled /\ command' = command
      /\ line' = line /\ refused' = refused
  BY DEF Calls, May, commandVars
<1>2. RoundOf(f) \in {"init", "enter"}
  BY DEF RoundOf
<1>3. InOrder'
  BY <1>1, <1>2 DEF StartInv, InOrder, InitRound
<1>4. Sides' /\ AsLine' /\ CommandTypeOK'
  BY <1>1 DEF StartInv, Sides, Near, Meant, Waiting, Count, Refusals, AsLine, TypeOK,
     CommandTypeOK
<1> QED BY <1>1, <1>3, <1>4 DEF StartInv, TypeOK

\* The parts of the invariant that a call can change.
LEMMA CallPreserves ==
  ASSUME StartInv, NEW f \in Functions, Calls(f), Registered', Listed', Allocated'
  PROVE  StartInv'
<1>1. protocol_handlers' \in [Protocols -> {"icmp", "tcp", "udp", "unimplemented", None}]
  BY CurrentType DEF Registered
<1>2. \A h \in HookNodes : Len(hook_process_list'[h]) <= 2
  <2>1. Len(<<>>) <= 2
    OBVIOUS
  <2> QED BY <2>1, HookListType, Zenon DEF Listed
<1>3. wrk_ctx' \in [0 .. n_threads' -> (0 .. FLOW_TABLE_MAX_FLOWS) \cup {None}]
  <2>1. (prealloc_flows_per_wrk \in 0 .. FLOW_TABLE_MAX_FLOWS)'
    BY Shares, CallKeeps DEF prealloc_flows_per_wrk, n_workers, num_threads
  <2> QED BY <2>1 DEF Allocated
<1> QED BY <1>1, <1>2, <1>3, CallKeeps DEF StartInv, TypeOK

LEMMA InitPreserves == StartInv /\ flow_table_init => StartInv'
<1> SUFFICES ASSUME StartInv, flow_table_init PROVE StartInv'
  OBVIOUS
<1> DEFINE f == "flow_table_init"
<1>1. f \in Functions /\ Calls(f)
  BY DEF Functions, flow_table_init
<1>2. called' = called \cup {f} /\ n_threads' = n_threads /\ f \notin called
  BY <1>1, CallKeeps DEF Calls, May
<1>3. Registered' /\ Allocated'
  BY <1>2 DEF StartInv, Registered, Allocated, Current, flow_table_init,
     prealloc_flows_per_wrk, n_workers, num_threads
<1>4. Listed'
  <2> SUFFICES ASSUME NEW h \in HookNodes
               PROVE  hook_process_list'[h] = for_each_flow_table_hook[h]
    BY <1>2 DEF Listed
  <2>1. hook_process_list'[h] = hook_process_list[h] \o for_each_flow_table_hook[h]
    BY DEF flow_table_init
  <2>2. hook_process_list[h] = <<>>
    BY <1>2 DEF StartInv, Listed
  <2> QED BY <2>1, <2>2, HookListType, Zenon
<1> QED BY <1>1, <1>3, <1>4, CallPreserves

LEMMA MainInitPreserves == StartInv /\ flow_table_main_init => StartInv'
<1> SUFFICES ASSUME StartInv, flow_table_main_init PROVE StartInv'
  OBVIOUS
<1> DEFINE f == "flow_table_main_init"
<1>1. f \in Functions /\ Calls(f)
  BY DEF Functions, flow_table_main_init
<1>2. called' = called \cup {f} /\ n_threads' = n_threads /\ n_threads \in Nat
  BY <1>1, CallKeeps, StartupConstants
<1>3. Registered' /\ Listed'
  BY <1>2 DEF StartInv, Registered, Listed, Current, flow_table_main_init
<1>4. Allocated'
  <2>1. \A t \in 0 .. n_threads :
          (num_threads > 1 /\ t = 0) <=> (f \notin called' \/ (n_threads > 0 /\ t = 0))
    BY <1>2 DEF num_threads
  <2>2. wrk_ctx' = [t \in 0 .. n_threads |->
          IF num_threads > 1 /\ t = 0 THEN None ELSE prealloc_flows_per_wrk]
    BY DEF flow_table_main_init
  <2>3. prealloc_flows_per_wrk' = prealloc_flows_per_wrk
    BY <1>2 DEF prealloc_flows_per_wrk, n_workers, num_threads
  <2> QED BY <1>2, <2>1, <2>2, <2>3 DEF Allocated
<1> QED BY <1>1, <1>3, <1>4, CallPreserves

\* A registration that puts the handlers where Current says.
LEMMA RegisterPreserves ==
  ASSUME StartInv, NEW f \in Functions, Calls(f),
         f \notin {"flow_table_init", "flow_table_main_init"},
         NEW ps, NEW handler, protocol_handler_register(ps, handler),
         \A p \in Protocols : Current(p, called \cup {f}) =
           IF p \in ps THEN handler ELSE Current(p, called)
  PROVE  StartInv'
<1>1. called' = called \cup {f} /\ n_threads' = n_threads
  BY CallKeeps
<1>2. /\ protocol_handlers' =
           [p \in Protocols |-> IF p \in ps THEN handler ELSE protocol_handlers[p]]
      /\ hook_process_list' = hook_process_list /\ wrk_ctx' = wrk_ctx
  BY DEF protocol_handler_register
<1>3. Registered'
  <2>1. \A p \in Protocols : protocol_handlers[p] = Current(p, called)
    BY DEF StartInv, Registered
  <2>2. protocol_handlers' = [p \in Protocols |-> Current(p, called \cup {f})]
    BY <1>2, <2>1
  <2> QED BY <1>1, <2>2 DEF Registered
<1>4. Listed' /\ Allocated'
  BY <1>1, <1>2 DEF StartInv, Listed, Allocated, prealloc_flows_per_wrk, n_workers, num_threads
<1> QED BY <1>3, <1>4, CallPreserves

\* tcp.c, udp.c and icmp.c: the protocol's own entry, whatever stood there.
LEMMA ProtocolsPreserve ==
  ASSUME StartInv,
         \/ tcp_protocol_handler_register \/ udp_protocol_handler_register
         \/ icmp_protocol_handler_register
  PROVE  StartInv'
<1>1. CASE tcp_protocol_handler_register
  <2> DEFINE f == "tcp_protocol_handler_register"
  <2>1. /\ f \in Functions /\ Calls(f)
        /\ protocol_handler_register({IP_PROTOCOL_TCP}, "tcp")
    BY <1>1 DEF tcp_protocol_handler_register, Functions
  <2>2. \A p \in Protocols : Current(p, called \cup {f}) =
          IF p \in {IP_PROTOCOL_TCP} THEN "tcp" ELSE Current(p, called)
    BY DEF Current, IP_PROTOCOL_TCP, IP_PROTOCOL_ICMP
  <2> QED BY <2>1, <2>2, RegisterPreserves
<1>2. CASE udp_protocol_handler_register
  <2> DEFINE f == "udp_protocol_handler_register"
  <2>1. /\ f \in Functions /\ Calls(f)
        /\ protocol_handler_register({IP_PROTOCOL_UDP}, "udp")
    BY <1>2 DEF udp_protocol_handler_register, Functions
  <2>2. \A p \in Protocols : Current(p, called \cup {f}) =
          IF p \in {IP_PROTOCOL_UDP} THEN "udp" ELSE Current(p, called)
    BY DEF Current, IP_PROTOCOL_TCP, IP_PROTOCOL_UDP, IP_PROTOCOL_ICMP
  <2> QED BY <2>1, <2>2, RegisterPreserves
<1>3. CASE icmp_protocol_handler_register
  <2> DEFINE f == "icmp_protocol_handler_register"
  <2>1. /\ f \in Functions /\ Calls(f)
        /\ protocol_handler_register({IP_PROTOCOL_ICMP}, "icmp")
    BY <1>3 DEF icmp_protocol_handler_register, Functions
  <2>2. \A p \in Protocols : Current(p, called \cup {f}) =
          IF p \in {IP_PROTOCOL_ICMP} THEN "icmp" ELSE Current(p, called)
    BY DEF Current
  <2> QED BY <2>1, <2>2, RegisterPreserves
<1> QED BY <1>1, <1>2, <1>3

\* unimplemented.c comes in the round of the init functions, before any of them.
LEMMA UnimplementedPreserves ==
  StartInv /\ unimplemented_protocol_handler_register => StartInv'
<1> SUFFICES ASSUME StartInv, unimplemented_protocol_handler_register PROVE StartInv'
  OBVIOUS
<1> DEFINE f == "unimplemented_protocol_handler_register"
           ps == {p \in Protocols : p < IP_PROTOCOL_RESERVED}
<1>1. f \in Functions /\ Calls(f) /\ protocol_handler_register(ps, "unimplemented")
  BY DEF unimplemented_protocol_handler_register, Functions
<1>2. round = "init"
  BY <1>1, CallKeeps DEF RoundOf
<1>3. called \subseteq {"flow_table_init", "unimplemented_protocol_handler_register"}
  BY <1>2, InitRoundIs DEF StartInv, InOrder
<1>4. \A p \in Protocols : Current(p, called \cup {f}) =
        IF p \in ps THEN "unimplemented" ELSE Current(p, called)
  BY <1>3 DEF Current
<1> HIDE DEF ps
<1> QED BY <1>1, <1>4, RegisterPreserves

LEMMA NextRoundPreserves == StartInv /\ NextRound => StartInv'
<1> SUFFICES ASSUME StartInv, NextRound PROVE StartInv'
  OBVIOUS
<1>1. /\ n_threads' = n_threads /\ called' = called
      /\ hook_process_list' = hook_process_list
      /\ protocol_handlers' = protocol_handlers /\ wrk_ctx' = wrk_ctx
      /\ enabled' = enabled /\ command' = command /\ line' = line /\ refused' = refused
  BY DEF NextRound, commandVars
<1>2. /\ round \in {"init", "enter"} /\ \A f \in Functions : RoundOf(f) = round => f \in called
      /\ round' = IF round = "init" THEN "enter" ELSE "running"
  BY DEF NextRound, StartInv, TypeOK
<1>3. InOrder'
  <2>1. round = "init" => InitRound \subseteq called
    BY <1>2 DEF InitRound
  <2>2. round = "enter" => called = Functions
    BY <1>2 DEF StartInv, InOrder, InitRound, RoundOf, TypeOK
  <2> QED BY <1>1, <1>2, <2>1, <2>2 DEF StartInv, InOrder
<1>4. TypeOK'
  BY <1>1, <1>2 DEF StartInv, TypeOK, CommandTypeOK
<1>5. Registered' /\ Listed' /\ Allocated' /\ Sides' /\ AsLine'
  BY <1>1 DEF StartInv, Registered, Listed, Allocated, Sides, Near, Meant, Waiting, Count,
     Refusals, AsLine, prealloc_flows_per_wrk, n_workers, num_threads
<1> QED BY <1>3, <1>4, <1>5 DEF StartInv

-----------------------------------------------------------------------------
\* The command.

LEMMA NextArcType ==
  ASSUME CommandTypeOK, command.sw_if_index \in Interfaces
  PROVE  /\ command.arc = 4 => NextArc = NoCommand
         /\ command.arc # 4 =>
              /\ NextArc.arc = command.arc + 1 /\ NextArc # NoCommand
              /\ NextArc.sw_if_index = command.sw_if_index
              /\ NextArc.enable = command.enable
         /\ NextArc \in [sw_if_index: Interfaces \cup {Unspecified}, enable: BOOLEAN,
                         arc: 1 .. Len(ArcOrder)]
<1>1. Len(ArcOrder) = 4
  BY ArcsInOrder
<1>2. command \in [sw_if_index: Interfaces \cup {Unspecified}, enable: BOOLEAN, arc: 1 .. 4]
  BY <1>1 DEF CommandTypeOK
<1>3. NoCommand.sw_if_index = Unspecified /\ Unspecified \notin Interfaces
  BY CommandConstants DEF NoCommand
<1>4. CASE command.arc = 4
  BY <1>1, <1>4 DEF NextArc, NoCommand
<1>5. CASE command.arc # 4
  <2> DEFINE c == [command EXCEPT !.arc = command.arc + 1]
  <2>1. NextArc = c
    BY <1>1, <1>5, Zenon DEF NextArc
  <2>2. /\ c \in [sw_if_index: Interfaces \cup {Unspecified}, enable: BOOLEAN, arc: 1 .. 4]
        /\ c.arc = command.arc + 1 /\ c.sw_if_index = command.sw_if_index
        /\ c.enable = command.enable
    BY <1>2, <1>5
  <2> HIDE DEF c
  <2> QED BY <1>1, <1>3, <1>5, <2>1, <2>2
<1> QED BY <1>4, <1>5

\* The part of the invariant that commands change.
CommandInv == CommandTypeOK /\ Sides /\ AsLine

LEMMA ReadPreserves ==
  ASSUME CommandInv, NEW l \in Lines, NEW i \in Interfaces \cup {Unspecified}, command_fn(l, i)
  PROVE  CommandInv'
<1>1. command.sw_if_index = Unspecified /\ enabled' = enabled /\ refused' = refused
  BY DEF command_fn
<1>2. CASE i = Unspecified
  <2>1. command' = command /\ line' = line
    BY <1>2, Zenon DEF command_fn
  <2>2. CommandTypeOK' /\ AsLine'
    BY <1>1, <2>1 DEF CommandInv, CommandTypeOK, AsLine
  <2>3. ASSUME NEW j \in Interfaces, NEW n \in 1 .. 4
        PROVE  /\ ~Waiting(j, n) /\ ~Waiting(j, n)'
               /\ Count(j, n)' = Count(j, n) /\ Refusals(j, n)' = Refusals(j, n)
    BY <1>1, <2>1, CommandConstants DEF Waiting, Count, Refusals
  <2>4. Sides'
    BY <2>3 DEF CommandInv, Sides, Near
  <2> QED BY <2>2, <2>4 DEF CommandInv
<1>3. CASE i # Unspecified
  <2> DEFINE e == enable_disable_of(l)
  <2>1. e \in BOOLEAN
    BY Zenon DEF enable_disable_of
  <2>2. command' = [sw_if_index |-> i, enable |-> e, arc |-> 1] /\ line' = l
    BY <1>3 DEF command_fn
  <2> HIDE DEF e
  <2>3. CommandTypeOK'
    BY <1>1, <2>1, <2>2, ArcsInOrder DEF CommandInv, CommandTypeOK
  <2>4. Sides'
    <3> SUFFICES ASSUME NEW j \in Interfaces, NEW a \in 1 .. 4, NEW b \in 1 .. 4
                 PROVE  Near(j, a, b)'
      BY DEF Sides
    <3>1. ~Waiting(j, a) /\ ~Waiting(j, b)
      BY <1>1, CommandConstants DEF Waiting
    <3>2. Waiting(j, a)' <=> Waiting(j, b)'
      BY <2>2 DEF Waiting
    <3>3. Count(j, a) <= Count(j, b) + (Refusals(j, a) + Refusals(j, b))
      BY <3>1, Zenon DEF CommandInv, Sides, Near
    <3>4. /\ Count(j, a)' = Count(j, a) /\ Count(j, b)' = Count(j, b)
          /\ Refusals(j, a)' = Refusals(j, a) /\ Refusals(j, b)' = Refusals(j, b)
      BY <1>1 DEF Count, Refusals
    <3> QED BY <3>2, <3>3, <3>4, Zenon DEF Near
  <2>5. Contains(l, i)
    BY <1>3, NamedIsOnLine DEF command_fn
  <2>6. AsLine'
    <3>1. command'.sw_if_index = i /\ command'.enable = enable_disable_of(l)
      BY <2>2 DEF e
    <3> QED BY <2>2, <2>5, <3>1, Zenon DEF AsLine
  <2> QED BY <2>3, <2>4, <2>6 DEF CommandInv
<1> QED BY <1>2, <1>3

\* One arc is switched, or refuses.
LEMMA SwitchPreserves ==
  ASSUME CommandInv, NEW ok \in BOOLEAN, vnetfilter_hook_enable_disable(ok)
  PROVE  CommandInv'
<1> SUFFICES ASSUME NEW i \in Interfaces, NEW k \in 1 .. 4, NEW e \in BOOLEAN,
                    i = command.sw_if_index, k = command.arc, e = command.enable
             PROVE  CommandInv'
  BY ArcsInOrder DEF vnetfilter_hook_enable_disable, CommandInv, CommandTypeOK
<1> DEFINE arc == ArcOrder[k]
<1>1. /\ arc \in Arcs
      /\ enabled \in [Interfaces -> [Arcs -> Nat]] /\ refused \in [Interfaces -> [Arcs -> Nat]]
      /\ enabled[i][arc] \in Nat /\ refused[i][arc] \in Nat
  BY ArcsInOrder DEF CommandInv, CommandTypeOK
<1>2. /\ enabled' = IF ok THEN [enabled EXCEPT ![i][arc] = Switched(enabled[i][arc], e)]
                          ELSE enabled
      /\ refused' = IF ok THEN refused ELSE [refused EXCEPT ![i][arc] = refused[i][arc] + 1]
      /\ command' = NextArc
      /\ line' = IF NextArc = NoCommand THEN <<>> ELSE line
  BY DEF vnetfilter_hook_enable_disable
<1>3. /\ k = 4 => command' = NoCommand
      /\ k # 4 => /\ command'.arc = k + 1 /\ command' # NoCommand
                  /\ command'.sw_if_index = i /\ command'.enable = e
      /\ command' \in [sw_if_index: Interfaces \cup {Unspecified}, enable: BOOLEAN,
                       arc: 1 .. Len(ArcOrder)]
  BY <1>1, <1>2, NextArcType DEF CommandInv
<1> HIDE DEF arc
<1>4. CommandTypeOK'
  <2>1. Switched(enabled[i][arc], e) \in Nat /\ refused[i][arc] + 1 \in Nat
    <3> DEFINE x == enabled[i][arc]
    <3>1. x \in Nat /\ refused[i][arc] \in Nat
      BY <1>1
    <3> HIDE DEF x
    <3>2. Switched(x, e) \in Nat
      BY <3>1, SwitchedNear
    <3> QED BY <3>1, <3>2 DEF x
  <2>3. enabled' \in [Interfaces -> [Arcs -> Nat]] /\ refused' \in [Interfaces -> [Arcs -> Nat]]
    BY <1>1, <1>2, <2>1
  <2>2. line' \in Lines
    BY <1>2, LineType DEF CommandInv, CommandTypeOK
  <2> QED BY <1>3, <2>2, <2>3 DEF CommandTypeOK
<1>5. \A j \in Interfaces : \A n \in 1 .. 4 :
        j # i \/ n # k => Count(j, n)' = Count(j, n) /\ Refusals(j, n)' = Refusals(j, n)
  <2>1. \A n \in 1 .. 4 : ArcOrder[n] \in Arcs /\ (ArcOrder[n] = arc => n = k)
    BY <1>1, ArcsInOrder DEF arc
  <2> QED BY <1>1, <1>2, <2>1 DEF Count, Refusals
<1>6. /\ ok => Count(i, k)' = Switched(Count(i, k), e) /\ Refusals(i, k)' = Refusals(i, k)
      /\ ~ok => Count(i, k)' = Count(i, k) /\ Refusals(i, k)' = Refusals(i, k) + 1
  BY <1>1, <1>2 DEF Count, Refusals, arc
<1>7. command'.sw_if_index = i \/ command' = NoCommand
  BY <1>3
<1>8. NoCommand.sw_if_index = Unspecified /\ Unspecified \notin Interfaces
  BY CommandConstants DEF NoCommand
<1>9. Sides'
  <2> SUFFICES ASSUME NEW j \in Interfaces, NEW a \in 1 .. 4, NEW b \in 1 .. 4
               PROVE  Near(j, a, b)'
    BY DEF Sides
  <2>1. Near(j, a, b)
    BY DEF CommandInv, Sides
  <2>2. CASE j # i
    <3>1. /\ ~Waiting(j, a) /\ ~Waiting(j, b)
          /\ ~Waiting(j, a)' /\ ~Waiting(j, b)'
      BY <1>7, <1>8, <2>2 DEF Waiting
    <3>2. /\ Count(j, a)' = Count(j, a) /\ Count(j, b)' = Count(j, b)
          /\ Refusals(j, a)' = Refusals(j, a) /\ Refusals(j, b)' = Refusals(j, b)
      BY <1>5, <2>2
    <3> QED BY <2>1, <3>1, <3>2, Zenon DEF Near
  <2>3. CASE j = i
    <3>1. \A n \in 1 .. 4 : Waiting(i, n) <=> n >= k
      BY DEF Waiting
    <3>2. \A n \in 1 .. 4 : Waiting(i, n)' <=> n > k
      BY <1>1, <1>3, <1>8 DEF Waiting
    <3>3. \A n \in 1 .. 4 : Waiting(i, n)' => command'.enable = e
      BY <1>3, <3>2
    <3>4. \A n \in 1 .. 4 :
            /\ Count(i, n) \in Nat /\ Refusals(i, n) \in Nat
            /\ n # k => /\ Count(i, n)' = Count(i, n) /\ Refusals(i, n)' = Refusals(i, n)
                        /\ Meant(i, n)' = Meant(i, n)
      <4>1. \A n \in 1 .. 4 : n # k => (n >= k <=> n > k)
        BY <1>1
      <4>2. \A n \in 1 .. 4 : n # k => Count(i, n)' = Count(i, n) /\ Refusals(i, n)' = Refusals(i, n)
        BY <1>1, <1>5
      <4>3. \A n \in 1 .. 4 : n # k => Meant(i, n)' = Meant(i, n)
        BY <3>1, <3>2, <3>3, <4>1, <4>2 DEF Meant, Switched
      <4> QED BY <1>1, <4>2, <4>3, CountType DEF CommandInv
    <3>5. CASE a # k /\ b # k
      <4>1. (Waiting(i, a)' <=> Waiting(i, a)) /\ (Waiting(i, b)' <=> Waiting(i, b))
        BY <1>1, <3>1, <3>2, <3>5
      <4> QED BY <2>1, <2>3, <3>4, <3>5, <4>1 DEF Near
    <3>6. CASE a = k /\ b = k
      <4>1. Count(i, k)' \in Nat /\ Refusals(i, k)' \in Nat
        <5>1. Count(i, k) \in Nat /\ Refusals(i, k) \in Nat
          BY <3>4
        <5>2. Switched(Count(i, k), e) \in Nat
          BY <5>1, SwitchedNear
        <5> QED BY <1>6, <5>1, <5>2
      <4> QED BY <2>3, <3>6, <4>1 DEF Near
    <3> DEFINE x == Count(i, a)
               y == Count(i, b)
               d == Refusals(i, a) + Refusals(i, b)
               fx == Switched(x, e)
               fy == Switched(y, e)
    <3>7. /\ x \in Nat /\ y \in Nat /\ d \in Nat /\ fx \in Nat /\ fy \in Nat
          /\ fx <= x + 1 /\ x <= fx + 1 /\ fy <= y + 1 /\ y <= fy + 1
          /\ x <= y + d => fx <= fy + d
      <4>1. x \in Nat /\ y \in Nat /\ d \in Nat
        BY <3>4
      <4> HIDE DEF x, y, d
      <4> QED BY <1>1, <4>1, SwitchedNear
    <3>8. /\ a >= k /\ b >= k => x <= y + d
          /\ a >= k /\ ~(b >= k) => fx <= y + d
          /\ b >= k /\ ~(a >= k) => x <= fy + d
      BY <2>1, <2>3, <3>1, Zenon DEF Near, Meant
    <3> DEFINE x1 == Count(i, a)'
               y1 == Count(i, b)'
               d1 == Refusals(i, a)' + Refusals(i, b)'
               z1 == IF b > k THEN fy ELSE y1
               w1 == IF a > k THEN fx ELSE x1
    <3>9. CASE a = k /\ b # k
      <4>1. y1 = y /\ x1 = (IF ok THEN fx ELSE x) /\ d1 = (IF ok THEN d ELSE d + 1)
        BY <1>6, <3>4, <3>9
      <4>2. Meant(i, a)' = x1 /\ Meant(i, b)' = z1
        BY <3>2, <3>3, <3>9, <4>1 DEF Meant
      <4> HIDE DEF x, y, d, fx, fy, x1, y1, d1
      <4>3. ~(b > k) => x1 <= y1 + d1
        BY <1>1, <3>7, <3>8, <3>9, <4>1
      <4>4. b > k => x1 <= fy + d1
        BY <1>1, <3>7, <3>8, <3>9, <4>1
      <4>5. (Waiting(i, a)' <=> Waiting(i, b)') <=> ~(b > k)
        BY <1>1, <3>2, <3>9
      <4> QED BY <2>3, <4>2, <4>3, <4>4, <4>5, Zenon DEF Near, x1, y1, d1
    <3>10. CASE a # k /\ b = k
      <4>1. x1 = x /\ y1 = (IF ok THEN fy ELSE y) /\ d1 = (IF ok THEN d ELSE d + 1)
        BY <1>6, <3>4, <3>10
      <4>2. Meant(i, b)' = y1 /\ Meant(i, a)' = w1
        BY <3>2, <3>3, <3>10, <4>1 DEF Meant
      <4> HIDE DEF x, y, d, fx, fy, x1, y1, d1
      <4>3. ~(a > k) => x1 <= y1 + d1
        BY <1>1, <3>7, <3>8, <3>10, <4>1
      <4>4. a > k => fx <= y1 + d1
        BY <1>1, <3>7, <3>8, <3>10, <4>1
      <4>5. (Waiting(i, a)' <=> Waiting(i, b)') <=> ~(a > k)
        BY <1>1, <3>2, <3>10
      <4> QED BY <2>3, <4>2, <4>3, <4>4, <4>5, Zenon DEF Near, x1, y1, d1
    <3> QED BY <3>5, <3>6, <3>9, <3>10
  <2> QED BY <2>2, <2>3
<1>10. AsLine'
  <2>1. CASE k = 4
    BY <1>3, <1>8, <2>1 DEF AsLine
  <2>2. CASE k # 4
    <3>1. i # Unspecified
      BY <1>1, <1>8
    <3>2. Contains(line, i) /\ (e <=> enable_disable_of(line))
      BY <3>1, Zenon DEF CommandInv, AsLine
    <3>3. line' = line /\ command'.sw_if_index = i /\ command'.enable = e
      BY <1>2, <1>3, <2>2
    <3> QED BY <3>2, <3>3, Zenon DEF AsLine
  <2> QED BY <2>1, <2>2
<1> QED BY <1>4, <1>9, <1>10 DEF CommandInv

LEMMA CommandPreserves == StartInv /\ Command => StartInv'
<1> SUFFICES ASSUME StartInv, Command PROVE StartInv'
  OBVIOUS
<1>1. /\ round = "running" /\ CommandNext
      /\ n_threads' = n_threads /\ round' = round /\ called' = called
      /\ hook_process_list' = hook_process_list
      /\ protocol_handlers' = protocol_handlers /\ wrk_ctx' = wrk_ctx
  BY DEF Command, startVars
<1>2. CommandInv'
  BY <1>1, ReadPreserves, SwitchPreserves DEF CommandNext, CommandInv, StartInv, TypeOK
<1>3. InOrder'
  BY <1>1 DEF StartInv, InOrder
<1>4. Registered' /\ Listed' /\ Allocated'
  BY <1>1 DEF StartInv, Registered, Listed, Allocated, prealloc_flows_per_wrk,
     n_workers, num_threads
<1> QED BY <1>1, <1>2, <1>3, <1>4 DEF CommandInv, StartInv, TypeOK

-----------------------------------------------------------------------------
\* The theorems.

LEMMA StartInvInit == Init => StartInv
<1> SUFFICES ASSUME Init PROVE StartInv
  OBVIOUS
<1>1. /\ n_threads \in ThreadCounts /\ round = "init" /\ called = {}
      /\ hook_process_list = [h \in HookNodes |-> <<>>]
      /\ protocol_handlers = [p \in Protocols |-> None]
      /\ wrk_ctx = [t \in 0 .. n_threads |-> None]
      /\ enabled = [i \in Interfaces |-> [arc \in Arcs |-> 0]]
      /\ refused = [i \in Interfaces |-> [arc \in Arcs |-> 0]]
      /\ command = NoCommand /\ line = <<>>
  BY DEF Init, CommandInit
<1>2. CommandTypeOK
  BY <1>1, LineType, ArcsInOrder DEF CommandTypeOK, NoCommand
<1>3. TypeOK
  <2>1. Len(<<>>) <= 2
    OBVIOUS
  <2> QED BY <1>1, <1>2, <2>1 DEF TypeOK
<1>4. InOrder /\ Registered /\ Listed /\ Allocated
  BY <1>1 DEF InOrder, Registered, Listed, Allocated, Current
<1>5. Sides
  <2>1. \A i \in Interfaces : i # command.sw_if_index
    BY <1>1, CommandConstants DEF NoCommand
  <2>2. \A i \in Interfaces : \A n \in 1 .. 4 : Count(i, n) = 0 /\ Refusals(i, n) = 0
    BY <1>1, ArcsInOrder DEF Count, Refusals
  <2> QED BY <2>1, <2>2 DEF Sides, Near, Waiting
<1>6. AsLine
  BY <1>1 DEF AsLine, NoCommand
<1> QED BY <1>3, <1>4, <1>5, <1>6 DEF StartInv

LEMMA StartInvStep == StartInv /\ [Next]_vars => StartInv'
<1>1. StartInv /\ UNCHANGED vars => StartInv'
  BY DEF vars, startVars, commandVars, StartInv, TypeOK, CommandTypeOK, InOrder, Registered,
     Listed, Allocated, Sides, Near, Meant, Waiting, Count, Refusals, AsLine,
     prealloc_flows_per_wrk, n_workers, num_threads
<1> QED BY <1>1, InitPreserves, MainInitPreserves, ProtocolsPreserve, UnimplementedPreserves,
     NextRoundPreserves, CommandPreserves DEF Next

LEMMA StartInvariant == Spec => []StartInv
  BY StartInvInit, StartInvStep, PTL DEF Spec

\* The lists, the handlers and the tables stay well typed, and every command.
THEOREM StartupTypeCorrect == Spec => []TypeOK
  BY StartInvariant, PTL DEF StartInv

LEMMA PacketsComeLast == StartInv /\ PacketsCome => called = Functions
  BY DEF StartInv, InOrder, PacketsCome, TypeOK

\* When packets come, every protocol but the reserved one, 255, has its own handler,
\* whatever the order of the functions in each of VPP's two rounds.
THEOREM PacketsFindHandlers == Spec => []OwnHandler
<1>1. StartInv => OwnHandler
  <2> SUFFICES ASSUME StartInv, PacketsCome, NEW p \in Protocols \ {IP_PROTOCOL_RESERVED}
               PROVE  protocol_handlers[p] = Own(p)
    BY DEF OwnHandler
  <2>1. called = Functions
    BY PacketsComeLast
  <2>2. protocol_handlers[p] = Current(p, Functions)
    BY <2>1 DEF StartInv, Registered
  <2>3. p \in 0 .. 255
    BY StartupConstants
  <2> QED BY <2>2, <2>3 DEF Current, Own, Functions, IP_PROTOCOL_ICMP, IP_PROTOCOL_TCP,
       IP_PROTOCOL_UDP, IP_PROTOCOL_RESERVED
<1> QED BY <1>1, StartInvariant, PTL

\* Every thread that receives packets has a table with room for a flow, for any
\* number of workers, and the tables do not hold more than the limit together.
THEOREM PacketsFindTables == Spec => []TableForEveryPacket
<1>1. StartInv => TableForEveryPacket
  <2> SUFFICES ASSUME StartInv, PacketsCome, NEW t \in PacketThreads
               PROVE  /\ wrk_ctx[t] # None /\ wrk_ctx[t] > 0
                      /\ wrk_ctx[t] * n_workers <= FLOW_TABLE_MAX_FLOWS
    BY DEF TableForEveryPacket
  <2>1. n_threads \in ThreadCounts /\ n_threads \in Nat
    BY StartupConstants DEF StartInv, TypeOK
  <2>2. t \in 0 .. n_threads /\ ~(n_threads > 0 /\ t = 0)
    BY <2>1 DEF PacketThreads
  <2>3. "flow_table_main_init" \in called
    BY PacketsComeLast DEF Functions
  <2>4. wrk_ctx[t] = prealloc_flows_per_wrk
    BY <2>2, <2>3 DEF StartInv, Allocated
  <2>5. /\ prealloc_flows_per_wrk \in Nat /\ prealloc_flows_per_wrk > 0
        /\ prealloc_flows_per_wrk * n_workers <= FLOW_TABLE_MAX_FLOWS
    BY <2>1, Shares
  <2>6. prealloc_flows_per_wrk # None
    BY <2>5, StartupConstants
  <2> QED BY <2>4, <2>5, <2>6
<1> QED BY <1>1, StartInvariant, PTL

\* The pre hook is in front of the input hook when packets come.
THEOREM PreHooksFirst == Spec => []PreBeforeInput
<1>1. StartInv => PreBeforeInput
  <2> SUFFICES ASSUME StartInv, PacketsCome, NEW h \in {"l2_input_ip4", "l2_input_ip6"}
               PROVE  /\ Len(hook_process_list[h]) = 2
                      /\ hook_process_list[h][1] \in {"ip4_pre_process", "ip6_pre_process"}
    BY DEF PreBeforeInput
  <2>1. "flow_table_init" \in called
    BY PacketsComeLast DEF Functions
  <2>2. hook_process_list[h] = for_each_flow_table_hook[h]
    BY <2>1 DEF StartInv, Listed, HookNodes
  <2>3. for_each_flow_table_hook[h] \in {<<"ip4_pre_process", "ip4_input_process">>,
                                         <<"ip6_pre_process", "ip6_input_process">>}
    BY DEF for_each_flow_table_hook
  <2>4. \A a, b : Len(<<a, b>>) = 2 /\ <<a, b>>[1] = a
    OBVIOUS
  <2> QED BY <2>2, <2>3, <2>4
<1> QED BY <1>1, StartInvariant, PTL

\* Between two commands any two arcs of an interface are enabled as often as each
\* other, but for the refusals of the two that were told.
THEOREM ArcsApartByRefusals == Spec => []ApartByRefusals
<1>1. StartInv => ApartByRefusals
  <2> SUFFICES ASSUME StartInv, Between, NEW i \in Interfaces, NEW a \in Arcs, NEW b \in Arcs
               PROVE  enabled[i][a] <= enabled[i][b] + refused[i][a] + refused[i][b]
    BY DEF ApartByRefusals
  <2>1. i # command.sw_if_index
    BY CommandConstants DEF Between
  <2>2. PICK n \in 1 .. 4, m \in 1 .. 4 : ArcOrder[n] = a /\ ArcOrder[m] = b
    BY ArcsInOrder
  <2>3. Count(i, n) <= Count(i, m) + (Refusals(i, n) + Refusals(i, m))
    BY <2>1 DEF StartInv, Sides, Near, Waiting
  <2>4. /\ Count(i, n) \in Nat /\ Count(i, m) \in Nat
        /\ Refusals(i, n) \in Nat /\ Refusals(i, m) \in Nat
    BY CountType DEF StartInv, TypeOK
  <2> QED BY <2>2, <2>3, <2>4 DEF Count, Refusals
<1> QED BY <1>1, StartInvariant, PTL

\* A step of a command changes the interface its line names, towards what the line
\* asks for.
THEOREM SwitchesAsAsked == Spec => SwitchedAsAsked
<1> DEFINE Asked ==
      \A i \in Interfaces : enabled'[i] # enabled[i] =>
        /\ Contains(line, i)
        /\ ~Contains(line, "disable") =>
             \A arc \in Arcs : enabled[i][arc] <= enabled'[i][arc]
        /\ ~Contains(line, Garbled) /\ Contains(line, "disable") =>
             \A arc \in Arcs : enabled'[i][arc] <= enabled[i][arc]
<1>1. StartInv /\ [Next]_vars => [Asked]_commandVars
  <2> SUFFICES ASSUME StartInv, [Next]_vars, NEW i \in Interfaces, enabled'[i] # enabled[i]
               PROVE  /\ Contains(line, i)
                      /\ ~Contains(line, "disable") =>
                           \A arc \in Arcs : enabled[i][arc] <= enabled'[i][arc]
                      /\ ~Contains(line, Garbled) /\ Contains(line, "disable") =>
                           \A arc \in Arcs : enabled'[i][arc] <= enabled[i][arc]
    BY DEF Asked
  <2>1. PICK ok \in BOOLEAN : vnetfilter_hook_enable_disable(ok)
    BY DEF Next, vars, commandVars, Calls, flow_table_init, flow_table_main_init,
       tcp_protocol_handler_register, udp_protocol_handler_register,
       icmp_protocol_handler_register, unimplemented_protocol_handler_register,
       NextRound, Command, CommandNext, command_fn
  <2> DEFINE k == ArcOrder[command.arc]
  <2>2. /\ i = command.sw_if_index
        /\ enabled' = [enabled EXCEPT ![i][k] = Switched(enabled[i][k], command.enable)]
    <3>1. ok
      BY <2>1 DEF vnetfilter_hook_enable_disable
    <3>2. enabled' = [enabled EXCEPT ![command.sw_if_index][k] =
                        Switched(enabled[command.sw_if_index][k], command.enable)]
      BY <2>1, <3>1 DEF vnetfilter_hook_enable_disable
    <3>3. i = command.sw_if_index
      BY <3>2 DEF StartInv, TypeOK, CommandTypeOK
    <3> QED BY <3>2, <3>3
  <2>8. /\ enabled \in [Interfaces -> [Arcs -> Nat]] /\ command.enable \in BOOLEAN
        /\ \A arc \in Arcs : enabled'[i][arc] =
             IF arc = k THEN Switched(enabled[i][k], command.enable) ELSE enabled[i][arc]
    BY <2>2 DEF StartInv, TypeOK, CommandTypeOK
  <2>9. \A arc \in Arcs :
          /\ command.enable => enabled[i][arc] <= enabled'[i][arc]
          /\ ~command.enable => enabled'[i][arc] <= enabled[i][arc]
    BY <2>8 DEF Switched
  <2>3. Contains(line, i) /\ (command.enable <=> enable_disable_of(line))
    BY <2>2, CommandConstants DEF StartInv, AsLine
  <2>4. PICK m \in 0 .. MaxWords : line \in [1 .. m -> Words]
    BY LineType DEF StartInv, TypeOK, CommandTypeOK
  <2>5. DOMAIN line = 1 .. m /\ Len(line) = m
    BY <2>4, CommandConstants
  <2>6. ~Contains(line, "disable") => enable_disable_of(line)
    BY <2>5 DEF Contains, enable_disable_of, Understood
  <2>7. ~Contains(line, Garbled) /\ Contains(line, "disable") => ~enable_disable_of(line)
    BY <2>5 DEF Contains, enable_disable_of, Understood
  <2> QED BY <2>3, <2>6, <2>7, <2>9
<1> QED BY <1>1, StartInvariant, PTL DEF Spec, SwitchedAsAsked
=============================================================================
