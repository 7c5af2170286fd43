---------------------------- MODULE HookCommand ----------------------------
(***************************************************************************)
(* The command that switches the hooks of an interface. VPP runs commands  *)
(* under the barrier, so no packet is between two nodes; but the hooks of  *)
(* an interface hang on four feature arcs that are switched one after the  *)
(* other, and each may refuse. A line is a sequence of words: "disable",   *)
(* the name of an interface, or anything else. Startup has what comes      *)
(* before the first command, and the specification.                        *)
(*                                                                         *)
(* VPP counts: a feature that is enabled twice is there twice, and stays   *)
(* until it is disabled twice. The command does not look at what is there. *)
(***************************************************************************)
EXTENDS SequencesExt

CONSTANTS
  Interfaces,   \* sw_if_index of the interfaces that exist
  Garbled,      \* a word the command does not know
  MaxWords,     \* bound of the length of a line
  MaxEnables,   \* bound of how often the hooks of an interface are enabled
  MaxRefusals,  \* bound of how often the arcs of an interface refuse, together
  Unspecified   \* ~0

ASSUME CommandConstants ==
  /\ Unspecified \notin Interfaces
  /\ Garbled \notin Interfaces \cup {"disable"}
  /\ MaxWords \in Nat /\ MaxEnables \in Nat /\ MaxRefusals \in Nat

Arcs == {"l2-input-ip4", "l2-input-ip6", "l2-output-ip4", "l2-output-ip6"}

\* Mutant: the last row of the list was copied from the one before.
ArcOrder_copied == <<"l2-input-ip4", "l2-input-ip6", "l2-output-ip4", "l2-output-ip4">>

\* foreach_vnetfilter_hook
ArcOrder == <<"l2-input-ip4", "l2-input-ip6", "l2-output-ip4", "l2-output-ip6">>

Words == {"disable", Garbled} \cup Interfaces

Lines == BoundedSeq(Words, MaxWords)

VARIABLES
  enabled,      \* of each interface and arc: how often its hook is enabled
  command,      \* the command that runs: NoCommand between two
  line,         \* history: the line it was given, empty between two
  refused       \* history: of each interface and arc, the refusals that were told

commandVars == <<enabled, command, line, refused>>

NoCommand == [sw_if_index |-> Unspecified, enable |-> TRUE, arc |-> 1]

CommandTypeOK ==
  /\ enabled \in [Interfaces -> [Arcs -> Nat]]
  /\ command \in [sw_if_index: Interfaces \cup {Unspecified}, enable: BOOLEAN,
                  arc: 1 .. Len(ArcOrder)]
  /\ line \in Lines
  /\ refused \in [Interfaces -> [Arcs -> Nat]]

CommandInit ==
  /\ enabled = [i \in Interfaces |-> [arc \in Arcs |-> 0]]
  /\ command = NoCommand /\ line = <<>>
  /\ refused = [i \in Interfaces |-> [arc \in Arcs |-> 0]]

-----------------------------------------------------------------------------
\* The loop ends at the first word it does not know; what was read before is
\* carried out.
Understood(l) == {n \in DOMAIN l : \A m \in 1 .. n : l[m] # Garbled}

Names(l) == {n \in Understood(l) : l[n] \in Interfaces}

\* The last interface named counts.
NamesLast(l, i) ==
  \/ Names(l) = {} /\ i = Unspecified
  \/ \E n \in Names(l) : l[n] = i /\ \A m \in Names(l) : m <= n

\* Mutant: "disable" is not looked at.
enable_disable_of_on(l) == TRUE

enable_disable_of(l) == \A n \in Understood(l) : l[n] # "disable"

\* The line is read; one that names no interface is refused.
command_fn(l, sw_if_index) ==
  /\ command.sw_if_index = Unspecified
  /\ NamesLast(l, sw_if_index)
  /\ IF sw_if_index = Unspecified
       THEN UNCHANGED <<command, line>>
       ELSE /\ enable_disable_of(l) => \A arc \in Arcs : enabled[sw_if_index][arc] < MaxEnables
            /\ command' = [sw_if_index |-> sw_if_index, enable |-> enable_disable_of(l), arc |-> 1]
            /\ line' = l
  /\ UNCHANGED <<enabled, refused>>

\* One more or one less. Where there is none, disabling does nothing and succeeds.
Switched(n, enable) == IF enable THEN n + 1 ELSE IF n = 0 THEN 0 ELSE n - 1

\* Mutant: one arc more than there are.
NextArc_late == IF command.arc > Len(ArcOrder) THEN NoCommand ELSE [command EXCEPT !.arc = @ + 1]

NextArc == IF command.arc = Len(ArcOrder) THEN NoCommand ELSE [command EXCEPT !.arc = @ + 1]

\* An arc is switched, or refuses: then a message is all that comes of it.
vnetfilter_hook_enable_disable(ok) ==
  LET i == command.sw_if_index
      arc == ArcOrder[command.arc] IN
  /\ i \in Interfaces
  /\ IF ok
       THEN /\ enabled' = [enabled EXCEPT ![i][arc] = Switched(@, command.enable)]
            /\ UNCHANGED refused
       ELSE /\ SumFunction(refused[i]) < MaxRefusals
            /\ refused' = [refused EXCEPT ![i][arc] = @ + 1]
            /\ UNCHANGED enabled
  /\ command' = NextArc
  /\ line' = IF NextArc = NoCommand THEN <<>> ELSE line

CommandNext ==
  \/ \E l \in Lines, i \in Interfaces \cup {Unspecified} : command_fn(l, i)
  \/ \E ok \in BOOLEAN : vnetfilter_hook_enable_disable(ok)

-----------------------------------------------------------------------------
\* Properties

Between == command.sw_if_index = Unspecified

\* Between two commands the arcs of an interface are enabled as often as one
\* another, but for the refusals the operator was told of: two arcs are apart by no
\* more than they have refused. A half enabled interface is never news; nothing
\* is said of healing it, as repeating the command does not.
ApartByRefusals ==
  Between =>
    \A i \in Interfaces : \A a, b \in Arcs :
      enabled[i][a] <= enabled[i][b] + refused[i][a] + refused[i][b]

\* An interface is changed by a command that named it only, and only towards
\* what the line asked for: with the word "disable" no hook is enabled, without
\* it none is disabled. A word that is not understood ends the line, and what
\* stands before it is done, although cli.c:40 has no such lines.
SwitchedAsAsked ==
  [][\A i \in Interfaces : enabled'[i] # enabled[i] =>
       /\ Contains(line, i)
       /\ ~Contains(line, "disable") =>
            \A arc \in Arcs : enabled[i][arc] <= enabled'[i][arc]
       /\ ~Contains(line, Garbled) /\ Contains(line, "disable") =>
            \A arc \in Arcs : enabled'[i][arc] <= enabled[i][arc]]_commandVars
=============================================================================
