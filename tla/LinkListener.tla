---------------------------- MODULE LinkListener ----------------------------
(***************************************************************************)
(* What the link_pulse plugin promises (link_pulse.c:4-21): a list of      *)
(* scripts, kept in the order they were added; on every change of a link   *)
(* the scripts of the list at that moment are started one after the other, *)
(* each with the name and the status of the interface. A script that       *)
(* cannot be started is passed over. Nothing is said of when a started     *)
(* script runs or ends.                                                    *)
(***************************************************************************)
EXTENDS Naturals, Sequences

CONSTANTS Paths, Interfaces, Pids, MaxScripts, None

Argv == [script: Paths, if_name: Interfaces, is_up: BOOLEAN]
Change == [if_name: Interfaces, is_up: BOOLEAN, todo: Seq(Paths)]

VARIABLES
  scripts,   \* the list
  change,    \* the change of a link whose scripts are being started
  children,  \* the arguments of the scripts that were started
  error      \* the answer to the last command

vars == <<scripts, change, children, error>>

Init ==
  /\ scripts = <<>> /\ change = None
  /\ children = [p \in Pids |-> None]
  /\ error = FALSE

Registered(path) == \E i \in DOMAIN scripts : scripts[i] = path

\* A command that is refused changes nothing.
Refuse ==
  /\ change = None
  /\ error' = TRUE /\ UNCHANGED <<scripts, change, children>>

Add(path) ==
  /\ change = None
  /\ ~Registered(path) /\ Len(scripts) < MaxScripts
  /\ scripts' = Append(scripts, path)
  /\ error' = FALSE /\ UNCHANGED <<change, children>>

\* The others keep their order.
Remove(path) ==
  /\ change = None
  /\ \E i \in DOMAIN scripts :
       /\ scripts[i] = path
       /\ scripts' = SubSeq(scripts, 1, i - 1) \o SubSeq(scripts, i + 1, Len(scripts))
  /\ error' = FALSE /\ UNCHANGED <<change, children>>

LinkChanges(if_name, is_up) ==
  /\ change = None
  /\ change' = [if_name |-> if_name, is_up |-> is_up, todo |-> scripts]
  /\ UNCHANGED <<scripts, children, error>>

Start(pid) ==
  /\ change # None /\ change.todo # <<>> /\ children[pid] = None
  /\ children' = [children EXCEPT ![pid] =
       [script |-> Head(change.todo), if_name |-> change.if_name, is_up |-> change.is_up]]
  /\ change' = [change EXCEPT !.todo = Tail(@)]
  /\ UNCHANGED <<scripts, error>>

PassOver ==
  /\ change # None /\ change.todo # <<>>
  /\ change' = [change EXCEPT !.todo = Tail(@)]
  /\ UNCHANGED <<scripts, children, error>>

AllStarted ==
  /\ change # None /\ change.todo = <<>>
  /\ change' = None
  /\ UNCHANGED <<scripts, children, error>>

Ends(pid) ==
  /\ children[pid] # None
  /\ children' = [children EXCEPT ![pid] = None]
  /\ UNCHANGED <<scripts, change, error>>

Next ==
  \/ Refuse
  \/ \E path \in Paths : Add(path) \/ Remove(path)
  \/ \E i \in Interfaces, is_up \in BOOLEAN : LinkChanges(i, is_up)
  \/ PassOver \/ AllStarted
  \/ \E pid \in Pids : Start(pid) \/ Ends(pid)

Spec == Init /\ [][Next]_vars
=============================================================================
