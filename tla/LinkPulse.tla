----------------------------- MODULE LinkPulse ------------------------------
(***************************************************************************)
(* The link_pulse plugin: callback_scripts is a vector of pointers to path *)
(* vectors that the plugin owns. A command parses a path into a vector of  *)
(* its own, which the list takes over or the command frees; removing a     *)
(* script frees its vector. A freed vector may be handed out again at once *)
(* and hold another path, so the list is right only as long as it owns     *)
(* what it points to.                                                      *)
(*                                                                         *)
(* Commands and link events run on the main thread, one at a time; the     *)
(* scripts run in child processes, with copies of their arguments.         *)
(***************************************************************************)
EXTENDS Naturals, Sequences

CONSTANTS
  Paths,      \* what can be given as a script
  Interfaces, \* hw->name
  Addresses,  \* of the heap's vectors
  Pids,       \* of the children
  ScriptNum,  \* link_pulse_CALLBACK_SCRIPT_NUM
  None        \* NULL; a free vector; no event

ASSUME LinkConstants ==
  /\ ScriptNum \in Nat
  /\ None \notin Paths \cup Interfaces \cup Addresses
  /\ None \notin [script: Paths, if_name: Interfaces, is_up: BOOLEAN]
  /\ None \notin [if_name: Addresses, is_up: BOOLEAN, i: Nat]
  /\ None \notin [if_name: Interfaces, is_up: BOOLEAN, todo: Seq(Paths)]

VARIABLES
  callback_scripts,  \* the vector of pointers
  heap,              \* the text of each vector in use
  event,             \* the link event being handled
  children,          \* the arguments a child was forked with
  error              \* whether the last command was answered with an error

vars == <<callback_scripts, heap, event, children, error>>

TypeOK ==
  /\ callback_scripts \in Seq(Addresses) /\ Len(callback_scripts) <= ScriptNum
  /\ heap \in [Addresses -> Paths \cup Interfaces \cup {None}]
  /\ event \in [if_name: Addresses, is_up: BOOLEAN, i: 0 .. ScriptNum] \cup {None}
  /\ children \in [Pids -> [script: Paths, if_name: Interfaces, is_up: BOOLEAN] \cup {None}]
  /\ error \in BOOLEAN

Init ==
  /\ callback_scripts = <<>>
  /\ heap = [a \in Addresses |-> None]
  /\ event = None
  /\ children = [p \in Pids |-> None]
  /\ error = FALSE

-----------------------------------------------------------------------------
\* link_pulse_update_script_command_fn

\* Mutant: the command frees its path although the list has taken it over.
done_frees_all(mem, path, script_path, is_error) ==
  /\ heap' = [mem EXCEPT ![path] = None]
  /\ error' = is_error /\ UNCHANGED <<event, children>>

\* The end of every path through the command: the path is freed unless
\* script_path was set to NULL.
done(mem, path, script_path, is_error) ==
  /\ heap' = IF script_path = None THEN mem ELSE [mem EXCEPT ![script_path] = None]
  /\ error' = is_error /\ UNCHANGED <<event, children>>

\* strcmp with the i-th script.
Matches(mem, path, i) == mem[callback_scripts[i]] = mem[path]

\* Mutant: one script too many.
add_script_late(mem, path) ==
  /\ callback_scripts' = Append(callback_scripts, path)
  /\ done(mem, path, None, FALSE)

\* A full list is reported before a duplicate is.
add_script(mem, path) ==
  IF \/ Len(callback_scripts) >= ScriptNum
     \/ \E i \in DOMAIN callback_scripts : Matches(mem, path, i)
    THEN done(mem, path, path, TRUE) /\ UNCHANGED callback_scripts
    ELSE /\ callback_scripts' = Append(callback_scripts, path)
         /\ done(mem, path, None, FALSE)

\* vec_delete: what follows moves down by one.
Deleted(i) ==
  SubSeq(callback_scripts, 1, i - 1)
    \o SubSeq(callback_scripts, i + 1, Len(callback_scripts))

del_script(mem, path) ==
  \/ /\ \A i \in DOMAIN callback_scripts : ~Matches(mem, path, i)
     /\ done(mem, path, path, TRUE) /\ UNCHANGED callback_scripts
  \/ \E i \in DOMAIN callback_scripts :
       /\ Matches(mem, path, i) /\ \A j \in 1 .. i - 1 : ~Matches(mem, path, j)
       /\ callback_scripts' = Deleted(i)
       /\ done([mem EXCEPT ![callback_scripts[i]] = None], path, path, FALSE)

\* Parsing stores the text in a new vector; anything after it is an error.
update_script(is_add, text, trailing) ==
  /\ event = None
  /\ \E path \in Addresses :
       LET mem == [heap EXCEPT ![path] = text] IN
       /\ heap[path] = None
       /\ CASE trailing -> done(mem, path, path, TRUE) /\ UNCHANGED callback_scripts
            [] ~trailing /\ is_add -> add_script(mem, path)
            [] ~trailing /\ ~is_add -> del_script(mem, path)

\* Neither add nor del nor delete: no path was parsed.
unknown_input ==
  /\ event = None
  /\ error' = TRUE /\ UNCHANGED <<callback_scripts, heap, event, children>>

-----------------------------------------------------------------------------
\* link_pulse_hw_interface_link_up_down: the name is copied, each script forked,
\* the copy freed.

link_up_down(name, is_up) ==
  /\ event = None
  /\ \E if_name \in Addresses :
       /\ heap[if_name] = None
       /\ heap' = [heap EXCEPT ![if_name] = name]
       /\ event' = [if_name |-> if_name, is_up |-> is_up, i |-> 0]
  /\ UNCHANGED <<callback_scripts, children, error>>

\* link_pulse_run_script: the child has its own copy of the memory as it is now.
run_script(pid) ==
  /\ event # None /\ event.i < Len(callback_scripts)
  /\ children[pid] = None
  /\ children' = [children EXCEPT ![pid] =
       [script |-> heap[callback_scripts[event.i + 1]],
        if_name |-> heap[event.if_name], is_up |-> event.is_up]]
  /\ event' = [event EXCEPT !.i = @ + 1]
  /\ UNCHANGED <<callback_scripts, heap, error>>

\* fork may fail at any time; that is logged and the next script is run.
fork_fails ==
  /\ event # None /\ event.i < Len(callback_scripts)
  /\ event' = [event EXCEPT !.i = @ + 1]
  /\ UNCHANGED <<callback_scripts, heap, children, error>>

\* Mutant: the name is not freed.
link_handled_leaking ==
  /\ event # None /\ event.i = Len(callback_scripts)
  /\ event' = None
  /\ UNCHANGED <<callback_scripts, heap, children, error>>

link_handled ==
  /\ event # None /\ event.i = Len(callback_scripts)
  /\ heap' = [heap EXCEPT ![event.if_name] = None]
  /\ event' = None
  /\ UNCHANGED <<callback_scripts, children, error>>

\* The script ends, or could not be executed: the kernel reaps the child.
child_ends(pid) ==
  /\ children[pid] # None
  /\ children' = [children EXCEPT ![pid] = None]
  /\ UNCHANGED <<callback_scripts, heap, event, error>>

-----------------------------------------------------------------------------
Next ==
  \/ \E is_add, trailing \in BOOLEAN, text \in Paths : update_script(is_add, text, trailing)
  \/ unknown_input
  \/ \E name \in Interfaces, is_up \in BOOLEAN : link_up_down(name, is_up)
  \/ fork_fails \/ link_handled
  \/ \E pid \in Pids : run_script(pid) \/ child_ends(pid)

Spec == Init /\ [][Next]_vars

-----------------------------------------------------------------------------
\* Properties

\* Every vector in use is pointed to from exactly one place: no command and no
\* event leaks one, and no entry of the list points to a freed or shared one.
VectorsOwned ==
  /\ \A i, j \in DOMAIN callback_scripts : callback_scripts[i] = callback_scripts[j] => i = j
  /\ \A i \in DOMAIN callback_scripts : heap[callback_scripts[i]] \in Paths
  /\ event # None =>
       /\ heap[event.if_name] \in Interfaces
       /\ \A i \in DOMAIN callback_scripts : callback_scripts[i] # event.if_name
  /\ \A a \in Addresses : heap[a] # None =>
       \/ \E i \in DOMAIN callback_scripts : a = callback_scripts[i]
       \/ event # None /\ a = event.if_name

\* The list as its users see it.
Texts == [i \in DOMAIN callback_scripts |-> heap[callback_scripts[i]]]

Change ==
  IF event = None THEN None
  ELSE [if_name |-> heap[event.if_name], is_up |-> event.is_up,
        todo |-> SubSeq(Texts, event.i + 1, Len(Texts))]

Listener == INSTANCE LinkListener WITH
  MaxScripts <- ScriptNum, scripts <- Texts, change <- Change

\* The pointers and the memory under them behave like the list of scripts the
\* plugin promises: each event starts, in order, the scripts that were registered
\* and no other, with the name and the status of that event, however commands
\* and events follow each other.
ListenerSpec == Listener!Spec
=============================================================================
