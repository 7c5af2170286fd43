---------------------------- MODULE MCLinkPulse -----------------------------
(***************************************************************************)
(* An instance of LinkPulse for TLC. Paths, interfaces, addresses and      *)
(* child processes are interchangeable.                                    *)
(***************************************************************************)
EXTENDS LinkPulse, TLC

MCSymmetry ==
  Permutations(Paths) \cup Permutations(Interfaces)
    \cup Permutations(Addresses) \cup Permutations(Pids)
=============================================================================
