---------------------------- MODULE MCVnetFilter ----------------------------
(***************************************************************************)
(* An instance of VnetFilter for TLC: a node with two hooks. The trace and *)
(* the nexts of the other buffers decide nothing the invariants are about, *)
(* so FilterView leaves them out.                                          *)
(***************************************************************************)
EXTENDS VnetFilter

MCHooks == <<"ip4_pre_process", "ip4_input_process">>

FilterView ==
  <<n_vectors, n_left_from, first, turn, k, j, result, nexts[watched], prefetched, watched, seen>>
=============================================================================
