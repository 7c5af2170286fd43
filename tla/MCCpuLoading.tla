---------------------------- MODULE MCCpuLoading ----------------------------
(***************************************************************************)
(* An instance of CpuLoading for TLC: the main thread polls nothing, every *)
(* worker polls dpdk-input, there is no virtio-input.                      *)
(***************************************************************************)
EXTENDS CpuLoading

MCNodes == {"dpdk-input", "ip4-lookup"}

MCPolling ==
  [p \in PollTypes |-> [t \in 0 .. NThreads - 1 |->
     IF p = "dpdk" /\ t # 0 THEN "dpdk-input" ELSE "absent"]]
=============================================================================
