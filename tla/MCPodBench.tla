----------------------------- MODULE MCPodBench -----------------------------
(* Instances of PodBench for TLC. *)
EXTENDS PodBench
=============================================================================
