---------------------------- MODULE MCAutoscaler ----------------------------
(* Instances of Autoscaler for TLC. *)
EXTENDS Autoscaler
=============================================================================
