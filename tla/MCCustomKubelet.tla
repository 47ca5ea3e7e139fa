--------------------------- MODULE MCCustomKubelet ---------------------------
(* Instances of CustomKubelet for TLC. *)
EXTENDS CustomKubelet

CONSTANTS n1, n2, n3

\* Every pod on the kubelet's own node.
OnThisNode == [p \in Pods |-> n1]

\* Managed pods on a node delegated to this kubelet, the others on one that is not.
OnOtherNodes == [p \in Pods |-> IF p \in Managed THEN n2 ELSE n3]
=============================================================================
