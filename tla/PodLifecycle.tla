----------------------------- MODULE PodLifecycle -----------------------------
(***************************************************************************)
(* What a kubelet promises of the pods that are bound to it directly, as    *)
(* the other clients of the API server see it: an object is created for a   *)
(* pod that was bound, becomes ready once, and is removed only after its    *)
(* deletion was requested.  A name may have several objects, one after      *)
(* another.                                                                 *)
(***************************************************************************)
CONSTANT Managed

VARIABLES
  bound,   \* the pods that were bound
  object   \* object[p]: "none", "pending", "ready", or "deleting" (deletion requested)

lvars == <<bound, object>>

LInit == bound = {} /\ object = [p \in Managed |-> "none"]

Moves(p, from, to) ==
  object[p] \in from /\ object' = [object EXCEPT ![p] = to] /\ UNCHANGED bound

Bind(p)          == bound' = bound \cup {p} /\ UNCHANGED object
Expose(p)        == p \in bound /\ Moves(p, {"none"}, "pending")
MarkReady(p)     == Moves(p, {"pending"}, "ready")
AskDelete(p)     == Moves(p, {"pending", "ready"}, "deleting")
Remove(p)        == Moves(p, {"deleting"}, "none")

LNext == \E p \in Managed : Bind(p) \/ Expose(p) \/ MarkReady(p) \/ AskDelete(p) \/ Remove(p)

LSpec == LInit /\ [][LNext]_lvars
=============================================================================
