--------------------------- MODULE DispatchService ---------------------------
(***************************************************************************)
(* What a pod dispatcher promises the gateway: every request is rejected or *)
(* served by one endpoint that is known when it is assigned, an endpoint    *)
(* never serves more than `concurrency` requests, and a request is answered *)
(* once, after its service.                                                 *)
(***************************************************************************)
EXTENDS Naturals, FiniteSets

CONSTANTS Requests, Keys, NoKey, concurrency

VARIABLES
  known,   \* the endpoints requests may be assigned to
  phase    \* phase[r]: [st, at]: how far r is, and the endpoint it is at

svars == <<known, phase>>

Serving(k) == {r \in Requests : phase[r] = [st |-> "serving", at |-> k]}

SInit ==
  /\ known = {}
  /\ phase = [r \in Requests |-> [st |-> "none", at |-> NoKey]]

To(r, s, k) == phase' = [phase EXCEPT ![r] = [st |-> s, at |-> k]]

Discover(k) == known' = known \cup {k} /\ UNCHANGED phase
Forget(k)   == known' = known \ {k} /\ UNCHANGED phase

Submit(r) == phase[r].st = "none" /\ To(r, "waiting", NoKey) /\ UNCHANGED known

Assign(r, k) ==
  /\ phase[r].st = "waiting" /\ k \in known
  /\ Cardinality(Serving(k)) < concurrency
  /\ To(r, "serving", k) /\ UNCHANGED known

Finish(r) == phase[r].st = "serving" /\ To(r, "served", NoKey) /\ UNCHANGED known

Answer(r) == phase[r].st \in {"waiting", "served"} /\ To(r, "answered", NoKey) /\ UNCHANGED known

SNext ==
  \/ \E k \in Keys : Discover(k) \/ Forget(k)
  \/ \E r \in Requests : Submit(r) \/ Finish(r) \/ Answer(r) \/ \E k \in Keys : Assign(r, k)

SSpec == SInit /\ [][SNext]_svars
=============================================================================
