------------------------- MODULE PodDispatcherProofs -------------------------
(***************************************************************************)
(* Proofs about the pod dispatcher.  The argument counts, for every         *)
(* endpoint, the tokens that exist: those in the channel, those still to be *)
(* sent and those with a request.                                           *)
(***************************************************************************)
EXTENDS PodDispatcher, FiniteSetTheorems, TLAPS

\* Most steps need no arithmetic and go to Zenon; the others cite SMT.
USE Zenon

Total(k) == tokens[k] + puts[k] + Cardinality(Holders(k))

-----------------------------------------------------------------------------
\* The cardinalities of two sets of requests that differ at most in r.
LEMMA SetCount ==
  ASSUME NEW A \in SUBSET Requests, NEW B \in SUBSET Requests, NEW r \in Requests,
         \A q \in Requests \ {r} : q \in A <=> q \in B
  PROVE  /\ Cardinality(A) \in Nat /\ Cardinality(B) \in Nat
         /\ (r \in A <=> r \in B) => Cardinality(B) = Cardinality(A)
         /\ r \notin A /\ r \in B => Cardinality(B) = Cardinality(A) + 1
         /\ r \in A /\ r \notin B => Cardinality(B) = Cardinality(A) - 1
<1>1. IsFiniteSet(A) /\ IsFiniteSet(B)
  BY FS_Subset, DispatcherAssumption
<1>2. Cardinality(A) \in Nat /\ Cardinality(B) \in Nat
  BY <1>1, FS_CardinalityType
<1>3. (r \in A <=> r \in B) => A = B
  BY SMT
<1>4. ASSUME r \notin A, r \in B
      PROVE  Cardinality(B) = Cardinality(A) + 1
  <2>1. B = A \cup {r}
    BY <1>4
  <2> QED BY <2>1, <1>1, <1>4, FS_AddElement
<1>5. ASSUME r \in A, r \notin B
      PROVE  Cardinality(B) = Cardinality(A) - 1
  <2>1. B = A \ {r}
    BY <1>5
  <2> QED BY <2>1, <1>1, <1>5, FS_RemoveElement
<1> QED BY <1>2, <1>3, <1>4, <1>5

\* How the number of requests that hold a token of k changes with request r.
LEMMA HoldersStep ==
  ASSUME TypeOK, NEW r \in Requests, NEW k \in Keys, NEW v,
         req' = [req EXCEPT ![r] = v]
  PROVE  /\ Cardinality(Holders(k)) \in Nat /\ Cardinality(Holders(k)') \in Nat
         /\ (req[r].key = k <=> v.key = k) => Cardinality(Holders(k)') = Cardinality(Holders(k))
         /\ req[r].key # k /\ v.key = k => Cardinality(Holders(k)') = Cardinality(Holders(k)) + 1
         /\ req[r].key = k /\ v.key # k => Cardinality(Holders(k)') = Cardinality(Holders(k)) - 1
<1> DEFINE A == Holders(k)
           B == Holders(k)'
<1>1. req'[r] = v /\ \A q \in Requests \ {r} : req'[q] = req[q]
  BY DEF TypeOK, DispatchType
<1>2. A \in SUBSET Requests /\ B \in SUBSET Requests
  BY DEF Holders
<1>3. /\ \A q \in Requests \ {r} : q \in A <=> q \in B
      /\ r \in A <=> req[r].key = k
      /\ r \in B <=> v.key = k
  BY <1>1 DEF Holders
<1> HIDE DEF A, B
<1>4. /\ Cardinality(A) \in Nat /\ Cardinality(B) \in Nat
      /\ (r \in A <=> r \in B) => Cardinality(B) = Cardinality(A)
      /\ r \notin A /\ r \in B => Cardinality(B) = Cardinality(A) + 1
      /\ r \in A /\ r \notin B => Cardinality(B) = Cardinality(A) - 1
  BY <1>2, <1>3, SetCount
<1> QED BY <1>3, <1>4 DEF A, B

LEMMA HoldersType ==
  ASSUME NEW k \in Keys
  PROVE  Cardinality(Holders(k)) \in Nat
BY FS_Subset, FS_CardinalityType, DispatcherAssumption DEF Holders

-----------------------------------------------------------------------------
\* Type correctness.

LEMMA TypeInit == Init => TypeOK
<1> SUFFICES ASSUME Init PROVE TypeOK
  OBVIOUS
<1>1. ReconcileType
  BY DEF Init, ReconcileType
<1>2. DispatchType
  BY DEF Init, DispatchType, At
<1>3. \A r \in Requests : req[r].key # NoKey <=> req[r].pc \in {"taken", "executing", "returning"}
  BY DEF Init, At
<1>4. ~reconciling => add = {} /\ del = {} /\ \A k \in Keys : puts[k] = 0
  BY DEF Init
<1> QED BY <1>1, <1>2, <1>3, <1>4 DEF TypeOK

LEMMA TypeKeyStep ==
  ASSUME TypeOK, NEW k \in Keys, KeyStep(k)
  PROVE  TypeOK'
<1>1. reconciling \/ (add = {} /\ del = {} /\ \A j \in Keys : puts[j] = 0)
  BY DEF TypeOK
<1>2. UNCHANGED <<req, reconciling, cancelled>>
  BY DEF KeyStep, PodReady, PodUnready, AddEndpoint, AddFails, PutToken, DelEndpoint, envVars, recVars
<1>3. ReconcileType'
  <2>1. CASE PodReady(k)
    <3>1. readied' \in [Keys -> Nat]
      BY <2>1, SMT DEF PodReady, TypeOK, ReconcileType
    <3>2. ready' \in SUBSET Keys /\ queued' \in BOOLEAN
      BY <2>1 DEF PodReady, TypeOK, ReconcileType
    <3> QED BY <2>1, <3>1, <3>2 DEF PodReady, TypeOK, ReconcileType
  <2>5. CASE PodUnready(k)
    BY <2>5 DEF PodUnready, TypeOK, ReconcileType
  <2>2. CASE AddEndpoint(k)
    BY <2>2, DispatcherAssumption, SMT DEF AddEndpoint, TypeOK, ReconcileType, envVars
  <2>3. CASE AddFails(k)
    BY <2>3 DEF AddFails, TypeOK, ReconcileType, envVars
  <2>6. CASE DelEndpoint(k)
    BY <2>6 DEF DelEndpoint, TypeOK, ReconcileType, envVars
  <2>4. CASE PutToken(k)
    BY <2>4, SMT DEF PutToken, TypeOK, ReconcileType, envVars, recVars
  <2> QED BY <2>1, <2>2, <2>3, <2>4, <2>5, <2>6 DEF KeyStep
<1>4. DispatchType'
  BY <1>2, SMT DEF TypeOK, ReconcileType, DispatchType, KeyStep, PodReady, PodUnready, AddEndpoint,
     AddFails, PutToken, DelEndpoint
<1>5. (~reconciling => add = {} /\ del = {} /\ \A j \in Keys : puts[j] = 0)'
  BY <1>1, <1>2, SMT DEF TypeOK, ReconcileType, KeyStep, PodReady, PodUnready, AddEndpoint, AddFails,
     PutToken, DelEndpoint, envVars, recVars
<1> QED BY <1>2, <1>3, <1>4, <1>5 DEF TypeOK

LEMMA TypeRequestStep ==
  ASSUME TypeOK, NEW r \in Requests, RequestStep(r)
  PROVE  TypeOK'
<1>1. UNCHANGED <<envVars, recVars, puts, endpoints, made, cancelled>>
  BY DEF RequestStep, Send, Run, TakeToken, LookUp, DispatchTimeout, ExecuteReturns, ReturnToken, Respond
<1>2. tokens' \in [Keys -> Nat]
  BY SMT DEF TypeOK, DispatchType, RequestStep, Send, Run, TakeToken, LookUp, DispatchTimeout,
     ExecuteReturns, ReturnToken, Respond
<1>3. PICK s, k, e : Becomes(r, s, k, e) /\ e \in Nat /\
        \/ s \in {"sent", "dispatching", "responding", "answered"} /\ k = NoKey
        \/ s \in {"taken", "executing", "returning"} /\ k \in Keys
  BY DEF TypeOK, ReconcileType, DispatchType, RequestStep, Send, Run, TakeToken, LookUp,
     DispatchTimeout, ExecuteReturns, ReturnToken, Respond
<1>4. DispatchType'
  BY <1>1, <1>2, <1>3 DEF TypeOK, DispatchType, Becomes, At
<1>5. \A q \in Requests : req'[q].key # NoKey <=> req'[q].pc \in {"taken", "executing", "returning"}
  BY <1>3, DispatcherAssumption DEF TypeOK, DispatchType, Becomes, At
<1> QED BY <1>1, <1>4, <1>5 DEF TypeOK, ReconcileType, envVars, recVars

LEMMA TypeNext == TypeOK /\ [Next]_vars => TypeOK'
<1> SUFFICES ASSUME TypeOK, [Next]_vars PROVE TypeOK'
  OBVIOUS
<1>1. CASE \E k \in Keys : KeyStep(k)
  BY <1>1, TypeKeyStep
<1>2. CASE \E r \in Requests : RequestStep(r)
  BY <1>2, TypeRequestStep
<1>3. CASE Reconcile
  <2>1. add' \in SUBSET Keys /\ del' \in SUBSET Keys
    BY <1>3, SMT DEF Reconcile, Missing, Stale, TypeOK, ReconcileType
  <2>2. ~reconciling' => add' = {} /\ del' = {} /\ \A k \in Keys : puts'[k] = 0
    BY <1>3 DEF Reconcile, TypeOK
  <2>3. queued' \in BOOLEAN /\ reconciling' \in BOOLEAN
    BY <1>3 DEF Reconcile, TypeOK, ReconcileType
  <2>4. UNCHANGED <<envVars, failed, puts, endpoints, made, tokens, req, cancelled>>
    BY <1>3 DEF Reconcile
  <2> QED BY <2>1, <2>2, <2>3, <2>4 DEF TypeOK, ReconcileType, DispatchType, envVars
<1>4. CASE DeploymentDeleted \/ ReconcileDone \/ Cancel \/ UNCHANGED vars
  BY <1>4 DEF DeploymentDeleted, ReconcileDone, Cancel, TypeOK, ReconcileType, DispatchType,
     vars, envVars, recVars
<1> QED BY <1>1, <1>2, <1>3, <1>4 DEF Next

\* The dispatcher's variables keep their types in every behaviour.
THEOREM TypeCorrect == Spec => []TypeOK
BY TypeInit, TypeNext, PTL DEF Spec

-----------------------------------------------------------------------------
\* Counting tokens.

\* A step of a request keeps the number of tokens of every endpoint, except that
\* LookUp discards a token of an endpoint that is not in the map.
LEMMA RequestTotal ==
  ASSUME TypeOK, NEW r \in Requests, RequestStep(r), NEW k \in Keys
  PROVE  /\ UNCHANGED <<endpoints, made, puts>>
         /\ Total(k) \in Nat /\ Total(k)' \in Nat
         /\ Total(k)' = Total(k) \/ (endpoints[k] = 0 /\ Total(k)' <= Total(k))
<1>1. UNCHANGED <<endpoints, made, puts>>
  BY DEF RequestStep, Send, Run, TakeToken, LookUp, DispatchTimeout, ExecuteReturns, ReturnToken, Respond
<1>2. tokens[k] \in Nat /\ tokens'[k] \in Nat /\ puts[k] \in Nat
  BY TypeRequestStep DEF TypeOK, ReconcileType, DispatchType
<1>3. k # NoKey /\ req[r].key \in Keys \cup {NoKey} /\ tokens \in [Keys -> Nat]
      /\ (req[r].key # NoKey <=> req[r].pc \in {"taken", "executing", "returning"})
  BY DispatcherAssumption DEF TypeOK, DispatchType
<1>4. CASE Send(r) \/ Run(r) \/ DispatchTimeout(r) \/ Respond(r)
  <2>1. PICK s, e : req' = [req EXCEPT ![r] = At(s, NoKey, e)]
    BY <1>4 DEF Send, Run, DispatchTimeout, Respond, Becomes
  <2>2. req[r].key = NoKey /\ tokens' = tokens
    BY <1>3, <1>4 DEF Send, Run, DispatchTimeout, Respond
  <2>3. At(s, NoKey, e).key = NoKey
    BY DEF At
  <2>4. Cardinality(Holders(k)) \in Nat /\ Cardinality(Holders(k)') = Cardinality(Holders(k))
    BY <1>3, <2>1, <2>2, <2>3, HoldersStep
  <2> QED BY <1>1, <1>2, <2>2, <2>4, SMT DEF Total
<1>5. CASE \E j \in Keys : TakeToken(r, j)
  <2>1. PICK j \in Keys : TakeToken(r, j)
    BY <1>5
  <2>2. req' = [req EXCEPT ![r] = At("taken", j, 0)] /\ req[r].key = NoKey
        /\ tokens[j] > 0 /\ tokens' = [tokens EXCEPT ![j] = @ - 1]
    BY <1>3, <2>1 DEF TakeToken, Becomes
  <2>3. At("taken", j, 0).key = j
    BY DEF At
  <2>4. /\ Cardinality(Holders(k)) \in Nat
        /\ Cardinality(Holders(k)') = IF j = k THEN Cardinality(Holders(k)) + 1 ELSE Cardinality(Holders(k))
    BY <1>3, <2>2, <2>3, HoldersStep
  <2>5. tokens'[k] = IF j = k THEN tokens[k] - 1 ELSE tokens[k]
    BY <1>3, <2>2
  <2> QED BY <1>1, <1>2, <2>4, <2>5, SMT DEF Total
<1>6. CASE LookUp(r)
  <2>1. tokens' = tokens
    BY <1>6 DEF LookUp
  <2>2. CASE endpoints[req[r].key] = 0 /\ Becomes(r, "dispatching", NoKey, 0)
    <3>1. req' = [req EXCEPT ![r] = At("dispatching", NoKey, 0)] /\ At("dispatching", NoKey, 0).key = NoKey
      BY <2>2 DEF Becomes, At
    <3>2. /\ Cardinality(Holders(k)) \in Nat /\ Cardinality(Holders(k)') \in Nat
          /\ Cardinality(Holders(k)') =
               IF req[r].key = k THEN Cardinality(Holders(k)) - 1 ELSE Cardinality(Holders(k))
      BY <1>3, <3>1, HoldersStep
    <3> QED BY <1>1, <1>2, <2>1, <2>2, <3>2, SMT DEF Total
  <2>3. CASE Becomes(r, "executing", req[r].key, endpoints[req[r].key])
    <3> DEFINE v == At("executing", req[r].key, endpoints[req[r].key])
    <3>1. req' = [req EXCEPT ![r] = v] /\ v.key = req[r].key
      BY <2>3 DEF Becomes, At
    <3> HIDE DEF v
    <3>2. Cardinality(Holders(k)) \in Nat /\ Cardinality(Holders(k)') = Cardinality(Holders(k))
      BY <3>1, HoldersStep
    <3> QED BY <1>1, <1>2, <2>1, <3>2, SMT DEF Total
  <2> QED BY <1>6, <2>2, <2>3 DEF LookUp
<1>7. CASE ExecuteReturns(r)
  <2> DEFINE v == At("returning", req[r].key, 0)
  <2>1. req' = [req EXCEPT ![r] = v] /\ v.key = req[r].key
    BY <1>7 DEF ExecuteReturns, Becomes, At
  <2> HIDE DEF v
  <2>2. Cardinality(Holders(k)) \in Nat /\ Cardinality(Holders(k)') = Cardinality(Holders(k))
    BY <2>1, HoldersStep
  <2>3. tokens' = tokens
    BY <1>7 DEF ExecuteReturns
  <2> QED BY <1>1, <1>2, <2>2, <2>3, SMT DEF Total
<1>8. CASE ReturnToken(r)
  <2>1. /\ req' = [req EXCEPT ![r] = At("responding", NoKey, 0)] /\ At("responding", NoKey, 0).key = NoKey
        /\ req[r].key \in Keys /\ tokens' = [tokens EXCEPT ![req[r].key] = @ + 1]
    BY <1>3, <1>8 DEF ReturnToken, Becomes, At
  <2>2. /\ Cardinality(Holders(k)) \in Nat /\ Cardinality(Holders(k)') \in Nat
        /\ Cardinality(Holders(k)') =
             IF req[r].key = k THEN Cardinality(Holders(k)) - 1 ELSE Cardinality(Holders(k))
    BY <1>3, <2>1, HoldersStep
  <2>3. tokens'[k] = IF req[r].key = k THEN tokens[k] + 1 ELSE tokens[k]
    BY <1>3, <2>1
  <2> QED BY <1>1, <1>2, <2>2, <2>3, SMT DEF Total
<1> QED BY <1>4, <1>5, <1>6, <1>7, <1>8 DEF RequestStep

\* A step about endpoint j keeps the tokens of every other endpoint, and its own
\* unless it adds the endpoint.
LEMMA KeyTotal ==
  ASSUME TypeOK, NEW j \in Keys, KeyStep(j), NEW k \in Keys
  PROVE  /\ Total(k) \in Nat /\ Total(k)' \in Nat
         /\ Total(k)' = IF k = j /\ AddEndpoint(j)
                        THEN Total(k) - puts[k] + podServiceConcurrency ELSE Total(k)
<1>1. Cardinality(Holders(k)) \in Nat /\ Cardinality(Holders(k)') = Cardinality(Holders(k))
  <2>1. req' = req
    BY DEF KeyStep, PodReady, PodUnready, AddEndpoint, AddFails, PutToken, DelEndpoint
  <2> QED BY <2>1, HoldersType DEF Holders
<1>2. tokens \in [Keys -> Nat] /\ puts \in [Keys -> Nat]
  BY DEF TypeOK, ReconcileType, DispatchType
<1>3. CASE AddEndpoint(j)
  <2>1. tokens' = tokens /\ puts' = [puts EXCEPT ![j] = podServiceConcurrency]
    BY <1>3 DEF AddEndpoint
  <2> QED BY <1>1, <1>2, <1>3, <2>1, DispatcherAssumption, SMT DEF Total
<1>4. CASE ~AddEndpoint(j)
  <2>1. \/ tokens' = tokens /\ puts' = puts
        \/ /\ puts[j] > 0 /\ puts' = [puts EXCEPT ![j] = @ - 1]
           /\ tokens' = [tokens EXCEPT ![j] = @ + 1]
    BY <1>4 DEF KeyStep, PodReady, PodUnready, AddFails, PutToken, DelEndpoint
  <2>2. tokens[k] + puts[k] \in Nat /\ tokens'[k] + puts'[k] = tokens[k] + puts[k]
        /\ tokens'[k] \in Nat /\ puts'[k] \in Nat
    BY <1>2, <2>1, SMT
  <2>3. tokens[k] \in Nat /\ puts[k] \in Nat
    BY <1>2
  <2> QED BY <1>1, <1>4, <2>2, <2>3, SMT DEF Total
<1> QED BY <1>3, <1>4

\* Every other step leaves the tokens alone.
LEMMA OtherTotal ==
  ASSUME TypeOK, DeploymentDeleted \/ Reconcile \/ ReconcileDone \/ Cancel \/ UNCHANGED vars,
         NEW k \in Keys
  PROVE  UNCHANGED <<endpoints, made, puts>> /\ Total(k) \in Nat /\ Total(k)' = Total(k)
<1>1. UNCHANGED <<endpoints, made, puts, tokens, req>>
  BY DEF DeploymentDeleted, Reconcile, ReconcileDone, Cancel, vars
<1>2. Holders(k)' = Holders(k)
  BY <1>1 DEF Holders
<1>3. tokens[k] \in Nat /\ puts[k] \in Nat
  BY DEF TypeOK, ReconcileType, DispatchType
<1> QED BY <1>1, <1>2, <1>3, HoldersType, SMT DEF Total

\* Whatever happens to pods, lists and backends, the capacity of an endpoint in the
\* map is never lost (AddEndpoint brings its tokens, only LookUp throws one away).
THEOREM TokensKept == Spec => []TokensNotLost
<1>1. Init => TokensNotLost
  BY DEF Init, TokensNotLost
<1>2. ASSUME TypeOK, TokensNotLost, [Next]_vars PROVE TokensNotLost'
  <2> SUFFICES ASSUME NEW k \in Keys, endpoints'[k] # 0
               PROVE  Total(k)' >= podServiceConcurrency
    BY DEF TokensNotLost, Total
  <2>1. endpoints[k] # 0 => Total(k) >= podServiceConcurrency
    BY <1>2 DEF TokensNotLost, Total
  <2>2. CASE \E r \in Requests : RequestStep(r)
    BY <1>2, <2>1, <2>2, RequestTotal
  <2>3. ASSUME NEW j \in Keys, KeyStep(j) PROVE Total(k)' >= podServiceConcurrency
    <3>1. CASE k = j /\ AddEndpoint(j)
      <4>1. puts[k] \in Nat /\ tokens[k] \in Nat /\ Cardinality(Holders(k)) \in Nat
        BY <1>2, HoldersType DEF TypeOK, ReconcileType, DispatchType
      <4>2. Total(k) >= puts[k]
        BY <4>1, SMT DEF Total
      <4>3. Total(k)' = Total(k) - puts[k] + podServiceConcurrency /\ Total(k) \in Nat
        BY <1>2, <2>3, <3>1, KeyTotal
      <4> QED BY <4>1, <4>2, <4>3, DispatcherAssumption, SMT
    <3>2. CASE ~(k = j /\ AddEndpoint(j))
      <4>1. endpoints[k] # 0
        BY <1>2, <2>3, <3>2 DEF KeyStep, PodReady, PodUnready, AddEndpoint, AddFails, PutToken,
           DelEndpoint, TypeOK, ReconcileType
      <4> QED BY <1>2, <2>1, <2>3, <3>2, <4>1, KeyTotal
    <3> QED BY <3>1, <3>2
  <2>4. CASE DeploymentDeleted \/ Reconcile \/ ReconcileDone \/ Cancel \/ UNCHANGED vars
    BY <1>2, <2>1, <2>4, OtherTotal
  <2> QED BY <1>2, <2>2, <2>3, <2>4 DEF Next
<1> QED BY <1>1, <1>2, TypeCorrect, PTL DEF Spec

-----------------------------------------------------------------------------
\* An upper bound, when no pod becomes ready twice under one key and no list fails.

\* A key gets an executor once, its tokens with it, and is not ready after its
\* removal.
KeyOnce(k) ==
  /\ made[k] = 0 => Total(k) = 0 /\ endpoints[k] = 0
  /\ Total(k) <= podServiceConcurrency
  /\ k \in ready \cup add \cup del \/ made[k] # 0 => readied[k] > 0
  /\ k \in add => made[k] = 0
  /\ (made[k] # 0 /\ endpoints[k] = 0) \/ k \in del => k \notin ready

OnceInv == \A k \in Keys : KeyOnce(k)

LEMMA OnceInit == Init => OnceInv
<1> SUFFICES ASSUME Init, NEW k \in Keys PROVE KeyOnce(k)
  BY DEF OnceInv
<1>1. Holders(k) = {}
  BY DispatcherAssumption DEF Init, Holders, At
<1>2. Total(k) = 0
  BY <1>1, FS_EmptySet, SMT DEF Init, Total
<1> QED BY <1>2, DispatcherAssumption, SMT DEF Init, KeyOnce

LEMMA OnceNext ==
  ASSUME MaxReady <= 1, listErrors = FALSE, TypeOK, OnceInv, [Next]_vars
  PROVE  OnceInv'
<1> SUFFICES ASSUME NEW k \in Keys PROVE KeyOnce(k)'
  BY DEF OnceInv
<1>1. KeyOnce(k)
  BY DEF OnceInv
<1>2. CASE \E r \in Requests : RequestStep(r)
  <2>1. PICK r \in Requests : RequestStep(r)
    BY <1>2
  <2>2. UNCHANGED <<ready, readied, add, del>>
    BY <2>1 DEF RequestStep, Send, Run, TakeToken, LookUp, DispatchTimeout, ExecuteReturns,
       ReturnToken, Respond, envVars, recVars
  <2>3. /\ UNCHANGED <<endpoints, made>> /\ Total(k) \in Nat /\ Total(k)' \in Nat
        /\ Total(k)' <= Total(k)
    BY <2>1, RequestTotal, SMT
  <2> QED BY <1>1, <2>2, <2>3, DispatcherAssumption, SMT DEF KeyOnce
<1>3. ASSUME NEW j \in Keys, KeyStep(j) PROVE KeyOnce(k)'
  <2>0. /\ Total(k) \in Nat /\ Total(k)' \in Nat
        /\ Total(k)' = IF k = j /\ AddEndpoint(j)
                       THEN Total(k) - puts[k] + podServiceConcurrency ELSE Total(k)
    BY <1>3, KeyTotal
  <2>1. CASE PodReady(j)
    <3>1. Total(k)' = Total(k)
      BY <2>0, <2>1 DEF PodReady, AddEndpoint, TypeOK, ReconcileType
    <3> QED BY <1>1, <2>1, <3>1, DispatcherAssumption, SMT DEF PodReady, KeyOnce, TypeOK, ReconcileType
  <2>2. CASE PodUnready(j) \/ AddFails(j) \/ PutToken(j) \/ DelEndpoint(j)
    <3>1. made' = made
      BY <2>2 DEF PodUnready, AddFails, PutToken, DelEndpoint
    <3>2. Total(k)' = Total(k)
      BY <2>0, <3>1, SMT DEF AddEndpoint, TypeOK, ReconcileType
    <3>3. CASE PodUnready(j)
      BY <1>1, <3>2, <3>3 DEF PodUnready, KeyOnce
    <3>4. CASE AddFails(j)
      BY <1>1, <3>2, <3>4 DEF AddFails, KeyOnce, envVars
    <3>5. CASE PutToken(j)
      BY <1>1, <3>2, <3>5 DEF PutToken, KeyOnce, envVars, recVars
    <3>6. CASE DelEndpoint(j)
      BY <1>1, <3>2, <3>6 DEF DelEndpoint, KeyOnce, TypeOK, ReconcileType, envVars
    <3> QED BY <2>2, <3>3, <3>4, <3>5, <3>6
  <2>3. CASE AddEndpoint(j)
    <3>1. CASE j # k
      <4>1. Total(k)' = Total(k)
        BY <2>0, <3>1
      <4> QED BY <1>1, <2>3, <3>1, <4>1 DEF AddEndpoint, KeyOnce, TypeOK, ReconcileType, envVars
    <3>2. CASE j = k
      <4>1. puts[k] \in Nat /\ tokens[k] \in Nat /\ Cardinality(Holders(k)) \in Nat
        BY HoldersType DEF TypeOK, ReconcileType, DispatchType
      <4>2. made[k] = 0 /\ Total(k) = 0 /\ readied[k] > 0
        BY <1>1, <2>3, <3>2 DEF AddEndpoint, KeyOnce
      <4>3. puts[k] = 0
        <5>1. tokens[k] + puts[k] + Cardinality(Holders(k)) = 0
          BY <4>2 DEF Total
        <5>2. \A a, b, c \in Nat : a + b + c = 0 => b = 0
          BY SMT
        <5> QED BY <4>1, <5>1, <5>2
      <4>4. Total(k)' = podServiceConcurrency
        BY <2>0, <2>3, <3>2, <4>2, <4>3, DispatcherAssumption, SMT
      <4>5. made'[k] = 1 /\ endpoints'[k] = 1 /\ k \notin add' /\ UNCHANGED <<ready, readied, del>>
        <5>1. made'[k] = made[k] + 1 /\ endpoints'[k] = made[k] + 1
          BY <2>3, <3>2 DEF AddEndpoint, TypeOK, ReconcileType
        <5> QED BY <2>3, <3>2, <4>2, <5>1, SMT DEF AddEndpoint, envVars
      <4> QED BY <1>1, <4>2, <4>4, <4>5, DispatcherAssumption, SMT DEF KeyOnce
    <3> QED BY <3>1, <3>2
  <2> QED BY <1>3, <2>1, <2>2, <2>3 DEF KeyStep
<1>4. CASE Reconcile
  <2>1. UNCHANGED <<endpoints, made, ready, readied>> /\ Total(k)' = Total(k)
    BY <1>4, OtherTotal DEF Reconcile, envVars
  <2>2. \/ UNCHANGED <<add, del>>
        \/ add' = Missing(ready) /\ del' = Stale(ready)
    BY <1>4 DEF Reconcile
  <2> QED BY <1>1, <2>1, <2>2 DEF KeyOnce, Missing, Stale, TypeOK, ReconcileType
<1>5. CASE DeploymentDeleted \/ ReconcileDone \/ Cancel \/ UNCHANGED vars
  <2>1. UNCHANGED <<endpoints, made, ready, readied, add, del>> /\ Total(k)' = Total(k)
    BY <1>5, OtherTotal DEF DeploymentDeleted, ReconcileDone, Cancel, vars, envVars, recVars
  <2> QED BY <1>1, <2>1 DEF KeyOnce
<1> QED BY <1>2, <1>3, <1>4, <1>5 DEF Next

LEMMA OnceBound ==
  ASSUME TypeOK, OnceInv, NEW k \in Keys
  PROVE  Cardinality(Holders(k)) \in Nat /\ Cardinality(Holders(k)) <= podServiceConcurrency
<1>1. tokens[k] \in Nat /\ puts[k] \in Nat /\ Cardinality(Holders(k)) \in Nat
  BY HoldersType DEF TypeOK, ReconcileType, DispatchType
<1>2. Total(k) <= podServiceConcurrency
  BY DEF OnceInv, KeyOnce
<1>3. podServiceConcurrency \in Nat
  BY DispatcherAssumption
<1> QED BY <1>1, <1>2, <1>3, SMT DEF Total

\* As long as no pod becomes ready twice under one key, at most podServiceConcurrency
\* requests are in one pod, however many requests and endpoints there are.
THEOREM ConcurrencyBounded ==
  ASSUME MaxReady <= 1, listErrors = FALSE
  PROVE  Spec => []ServiceConcurrency
<1>1. TypeOK /\ OnceInv => ServiceConcurrency
  <2> SUFFICES ASSUME TypeOK, OnceInv, NEW k \in Keys
               PROVE  Cardinality(Executing(k)) <= podServiceConcurrency
    BY DEF ServiceConcurrency
  <2>1. Executing(k) \subseteq Holders(k) /\ IsFiniteSet(Holders(k))
    BY FS_Subset, DispatcherAssumption DEF Executing, Holders
  <2>2. Cardinality(Executing(k)) <= Cardinality(Holders(k)) /\ Cardinality(Executing(k)) \in Nat
    BY <2>1, FS_Subset, FS_CardinalityType
  <2> QED BY <2>2, OnceBound, DispatcherAssumption, SMT
<1>2. TypeOK /\ OnceInv /\ [Next]_vars => OnceInv'
  BY OnceNext
<1> QED BY <1>1, <1>2, OnceInit, TypeCorrect, PTL DEF Spec

-----------------------------------------------------------------------------
\* An upper bound without a condition on the pods: tokens of removed endpoints may
\* still be there when the endpoint is added again, but none is ever made otherwise.

\* The requests in one pod are at most those that the tokens of all its executors so
\* far allow.
ConcurrencyPerExecutor ==
  \A k \in Keys : Cardinality(Executing(k)) <= podServiceConcurrency * made[k]

\* A pod gets an executor at most once each time it becomes ready.
ExecutorPerReadiness == \A k \in Keys : made[k] <= readied[k]

TokensMade == \A k \in Keys : Total(k) <= podServiceConcurrency * made[k]

LEMMA ExecutingBound ==
  ASSUME TypeOK, NEW k \in Keys
  PROVE  /\ Total(k) \in Nat /\ Cardinality(Executing(k)) \in Nat
         /\ Cardinality(Executing(k)) <= Total(k)
<1>1. Executing(k) \subseteq Holders(k) /\ IsFiniteSet(Holders(k))
  BY FS_Subset, DispatcherAssumption DEF Executing, Holders
<1>2. Cardinality(Executing(k)) <= Cardinality(Holders(k)) /\ Cardinality(Executing(k)) \in Nat
  BY <1>1, FS_Subset, FS_CardinalityType
<1>3. tokens[k] \in Nat /\ puts[k] \in Nat /\ Cardinality(Holders(k)) \in Nat
  BY HoldersType DEF TypeOK, ReconcileType, DispatchType
<1> QED BY <1>2, <1>3, SMT DEF Total

LEMMA TokensMadeNext ==
  ASSUME TypeOK, TokensMade, [Next]_vars
  PROVE  TokensMade'
<1> SUFFICES ASSUME NEW k \in Keys PROVE Total(k)' <= podServiceConcurrency * made'[k]
  BY DEF TokensMade
<1>1. Total(k) <= podServiceConcurrency * made[k] /\ made[k] \in Nat /\ podServiceConcurrency \in Nat
  BY DispatcherAssumption DEF TokensMade, TypeOK, ReconcileType
<1>2. CASE \E r \in Requests : RequestStep(r)
  <2>1. /\ made' = made /\ Total(k) \in Nat /\ Total(k)' \in Nat /\ Total(k)' <= Total(k)
    BY <1>2, RequestTotal, SMT
  <2>2. podServiceConcurrency * made[k] \in Nat
    BY <1>1, SMT
  <2> QED BY <1>1, <2>1, <2>2, SMT
<1>3. ASSUME NEW j \in Keys, KeyStep(j) PROVE Total(k)' <= podServiceConcurrency * made'[k]
  <2>1. /\ Total(k) \in Nat /\ Total(k)' \in Nat
        /\ Total(k)' = IF k = j /\ AddEndpoint(j)
                       THEN Total(k) - puts[k] + podServiceConcurrency ELSE Total(k)
    BY <1>3, KeyTotal
  <2>2. CASE k = j /\ AddEndpoint(j)
    <3>1. made'[k] = made[k] + 1 /\ puts[k] \in Nat
      BY <2>2 DEF AddEndpoint, TypeOK, ReconcileType
    <3>2. podServiceConcurrency * made'[k] = podServiceConcurrency * made[k] + podServiceConcurrency
          /\ podServiceConcurrency * made[k] \in Nat
      BY <1>1, <3>1, SMT
    <3> QED BY <1>1, <2>1, <2>2, <3>1, <3>2, SMT
  <2>3. CASE ~(k = j /\ AddEndpoint(j))
    <3>1. made'[k] = made[k]
      BY <1>3, <2>3 DEF KeyStep, PodReady, PodUnready, AddEndpoint, AddFails, PutToken, DelEndpoint,
         TypeOK, ReconcileType
    <3>2. Total(k)' = Total(k)
      BY <2>1, <2>3
    <3> QED BY <1>1, <3>1, <3>2
  <2> QED BY <2>2, <2>3
<1>4. CASE DeploymentDeleted \/ Reconcile \/ ReconcileDone \/ Cancel \/ UNCHANGED vars
  <2>1. made' = made /\ Total(k)' = Total(k)
    BY <1>4, OtherTotal
  <2> QED BY <1>1, <2>1
<1> QED BY <1>2, <1>3, <1>4 DEF Next

\* However often a pod becomes ready under one key and however List and NewBackend
\* fail, every executor made for it adds podServiceConcurrency to what it may be
\* given at once and no more.
THEOREM ExecutorsBound == Spec => []ConcurrencyPerExecutor
<1>1. ASSUME Init
      PROVE  TokensMade
  <2> SUFFICES ASSUME NEW k \in Keys PROVE Total(k) = 0 /\ podServiceConcurrency * made[k] = 0
    BY SMT DEF TokensMade
  <2>1. Holders(k) = {}
    BY <1>1, DispatcherAssumption DEF Init, Holders, At
  <2>2. Total(k) = 0
    BY <1>1, <2>1, FS_EmptySet, SMT DEF Init, Total
  <2> QED BY <1>1, <2>2, DispatcherAssumption, SMT DEF Init
<1>2. TypeOK /\ TokensMade /\ [Next]_vars => TokensMade'
  BY TokensMadeNext
<1>3. ASSUME TypeOK, TokensMade
      PROVE  ConcurrencyPerExecutor
  <2> SUFFICES ASSUME NEW k \in Keys PROVE Cardinality(Executing(k)) <= podServiceConcurrency * made[k]
    BY DEF ConcurrencyPerExecutor
  <2>1. Total(k) <= podServiceConcurrency * made[k] /\ made[k] \in Nat /\ podServiceConcurrency \in Nat
    BY <1>3, DispatcherAssumption DEF TokensMade, TypeOK, ReconcileType
  <2>2. podServiceConcurrency * made[k] \in Nat
    BY <2>1, SMT
  <2> QED BY <1>3, <2>1, <2>2, ExecutingBound, SMT
<1> QED BY <1>1, <1>2, <1>3, TypeCorrect, PTL DEF Spec

\* An executor that is still to be made for k, now or by a later Reconcile, has its
\* readiness.
KeyReadied(k) ==
  /\ made[k] <= readied[k]
  /\ (k \in ready /\ (endpoints[k] = 0 \/ k \in del)) \/ k \in add => made[k] < readied[k]
  /\ (k \in add => endpoints[k] = 0) /\ (k \in del => endpoints[k] # 0)

ReadiedInv == \A k \in Keys : KeyReadied(k)

LEMMA ReadiedNext ==
  ASSUME listErrors = FALSE, TypeOK, ReadiedInv, [Next]_vars
  PROVE  ReadiedInv'
<1> SUFFICES ASSUME NEW k \in Keys PROVE KeyReadied(k)'
  BY DEF ReadiedInv
<1>1. /\ KeyReadied(k) /\ made[k] \in Nat /\ readied[k] \in Nat
      /\ made \in [Keys -> Nat] /\ readied \in [Keys -> Nat] /\ endpoints \in [Keys -> Nat]
  BY DEF ReadiedInv, TypeOK, ReconcileType
<1>2. CASE \E r \in Requests : RequestStep(r)
  <2>1. UNCHANGED <<ready, readied, add, del, endpoints, made>>
    BY <1>2 DEF RequestStep, Send, Run, TakeToken, LookUp, DispatchTimeout, ExecuteReturns,
       ReturnToken, Respond, envVars, recVars
  <2> QED BY <1>1, <2>1 DEF KeyReadied
<1>3. ASSUME NEW j \in Keys, KeyStep(j) PROVE KeyReadied(k)'
  <2>1. CASE PodReady(j)
    BY <1>1, <2>1, SMT DEF PodReady, KeyReadied
  <2>2. CASE PodUnready(j)
    BY <1>1, <2>2 DEF PodUnready, KeyReadied
  <2>3. CASE AddEndpoint(j)
    BY <1>1, <2>3, SMT DEF AddEndpoint, KeyReadied, envVars
  <2>4. CASE AddFails(j)
    BY <1>1, <2>4 DEF AddFails, KeyReadied, envVars
  <2>5. CASE PutToken(j)
    BY <1>1, <2>5 DEF PutToken, KeyReadied, envVars, recVars
  <2>6. CASE DelEndpoint(j)
    BY <1>1, <2>6 DEF DelEndpoint, KeyReadied, envVars
  <2> QED BY <1>3, <2>1, <2>2, <2>3, <2>4, <2>5, <2>6 DEF KeyStep
<1>4. CASE Reconcile
  <2>1. UNCHANGED <<endpoints, made, ready, readied>>
    BY <1>4 DEF Reconcile, envVars
  <2>2. \/ UNCHANGED <<add, del>>
        \/ add' = Missing(ready) /\ del' = Stale(ready)
    BY <1>4 DEF Reconcile
  <2> QED BY <1>1, <2>1, <2>2 DEF KeyReadied, Missing, Stale
<1>5. CASE DeploymentDeleted \/ ReconcileDone \/ Cancel \/ UNCHANGED vars
  <2>1. UNCHANGED <<endpoints, made, ready, readied, add, del>>
    BY <1>5 DEF DeploymentDeleted, ReconcileDone, Cancel, vars, envVars, recVars
  <2> QED BY <1>1, <2>1 DEF KeyReadied
<1> QED BY <1>2, <1>3, <1>4, <1>5 DEF Next

\* When listing the pods does not fail, Reconcile makes one executor at most for each
\* time a pod becomes ready, so with ExecutorsBound a pod that became ready n times
\* under its key is given n * podServiceConcurrency requests at most.
THEOREM ExecutorsMade ==
  ASSUME listErrors = FALSE
  PROVE  Spec => []ExecutorPerReadiness
<1>1. Init => ReadiedInv
  BY SMT DEF Init, ReadiedInv, KeyReadied
<1>2. TypeOK /\ ReadiedInv /\ [Next]_vars => ReadiedInv'
  BY ReadiedNext
<1>3. ReadiedInv => ExecutorPerReadiness
  BY DEF ReadiedInv, KeyReadied, ExecutorPerReadiness
<1> QED BY <1>1, <1>2, <1>3, TypeCorrect, PTL DEF Spec

-----------------------------------------------------------------------------
\* Refinement.

\* A step of request r changes at most the phase of r.
LEMMA PhaseStep ==
  ASSUME TypeOK, NEW r \in Requests, NEW s, NEW k, NEW e, Becomes(r, s, k, e)
  PROVE  Phases' = [Phases EXCEPT ![r] = Abs(At(s, k, e))]
<1>1. req'[r] = At(s, k, e) /\ \A q \in Requests \ {r} : req'[q] = req[q]
  BY DEF Becomes, TypeOK, DispatchType
<1> QED BY <1>1 DEF Phases

\* The phase of a request that is not in an executor, and of one that is.
LEMMA AbsAt ==
  ASSUME NEW s, NEW k, NEW e
  PROVE  /\ s = "executing" => Abs(At(s, k, e)) = [st |-> "serving", at |-> k]
         /\ s # "executing" => Abs(At(s, k, e)) = [st |-> PhaseAt(s), at |-> NoKey]
BY DEF Abs, At, PhaseAt

LEMMA AbsReq ==
  ASSUME TypeOK, NEW r \in Requests
  PROVE  /\ Phases[r] = Abs(req[r]) /\ Phases[r].st = PhaseAt(req[r].pc)
         /\ req[r].pc # "executing" => Phases[r] = [st |-> PhaseAt(req[r].pc), at |-> NoKey]
         /\ req[r].pc = "executing" => Phases[r] = [st |-> "serving", at |-> req[r].key]
BY DEF Phases, Abs, PhaseAt

\* A step that leaves the phase of its request alone is a stutter of the service.
LEMMA PhaseStutter ==
  ASSUME TypeOK, NEW r \in Requests, NEW s, NEW k, NEW e, Becomes(r, s, k, e),
         req[r].pc # "executing", s # "executing", PhaseAt(s) = PhaseAt(req[r].pc)
  PROVE  Phases' = Phases
<1>1. Phases' = [Phases EXCEPT ![r] = Abs(At(s, k, e))]
  BY PhaseStep
<1>2. Abs(At(s, k, e)) = [st |-> PhaseAt(s), at |-> NoKey]
  BY AbsAt
<1>3. Phases[r] = [st |-> PhaseAt(req[r].pc), at |-> NoKey]
  BY AbsReq
<1>4. Phases' = [Phases EXCEPT ![r] = Phases[r]]
  BY <1>1, <1>2, <1>3
<1> QED BY <1>4 DEF Phases

\* The requests that an endpoint serves are those in its executors.
LEMMA ServingIsExecuting ==
  ASSUME TypeOK, NEW k \in Keys
  PROVE  Service!Serving(k) = Executing(k)
<1>1. \A r \in Requests : Phases[r] = [st |-> "serving", at |-> k] <=> r \in Executing(k)
  <2> SUFFICES ASSUME NEW r \in Requests
               PROVE  Phases[r] = [st |-> "serving", at |-> k] <=> r \in Executing(k)
    OBVIOUS
  <2>1. CASE req[r].pc = "executing"
    <3>1. Phases[r] = [st |-> "serving", at |-> req[r].key]
      BY <2>1, AbsReq
    <3>2. Phases[r] = [st |-> "serving", at |-> k] => Phases[r].at = k
      BY SMT
    <3> QED BY <2>1, <3>1, <3>2, SMT DEF Executing
  <2>2. CASE req[r].pc # "executing"
    <3>1. Phases[r] = [st |-> PhaseAt(req[r].pc), at |-> NoKey]
      BY <2>2, AbsReq
    <3>2. Phases[r] = [st |-> "serving", at |-> k] => Phases[r].at = k
      BY SMT
    <3> QED BY <2>2, <3>1, <3>2, DispatcherAssumption, SMT DEF Executing
  <2> QED BY <2>1, <2>2
<1> QED BY <1>1 DEF Service!Serving, Executing

\* The token a request holds guarantees that its endpoint has a free slot.
LEMMA SlotFree ==
  ASSUME TypeOK, OnceInv, NEW r \in Requests, NEW k \in Keys, req[r].key = k, req[r].pc # "executing"
  PROVE  Cardinality(Executing(k)) < podServiceConcurrency
<1>1. /\ Executing(k) \cup {r} \subseteq Holders(k) /\ r \notin Executing(k)
      /\ IsFiniteSet(Holders(k)) /\ IsFiniteSet(Executing(k))
  BY FS_Subset, DispatcherAssumption DEF Executing, Holders
<1>2. Cardinality(Executing(k) \cup {r}) = Cardinality(Executing(k)) + 1
  BY <1>1, FS_AddElement
<1>3. Cardinality(Executing(k) \cup {r}) <= Cardinality(Holders(k)) /\ Cardinality(Executing(k)) \in Nat
  BY <1>1, FS_Subset, FS_CardinalityType
<1> QED BY <1>2, <1>3, OnceBound, DispatcherAssumption, SMT

LEMMA RequestRefines ==
  ASSUME TypeOK, OnceInv, NEW r \in Requests, RequestStep(r)
  PROVE  Service!SNext \/ UNCHANGED Service!svars
<1>1. Known' = Known
  BY DEF RequestStep, Send, Run, TakeToken, LookUp, DispatchTimeout, ExecuteReturns, ReturnToken,
     Respond, Known
<1>2. CASE Send(r)
  <2>1. Becomes(r, "sent", NoKey, 0) /\ req[r].pc = "none"
    BY <1>2 DEF Send
  <2>2. Phases' = [Phases EXCEPT ![r] = [st |-> "waiting", at |-> NoKey]]
    BY <2>1, PhaseStep, AbsAt, SMT DEF PhaseAt
  <2>3. Phases[r].st = "none"
    BY <2>1, AbsReq DEF PhaseAt
  <2>4. Service!Submit(r)
    BY <1>1, <2>2, <2>3 DEF Service!Submit, Service!To
  <2> QED BY <2>4 DEF Service!SNext
<1>3. CASE Run(r) \/ (\E k \in Keys : TakeToken(r, k)) \/ ReturnToken(r)
  <2>1. PICK s, k : /\ Becomes(r, s, k, 0) /\ req[r].pc # "executing" /\ s # "executing"
                    /\ PhaseAt(s) = PhaseAt(req[r].pc)
    BY <1>3, SMT DEF Run, TakeToken, ReturnToken, PhaseAt
  <2> QED BY <1>1, <2>1, PhaseStutter DEF Service!svars
<1>4. CASE LookUp(r)
  <2>1. CASE endpoints[req[r].key] = 0 /\ Becomes(r, "dispatching", NoKey, 0)
    <3>1. req[r].pc # "executing" /\ PhaseAt("dispatching") = PhaseAt(req[r].pc)
      BY <1>4 DEF LookUp, PhaseAt
    <3> QED BY <1>1, <2>1, <3>1, PhaseStutter DEF Service!svars
  <2>2. CASE endpoints[req[r].key] # 0 /\ Becomes(r, "executing", req[r].key, endpoints[req[r].key])
    <3> DEFINE k == req[r].key
    <3>1. k \in Keys /\ k \in Known /\ req[r].pc = "taken"
      BY <1>4, <2>2 DEF LookUp, TypeOK, DispatchType, Known
    <3>2. Phases' = [Phases EXCEPT ![r] = [st |-> "serving", at |-> k]]
      BY <2>2, PhaseStep, AbsAt, SMT
    <3>3. Phases[r].st = "waiting"
      BY <3>1, AbsReq DEF PhaseAt
    <3>4. Cardinality(Service!Serving(k)) < podServiceConcurrency
      BY <3>1, ServingIsExecuting, SlotFree
    <3> HIDE DEF k
    <3>5. Service!Assign(r, k)
      <4>1. Service!Cardinality(Service!Serving(k)) < podServiceConcurrency
        BY <3>4 DEF Service!Cardinality, Cardinality, Service!IsFiniteSet, IsFiniteSet
      <4> QED BY <1>1, <3>1, <3>2, <3>3, <4>1 DEF Service!Assign, Service!To
    <3> QED BY <3>1, <3>5 DEF Service!SNext
  <2> QED BY <1>4, <2>1, <2>2 DEF LookUp
<1>5. CASE ExecuteReturns(r)
  <2>1. Becomes(r, "returning", req[r].key, 0) /\ req[r].pc = "executing"
    BY <1>5 DEF ExecuteReturns
  <2>2. Phases' = [Phases EXCEPT ![r] = [st |-> "served", at |-> NoKey]]
    BY <2>1, PhaseStep, AbsAt, SMT DEF PhaseAt
  <2>3. Phases[r].st = "serving"
    BY <2>1, AbsReq DEF PhaseAt
  <2>4. Service!Finish(r)
    BY <1>1, <2>2, <2>3 DEF Service!Finish, Service!To
  <2> QED BY <2>4 DEF Service!SNext
<1>6. CASE DispatchTimeout(r) \/ Respond(r)
  <2>1. Becomes(r, "answered", NoKey, 0) /\ req[r].pc \in {"dispatching", "responding"}
    BY <1>6 DEF DispatchTimeout, Respond
  <2>2. Phases' = [Phases EXCEPT ![r] = [st |-> "answered", at |-> NoKey]]
    BY <2>1, PhaseStep, AbsAt, SMT DEF PhaseAt
  <2>3. Phases[r].st \in {"waiting", "served"}
    BY <2>1, AbsReq DEF PhaseAt
  <2>4. Service!Answer(r)
    BY <1>1, <2>2, <2>3 DEF Service!Answer, Service!To
  <2> QED BY <2>4 DEF Service!SNext
<1> QED BY <1>2, <1>3, <1>4, <1>5, <1>6 DEF RequestStep

\* The dispatcher implements the abstract dispatch service as long as no pod becomes
\* ready twice under one key: a request is assigned once, to an endpoint that is
\* known and has a free slot, and answered once.
THEOREM DispatcherRefines ==
  ASSUME MaxReady <= 1, listErrors = FALSE
  PROVE  Spec => ImplementsService
<1>1. Init => Service!SInit
  <2> SUFFICES ASSUME Init PROVE Known = {} /\ Phases = [r \in Requests |-> [st |-> "none", at |-> NoKey]]
    BY DEF Service!SInit
  <2>1. \A r \in Requests : Abs(At("none", NoKey, 0)) = [st |-> "none", at |-> NoKey]
    BY AbsAt, SMT DEF PhaseAt
  <2> QED BY <2>1 DEF Init, Known, Phases
<1>2. ASSUME TypeOK, OnceInv, [Next]_vars PROVE [Service!SNext]_(Service!svars)
  <2>1. CASE \E r \in Requests : RequestStep(r)
    BY <1>2, <2>1, RequestRefines
  <2>2. ASSUME NEW k \in Keys, KeyStep(k) PROVE Service!SNext \/ UNCHANGED Service!svars
    <3>1. Phases' = Phases
      BY <2>2 DEF KeyStep, PodReady, PodUnready, AddEndpoint, AddFails, PutToken, DelEndpoint, Phases
    <3>2. CASE AddEndpoint(k)
      <4>1. Known' = Known \cup {k}
        BY <1>2, <3>2, SMT DEF AddEndpoint, Known, TypeOK, ReconcileType
      <4> QED BY <3>1, <4>1 DEF Service!SNext, Service!Discover
    <3>3. CASE DelEndpoint(k)
      <4>1. Known' = Known \ {k}
        BY <1>2, <3>3 DEF DelEndpoint, Known, TypeOK, ReconcileType
      <4> QED BY <3>1, <4>1 DEF Service!SNext, Service!Forget
    <3>4. CASE PodReady(k) \/ PodUnready(k) \/ AddFails(k) \/ PutToken(k)
      <4>1. Known' = Known
        BY <3>4 DEF PodReady, PodUnready, AddFails, PutToken, Known
      <4> QED BY <3>1, <4>1 DEF Service!svars
    <3> QED BY <2>2, <3>2, <3>3, <3>4 DEF KeyStep
  <2>3. CASE DeploymentDeleted \/ Reconcile \/ ReconcileDone \/ Cancel \/ UNCHANGED vars
    <3>1. Known' = Known /\ Phases' = Phases
      BY <2>3 DEF DeploymentDeleted, Reconcile, ReconcileDone, Cancel, vars, Known, Phases
    <3> QED BY <3>1 DEF Service!svars
  <2> QED BY <1>2, <2>1, <2>2, <2>3 DEF Next
<1>3. TypeOK /\ OnceInv /\ [Next]_vars => OnceInv'
  BY OnceNext
<1> QED BY <1>1, <1>2, <1>3, OnceInit, TypeCorrect, PTL DEF Spec, ImplementsService, Service!SSpec
=============================================================================
