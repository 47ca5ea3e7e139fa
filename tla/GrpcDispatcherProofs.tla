------------------------ MODULE GrpcDispatcherProofs ------------------------
(* Proofs about the dispatcher with its gRPC executors.  Every step of it is a
   step of the dispatcher, so what is proved of the dispatcher carries over; what
   is left is to count the connections of an executor. *)
EXTENDS GrpcDispatcher, PodDispatcherProofs

\* Most steps need no arithmetic and go to Zenon; the others cite SMT.
USE Zenon

LEMMA GrpcStepIsStep == [GrpcNext]_allVars => [Next]_vars
BY DEF GrpcNext, Reconciler, Closer, Handler, Environment, newGrpcBackend, Close, getClient, newClient,
   newClientFails, Execute, Next, KeyStep, RequestStep, allVars

\* With gRPC executors the dispatcher is still the dispatcher.
LEMMA GrpcIsDispatcher == GrpcSpec => Spec
<1>1. GrpcInit => Init
  BY DEF GrpcInit
<1> QED BY <1>1, GrpcStepIsStep, PTL DEF GrpcSpec, Spec

-----------------------------------------------------------------------------
\* A step that only concerns the dispatcher: what is in an executor stays as it is,
\* a request that enters one enters the current one, endpoints are at most removed.
Quiet ==
  /\ UNCHANGED <<grpcVars, made>>
  /\ \A k \in Keys : endpoints'[k] \in {endpoints[k], 0}
  /\ \A r \in Requests :
       \/ req'[r] = req[r]
       \/ req[r].pc # "executing" /\ req'[r].pc # "executing"
       \/ /\ conn[r] # "open" /\ conn[r] # "waiting" /\ req'[r].pc # "executing"
       \/ /\ req[r].pc = "taken" /\ req'[r].pc = "executing" /\ req'[r].key \in Keys
          /\ endpoints[req'[r].key] # 0 /\ req'[r].exec = endpoints[req'[r].key]

LEMMA ReqStep ==
  ASSUME TypeOK, NEW r \in Requests, NEW s, NEW k, NEW e, Becomes(r, s, k, e)
  PROVE  /\ req'[r] = At(s, k, e) /\ At(s, k, e).pc = s /\ At(s, k, e).key = k /\ At(s, k, e).exec = e
         /\ \A q \in Requests \ {r} : req'[q] = req[q]
BY DEF TypeOK, DispatchType, Becomes, At

LEMMA QuietSteps ==
  ASSUME TypeOK, GrpcTypeOK, GrpcNext
  PROVE  \/ Quiet
         \/ \E k \in Keys : newGrpcBackend(k) \/ \E e \in Executors(k) : Close(k, e)
         \/ \E r \in Requests : getClient(r) \/ newClient(r) \/ Execute(r)
<1>1. ASSUME Reconciler PROVE Quiet
  <2>1. UNCHANGED <<grpcVars, made, req>>
    BY <1>1 DEF Reconciler, Reconcile, ReconcileDone, PutToken, DelEndpoint
  <2>2. \A k \in Keys : endpoints'[k] \in {endpoints[k], 0}
    BY <1>1 DEF Reconciler, Reconcile, ReconcileDone, PutToken, DelEndpoint, TypeOK, ReconcileType
  <2> QED BY <2>1, <2>2 DEF Quiet
<1>2. ASSUME NEW r \in Requests, UNCHANGED grpcVars,
             Send(r) \/ Run(r) \/ DispatchTimeout(r) \/ ReturnToken(r) \/ Respond(r) \/ LookUp(r)
             \/ \E k \in Keys : TakeToken(r, k)
      PROVE  Quiet
  <2>1. UNCHANGED <<grpcVars, made, endpoints>>
    BY <1>2 DEF Send, Run, DispatchTimeout, ReturnToken, Respond, LookUp, TakeToken
  <2>2. CASE LookUp(r)
    <3>1. req[r].pc = "taken" /\ req[r].key \in Keys
      BY <2>2, DispatcherAssumption DEF LookUp, TypeOK, DispatchType
    <3>2. CASE endpoints[req[r].key] = 0
      <4>1. Becomes(r, "dispatching", NoKey, 0)
        BY <2>2, <3>2 DEF LookUp
      <4> QED BY <2>1, <3>1, <4>1, ReqStep, SMT DEF Quiet
    <3>3. CASE endpoints[req[r].key] # 0
      <4>1. Becomes(r, "executing", req[r].key, endpoints[req[r].key])
        BY <2>2, <3>3 DEF LookUp
      <4> QED BY <2>1, <3>1, <3>3, <4>1, ReqStep, SMT DEF Quiet
    <3> QED BY <3>2, <3>3
  <2>3. CASE Send(r) \/ Run(r) \/ DispatchTimeout(r) \/ ReturnToken(r) \/ Respond(r)
             \/ \E k \in Keys : TakeToken(r, k)
    <3>1. req[r].pc # "executing" /\ \E s, k : s # "executing" /\ Becomes(r, s, k, 0)
      BY <2>3 DEF Send, Run, DispatchTimeout, ReturnToken, Respond, TakeToken
    <3> QED BY <2>1, <3>1, ReqStep, SMT DEF Quiet
  <2> QED BY <1>2, <2>2, <2>3
<1>3. ASSUME NEW r \in Requests, newClientFails(r) PROVE Quiet
  <2>1. conn[r] = "none" /\ Becomes(r, "returning", req[r].key, 0)
    BY <1>3 DEF newClientFails, ExecuteReturns
  <2>2. UNCHANGED <<grpcVars, made, endpoints>>
    BY <1>3 DEF newClientFails, ExecuteReturns
  <2> QED BY <2>1, <2>2, ReqStep, SMT DEF Quiet
<1>4. ASSUME UNCHANGED grpcVars, \/ \E k \in Keys : PodReady(k) \/ PodUnready(k) \/ AddFails(k)
                                 \/ DeploymentDeleted \/ Cancel
      PROVE  Quiet
  <2>1. UNCHANGED <<grpcVars, made, endpoints, req>>
    BY <1>4 DEF PodReady, PodUnready, AddFails, DeploymentDeleted, Cancel
  <2> QED BY <2>1 DEF Quiet
<1>5. ASSUME Environment PROVE Quiet
  BY <1>2, <1>4, <1>5 DEF Environment
<1>6. ASSUME NEW r \in Requests, Handler(r)
      PROVE  Quiet \/ getClient(r) \/ newClient(r) \/ Execute(r)
  BY <1>2, <1>3, <1>6 DEF Handler
<1> QED BY <1>1, <1>5, <1>6 DEF GrpcNext, Closer

-----------------------------------------------------------------------------
\* What an assignment to one place of the pools does.
LEMMA PoolStep ==
  ASSUME GrpcTypeOK, NEW k \in Keys, NEW e \in Executors(k), NEW n \in Nat,
         pool' = [pool EXCEPT ![k][e] = n]
  PROVE  /\ pool' \in [Keys -> Seq(Nat)]
         /\ \A j \in Keys : Len(pool'[j]) = Len(pool[j])
         /\ \A j \in Keys : \A i \in Executors(j) : j # k \/ i # e => pool'[j][i] = pool[j][i]
<1>1. pool[k] \in Seq(Nat) /\ Len(pool[k]) = made[k] /\ e \in 1 .. Len(pool[k])
  BY DEF GrpcTypeOK, Executors
<1>2. pool' = [pool EXCEPT ![k] = [pool[k] EXCEPT ![e] = n]]
  BY DEF GrpcTypeOK
<1>3. /\ [pool[k] EXCEPT ![e] = n] \in Seq(Nat) /\ Len([pool[k] EXCEPT ![e] = n]) = Len(pool[k])
      /\ [pool[k] EXCEPT ![e] = n][e] = n
      /\ \A i \in 1 .. Len(pool[k]) : i # e => [pool[k] EXCEPT ![e] = n][i] = pool[k][i]
  BY <1>1, SMT
<1>4. pool'[k] = [pool[k] EXCEPT ![e] = n] /\ \A j \in Keys : j # k => pool'[j] = pool[j]
  BY <1>2 DEF GrpcTypeOK
<1>5. pool' \in [Keys -> Seq(Nat)]
  BY <1>2, <1>3 DEF GrpcTypeOK
<1>6. \A j \in Keys : Len(pool'[j]) = Len(pool[j])
  BY <1>3, <1>4
<1>7. \A j \in Keys : \A i \in Executors(j) : j # k \/ i # e => pool'[j][i] = pool[j][i]
  BY <1>1, <1>3, <1>4, SMT DEF Executors
<1> QED BY <1>3, <1>4, <1>5, <1>6, <1>7

\* The pool of the executor that a request in Execute is in.
LEMMA InExecutor ==
  ASSUME TypeOK, GrpcTypeOK, NEW r \in Requests, req[r].pc = "executing"
  PROVE  /\ req[r].key \in Keys /\ req[r].exec \in Executors(req[r].key)
         /\ Pooled(r) \in Nat /\ Pooled(r) = pool[req[r].key][req[r].exec]
<1>1. req[r].key \in Keys
  BY DispatcherAssumption DEF TypeOK, DispatchType
<1>2. req[r].exec \in Executors(req[r].key)
  BY DEF GrpcTypeOK
<1>3. pool[req[r].key] \in Seq(Nat) /\ Len(pool[req[r].key]) = made[req[r].key]
  BY <1>1 DEF GrpcTypeOK
<1> QED BY <1>1, <1>2, <1>3, SMT DEF Pooled, Executors

LEMMA ClientPool ==
  ASSUME TypeOK, GrpcTypeOK, NEW r \in Requests, req[r].pc = "executing", NEW n \in Nat,
         pool' = [pool EXCEPT ![req[r].key][req[r].exec] = n]
  PROVE  /\ pool'[req[r].key][req[r].exec] = n
         /\ \A j \in Keys : \A i \in Executors(j) :
              j # req[r].key \/ i # req[r].exec => pool'[j][i] = pool[j][i]
<1>1. PICK k \in Keys : k = req[r].key
  BY InExecutor
<1>2. PICK e \in Executors(k) : e = req[r].exec
  BY <1>1, InExecutor
<1>3. pool' = [pool EXCEPT ![k][e] = n]
  BY <1>1, <1>2
<1>4. pool'[k][e] = n
  <2>1. pool[k] \in Seq(Nat) /\ e \in 1 .. Len(pool[k])
    BY DEF GrpcTypeOK, Executors
  <2>2. pool'[k] = [pool[k] EXCEPT ![e] = n]
    BY <1>3 DEF GrpcTypeOK
  <2> QED BY <2>1, <2>2, SMT
<1>5. ASSUME NEW j \in Keys, NEW i \in Executors(j), j # k \/ i # e
      PROVE  pool'[j][i] = pool[j][i]
  BY <1>3, <1>5, PoolStep, SMT
<1> QED BY <1>1, <1>2, <1>4, <1>5

\* getClient, newClient and Execute: one request's connection and one pool change.
LEMMA ClientStep ==
  ASSUME TypeOK, GrpcTypeOK, NEW r \in Requests, getClient(r) \/ newClient(r) \/ Execute(r)
  PROVE  /\ req[r].pc = "executing" /\ UNCHANGED <<endpoints, made>>
         /\ \A q \in Requests \ {r} : conn'[q] = conn[q] /\ req'[q] = req[q]
         /\ \E n \in Nat : /\ pool' = [pool EXCEPT ![req[r].key][req[r].exec] = n]
                          /\ \/ getClient(r) /\ n = Pooled(r) - 1
                             \/ newClient(r) /\ n = Pooled(r) + grpcExecutorConcurrency
                             \/ Execute(r) /\ n = Pooled(r) + 1
         /\ getClient(r) => conn[r] # "open" /\ conn'[r] = "open" /\ req'[r] = req[r]
         /\ newClient(r) => conn[r] = "none" /\ conn'[r] = "waiting" /\ req'[r] = req[r]
         /\ Execute(r) => conn[r] = "open" /\ conn'[r] = "none" /\ req'[r].pc = "returning"
<1>1. req[r].pc = "executing"
  BY DEF getClient, newClient, Execute, ExecuteReturns
<1>2. Pooled(r) \in Nat /\ Pooled(r) = pool[req[r].key][req[r].exec]
  BY <1>1, InExecutor
<1>3. conn \in [Requests -> {"none", "waiting", "open"}]
  BY DEF GrpcTypeOK
<1>4. CASE getClient(r)
  <2>1. UNCHANGED <<endpoints, made, req>>
    BY <1>4 DEF getClient, vars
  <2>2. Pooled(r) - 1 \in Nat /\ pool' = [pool EXCEPT ![req[r].key][req[r].exec] = Pooled(r) - 1]
    BY <1>2, <1>4, SMT DEF getClient, Pooled
  <2>3. conn' = [conn EXCEPT ![r] = "open"] /\ conn[r] # "open"
    BY <1>4 DEF getClient
  <2>4. ~newClient(r) /\ ~Execute(r)
    BY <1>3, <2>3 DEF newClient, Execute
  <2> QED BY <1>1, <1>3, <1>4, <2>1, <2>2, <2>3, <2>4
<1>5. CASE newClient(r)
  <2>1. UNCHANGED <<endpoints, made, req>>
    BY <1>5 DEF newClient, vars
  <2>2. /\ Pooled(r) + grpcExecutorConcurrency \in Nat
        /\ pool' = [pool EXCEPT ![req[r].key][req[r].exec] = Pooled(r) + grpcExecutorConcurrency]
    <3>1. Pooled(r) + grpcExecutorConcurrency \in Nat
      BY <1>2, GrpcAssumption, SMT
    <3>2. pool' = [pool EXCEPT ![req[r].key][req[r].exec] = Pooled(r) + grpcExecutorConcurrency]
      BY <1>5 DEF newClient, Pooled, Put
    <3> QED BY <3>1, <3>2
  <2>3. conn' = [conn EXCEPT ![r] = "waiting"] /\ conn[r] = "none"
    BY <1>5 DEF newClient
  <2>4. ~getClient(r) /\ ~Execute(r)
    BY <1>3, <2>3 DEF getClient, Execute
  <2> QED BY <1>1, <1>3, <1>5, <2>1, <2>2, <2>3, <2>4
<1>6. CASE Execute(r)
  <2>1. UNCHANGED <<endpoints, made>> /\ Becomes(r, "returning", req[r].key, 0)
    BY <1>6 DEF Execute, ExecuteReturns
  <2>2. Pooled(r) + 1 \in Nat /\ pool' = [pool EXCEPT ![req[r].key][req[r].exec] = Pooled(r) + 1]
    BY <1>2, <1>6, SMT DEF Execute, Pooled, Put
  <2>3. conn' = [conn EXCEPT ![r] = "none"] /\ conn[r] = "open"
    BY <1>6 DEF Execute
  <2>4. ~getClient(r) /\ ~newClient(r)
    BY <1>3, <2>3 DEF getClient, newClient
  <2>5. req'[r].pc = "returning" /\ \A q \in Requests \ {r} : req'[q] = req[q]
    BY <2>1, ReqStep, SMT
  <2> QED BY <1>1, <1>3, <1>6, <2>1, <2>2, <2>3, <2>4, <2>5
<1> QED BY <1>4, <1>5, <1>6

-----------------------------------------------------------------------------
LEMMA GrpcTypeNext == TypeOK /\ GrpcTypeOK /\ [GrpcNext]_allVars => GrpcTypeOK'
<1> SUFFICES ASSUME TypeOK, GrpcTypeOK, [GrpcNext]_allVars PROVE GrpcTypeOK'
  OBVIOUS
<1>0. /\ endpoints \in [Keys -> Nat] /\ made \in [Keys -> Nat]
      /\ \A r \in Requests : req[r].pc = "executing" => req[r].key \in Keys
  BY DispatcherAssumption DEF TypeOK, ReconcileType, DispatchType
<1>1. CASE Quiet
  <2>1. UNCHANGED <<pool, conn, made>>
    BY <1>1 DEF Quiet, grpcVars
  <2>2. \A k \in Keys : Len(pool'[k]) = made'[k] /\ endpoints'[k] <= made'[k]
    <3> SUFFICES ASSUME NEW k \in Keys PROVE Len(pool[k]) = made[k] /\ endpoints'[k] <= made[k]
      BY <2>1
    <3>1. endpoints'[k] = endpoints[k] \/ endpoints'[k] = 0
      BY <1>1 DEF Quiet
    <3>2. Len(pool[k]) = made[k] /\ endpoints[k] <= made[k] /\ made[k] \in Nat
      BY <1>0 DEF GrpcTypeOK
    <3> QED BY <3>1, <3>2, SMT
  <2>3. ASSUME NEW r \in Requests
        PROVE  /\ conn'[r] # "none" => req'[r].pc = "executing"
               /\ req'[r].pc = "executing" => req'[r].exec \in 1 .. made'[req'[r].key]
    <3>1. CASE req'[r] = req[r]
      BY <2>1, <3>1 DEF GrpcTypeOK, Executors
    <3>2. CASE req[r].pc # "executing" /\ req'[r].pc # "executing"
      BY <2>1, <3>2 DEF GrpcTypeOK
    <3>3. CASE conn[r] # "open" /\ conn[r] # "waiting" /\ req'[r].pc # "executing"
      BY <2>1, <3>3 DEF GrpcTypeOK
    <3>4. CASE /\ req[r].pc = "taken" /\ req'[r].pc = "executing" /\ req'[r].key \in Keys
               /\ endpoints[req'[r].key] # 0 /\ req'[r].exec = endpoints[req'[r].key]
      BY <1>0, <2>1, <3>4, SMT DEF GrpcTypeOK
    <3> QED BY <1>1, <3>1, <3>2, <3>3, <3>4 DEF Quiet
  <2> QED BY <2>1, <2>2, <2>3 DEF GrpcTypeOK, Executors
<1>2. ASSUME NEW k \in Keys, newGrpcBackend(k) PROVE GrpcTypeOK'
  <2>1. /\ UNCHANGED <<req, conn>> /\ endpoints' = [endpoints EXCEPT ![k] = made[k] + 1]
        /\ made' = [made EXCEPT ![k] = @ + 1]
        /\ pool' = [pool EXCEPT ![k] = Append(@, grpcExecutorConcurrency)]
    BY <1>2 DEF newGrpcBackend, AddEndpoint
  <2>2. /\ Append(pool[k], grpcExecutorConcurrency) \in Seq(Nat)
        /\ Len(Append(pool[k], grpcExecutorConcurrency)) = made[k] + 1
    BY GrpcAssumption, SMT DEF GrpcTypeOK
  <2>3. pool' \in [Keys -> Seq(Nat)]
    BY <2>1, <2>2 DEF GrpcTypeOK
  <2>4. \A j \in Keys : Len(pool'[j]) = made'[j] /\ endpoints'[j] <= made'[j]
    BY <1>0, <2>1, <2>2, SMT DEF GrpcTypeOK
  <2>5. \A r \in Requests : req[r].pc = "executing" => req[r].exec \in 1 .. made'[req[r].key]
    BY <1>0, <2>1, SMT DEF GrpcTypeOK, Executors
  <2> QED BY <2>1, <2>3, <2>4, <2>5 DEF GrpcTypeOK, Executors
<1>3. ASSUME NEW k \in Keys, NEW e \in Executors(k), Close(k, e) PROVE GrpcTypeOK'
  <2>1. UNCHANGED <<endpoints, made, req, conn>>
    BY <1>3 DEF Close, vars
  <2>2. pool[k][e] - 1 \in Nat /\ pool' = [pool EXCEPT ![k][e] = pool[k][e] - 1]
    BY <1>0, <1>3, SMT DEF Close, GrpcTypeOK, Executors
  <2>3. pool' \in [Keys -> Seq(Nat)] /\ \A j \in Keys : Len(pool'[j]) = Len(pool[j])
    BY <2>2, PoolStep
  <2> QED BY <2>1, <2>3 DEF GrpcTypeOK, Executors
<1>4. ASSUME NEW r \in Requests, getClient(r) \/ newClient(r) \/ Execute(r) PROVE GrpcTypeOK'
  <2>1. /\ req[r].pc = "executing" /\ UNCHANGED <<endpoints, made>>
        /\ \A q \in Requests \ {r} : conn'[q] = conn[q] /\ req'[q] = req[q]
        /\ \E n \in Nat : pool' = [pool EXCEPT ![req[r].key][req[r].exec] = n]
        /\ \/ conn'[r] = "none" /\ req'[r].pc = "returning"
           \/ req'[r] = req[r]
    BY <1>4, ClientStep
  <2>2. req[r].key \in Keys /\ req[r].exec \in Executors(req[r].key)
    BY <2>1, InExecutor
  <2>3. pool' \in [Keys -> Seq(Nat)] /\ \A j \in Keys : Len(pool'[j]) = Len(pool[j])
    <3>1. PICK n \in Nat : pool' = [pool EXCEPT ![req[r].key][req[r].exec] = n]
      BY <2>1
    <3> QED BY <2>2, <3>1, PoolStep
  <2>4. conn' \in [Requests -> {"none", "waiting", "open"}]
    BY <1>4 DEF getClient, newClient, Execute, GrpcTypeOK
  <2>5. \A q \in Requests :
          /\ conn'[q] # "none" => req'[q].pc = "executing"
          /\ req'[q].pc = "executing" => req'[q].exec \in 1 .. made'[req'[q].key]
    BY <2>1 DEF GrpcTypeOK, Executors
  <2> QED BY <2>1, <2>3, <2>4, <2>5 DEF GrpcTypeOK, Executors
<1>5. CASE UNCHANGED allVars
  BY <1>5 DEF allVars, vars, GrpcTypeOK, Executors
<1> QED BY <1>1, <1>2, <1>3, <1>4, <1>5, QuietSteps

\* Connections belong to requests that are in an executor that was made.
THEOREM GrpcTypeCorrect == GrpcSpec => []GrpcTypeOK
<1>1. GrpcInit => GrpcTypeOK
  <2> SUFFICES ASSUME GrpcInit PROVE GrpcTypeOK
    OBVIOUS
  <2>1. pool = [k \in Keys |-> <<>>] /\ conn = [r \in Requests |-> "none"]
    BY DEF GrpcInit
  <2>2. \A k \in Keys : made[k] = 0 /\ endpoints[k] = 0
    BY DEF GrpcInit, Init
  <2>3. \A r \in Requests : req[r].pc = "none"
    BY DEF GrpcInit, Init, At
  <2>4. \A k \in Keys : pool[k] = <<>>
    BY <2>1
  <2>5. pool \in [Keys -> Seq(Nat)] /\ \A k \in Keys : Len(pool[k]) = 0
    BY <2>1, <2>4, SMT
  <2> QED BY <2>1, <2>2, <2>3, <2>5, SMT DEF GrpcTypeOK
<1>2. GrpcSpec => []TypeOK
  BY GrpcIsDispatcher, TypeCorrect, PTL
<1> QED BY <1>1, <1>2, GrpcTypeNext, PTL DEF GrpcSpec

-----------------------------------------------------------------------------
\* The requests that use a connection of executor e of k, by connection alone.
LEMMA UsingType ==
  ASSUME NEW k, NEW e
  PROVE  /\ Using(k, e) \in SUBSET Requests
         /\ IsFiniteSet(Using(k, e)) /\ Cardinality(Using(k, e)) \in Nat
<1>1. Using(k, e) \in SUBSET Requests
  BY DEF Using, Executing
<1> QED BY <1>1, FS_Subset, FS_CardinalityType, DispatcherAssumption

\* PoolExact for one endpoint.
Exact(k) ==
  endpoints[k] # 0 =>
    \E calls \in Nat \ {0} :
      pool[k][endpoints[k]] + Cardinality(Using(k, endpoints[k])) = calls * grpcExecutorConcurrency

LEMMA CallsBounded ==
  ASSUME NEW n \in Nat, NEW calls \in Nat \ {0}, n = calls * grpcExecutorConcurrency
  PROVE  calls \in 1 .. n
<1>1. grpcExecutorConcurrency \in Nat \ {0}
  BY GrpcAssumption
<1>2. PICK m \in Nat : grpcExecutorConcurrency = m + 1
  BY <1>1, SMT
<1>3. n = calls * m + calls /\ calls * m \in Nat
  BY <1>2, SMT
<1> QED BY <1>3, SMT

LEMMA ExactImplies == TypeOK /\ GrpcTypeOK /\ (\A k \in Keys : Exact(k)) => PoolExact
<1> SUFFICES ASSUME TypeOK, GrpcTypeOK, \A k \in Keys : Exact(k),
                    NEW k \in Keys, endpoints[k] # 0
             PROVE  LET n == pool[k][endpoints[k]] + Cardinality(Using(k, endpoints[k])) IN
                    \E calls \in 1 .. n : n = calls * grpcExecutorConcurrency
  BY DEF PoolExact
<1> DEFINE n == pool[k][endpoints[k]] + Cardinality(Using(k, endpoints[k]))
<1>1. endpoints[k] \in 1 .. Len(pool[k]) /\ pool[k] \in Seq(Nat)
  BY SMT DEF TypeOK, ReconcileType, GrpcTypeOK
<1>2. Cardinality(Using(k, endpoints[k])) \in Nat
  BY UsingType
<1>3. n \in Nat
  BY <1>1, <1>2, SMT
<1>4. PICK calls \in Nat \ {0} : n = calls * grpcExecutorConcurrency
  BY DEF Exact
<1> HIDE DEF n
<1>5. calls \in 1 .. n
  BY <1>3, <1>4, CallsBounded
<1>6. \E c \in 1 .. n : n = c * grpcExecutorConcurrency
  BY <1>4, <1>5
<1> QED BY <1>6 DEF n

\* A step that leaves the endpoint's executor, its pool and the connections in use.
LEMMA ExactKept ==
  ASSUME NEW k \in Keys, Exact(k), endpoints'[k] = endpoints[k],
         pool'[k][endpoints[k]] = pool[k][endpoints[k]],
         Using(k, endpoints[k])' = Using(k, endpoints[k])
  PROVE  Exact(k)'
<1> DEFINE A == Using(k, endpoints[k])
<1>1. Using(k, endpoints[k])' = A
  OBVIOUS
<1> HIDE DEF A
<1>2. Cardinality(Using(k, endpoints[k])') = Cardinality(A)
  BY <1>1
<1> QED BY <1>2 DEF Exact, A

LEMMA ExactNext ==
  ASSUME TypeOK, GrpcTypeOK, [GrpcNext]_allVars, NEW k \in Keys, Exact(k)
  PROVE  Exact(k)'
<1> DEFINE c == endpoints[k]
<1>0. /\ endpoints \in [Keys -> Nat] /\ made \in [Keys -> Nat] /\ c \in Nat /\ c <= made[k]
      /\ pool[k] \in Seq(Nat) /\ Len(pool[k]) = made[k] /\ GrpcTypeOK'
  BY GrpcTypeNext DEF TypeOK, ReconcileType, GrpcTypeOK
<1>1. CASE Quiet
  <2>1. CASE endpoints'[k] = 0
    BY <2>1 DEF Exact
  <2>2. CASE endpoints'[k] = endpoints[k]
    <3>1. UNCHANGED <<pool, conn>>
      BY <1>1 DEF Quiet, grpcVars
    <3>2. ASSUME NEW r \in Requests, conn[r] = "open" PROVE req'[r] = req[r]
      <4>1. req[r].pc = "executing"
        BY <3>2 DEF GrpcTypeOK
      <4>2. conn'[r] # "none"
        BY <3>1, <3>2
      <4>3. req'[r].pc = "executing"
        BY <1>0, <4>2 DEF GrpcTypeOK
      <4> QED BY <1>1, <3>2, <4>1, <4>3 DEF Quiet
    <3>3. Using(k, endpoints[k])' = Using(k, endpoints[k])
      BY <2>2, <3>1, <3>2 DEF Using, Executing
    <3> QED BY <2>2, <3>1, <3>3, ExactKept
  <2> QED BY <1>1, <2>1, <2>2 DEF Quiet
<1>2. ASSUME NEW j \in Keys, newGrpcBackend(j) PROVE Exact(k)'
  <2>1. /\ UNCHANGED <<req, conn>> /\ endpoints' = [endpoints EXCEPT ![j] = made[j] + 1]
        /\ pool' = [pool EXCEPT ![j] = Append(@, grpcExecutorConcurrency)]
    BY <1>2 DEF newGrpcBackend, AddEndpoint
  <2>2. CASE j # k
    <3>1. endpoints'[k] = endpoints[k] /\ pool'[k] = pool[k]
      BY <1>0, <2>1, <2>2 DEF GrpcTypeOK
    <3>2. Using(k, endpoints[k])' = Using(k, endpoints[k])
      BY <2>1, <3>1 DEF Using, Executing
    <3> QED BY <3>1, <3>2, ExactKept
  <2>3. CASE j = k
    <3>1. endpoints'[k] = made[k] + 1 /\ pool'[k] = Append(pool[k], grpcExecutorConcurrency)
      BY <1>0, <2>1, <2>3 DEF GrpcTypeOK
    <3>2. pool'[k][endpoints'[k]] = grpcExecutorConcurrency
      BY <1>0, <3>1, GrpcAssumption, SMT
    <3>3. \A r \in Requests : req[r].pc = "executing" /\ req[r].key = k => req[r].exec # made[k] + 1
      BY <1>0, SMT DEF GrpcTypeOK, Executors
    <3>4. Using(k, endpoints[k])' = {}
      BY <2>1, <3>1, <3>3 DEF Using, Executing
    <3>5. Cardinality(Using(k, endpoints[k])') = 0
      BY <3>4, FS_EmptySet
    <3>6. grpcExecutorConcurrency + 0 = 1 * grpcExecutorConcurrency
      BY GrpcAssumption, SMT
    <3> QED BY <3>2, <3>5, <3>6, SMT DEF Exact
  <2> QED BY <2>2, <2>3
<1>3. ASSUME NEW j \in Keys, NEW e \in Executors(j), Close(j, e) PROVE Exact(k)'
  <2>1. UNCHANGED <<endpoints, made, req, conn>> /\ e # endpoints[j]
    BY <1>3 DEF Close, vars
  <2>2. pool[j][e] - 1 \in Nat /\ pool' = [pool EXCEPT ![j][e] = pool[j][e] - 1]
    BY <1>0, <1>3, SMT DEF Close, GrpcTypeOK, Executors
  <2>3. c # 0 => pool'[k][c] = pool[k][c]
    BY <1>0, <2>1, <2>2, PoolStep, SMT DEF Executors
  <2>4. Using(k, endpoints[k])' = Using(k, endpoints[k])
    BY <2>1 DEF Using, Executing
  <2>5. CASE c = 0
    BY <2>1, <2>5 DEF Exact
  <2>6. CASE c # 0
    BY <2>1, <2>3, <2>4, <2>6, ExactKept
  <2> QED BY <2>5, <2>6
<1>4. ASSUME NEW r \in Requests, getClient(r) \/ newClient(r) \/ Execute(r) PROVE Exact(k)'
  <2>1. /\ req[r].pc = "executing" /\ UNCHANGED <<endpoints, made>>
        /\ \A q \in Requests \ {r} : conn'[q] = conn[q] /\ req'[q] = req[q]
    BY <1>4, ClientStep
  <2>2. PICK n \in Nat : /\ pool' = [pool EXCEPT ![req[r].key][req[r].exec] = n]
                         /\ \/ getClient(r) /\ n = Pooled(r) - 1
                            \/ newClient(r) /\ n = Pooled(r) + grpcExecutorConcurrency
                            \/ Execute(r) /\ n = Pooled(r) + 1
    BY <1>4, ClientStep
  <2>3. /\ req[r].key \in Keys /\ req[r].exec \in Executors(req[r].key)
        /\ Pooled(r) \in Nat /\ Pooled(r) = pool[req[r].key][req[r].exec]
    BY <2>1, InExecutor
  <2> DEFINE A == Using(k, c)
             B == Using(k, endpoints[k])'
             here == req[r].key = k /\ req[r].exec = c
  <2>4. /\ A \in SUBSET Requests /\ B \in SUBSET Requests
        /\ \A q \in Requests \ {r} : q \in A <=> q \in B
    BY <2>1 DEF Using, Executing
  <2>5. r \in A <=> here /\ conn[r] = "open"
    BY <2>1 DEF Using, Executing
  <2>6. /\ getClient(r) => conn[r] # "open" /\ (r \in B <=> here)
        /\ newClient(r) => conn[r] # "open" /\ r \notin B
        /\ Execute(r) => conn[r] = "open" /\ r \notin B
    <3>1. /\ getClient(r) => conn[r] # "open" /\ conn'[r] = "open" /\ req'[r] = req[r]
          /\ newClient(r) => conn[r] = "none" /\ conn'[r] = "waiting" /\ req'[r] = req[r]
          /\ Execute(r) => conn[r] = "open" /\ conn'[r] = "none" /\ req'[r].pc = "returning"
      BY <1>4, ClientStep
    <3> QED BY <2>1, <3>1 DEF Using, Executing
  <2> HIDE DEF A, B
  <2>7. /\ Cardinality(A) \in Nat /\ Cardinality(B) \in Nat
        /\ (r \in A <=> r \in B) => Cardinality(B) = Cardinality(A)
        /\ r \notin A /\ r \in B => Cardinality(B) = Cardinality(A) + 1
        /\ r \in A /\ r \notin B => Cardinality(B) = Cardinality(A) - 1
    BY <2>4, SetCount
  <2>a. /\ pool'[req[r].key][req[r].exec] = n
        /\ \A j \in Keys : \A i \in Executors(j) :
             j # req[r].key \/ i # req[r].exec => pool'[j][i] = pool[j][i]
    BY <2>1, <2>2, ClientPool
  <2>8. CASE c = 0
    BY <2>1, <2>8 DEF Exact
  <2>9. CASE c # 0 /\ ~here
    <3>1. pool'[k][c] = pool[k][c]
      <4>1. c \in Executors(k)
        BY <1>0, <2>9, SMT DEF Executors
      <4> QED BY <2>a, <2>9, <4>1
    <3>2. A = B
      <4>1. r \notin A /\ r \notin B
        BY <2>2, <2>5, <2>6, <2>9
      <4> QED BY <2>4, <4>1, SMT
    <3> QED BY <2>1, <3>1, <3>2, ExactKept DEF A, B
  <2>10. CASE c # 0 /\ here
    <3>1. pool'[k][c] = n /\ Pooled(r) = pool[k][c]
      BY <2>3, <2>a, <2>10
    <3>2. PICK calls \in Nat \ {0} : pool[k][c] + Cardinality(A) = calls * grpcExecutorConcurrency
      BY <2>10 DEF Exact, A
    <3>3. \/ n + Cardinality(B) = pool[k][c] + Cardinality(A)
          \/ n + Cardinality(B) = pool[k][c] + Cardinality(A) + grpcExecutorConcurrency
      BY <2>2, <2>3, <2>5, <2>6, <2>7, <2>10, <3>1, GrpcAssumption, SMT
    <3>4. (calls + 1) * grpcExecutorConcurrency = calls * grpcExecutorConcurrency + grpcExecutorConcurrency
      BY GrpcAssumption, SMT
    <3>5. \E m \in Nat \ {0} : n + Cardinality(B) = m * grpcExecutorConcurrency
      <4>1. CASE n + Cardinality(B) = pool[k][c] + Cardinality(A)
        BY <3>2, <4>1
      <4>2. CASE n + Cardinality(B) = pool[k][c] + Cardinality(A) + grpcExecutorConcurrency
        <5>1. n + Cardinality(B) = (calls + 1) * grpcExecutorConcurrency
          BY <3>2, <3>4, <4>2
        <5>2. calls + 1 \in Nat \ {0}
          BY SMT
        <5> QED BY <5>1, <5>2
      <4> QED BY <3>3, <4>1, <4>2
    <3>6. pool'[k][endpoints'[k]] = n
      BY <2>1, <3>1
    <3> QED BY <3>5, <3>6 DEF Exact, B
  <2> QED BY <2>8, <2>9, <2>10
<1>5. CASE UNCHANGED allVars
  <2>1. UNCHANGED <<endpoints, pool, req, conn>>
    BY <1>5 DEF allVars, vars
  <2>2. Using(k, endpoints[k])' = Using(k, endpoints[k])
    BY <2>1 DEF Using, Executing
  <2> QED BY <2>1, <2>2, ExactKept
<1> QED BY <1>1, <1>2, <1>3, <1>4, <1>5, QuietSteps

\* No connection of a current executor is ever lost: getOrCreateClient, the deferred
\* return of Execute and a Close that runs at the same time keep every pool exact,
\* whatever the pool's size and the number of requests.
THEOREM PoolKept == GrpcSpec => []PoolExact
<1> DEFINE AllExact == \A k \in Keys : Exact(k)
<1>1. GrpcInit => AllExact
  BY DEF GrpcInit, Init, Exact
<1>2. TypeOK /\ GrpcTypeOK /\ AllExact /\ [GrpcNext]_allVars => AllExact'
  <2> SUFFICES ASSUME TypeOK, GrpcTypeOK, AllExact, [GrpcNext]_allVars, NEW k \in Keys PROVE Exact(k)'
    OBVIOUS
  <2> QED BY ExactNext
<1>3. TypeOK /\ GrpcTypeOK /\ AllExact => PoolExact
  BY ExactImplies
<1>4. GrpcSpec => []TypeOK
  BY GrpcIsDispatcher, TypeCorrect, PTL
<1>5. GrpcSpec => []GrpcTypeOK
  BY GrpcTypeCorrect
<1> HIDE DEF AllExact
<1> QED BY <1>1, <1>2, <1>3, <1>4, <1>5, PTL DEF GrpcSpec

\* A request that waits for a connection waits for nothing that is lost: unless its
\* executor is being closed, the pool has a connection for it or another request
\* holds one and gives it back.
WaitingServed ==
  \A r \in Requests :
    conn[r] = "waiting" /\ ~Stranded(r) =>
      Pooled(r) > 0 \/ Using(req[r].key, req[r].exec) # {}

\* A goroutine blocked in getOrCreateClient on a current executor is never left with
\* an empty pool and nobody to refill it.
THEOREM NobodyStarved == GrpcSpec => []WaitingServed
<1>1. ASSUME TypeOK, GrpcTypeOK, PoolExact
      PROVE  WaitingServed
  <2> SUFFICES ASSUME NEW r \in Requests, conn[r] = "waiting", ~Stranded(r),
                      Using(req[r].key, req[r].exec) = {}
               PROVE  Pooled(r) > 0
    BY DEF WaitingServed
  <2>1. req[r].pc = "executing" /\ req[r].exec = endpoints[req[r].key]
    BY <1>1 DEF GrpcTypeOK, Stranded
  <2>2. PICK k \in Keys : k = req[r].key
    BY <1>1, <2>1, InExecutor
  <2>3. Pooled(r) \in Nat /\ Pooled(r) = pool[k][endpoints[k]] /\ endpoints[k] \in Executors(k)
    BY <1>1, <2>1, <2>2, InExecutor
  <2>4. endpoints[k] # 0 /\ Cardinality(Using(k, endpoints[k])) = 0
    BY <2>1, <2>2, <2>3, FS_EmptySet, SMT DEF Executors
  <2>5. \E calls \in 1 .. Pooled(r) + 0 : TRUE
    BY <1>1, <2>3, <2>4 DEF PoolExact
  <2> QED BY <2>3, <2>5, SMT
<1>2. GrpcSpec => []TypeOK
  BY GrpcIsDispatcher, TypeCorrect, PTL
<1> QED BY <1>1, <1>2, GrpcTypeCorrect, PoolKept, PTL

-----------------------------------------------------------------------------
\* What is proved of the dispatcher holds with gRPC executors: Close, the pools and
\* the goroutines that wait for a connection neither lose the tokens of an endpoint
\* nor add to the requests it is given.
THEOREM GrpcTokensKept == GrpcSpec => []TokensNotLost /\ []ConcurrencyPerExecutor
BY GrpcIsDispatcher, TokensKept, ExecutorsBound, PTL

\* With gRPC executors the dispatcher implements the abstract dispatch service and
\* keeps to podServiceConcurrency, under the conditions of DispatcherRefines.
THEOREM GrpcRefines ==
  ASSUME MaxReady <= 1, listErrors = FALSE
  PROVE  GrpcSpec => ImplementsService /\ []ServiceConcurrency
<1>1. Spec => ImplementsService
  BY DispatcherRefines
<1>2. Spec => []ServiceConcurrency
  BY ConcurrencyBounded
<1> QED BY <1>1, <1>2, GrpcIsDispatcher, PTL
=============================================================================
