---------------------------- MODULE GrpcDispatcher ----------------------------
(* The pod dispatcher together with the executors it dispatches to: the gRPC
   backend (pkg/backend/grpc.go).  An executor is a pool of connections, an unbounded
   channel into which newClient puts grpcExecutorConcurrency copies of a new
   connection.  Execute takes one, and makes a new client if there is none; Close,
   which runs in a goroutine of its own once the endpoint is removed, takes
   connections and never stops, because nobody closes the channel it ranges over.  *)
EXTENDS PodDispatcher, Sequences

CONSTANT grpcExecutorConcurrency

ASSUME GrpcAssumption == grpcExecutorConcurrency \in Nat \ {0}

VARIABLES
  pool,   \* pool[k][e]: connections in the pool of executor e of endpoint k
  conn    \* conn[r]: "none", "waiting" for a connection, or "open"

grpcVars == <<pool, conn>>
allVars  == <<vars, pool, conn>>

Executors(k) == 1 .. made[k]

\* The requests that hold a connection of executor e of k.
Using(k, e) == {r \in Executing(k) : conn[r] = "open" /\ req[r].exec = e}

\* r waits for a connection of an executor that is being closed.
Stranded(r) == conn[r] = "waiting" /\ req[r].exec # endpoints[req[r].key]

GrpcInit == Init /\ pool = [k \in Keys |-> <<>>] /\ conn = [r \in Requests |-> "none"]

Pooled(r) == pool[req[r].key][req[r].exec]
Put(r, n) == pool' = [pool EXCEPT ![req[r].key][req[r].exec] = @ + n]

-----------------------------------------------------------------------------
\* Mutant: the backend is made without a client.
newGrpcBackend_NoClient(k) == AddEndpoint(k) /\ UNCHANGED grpcVars

\* NewBackend makes the executor with a first client.
newGrpcBackend(k) ==
  /\ AddEndpoint(k)
  /\ pool' = [pool EXCEPT ![k] = Append(@, grpcExecutorConcurrency)]
  /\ UNCHANGED conn

\* Mutant: Close closes one connection instead of all.
Close_First(k, e) ==
  /\ e # endpoints[k] /\ pool[k][e] = grpcExecutorConcurrency
  /\ pool' = [pool EXCEPT ![k][e] = @ - 1]
  /\ UNCHANGED <<vars, conn>>

\* Close takes one connection, of an executor that is not in the map any more.
Close(k, e) ==
  /\ e # endpoints[k] /\ pool[k][e] > 0
  /\ pool' = [pool EXCEPT ![k][e] = @ - 1]
  /\ UNCHANGED <<vars, conn>>

\* getOrCreateClient: a connection, ...
getClient(r) ==
  /\ req[r].pc = "executing" /\ conn[r] \in {"none", "waiting"} /\ Pooled(r) > 0
  /\ pool' = [pool EXCEPT ![req[r].key][req[r].exec] = @ - 1]
  /\ conn' = [conn EXCEPT ![r] = "open"]
  /\ UNCHANGED vars

\* ... or a new client, whose connections others may take first.  The channel may
\* not offer a connection yet although there is one.  Its puts are one step: a
\* connection taken between two of them is as well taken after the last.
newClient(r) ==
  /\ req[r].pc = "executing" /\ conn[r] = "none"
  /\ Put(r, grpcExecutorConcurrency)
  /\ conn' = [conn EXCEPT ![r] = "waiting"]
  /\ UNCHANGED vars

\* FAIL_CONNECT.
newClientFails(r) ==
  /\ backendErrors /\ conn[r] = "none" /\ ExecuteReturns(r)
  /\ UNCHANGED grpcVars

\* Mutant: the connection is not given back.
Execute_Kept(r) ==
  /\ conn[r] = "open" /\ ExecuteReturns(r)
  /\ UNCHANGED pool /\ conn' = [conn EXCEPT ![r] = "none"]

\* Execute returns, whatever its status, and its connection goes back.
Execute(r) ==
  /\ conn[r] = "open" /\ ExecuteReturns(r)
  /\ Put(r, 1) /\ conn' = [conn EXCEPT ![r] = "none"]

-----------------------------------------------------------------------------
\* The loop of Run over the pods' changes, and the goroutines of Reconcile.
Reconciler ==
  /\ Reconcile \/ ReconcileDone \/ \E k \in Keys : PutToken(k) \/ DelEndpoint(k)
  /\ UNCHANGED grpcVars

Closer == \E k \in Keys : \E e \in Executors(k) : Close(k, e)

\* The goroutine of a request.
Handler(r) ==
  \/ getClient(r) \/ newClient(r) \/ newClientFails(r) \/ Execute(r)
  \/ /\ Run(r) \/ LookUp(r) \/ DispatchTimeout(r) \/ ReturnToken(r) \/ Respond(r)
     /\ UNCHANGED grpcVars

Environment ==
  /\ \/ \E k \in Keys : PodReady(k) \/ PodUnready(k) \/ AddFails(k)
     \/ \E r \in Requests : Send(r) \/ \E k \in Keys : TakeToken(r, k)
     \/ DeploymentDeleted \/ Cancel
  /\ UNCHANGED grpcVars

GrpcNext ==
  \/ Reconciler \/ Closer \/ (\E k \in Keys : newGrpcBackend(k))
  \/ (\E r \in Requests : Handler(r)) \/ Environment

GrpcSpec == GrpcInit /\ [][GrpcNext]_allVars

\* Goroutines keep running, a timeout comes, and of the retried NewBackend calls
\* one succeeds.  An RPC returns because its context has a deadline.
Fairness ==
  /\ WF_allVars(Reconciler) /\ WF_allVars(Closer)
  /\ \A k \in Keys : SF_allVars(newGrpcBackend(k))
  /\ \A r \in Requests : WF_allVars(Handler(r))

FairSpec == GrpcSpec /\ Fairness

-----------------------------------------------------------------------------
\* Every variable has its type; a request uses the pool of an executor that was
\* made, and only while it is in Execute.
GrpcTypeOK ==
  /\ pool \in [Keys -> Seq(Nat)] /\ conn \in [Requests -> {"none", "waiting", "open"}]
  /\ \A k \in Keys : Len(pool[k]) = made[k] /\ endpoints[k] <= made[k]
  /\ \A r \in Requests :
       /\ conn[r] # "none" => req[r].pc = "executing"
       /\ req[r].pc = "executing" => req[r].exec \in Executors(req[r].key)

\* No connection of a current executor is lost: those in the pool and those in use
\* are the ones that one or several calls of newClient have put there.  So a request
\* that waits for a connection of such an executor gets one.
PoolExact ==
  \A k \in Keys : endpoints[k] # 0 =>
    LET n == pool[k][endpoints[k]] + Cardinality(Using(k, endpoints[k])) IN
    \E calls \in 1 .. n : n = calls * grpcExecutorConcurrency

\* Every request that reaches the dispatcher is answered, unless the program is
\* stopped or the request waits for a connection of an executor that is being closed.
RequestAnswered ==
  \A r \in Requests : req[r].pc = "sent" ~> req[r].pc = "answered" \/ cancelled \/ Stranded(r)

\* Close takes every connection of a removed executor, also those that are given back
\* or made after it started, so none stays open.
PoolDrained ==
  <>[](\A k \in Keys : \A e \in Executors(k) : e # endpoints[k] => pool[k][e] = 0)

\* The endpoints become those of the ready pods once pods stop changing, although
\* NewBackend may fail.  It is checked with listErrors = FALSE and is false otherwise:
\* a failed List is only logged, so the endpoints it drops stay away until the next
\* event of the deployment or of its pods.
EndpointsConverge ==
  <>[](found /\ ~cancelled => \A k \in Keys : endpoints[k] # 0 <=> k \in ready)
=============================================================================
