---------------------------- MODULE PodDispatcher ----------------------------
(***************************************************************************)
(* The pod dispatcher of one target (pkg/gateway/dispatcher/pod.go) and the *)
(* gateway's Reconcile that feeds it (pkg/gateway/k8s.go).  The right to    *)
(* send a request to an endpoint is a token in an unbounded channel: the    *)
(* reconciler adds podServiceConcurrency of them with a new endpoint, a     *)
(* dispatching goroutine takes one and gives it back after Execute, and     *)
(* tokens of removed endpoints are discarded when they are taken.           *)
(*                                                                         *)
(* An executor is identified by its endpoint and the number of executors    *)
(* made for that endpoint so far.  The order of tokens is left out.         *)
(***************************************************************************)
EXTENDS Naturals, FiniteSets

CONSTANTS
  Requests,               \* the requests of this target
  Keys,                   \* endpoint keys, "pod name@ip:port"
  NoKey,                  \* no endpoint key
  podServiceConcurrency,  \* tokens of an endpoint
  MaxReady,               \* bound: how often a pod becomes ready
  Leaving,                \* bound: the endpoints whose pod may become unready
  listErrors,             \* TRUE: listing the pods may fail
  backendErrors,          \* TRUE: NewBackend may fail
  mayDelete,              \* TRUE: the deployment may be deleted
  mayCancel               \* TRUE: the context may be cancelled

ASSUME DispatcherAssumption ==
  /\ IsFiniteSet(Requests) /\ NoKey \notin Keys
  /\ podServiceConcurrency \in Nat \ {0} /\ MaxReady \in Nat
  /\ listErrors \in BOOLEAN /\ backendErrors \in BOOLEAN
  /\ mayDelete \in BOOLEAN /\ mayCancel \in BOOLEAN

VARIABLES
  ready,        \* the keys of the ready pods in the informer cache
  readied,      \* readied[k]: how often k's pod has become ready
  found,        \* the deployment is in the informer cache
  queued,       \* the deployment is in the controller's work queue
  reconciling,  \* a worker is in PodDispatcher.Reconcile
  add,          \* keys whose goroutine has not called NewBackend yet
  del,          \* keys Reconcile still has to remove
  failed,       \* an error was sent to errs
  puts,         \* puts[k]: tokens the goroutine of k still has to send
  endpoints,    \* endpoints[k]: the number of k's executor, 0 if there is none
  made,         \* made[k]: executors made for k so far
  tokens,       \* tokens[k]: tokens of k in the channel
  req,          \* req[r]: where r is, the token it holds, its executor
  cancelled     \* the context is cancelled

envVars == <<ready, readied, found>>
recVars == <<queued, reconciling, add, del, failed>>
vars == <<envVars, recVars, puts, endpoints, made, tokens, req, cancelled>>

-----------------------------------------------------------------------------
At(s, k, e) == [pc |-> s, key |-> k, exec |-> e]

\* Requests that hold a token of k, and those that are in an executor of k.
Holders(k)   == {r \in Requests : req[r].key = k}
Executing(k) == {r \in Requests : req[r].pc = "executing" /\ req[r].key = k}

Init ==
  /\ ready = {} /\ readied = [k \in Keys |-> 0] /\ found = TRUE
  /\ queued = TRUE /\ reconciling = FALSE /\ add = {} /\ del = {} /\ failed = FALSE
  /\ puts = [k \in Keys |-> 0]
  /\ endpoints = [k \in Keys |-> 0] /\ made = [k \in Keys |-> 0]
  /\ tokens = [k \in Keys |-> 0]
  /\ req = [r \in Requests |-> At("none", NoKey, 0)]
  /\ cancelled = FALSE

-----------------------------------------------------------------------------
\* The informer cache changes and the event handler queues the deployment, until
\* the context, which is the informers' too, is cancelled.

PodReady(k) ==
  /\ ~cancelled /\ k \notin ready /\ readied[k] < MaxReady
  /\ ready' = ready \cup {k} /\ readied' = [readied EXCEPT ![k] = @ + 1]
  /\ queued' = TRUE
  /\ UNCHANGED <<found, reconciling, add, del, failed, puts, endpoints, made, tokens, req, cancelled>>

PodUnready(k) ==
  /\ ~cancelled /\ k \in ready /\ k \in Leaving
  /\ ready' = ready \ {k} /\ queued' = TRUE
  /\ UNCHANGED <<readied, found, reconciling, add, del, failed, puts, endpoints, made, tokens,
                 req, cancelled>>

DeploymentDeleted ==
  /\ ~cancelled /\ mayDelete /\ found
  /\ found' = FALSE /\ queued' = TRUE
  /\ UNCHANGED <<ready, readied, reconciling, add, del, failed, puts, endpoints, made, tokens,
                 req, cancelled>>

-----------------------------------------------------------------------------
\* Reconcile.  The controller runs one worker per deployment at a time.

\* The comparison of the ready pods with the existing endpoints.
Missing(listed) == {k \in listed : endpoints[k] = 0}
Stale(listed)   == {k \in Keys \ listed : endpoints[k] # 0}

\* Up to the comparison with the existing endpoints.  Without the deployment
\* nothing is done; when List fails the error is logged, no pod is ready and the
\* deployment is not queued again.
Reconcile ==
  /\ ~cancelled /\ queued /\ ~reconciling
  /\ queued' = FALSE
  /\ \/ /\ ~found
        /\ UNCHANGED <<reconciling, add, del>>
     \/ /\ found /\ reconciling' = TRUE
        /\ \E listed \in {ready} \cup (IF listErrors THEN {{}} ELSE {}) :
             add' = Missing(listed) /\ del' = Stale(listed)
  /\ UNCHANGED <<envVars, failed, puts, endpoints, made, tokens, req, cancelled>>

\* The goroutine of a new endpoint sets its executor and then sends its tokens.
AddEndpoint(k) ==
  /\ k \in add /\ add' = add \ {k}
  /\ endpoints' = [endpoints EXCEPT ![k] = made[k] + 1]
  /\ made' = [made EXCEPT ![k] = @ + 1]
  /\ puts' = [puts EXCEPT ![k] = podServiceConcurrency]
  /\ UNCHANGED <<envVars, queued, reconciling, del, failed, tokens, req, cancelled>>

AddFails(k) ==
  /\ backendErrors /\ k \in add
  /\ add' = add \ {k} /\ failed' = TRUE
  /\ UNCHANGED <<envVars, queued, reconciling, del, puts, endpoints, made, tokens, req, cancelled>>

PutToken(k) ==
  /\ puts[k] > 0
  /\ puts' = [puts EXCEPT ![k] = @ - 1]
  /\ tokens' = [tokens EXCEPT ![k] = @ + 1]
  /\ UNCHANGED <<envVars, recVars, endpoints, made, req, cancelled>>

DelEndpoint(k) ==
  /\ k \in del /\ del' = del \ {k}
  /\ endpoints' = [endpoints EXCEPT ![k] = 0]
  /\ UNCHANGED <<envVars, queued, reconciling, add, failed, puts, made, tokens, req, cancelled>>

\* Mutant: the errors are not returned.
ReconcileDone_NoRetry ==
  /\ reconciling /\ add = {} /\ del = {} /\ \A k \in Keys : puts[k] = 0
  /\ reconciling' = FALSE /\ failed' = FALSE
  /\ UNCHANGED <<queued, envVars, add, del, puts, endpoints, made, tokens, req, cancelled>>

\* wg.Wait returns; the controller queues the deployment again after an error.
ReconcileDone ==
  /\ reconciling /\ add = {} /\ del = {} /\ \A k \in Keys : puts[k] = 0
  /\ reconciling' = FALSE /\ failed' = FALSE
  /\ queued' = (queued \/ failed)
  /\ UNCHANGED <<envVars, add, del, puts, endpoints, made, tokens, req, cancelled>>

-----------------------------------------------------------------------------
\* Run and, in a goroutine of its own for every request, Dispatch.

Becomes(r, s, k, e) == req' = [req EXCEPT ![r] = At(s, k, e)]

\* The relay puts a request into reqChan.
Send(r) ==
  /\ req[r].pc = "none" /\ Becomes(r, "sent", NoKey, 0)
  /\ UNCHANGED <<envVars, recVars, puts, endpoints, made, tokens, cancelled>>

\* Run starts a goroutine for it, unless the context is cancelled.
Run(r) ==
  /\ ~cancelled /\ req[r].pc = "sent" /\ Becomes(r, "dispatching", NoKey, 0)
  /\ UNCHANGED <<envVars, recVars, puts, endpoints, made, tokens, cancelled>>

TakeToken(r, k) ==
  /\ req[r].pc = "dispatching" /\ tokens[k] > 0
  /\ tokens' = [tokens EXCEPT ![k] = @ - 1]
  /\ Becomes(r, "taken", k, 0)
  /\ UNCHANGED <<envVars, recVars, puts, endpoints, made, cancelled>>

\* Mutant: the token's endpoint is used even if it was removed.
LookUp_Unchecked(r) ==
  /\ req[r].pc = "taken"
  /\ Becomes(r, "executing", req[r].key, endpoints[req[r].key])
  /\ UNCHANGED <<envVars, recVars, puts, endpoints, made, tokens, cancelled>>

\* dispatch looks the executor up and discards the token of a removed pod.
LookUp(r) ==
  /\ req[r].pc = "taken"
  /\ \/ endpoints[req[r].key] = 0 /\ Becomes(r, "dispatching", NoKey, 0)
     \/ endpoints[req[r].key] # 0 /\ Becomes(r, "executing", req[r].key, endpoints[req[r].key])
  /\ UNCHANGED <<envVars, recVars, puts, endpoints, made, tokens, cancelled>>

\* Mutant: a request that times out gets no response.
DispatchTimeout_NoResponse(r) ==
  /\ req[r].pc = "dispatching" /\ Becomes(r, "dropped", NoKey, 0)
  /\ UNCHANGED <<envVars, recVars, puts, endpoints, made, tokens, cancelled>>

\* dispatchCtx is done before a token is there: FAIL_DISPATCH.
DispatchTimeout(r) ==
  /\ req[r].pc = "dispatching" /\ Becomes(r, "answered", NoKey, 0)
  /\ UNCHANGED <<envVars, recVars, puts, endpoints, made, tokens, cancelled>>

\* Execute returns a response, whatever its status, and the token goes back.
ExecuteReturns(r) ==
  /\ req[r].pc = "executing" /\ Becomes(r, "returning", req[r].key, 0)
  /\ UNCHANGED <<envVars, recVars, puts, endpoints, made, tokens, cancelled>>

\* Mutant: the token is not given back.
ReturnToken_Kept(r) ==
  /\ req[r].pc = "returning" /\ Becomes(r, "responding", NoKey, 0)
  /\ UNCHANGED <<envVars, recVars, puts, endpoints, made, tokens, cancelled>>

ReturnToken(r) ==
  /\ req[r].pc = "returning"
  /\ tokens' = [tokens EXCEPT ![req[r].key] = @ + 1]
  /\ Becomes(r, "responding", NoKey, 0)
  /\ UNCHANGED <<envVars, recVars, puts, endpoints, made, cancelled>>

Respond(r) ==
  /\ req[r].pc = "responding" /\ Becomes(r, "answered", NoKey, 0)
  /\ UNCHANGED <<envVars, recVars, puts, endpoints, made, tokens, cancelled>>

Cancel ==
  /\ mayCancel /\ ~cancelled /\ cancelled' = TRUE
  /\ UNCHANGED <<envVars, recVars, puts, endpoints, made, tokens, req>>

-----------------------------------------------------------------------------
KeyStep(k) ==
  \/ PodReady(k) \/ PodUnready(k)
  \/ AddEndpoint(k) \/ AddFails(k) \/ PutToken(k) \/ DelEndpoint(k)

RequestStep(r) ==
  \/ Send(r) \/ Run(r) \/ (\E k \in Keys : TakeToken(r, k)) \/ LookUp(r)
  \/ DispatchTimeout(r) \/ ExecuteReturns(r) \/ ReturnToken(r) \/ Respond(r)

Next ==
  \/ \E k \in Keys : KeyStep(k)
  \/ \E r \in Requests : RequestStep(r)
  \/ DeploymentDeleted \/ Reconcile \/ ReconcileDone \/ Cancel

Spec == Init /\ [][Next]_vars

-----------------------------------------------------------------------------
ReconcileType ==
  /\ ready \in SUBSET Keys /\ readied \in [Keys -> Nat] /\ found \in BOOLEAN
  /\ queued \in BOOLEAN /\ reconciling \in BOOLEAN /\ failed \in BOOLEAN
  /\ add \in SUBSET Keys /\ del \in SUBSET Keys
  /\ puts \in [Keys -> Nat] /\ endpoints \in [Keys -> Nat] /\ made \in [Keys -> Nat]

DispatchType ==
  /\ tokens \in [Keys -> Nat] /\ cancelled \in BOOLEAN
  /\ req \in [Requests -> [pc : {"none", "sent", "dispatching", "taken", "executing",
                                 "returning", "responding", "answered"},
                           key : Keys \cup {NoKey}, exec : Nat]]

\* Every variable has its type, requests hold a token exactly between the receive
\* from the channel and the send that gives it back, and the work of Reconcile is
\* done by the time it returns.
TypeOK ==
  /\ ReconcileType /\ DispatchType
  /\ \A r \in Requests : req[r].key # NoKey <=> req[r].pc \in {"taken", "executing", "returning"}
  /\ ~reconciling => add = {} /\ del = {} /\ \A k \in Keys : puts[k] = 0

\* Tokens are not lost: whatever pods come and go, and however List and NewBackend
\* fail, every token of an endpoint in the map is in the channel, with a request or
\* about to be sent, so the endpoint's capacity can be used.
TokensNotLost ==
  \A k \in Keys : endpoints[k] # 0 =>
    tokens[k] + puts[k] + Cardinality(Holders(k)) >= podServiceConcurrency

\* "default to concurrency 1": no more than podServiceConcurrency requests are in
\* the executors of one pod at a time.
ServiceConcurrency ==
  \A k \in Keys : Cardinality(Executing(k)) <= podServiceConcurrency

\* The phase, in the service DispatchService describes, of a request that is at s.
PhaseAt(s) ==
  CASE s = "none" -> "none"
    [] s \in {"sent", "dispatching", "taken"} -> "waiting"
    [] s = "executing" -> "serving"
    [] s \in {"returning", "responding"} -> "served"
    [] OTHER -> "answered"

Abs(q) == [st |-> PhaseAt(q.pc), at |-> IF q.pc = "executing" THEN q.key ELSE NoKey]

Known  == {k \in Keys : endpoints[k] # 0}
Phases == [r \in Requests |-> Abs(req[r])]

Service == INSTANCE DispatchService WITH
  concurrency <- podServiceConcurrency, known <- Known, phase <- Phases

\* As long as no pod becomes ready twice under one key, the dispatcher implements
\* the abstract service: one assignment per request to a known endpoint with a free
\* slot, and one answer.
ImplementsService == Service!SSpec
=============================================================================
