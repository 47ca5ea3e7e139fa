---------------------------- MODULE CustomKubelet ----------------------------
(***************************************************************************)
(* The custom kubelet (cmd/kubelet): a KubedirectServer that learns of pods *)
(* twice.  A BindPod call puts a pod that exists nowhere else into an       *)
(* in-memory cache; the pod informer later reports the API object that the  *)
(* kubelet itself created for it ("exposed").  Sync workers, the informer's *)
(* handler goroutine, RPC handlers and exposing goroutines run concurrently *)
(* and share the cache, the timers, the work queue and the client pool.     *)
(*                                                                         *)
(* The API server keeps, for every pod name, the log of the versions its    *)
(* object has gone through; the index of an entry is its resourceVersion.   *)
(* The informer cache is the prefix of the log up to seen[p], and the       *)
(* handler has been told of the prefix up to handled[p].                    *)
(***************************************************************************)
EXTENDS Naturals, Sequences, FiniteSets

CONSTANTS
  Managed,      \* names of pods bound through BindPod
  Plain,        \* names of pods that originate from Kubernetes
  Nodes,        \* nodes of the cluster
  thisNode,     \* the node this kubelet runs on
  Delegated,    \* nodes whose service address annotation is this kubelet's
  NodeOf,       \* the node a pod is bound to
  Calls,        \* the BindPod calls that are ever made
  MaxEpoch,     \* bound: handshakes per node
  MaxUid,       \* bound: incarnations of a name that others create or delete
  Forced,       \* pods that somebody else may remove without grace
  Failing,      \* pods that somebody else may move to a terminal phase
  Leaving,      \* nodes whose object may be deleted
  Late,         \* nodes that this kubelet may list before they have an address
  Unanswered,   \* requests that may take effect and return an error: "create", "mark", "delete"
  MaxLost,      \* bound: requests for a name that take effect and return an error
  ownerDeleted, \* TRUE: the pods' owner, and its template, may be deleted
  nWorkers,     \* number of sync workers
  readyDelay,   \* delay before a pod is reported ready
  patch         \* TRUE: mark pods ready by patch, FALSE: by update

Pods == Managed \cup Plain

ASSUME PodAssumption ==
  /\ Managed \cap Plain = {}
  /\ NodeOf \in [Pods -> Nodes]
  /\ thisNode \in Nodes /\ Delegated \subseteq Nodes /\ Leaving \subseteq Nodes
  /\ Late \subseteq Nodes
  /\ Forced \subseteq Pods /\ Failing \subseteq Pods

ASSUME BoundAssumption ==
  /\ MaxEpoch \in Nat /\ MaxUid \in Nat /\ MaxLost \in Nat
  /\ Unanswered \subseteq {"create", "mark", "delete"}
  /\ nWorkers \in Nat \ {0} /\ readyDelay \in Nat
  /\ ownerDeleted \in BOOLEAN /\ patch \in BOOLEAN

VARIABLES
  log,          \* log[p]: the versions of p's API object
  seen,         \* seen[p]: the version podLister returns
  handled,      \* handled[p]: the last version handlePodEvent has processed
  flushing,     \* the pod whose event is half handled, a set of at most one
  inMemCache,   \* inMemCache[p]: 0, or the epoch of the call that put p there
  readyTimers,  \* readyTimers[p]: state of p's timer and when it was started
  dirty,        \* work queue: pods to sync
  delayed,      \* work queue: pods to add later (AddAfter, AddRateLimited)
  pc,           \* pc[p]: where the worker that syncs p is
  rv,           \* rv[p]: the version that worker read, 0 for an in-mem pod
  since,        \* since[p]: when the timer that worker waited for was started
  exposing,     \* exposing[p]: number of goroutines in ExposeManagedPod(p)
  clientPool,   \* nodes with a client
  epoch,        \* epoch[n]: current epoch of n's source, 0 before a handshake
  shaking,      \* nodes with a Handshake call past clientPool.GetOrCreate
  reported,     \* reported[n]: the pods the last Handshake for n returned
  call,         \* call[c]: a BindPod call
  template,     \* the owner's template pod: "unknown", "listed" or "deleted"
  nodeLister,   \* nodeLister[n]: "unknown", "bare" (no address), "listed" or "deleted"
  panicked      \* the process has crashed

apiVars   == <<log, seen>>
queueVars == <<dirty, delayed>>
syncVars  == <<pc, rv, since>>
rpcVars   == <<epoch, shaking, reported, call>>
envVars   == <<template, nodeLister>>
vars == <<apiVars, handled, flushing, inMemCache, readyTimers, queueVars,
          syncVars, exposing, clientPool, rpcVars, envVars, panicked>>

-----------------------------------------------------------------------------
\* Pods, versions and timers.  A version is by "lost" when this kubelet wrote it and
\* received an error.

Version == [st : {"none", "pending", "ready", "failed"}, del : BOOLEAN,
            uid : Nat, by : {"env", "kubelet", "lost"}]
NoPod   == [st |-> "none", del |-> FALSE, uid |-> 0, by |-> "env"]
NoTimer == [st |-> "none", at |-> 0]

\* The version that the API server holds and the one the informer cache holds.
api(p)    == log[p][Len(log[p])]
lister(p) == log[p][seen[p]]

Write(p, v) == log' = [log EXCEPT ![p] = Append(@, v)]

\* A new incarnation of p, and p's object removed.
Created(p, who) == [st |-> "pending", del |-> FALSE, uid |-> api(p).uid + 1, by |-> who]
Removed(p, who) == [st |-> "none", del |-> FALSE, uid |-> api(p).uid, by |-> who]

\* The answer to a request for p that takes effect may be lost.
MayLose(p, request) ==
  /\ request \in Unanswered
  /\ Cardinality({i \in 1 .. Len(log[p]) : log[p][i].by = "lost"}) < MaxLost

\* Pods a worker holds: client-go's queue gives no item to two workers at once.
Busy == {p \in Pods : pc[p] # "idle"}

\* The calls that hold the shared lock of node n's source.
Holders(n) == {c \in Calls : /\ call[c].pc \in {"locked", "inserted"}
                             /\ NodeOf[call[c].pod] = n}

\* How a node object first appears in the informer cache.
ListedAs(n) == IF n \in Late THEN "bare" ELSE "listed"

\* nodeLister has an object for node n.
InCache(n) == nodeLister[n] \in {"bare", "listed"}

\* The service address annotation that nodeLister shows for node n.
ServiceAddr(n) ==
  IF nodeLister[n] = "bare" THEN "" ELSE IF n \in Delegated \cup {thisNode} THEN "own" ELSE "other"

\* Mutant: an address that is missing counts as delegated.
isResponsibleFor_NoAddr(p) ==
  IF NodeOf[p] = thisNode THEN "yes"
  ELSE IF ~InCache(thisNode) \/ ~InCache(NodeOf[p]) THEN "error"
  ELSE IF ServiceAddr(NodeOf[p]) \in {"", ServiceAddr(thisNode)} THEN "yes" ELSE "no"

isResponsibleFor(p) ==
  IF NodeOf[p] = thisNode THEN "yes"
  ELSE IF ~InCache(thisNode) \/ ~InCache(NodeOf[p]) THEN "error"
  ELSE IF ServiceAddr(NodeOf[p]) = ServiceAddr(thisNode) THEN "yes" ELSE "no"

\* The workers start once the API server has this node's address, which the
\* informer may not have delivered yet.
Init ==
  /\ log = [p \in Pods |-> <<NoPod>>]
  /\ seen = [p \in Pods |-> 1]
  /\ handled = [p \in Pods |-> 1]
  /\ flushing = {}
  /\ inMemCache = [p \in Pods |-> 0]
  /\ readyTimers = [p \in Pods |-> NoTimer]
  /\ dirty = {} /\ delayed = {}
  /\ pc = [p \in Pods |-> "idle"]
  /\ rv = [p \in Pods |-> 0] /\ since = [p \in Pods |-> 0]
  /\ exposing = [p \in Pods |-> 0]
  /\ clientPool = {}
  /\ epoch = [n \in Nodes |-> 0]
  /\ shaking = {}
  /\ reported = [n \in Nodes |-> {}]
  /\ call \in [Calls -> [pc : {"unsent"}, pod : Managed, epoch : {0}]]
  /\ template = "unknown"
  /\ nodeLister = [n \in Nodes |-> IF n # thisNode THEN "unknown" ELSE ListedAs(n)]
  /\ panicked = FALSE

-----------------------------------------------------------------------------
\* The environment: the other clients of the API server, and the informers.

\* A Kubernetes pod with the custom lifecycle label is bound to a node.
CreatePlain(p) ==
  /\ p \in Plain /\ api(p).st = "none" /\ api(p).uid < MaxUid
  /\ Write(p, Created(p, "env"))
  /\ UNCHANGED <<seen, handled, flushing, inMemCache, readyTimers, queueVars,
                 syncVars, exposing, clientPool, rpcVars, envVars, panicked>>

\* A graceful delete sets the deletion timestamp and leaves the rest to the
\* kubelet; the API server removes a pod in a terminal phase at once.
RequestDelete(p) ==
  /\ api(p).st # "none" /\ ~api(p).del /\ api(p).uid <= MaxUid
  /\ Write(p, IF api(p).st = "failed" THEN Removed(p, "env")
              ELSE [api(p) EXCEPT !.del = TRUE, !.by = "env"])
  /\ UNCHANGED <<seen, handled, flushing, inMemCache, readyTimers, queueVars,
                 syncVars, exposing, clientPool, rpcVars, envVars, panicked>>

\* Somebody else removes the object without grace.
ForceDelete(p) ==
  /\ p \in Forced /\ api(p).st # "none"
  /\ Write(p, Removed(p, "env"))
  /\ UNCHANGED <<seen, handled, flushing, inMemCache, readyTimers, queueVars,
                 syncVars, exposing, clientPool, rpcVars, envVars, panicked>>

\* Somebody else moves the pod to a terminal phase.
Fail(p) ==
  /\ p \in Failing /\ api(p).st \in {"pending", "ready"}
  /\ Write(p, [api(p) EXCEPT !.st = "failed", !.by = "env"])
  /\ UNCHANGED <<seen, handled, flushing, inMemCache, readyTimers, queueVars,
                 syncVars, exposing, clientPool, rpcVars, envVars, panicked>>

\* The template pod of the owner appears in the informer cache, and leaves it.
TemplateListed ==
  /\ ~panicked
  /\ template = "unknown" /\ template' = "listed"
  /\ UNCHANGED <<apiVars, handled, flushing, inMemCache, readyTimers, queueVars,
                 syncVars, exposing, clientPool, rpcVars, nodeLister, panicked>>

TemplateDeleted ==
  /\ ~panicked
  /\ ownerDeleted /\ template = "listed" /\ template' = "deleted"
  /\ UNCHANGED <<apiVars, handled, flushing, inMemCache, readyTimers, queueVars,
                 syncVars, exposing, clientPool, rpcVars, nodeLister, panicked>>

\* A node object appears in the informer cache.
NodeListed(n) ==
  /\ ~panicked
  /\ nodeLister[n] = "unknown"
  /\ nodeLister' = [nodeLister EXCEPT ![n] = ListedAs(n)]
  /\ UNCHANGED <<apiVars, handled, flushing, inMemCache, readyTimers, queueVars,
                 syncVars, exposing, clientPool, rpcVars, template, panicked>>

\* The informer cache learns of the address that node n's kubelet published, or
\* that the operator delegated it to.
AddrListed(n) ==
  /\ ~panicked
  /\ nodeLister[n] = "bare"
  /\ nodeLister' = [nodeLister EXCEPT ![n] = "listed"]
  /\ UNCHANGED <<apiVars, handled, flushing, inMemCache, readyTimers, queueVars,
                 syncVars, exposing, clientPool, rpcVars, template, panicked>>

\* The informer applies the next watch event to podLister and queues a notification.
Informer(p) ==
  /\ ~panicked
  /\ seen[p] < Len(log[p])
  /\ seen' = [seen EXCEPT ![p] = @ + 1]
  /\ UNCHANGED <<log, handled, flushing, inMemCache, readyTimers, queueVars,
                 syncVars, exposing, clientPool, rpcVars, envVars, panicked>>

\* The clock passes the time kept in p's timer.
TimerElapses(p) ==
  /\ readyTimers[p].st = "running"
  /\ readyTimers' = [readyTimers EXCEPT ![p].st = "elapsed"]
  /\ UNCHANGED <<apiVars, handled, flushing, inMemCache, queueVars,
                 syncVars, exposing, clientPool, rpcVars, envVars, panicked>>

\* The delaying queue adds an item whose delay is over.
DelayedAdd(p) ==
  /\ ~panicked
  /\ p \in delayed
  /\ delayed' = delayed \ {p} /\ dirty' = dirty \cup {p}
  /\ UNCHANGED <<apiVars, handled, flushing, inMemCache, readyTimers,
                 syncVars, exposing, clientPool, rpcVars, envVars, panicked>>

-----------------------------------------------------------------------------
\* Informer handlers.

\* Mutant: the handler is notified before the informer cache is updated.
handlePodEvent_Early(p) ==
  /\ ~panicked
  /\ flushing = {}
  /\ handled[p] < Len(log[p])
  /\ IF log[p][handled[p] + 1].st # "none"
     THEN dirty' = dirty \cup {p} /\ UNCHANGED readyTimers
     ELSE readyTimers' = [readyTimers EXCEPT ![p] = NoTimer] /\ UNCHANGED dirty
  /\ handled' = [handled EXCEPT ![p] = @ + 1]
  /\ flushing' = {p} \cap Managed
  /\ UNCHANGED <<apiVars, inMemCache, delayed, syncVars, exposing, clientPool,
                 rpcVars, envVars, panicked>>

\* Mutant: the creation of a managed pod, which is known already, is not queued.
handlePodEvent_NotQueued(p) ==
  /\ ~panicked
  /\ flushing = {}
  /\ handled[p] < seen[p]
  /\ IF log[p][handled[p] + 1].st # "none"
     THEN dirty' = (IF inMemCache[p] # 0 THEN dirty ELSE dirty \cup {p}) /\ UNCHANGED readyTimers
     ELSE readyTimers' = [readyTimers EXCEPT ![p] = NoTimer] /\ UNCHANGED dirty
  /\ handled' = [handled EXCEPT ![p] = @ + 1]
  /\ flushing' = {p} \cap Managed
  /\ UNCHANGED <<apiVars, inMemCache, delayed, syncVars, exposing, clientPool,
                 rpcVars, envVars, panicked>>

\* handlePodEvent for the next notification of p: queue.Add, or on a delete
\* readyTimers.Del.  Only managed pods go on to the in-mem cache.
handlePodEvent(p) ==
  /\ ~panicked
  /\ flushing = {}
  /\ handled[p] < seen[p]
  /\ IF log[p][handled[p] + 1].st # "none"
     THEN dirty' = dirty \cup {p} /\ UNCHANGED readyTimers
     ELSE readyTimers' = [readyTimers EXCEPT ![p] = NoTimer] /\ UNCHANGED dirty
  /\ handled' = [handled EXCEPT ![p] = @ + 1]
  /\ flushing' = {p} \cap Managed
  /\ UNCHANGED <<apiVars, inMemCache, delayed, syncVars, exposing, clientPool,
                 rpcVars, envVars, panicked>>

\* The second half of handlePodEvent: inMemCache.Del of a managed pod.
handlePodEventFlush(p) ==
  /\ ~panicked
  /\ p \in flushing
  /\ inMemCache' = [inMemCache EXCEPT ![p] = 0]
  /\ flushing' = {}
  /\ UNCHANGED <<apiVars, handled, readyTimers, queueVars, syncVars, exposing,
                 clientPool, rpcVars, envVars, panicked>>

\* The node informer's delete handler: DelClient.
NodeDeleted(n) ==
  /\ ~panicked
  /\ n \in Leaving /\ InCache(n)
  /\ nodeLister' = [nodeLister EXCEPT ![n] = "deleted"]
  /\ clientPool' = clientPool \ {n}
  /\ UNCHANGED <<apiVars, handled, flushing, inMemCache, readyTimers, queueVars,
                 syncVars, exposing, rpcVars, template, panicked>>

-----------------------------------------------------------------------------
\* The Kubelet gRPC service.

\* Mutant: the node's client is not created.
HandshakeClient_NoClient(n) ==
  /\ ~panicked
  /\ n \notin shaking /\ epoch[n] < MaxEpoch
  /\ shaking' = shaking \cup {n}
  /\ UNCHANGED <<apiVars, handled, flushing, inMemCache, readyTimers, queueVars, syncVars,
                 exposing, clientPool, epoch, reported, call, envVars, panicked>>

\* Handshake up to clientPool.GetOrCreate.
HandshakeClient(n) ==
  /\ ~panicked
  /\ n \notin shaking /\ epoch[n] < MaxEpoch
  /\ shaking' = shaking \cup {n}
  /\ clientPool' = clientPool \cup {n}
  /\ UNCHANGED <<apiVars, handled, flushing, inMemCache, readyTimers, queueVars,
                 syncVars, exposing, epoch, reported, call, envVars, panicked>>

\* Mutant: the exclusive lock does not wait for the shared holders.
HandshakeLock_NoWait(n) ==
  /\ ~panicked
  /\ n \in shaking
  /\ epoch' = [epoch EXCEPT ![n] = @ + 1]
  /\ reported' = [reported EXCEPT ![n] = {p \in Managed : NodeOf[p] = n /\ inMemCache[p] # 0}]
  /\ shaking' = shaking \ {n}
  /\ UNCHANGED <<apiVars, handled, flushing, inMemCache, readyTimers, queueVars,
                 syncVars, exposing, clientPool, call, envVars, panicked>>

\* The exclusive section of Handshake: no shared holder is left, the new epoch
\* is set and the in-mem pods of the node are returned.
HandshakeLock(n) ==
  /\ ~panicked
  /\ n \in shaking /\ Holders(n) = {}
  /\ epoch' = [epoch EXCEPT ![n] = @ + 1]
  /\ reported' = [reported EXCEPT ![n] = {p \in Managed : NodeOf[p] = n /\ inMemCache[p] # 0}]
  /\ shaking' = shaking \ {n}
  /\ UNCHANGED <<apiVars, handled, flushing, inMemCache, readyTimers, queueVars,
                 syncVars, exposing, clientPool, call, envVars, panicked>>

\* The source of node n sends a BindPod call under the epoch it agreed on.
SendBindPod(c) ==
  LET n == NodeOf[call[c].pod] IN
  /\ call[c].pc = "unsent" /\ epoch[n] > 0
  /\ call' = [call EXCEPT ![c].pc = "sent", ![c].epoch = epoch[n]]
  /\ UNCHANGED <<apiVars, handled, flushing, inMemCache, readyTimers, queueVars,
                 syncVars, exposing, clientPool, epoch, shaking, reported, envVars, panicked>>

\* BindPod up to RLock: the call fails without a template or under another epoch.
BindPodRLock(c) ==
  /\ ~panicked
  /\ call[c].pc = "sent"
  /\ call' = [call EXCEPT ![c].pc =
                IF template = "listed" /\ call[c].epoch = epoch[NodeOf[call[c].pod]]
                THEN "locked" ELSE "failed"]
  /\ UNCHANGED <<apiVars, handled, flushing, inMemCache, readyTimers, queueVars,
                 syncVars, exposing, clientPool, epoch, shaking, reported, envVars, panicked>>

\* inMemCache.GetOrCreate: a pod that is there already is ignored.
BindPodInsert(c) ==
  LET p == call[c].pod IN
  /\ ~panicked
  /\ call[c].pc = "locked"
  /\ \/ /\ inMemCache[p] # 0
        /\ call' = [call EXCEPT ![c].pc = "done"]
        /\ UNCHANGED inMemCache
     \/ /\ inMemCache[p] = 0
        /\ inMemCache' = [inMemCache EXCEPT ![p] = call[c].epoch]
        /\ call' = [call EXCEPT ![c].pc = "inserted"]
  /\ UNCHANGED <<apiVars, handled, flushing, readyTimers, queueVars, syncVars, exposing,
                 clientPool, epoch, shaking, reported, envVars, panicked>>

\* queue.Add of the fresh pod, RUnlock and the reply.
BindPodEnqueue(c) ==
  /\ ~panicked
  /\ call[c].pc = "inserted"
  /\ dirty' = dirty \cup {call[c].pod}
  /\ call' = [call EXCEPT ![c].pc = "done"]
  /\ UNCHANGED <<apiVars, handled, flushing, inMemCache, readyTimers, delayed, syncVars,
                 exposing, clientPool, epoch, shaking, reported, envVars, panicked>>

-----------------------------------------------------------------------------
\* SyncPod, run by a worker for the item it got from the queue.

\* The worker returns: Done, with AddRateLimited or AddAfter before it or not.
SyncDone(p, again) ==
  /\ pc' = [pc EXCEPT ![p] = "idle"]
  /\ rv' = [rv EXCEPT ![p] = 0] /\ since' = [since EXCEPT ![p] = 0]
  /\ delayed' = IF again THEN delayed \cup {p} ELSE delayed

SyncContinue(p, at, v, t) ==
  /\ pc' = [pc EXCEPT ![p] = at]
  /\ rv' = [rv EXCEPT ![p] = v] /\ since' = [since EXCEPT ![p] = t]
  /\ UNCHANGED delayed

\* queue.Get and the first half of SyncPod: read the informer cache and, when
\* the pod is there, branch on who is responsible for it and on its status.
SyncPodGet(p) ==
  LET v == lister(p) IN
  /\ ~panicked
  /\ p \in dirty /\ pc[p] = "idle" /\ Cardinality(Busy) < nWorkers
  /\ dirty' = dirty \ {p}
  /\ \/ v.st = "none" /\ SyncContinue(p, "inmem", 0, 0) /\ UNCHANGED readyTimers
     \/ v.st # "none" /\ isResponsibleFor(p) = "error" /\ SyncDone(p, TRUE) /\ UNCHANGED readyTimers
     \/ v.st # "none" /\ isResponsibleFor(p) = "no" /\ SyncDone(p, FALSE) /\ UNCHANGED readyTimers
     \/ /\ v.st # "none" /\ isResponsibleFor(p) = "yes"
        /\ \/ v.del /\ SyncContinue(p, "delete", seen[p], 0) /\ UNCHANGED readyTimers
           \/ /\ ~v.del /\ v.st \in {"ready", "failed"}
              /\ readyTimers' = [readyTimers EXCEPT ![p] = NoTimer]
              /\ SyncDone(p, FALSE)
           \/ ~v.del /\ v.st = "pending" /\ SyncContinue(p, "timer", seen[p], 0) /\ UNCHANGED readyTimers
  /\ UNCHANGED <<apiVars, handled, flushing, inMemCache, exposing, clientPool, rpcVars,
                 envVars, panicked>>

\* Mutant: an in-mem pod of a node that is not listed yet is dropped.
SyncPodInMem_NoRetry(p) ==
  LET found == inMemCache[p] # 0 /\ template = "listed" IN
  /\ ~panicked
  /\ pc[p] = "inmem"
  /\ \/ ~(found /\ isResponsibleFor(p) = "yes") /\ SyncDone(p, FALSE)
     \/ found /\ isResponsibleFor(p) = "yes" /\ SyncContinue(p, "timer", 0, 0)
  /\ UNCHANGED <<apiVars, handled, flushing, inMemCache, readyTimers, dirty, exposing,
                 clientPool, rpcVars, envVars, panicked>>

\* The informer cache had no such pod: instantiate it from the in-mem cache.
SyncPodInMem(p) ==
  LET found == inMemCache[p] # 0 /\ template = "listed" IN
  /\ ~panicked
  /\ pc[p] = "inmem"
  /\ \/ ~found /\ SyncDone(p, FALSE)
     \/ found /\ isResponsibleFor(p) = "error" /\ SyncDone(p, TRUE)
     \/ found /\ isResponsibleFor(p) = "no" /\ SyncDone(p, FALSE)
     \/ found /\ isResponsibleFor(p) = "yes" /\ SyncContinue(p, "timer", 0, 0)
  /\ UNCHANGED <<apiVars, handled, flushing, inMemCache, readyTimers, dirty, exposing,
                 clientPool, rpcVars, envVars, panicked>>

\* Mutant: an in-mem pod is exposed whether its timer is fresh or not.
SyncPodTimer_ExposeAgain(p) ==
  LET fresh == readyTimers[p].st = "none"
      t == IF fresh
           THEN [st |-> IF readyDelay = 0 THEN "elapsed" ELSE "running", at |-> Len(log[p])]
           ELSE readyTimers[p]
  IN
  /\ ~panicked
  /\ pc[p] = "timer"
  /\ readyTimers' = [readyTimers EXCEPT ![p] = t]
  /\ exposing' = IF rv[p] = 0 THEN [exposing EXCEPT ![p] = @ + 1] ELSE exposing
  /\ \/ t.st = "running" /\ SyncDone(p, TRUE)
     \/ t.st = "elapsed" /\ rv[p] = 0 /\ SyncDone(p, FALSE)
     \/ t.st = "elapsed" /\ rv[p] # 0 /\ SyncContinue(p, "mark", rv[p], t.at)
  /\ UNCHANGED <<apiVars, handled, flushing, inMemCache, dirty, clientPool, rpcVars,
                 envVars, panicked>>

\* readyTimers.GetOrCreate.  A fresh timer of an in-mem pod exposes the pod.
SyncPodTimer(p) ==
  LET fresh == readyTimers[p].st = "none"
      t == IF fresh
           THEN [st |-> IF readyDelay = 0 THEN "elapsed" ELSE "running", at |-> Len(log[p])]
           ELSE readyTimers[p]
  IN
  /\ ~panicked
  /\ pc[p] = "timer"
  /\ readyTimers' = [readyTimers EXCEPT ![p] = t]
  /\ exposing' = IF fresh /\ rv[p] = 0 THEN [exposing EXCEPT ![p] = @ + 1] ELSE exposing
  /\ \/ t.st = "running" /\ SyncDone(p, TRUE)
     \/ t.st = "elapsed" /\ rv[p] = 0 /\ SyncDone(p, FALSE)
     \/ t.st = "elapsed" /\ rv[p] # 0 /\ SyncContinue(p, "mark", rv[p], t.at)
  /\ UNCHANGED <<apiVars, handled, flushing, inMemCache, dirty, clientPool, rpcVars,
                 envVars, panicked>>

\* Mutant: the status write carries no resourceVersion.
Accepts_AnyVersion(p) == api(p).st # "none" /\ api(p).uid = log[p][rv[p]].uid

\* The API server accepts a status write made from version rv[p]: an update
\* needs that very version, a patch only the same uid.
Accepts(p) ==
  IF patch THEN api(p).st # "none" /\ api(p).uid = log[p][rv[p]].uid
           ELSE rv[p] = Len(log[p])

\* The status simulateRefPodStatus builds, and every one getRefPodStatus picks: the
\* pod runs and is ready, whatever it was before, with the timestamps of now.
refStatus == "ready"

\* markPodReady through the client of the pod's node; GetClient may return nil.
SyncPodMark(p) ==
  /\ ~panicked
  /\ pc[p] = "mark"
  /\ \/ /\ NodeOf[p] \notin clientPool
        /\ panicked' = TRUE
        /\ UNCHANGED <<log, syncVars, delayed>>
     \/ /\ NodeOf[p] \in clientPool /\ Accepts(p)
        /\ Write(p, [api(p) EXCEPT !.st = refStatus, !.by = "kubelet"])
        /\ SyncDone(p, FALSE)
        /\ UNCHANGED panicked
     \/ /\ NodeOf[p] \in clientPool /\ ~Accepts(p)
        /\ SyncDone(p, TRUE)
        /\ UNCHANGED <<log, panicked>>
  /\ UNCHANGED <<seen, handled, flushing, inMemCache, readyTimers, dirty, exposing,
                 clientPool, rpcVars, envVars>>

\* Mutant: the timer is left to the informer's handler.
SyncPodDelete_KeepTimer(p) ==
  /\ ~panicked
  /\ pc[p] = "delete"
  /\ IF api(p).st # "none" THEN Write(p, Removed(p, "kubelet")) ELSE UNCHANGED log
  /\ SyncDone(p, FALSE)
  /\ UNCHANGED <<seen, handled, flushing, inMemCache, readyTimers, dirty, exposing,
                 clientPool, rpcVars, envVars, panicked>>

\* The forced delete, by name, of a pod whose deletion was requested.
SyncPodDelete(p) ==
  /\ ~panicked
  /\ pc[p] = "delete"
  /\ IF api(p).st # "none" THEN Write(p, Removed(p, "kubelet")) ELSE UNCHANGED log
  /\ readyTimers' = [readyTimers EXCEPT ![p] = NoTimer]
  /\ SyncDone(p, FALSE)
  /\ UNCHANGED <<seen, handled, flushing, inMemCache, dirty, exposing, clientPool,
                 rpcVars, envVars, panicked>>

\* Mutant: a failed item is not retried.
SyncPodError_NoRetry(p) ==
  /\ ~panicked
  /\ pc[p] \in {"mark", "delete"}
  /\ SyncDone(p, FALSE)
  /\ UNCHANGED <<apiVars, handled, flushing, inMemCache, readyTimers, dirty, exposing,
                 clientPool, rpcVars, envVars, panicked>>

\* The API request fails without effect, or no reference pod is ready: the item is
\* retried.
SyncPodError(p) ==
  /\ ~panicked
  /\ pc[p] \in {"mark", "delete"}
  /\ SyncDone(p, TRUE)
  /\ UNCHANGED <<apiVars, handled, flushing, inMemCache, readyTimers, dirty, exposing,
                 clientPool, rpcVars, envVars, panicked>>

\* The status write takes effect but returns an error, a timeout or a lost connection:
\* the item is retried.
SyncPodMarkLost(p) ==
  /\ ~panicked
  /\ pc[p] = "mark" /\ NodeOf[p] \in clientPool /\ Accepts(p) /\ MayLose(p, "mark")
  /\ Write(p, [api(p) EXCEPT !.st = refStatus, !.by = "lost"])
  /\ SyncDone(p, TRUE)
  /\ UNCHANGED <<seen, handled, flushing, inMemCache, readyTimers, dirty, exposing,
                 clientPool, rpcVars, envVars, panicked>>

\* So does the forced delete: SyncPod returns before readyTimers.Del.
SyncPodDeleteLost(p) ==
  /\ ~panicked
  /\ pc[p] = "delete" /\ api(p).st # "none" /\ MayLose(p, "delete")
  /\ Write(p, Removed(p, "lost"))
  /\ SyncDone(p, TRUE)
  /\ UNCHANGED <<seen, handled, flushing, inMemCache, readyTimers, dirty, exposing,
                 clientPool, rpcVars, envVars, panicked>>

\* Mutant: a failed Create is not retried.
ExposeManagedPod_NoRetry(p) ==
  /\ ~panicked
  /\ exposing[p] > 0
  /\ \/ /\ NodeOf[p] \notin clientPool
        /\ panicked' = TRUE
        /\ UNCHANGED <<log, exposing>>
     \/ /\ NodeOf[p] \in clientPool
        /\ (api(p).st = "none" /\ Write(p, Created(p, "kubelet"))) \/ UNCHANGED log
        /\ exposing' = [exposing EXCEPT ![p] = @ - 1]
        /\ UNCHANGED panicked
  /\ UNCHANGED <<seen, handled, flushing, inMemCache, readyTimers, queueVars, syncVars,
                 clientPool, rpcVars, envVars>>

\* ExposeManagedPod: Create succeeds, or finds that the pod exists.  A failed
\* Create is retried, which leaves the state as it is.
ExposeManagedPod(p) ==
  /\ ~panicked
  /\ exposing[p] > 0
  /\ \/ /\ NodeOf[p] \notin clientPool
        /\ panicked' = TRUE
        /\ UNCHANGED <<log, exposing>>
     \/ /\ NodeOf[p] \in clientPool
        /\ IF api(p).st = "none" THEN Write(p, Created(p, "kubelet")) ELSE UNCHANGED log
        /\ exposing' = [exposing EXCEPT ![p] = @ - 1]
        /\ UNCHANGED panicked
  /\ UNCHANGED <<seen, handled, flushing, inMemCache, readyTimers, queueVars, syncVars,
                 clientPool, rpcVars, envVars>>

\* Create takes effect but returns an error, and is retried a second later.
ExposeManagedPodLost(p) ==
  /\ ~panicked
  /\ exposing[p] > 0 /\ NodeOf[p] \in clientPool
  /\ api(p).st = "none" /\ MayLose(p, "create")
  /\ Write(p, Created(p, "lost"))
  /\ UNCHANGED <<seen, handled, flushing, inMemCache, readyTimers, queueVars, syncVars,
                 exposing, clientPool, rpcVars, envVars, panicked>>

-----------------------------------------------------------------------------
PodStep(p) ==
  \/ CreatePlain(p) \/ RequestDelete(p) \/ ForceDelete(p) \/ Fail(p)
  \/ Informer(p) \/ TimerElapses(p) \/ DelayedAdd(p)
  \/ handlePodEvent(p) \/ handlePodEventFlush(p)
  \/ SyncPodGet(p) \/ SyncPodInMem(p) \/ SyncPodTimer(p)
  \/ SyncPodMark(p) \/ SyncPodDelete(p) \/ SyncPodError(p)
  \/ SyncPodMarkLost(p) \/ SyncPodDeleteLost(p)
  \/ ExposeManagedPod(p) \/ ExposeManagedPodLost(p)

NodeStep(n) ==
  NodeListed(n) \/ AddrListed(n) \/ NodeDeleted(n) \/ HandshakeClient(n) \/ HandshakeLock(n)

CallStep(c) ==
  SendBindPod(c) \/ BindPodRLock(c) \/ BindPodInsert(c) \/ BindPodEnqueue(c)

Next ==
  \/ \E p \in Pods : PodStep(p)
  \/ \E n \in Nodes : NodeStep(n)
  \/ \E c \in Calls : CallStep(c)
  \/ TemplateListed \/ TemplateDeleted

Spec == Init /\ [][Next]_vars

\* The informers, the queue, the workers and the goroutines keep running: the
\* queue and the notification buffer are FIFO, so no item is passed over for
\* ever, and the API server answers one of the requests that are retried.
Fairness ==
  /\ \A p \in Pods :
       /\ WF_vars(Informer(p)) /\ WF_vars(TimerElapses(p)) /\ WF_vars(DelayedAdd(p))
       /\ SF_vars(handlePodEvent(p)) /\ WF_vars(handlePodEventFlush(p))
       /\ SF_vars(SyncPodGet(p)) /\ WF_vars(SyncPodInMem(p)) /\ WF_vars(SyncPodTimer(p))
       /\ SF_vars(SyncPodMark(p)) /\ SF_vars(SyncPodDelete(p))
       /\ WF_vars(ExposeManagedPod(p))
  /\ \A n \in Nodes : WF_vars(NodeListed(n)) /\ WF_vars(HandshakeLock(n))
  /\ \A c \in Calls :
       WF_vars(BindPodRLock(c)) /\ WF_vars(BindPodInsert(c)) /\ WF_vars(BindPodEnqueue(c))
  /\ WF_vars(TemplateListed)

FairSpec == Spec /\ Fairness

-----------------------------------------------------------------------------
\* The informer cache and the handler have been told of versions that exist.
LogType ==
  /\ log \in [Pods -> Seq(Version)]
  /\ seen \in [Pods -> Nat] /\ handled \in [Pods -> Nat]
  /\ \A p \in Pods : 0 < handled[p] /\ handled[p] <= seen[p] /\ seen[p] <= Len(log[p])

CacheType ==
  /\ flushing \in SUBSET Managed
  /\ inMemCache \in [Pods -> Nat]
  /\ readyTimers \in [Pods -> [st : {"none", "running", "elapsed"}, at : Nat]]
  /\ exposing \in [Pods -> Nat]
  /\ clientPool \in SUBSET Nodes
  /\ template \in {"unknown", "listed", "deleted"}
  /\ nodeLister \in [Nodes -> {"unknown", "bare", "listed", "deleted"}]
  /\ panicked \in BOOLEAN

SyncType ==
  /\ dirty \in SUBSET Pods /\ delayed \in SUBSET Pods
  /\ pc \in [Pods -> {"idle", "inmem", "timer", "mark", "delete"}]
  /\ rv \in [Pods -> Nat] /\ since \in [Pods -> Nat]
  /\ \A p \in Pods : rv[p] <= seen[p]

RpcType ==
  /\ epoch \in [Nodes -> Nat] /\ shaking \in SUBSET Nodes
  /\ reported \in [Nodes -> SUBSET Managed]
  /\ call \in [Calls -> [pc : {"unsent", "sent", "locked", "inserted", "done", "failed"},
                         pod : Managed, epoch : Nat]]

\* Every variable has its type; workers, handler and informer cache only refer to
\* versions of an object that the API server has had.
TypeOK == LogType /\ CacheType /\ SyncType /\ RpcType

\* A source knows of every in-mem pod of its node: the pod was in the answer to
\* the last Handshake, or it was bound by a call of the current epoch.  This is
\* what the exclusive and the shared lock on the epoch are for (Handshake, BindPod).
HandshakeComplete ==
  \A p \in Managed : inMemCache[p] # 0 =>
    p \in reported[NodeOf[p]] \/ inMemCache[p] = epoch[NodeOf[p]]

\* Something is still to happen to p: it is queued or synced, an exposing
\* goroutine or an informer notification is under way, or a call is about to add it.
WorkPending(p) ==
  \/ p \in dirty \cup delayed \cup flushing \/ pc[p] # "idle" \/ exposing[p] > 0
  \/ handled[p] < Len(log[p])
  \/ \E c \in Calls : call[c].pc = "inserted" /\ call[c].pod = p

\* No bound pod is forgotten: SyncPod drops an in-mem pod without requeueing it
\* because "the informer will do so upon pod creation event", so an in-mem pod
\* that this kubelet serves is exposed already or has work pending.
BoundPodNotForgotten ==
  \A p \in Managed :
    inMemCache[p] # 0 /\ template = "listed" /\ NodeOf[p] \in Delegated \cup {thisNode} =>
      WorkPending(p) \/ api(p).st # "none"

\* The version at which the incarnation of p's current object was created.
Born(p) == CHOOSE i \in 2 .. Len(log[p]) : log[p][i].uid = api(p).uid /\ log[p][i - 1].uid # api(p).uid

\* A pod is reported ready only after a delay of its own: when the API server would
\* accept the worker's markPodReady, and SyncPod removed the previous pod of that name
\* and got an answer, the timer that worker saw elapse was started after the removal.
\* After an error SyncPod leaves the old timer to the retry, which may find the next pod.
ReadyAfterDelay ==
  \A p \in Pods :
    pc[p] = "mark" /\ Accepts(p) /\ log[p][Born(p) - 1].by = "kubelet" => since[p] >= Born(p) - 1

\* SyncPod removes an API object only if the deletion of that object was requested.
DeleteOnlyRequested ==
  \A p \in Pods : \A i \in 2 .. Len(log[p]) :
    log[p][i].st = "none" /\ log[p][i].by # "env" => log[p][i - 1].del

\* markPodReady never takes a pod out of a terminal phase.
TerminalPhaseKept ==
  \A p \in Pods : \A i \in 2 .. Len(log[p]) :
    log[p][i - 1].st = "failed" => log[p][i].st \in {"failed", "none"}

\* SyncPod treats a pod as an in-mem one only while it is being created, never
\* after its API object was created and removed.
InMemOnlyDuringCreation ==
  \A p \in Managed : pc[p] = "timer" /\ rv[p] = 0 =>
    \A i \in 2 .. Len(log[p]) : log[p][i].st # "none"

\* SyncPod leaves alone the pods of nodes that are not delegated to this kubelet.
OthersUntouched ==
  \A p \in Pods : NodeOf[p] \notin Delegated \cup {thisNode} =>
    /\ readyTimers[p] = NoTimer /\ exposing[p] = 0
    /\ \A i \in 1 .. Len(log[p]) : log[p][i].by = "env"

\* GetClient finds a client wherever SyncPod and ExposeManagedPod use its result.
NoNilClient == ~panicked

\* A pod that BindPod accepted becomes ready, unless its deletion is requested.
BoundPodReady ==
  \A p \in Managed :
    inMemCache[p] # 0 ~>
      api(p).st = "ready" \/ api(p).del \/ (inMemCache[p] = 0 /\ api(p).st = "none")

\* A pod whose deletion is requested is removed from the API server.
DeletionCompletes ==
  \A p \in Pods : api(p).del ~> api(p).st = "none"

\* The managed pods that a BindPod call has put into the cache or found there.
BoundPods == {p \in Managed : \E c \in Calls : call[c].pc \in {"inserted", "done"} /\ call[c].pod = p}

\* What the clients of the API server tell apart of a version.
Visible(v) == IF v.st = "none" THEN "none" ELSE IF v.del THEN "deleting" ELSE v.st

Lifecycle == INSTANCE PodLifecycle WITH
  bound <- BoundPods, object <- [p \in Managed |-> Visible(api(p))]

\* As long as others remove no managed pod themselves and request one deletion per
\* name, and no Create takes effect and returns an error, workers, handler and exposing
\* goroutines together keep to the lifecycle of a pod: its object is created after
\* BindPod, does not go back to pending, and is removed by SyncPod only when its own
\* deletion was requested.  A Create that is retried may come after that removal.
ImplementsLifecycle == Lifecycle!LSpec
=============================================================================
