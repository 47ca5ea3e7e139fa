------------------------------ MODULE PodBench ------------------------------
(***************************************************************************)
(* The two benchmark drivers that time pods with a PodMonitor.  "e2e"       *)
(* (experiments/microbench/e2e) scales deployments up and waits for their   *)
(* pods; "kubelet" (experiments/microbench/breakdown/kubelet) binds pods to *)
(* a node through the Kubelet service.  Both add the number of pods to a    *)
(* WaitGroup, let the pod informer's handler count pods down, and take the  *)
(* latency from the times the handler recorded.                             *)
(*                                                                          *)
(* A pod is <<t, i>>, the i-th pod of target t.  The first ones of a target *)
(* are the expected ones.  The others replace deleted pods of a deployment, *)
(* or, for the kubelet driver, belong to somebody else's use of its owner.  *)
(***************************************************************************)
EXTENDS Integers, Sequences, FiniteSets

CONSTANTS
  Targets,      \* the deployments selected by the e2e driver
  target,       \* the owner that the kubelet driver binds pods of
  nPods,        \* the flag -n
  Rolling,      \* the deployments that may be given a second ReplicaSet, by a rollout
  MaxSpare,     \* bound: pods of a target beyond the expected ones, and deletions
  MaxBacklog    \* bound: events of a pod not handled yet, for updates

ASSUME BenchAssumption ==
  /\ IsFiniteSet(Targets) /\ target \in Targets /\ Rolling \subseteq Targets
  /\ nPods \in Nat /\ MaxSpare \in Nat /\ MaxBacklog \in Nat

VARIABLES
  experiment,   \* the driver that runs: "e2e" or "kubelet"
  pc,           \* where run is
  wg,           \* counter of the WaitGroup
  watched,      \* targets with an expectation
  seen,         \* pods with a time recorded by Expectation.Done
  sample,       \* number of times the latency was taken from
  applied,      \* requests that have taken effect
  answered,     \* requests whose goroutine has returned
  nScaled,      \* requests that returned no error
  sets,         \* the ReplicaSets of the deployments: pairs of a target and a number
  connected,    \* the kubelet driver's hub has a client
  cancelled,    \* the context is cancelled
  crashed,      \* "no", "negative" (WaitGroup counter) or "nil" (client)
  api,          \* api[p]: state of pod p
  events,       \* events[p]: watch events of p that are not handled yet
  readied       \* pods that have been ready

monitorVars == <<wg, watched, seen>>
requestVars == <<applied, answered, nScaled>>
setupVars == <<sets, connected>>
podVars == <<api, events, readied>>
vars == <<experiment, pc, monitorVars, sample, requestVars, setupVars, cancelled, crashed, podVars>>

nPodsPerTarget ==
  LET share == nPods \div Cardinality(Targets) IN IF share = 0 THEN 1 ELSE share

\* newPodInfos: nPods pods of the one target.
newPodInfos == {target} \X (1 .. nPods)

Selected == IF experiment = "e2e" THEN Targets ELSE {target}

Expected == IF experiment = "e2e" THEN Targets \X (1 .. nPodsPerTarget) ELSE newPodInfos

Pods == Targets \X (1 .. (IF nPods = 0 THEN 1 ELSE nPods) + MaxSpare)

\* One scale request per target, or one BindPod request per pod.
Requests == IF experiment = "e2e" THEN Targets ELSE Expected

Running == pc \notin {"done", "stopped"} /\ crashed = "no"

Init ==
  /\ experiment \in {"e2e", "kubelet"}
  /\ pc = "setup"
  /\ wg = 0 /\ watched = {} /\ seen = {} /\ sample = 0
  /\ applied = {} /\ answered = {} /\ nScaled = 0
  /\ sets = {} /\ connected = FALSE /\ cancelled = FALSE /\ crashed = "no"
  /\ api = [p \in Pods |-> "none"]
  /\ events = [p \in Pods |-> <<>>]
  /\ readied = {}

-----------------------------------------------------------------------------
\* run.

\* As many ReplicaSets as deployments, of whichever deployments they are.
waitForReplicaSets == Cardinality(sets) = Cardinality(Targets)

\* The e2e driver up to wg.Add.
SetupE2E ==
  /\ Running /\ experiment = "e2e" /\ pc = "setup"
  /\ waitForReplicaSets
  /\ pc' = "watch" /\ wg' = Cardinality(Expected)
  /\ UNCHANGED <<experiment, watched, seen, sample, requestVars, setupVars, cancelled, crashed, podVars>>

\* The kubelet driver up to wg.Add.  The error of the poll is ignored: when the context
\* ends it, the first pod, if there is one, makes run call a nil client.
SetupKubelet ==
  /\ Running /\ experiment = "kubelet" /\ pc = "setup"
  /\ \/ /\ connected \/ (cancelled /\ nPods = 0)
        /\ pc' = "watch" /\ wg' = Cardinality(Expected) /\ crashed' = crashed
     \/ cancelled /\ nPods > 0 /\ crashed' = "nil" /\ UNCHANGED <<pc, wg>>
  /\ UNCHANGED <<experiment, watched, seen, sample, requestVars, setupVars, cancelled, podVars>>

\* Any other error up to there is fatal, that of a poll for ReplicaSets which the
\* context ends included.
SetupFatal ==
  /\ Running /\ pc = "setup"
  /\ pc' = "stopped"
  /\ UNCHANGED <<experiment, monitorVars, sample, requestVars, setupVars, cancelled, crashed, podVars>>

\* monitor.Watch, one target after the other.
WatchE2E(t) ==
  /\ Running /\ experiment = "e2e" /\ pc = "watch" /\ t \in Targets \ watched
  /\ watched' = watched \cup {t}
  /\ UNCHANGED <<experiment, pc, wg, seen, sample, requestVars, setupVars, cancelled, crashed, podVars>>

\* monitor.Watch with all pod names at once.
WatchKubelet ==
  /\ Running /\ experiment = "kubelet" /\ pc = "watch" /\ watched = {}
  /\ watched' = {target}
  /\ UNCHANGED <<experiment, pc, wg, seen, sample, requestVars, setupVars, cancelled, crashed, podVars>>

\* Mutant: the requests are started before the last target is watched.
Start_Early ==
  /\ Running /\ pc = "watch" /\ watched # {}
  /\ pc' = "wait"
  /\ UNCHANGED <<experiment, monitorVars, sample, requestVars, setupVars, cancelled, crashed, podVars>>

\* A goroutine is started for every request.
Start ==
  /\ Running /\ pc = "watch" /\ watched = Selected
  /\ pc' = "wait"
  /\ UNCHANGED <<experiment, monitorVars, sample, requestVars, setupVars, cancelled, crashed, podVars>>

\* A goroutine returns from its request.  The error that may be returned, whether
\* or not the request took effect, is logged.
Answer(r) ==
  /\ Running /\ pc \in {"wait", "since"} /\ r \in Requests \ answered
  /\ answered' = answered \cup {r}
  /\ \/ r \in applied /\ nScaled' = nScaled + 1
     \/ nScaled' = nScaled
  /\ UNCHANGED <<experiment, pc, monitorVars, sample, applied, setupVars, cancelled, crashed, podVars>>

\* wg.Wait returns.
Wait ==
  /\ Running /\ pc = "wait" /\ wg = 0
  /\ pc' = IF cancelled THEN "stopped" ELSE "since"
  /\ UNCHANGED <<experiment, monitorVars, sample, requestVars, setupVars, cancelled, crashed, podVars>>

\* PodMonitor.Since gathers the times of all expectations.
SinceE2E ==
  /\ Running /\ experiment = "e2e" /\ pc = "since"
  /\ pc' = "done" /\ sample' = Cardinality(seen)
  /\ UNCHANGED <<experiment, monitorVars, requestVars, setupVars, cancelled, crashed, podVars>>

\* Since takes the zero times of pods that were not seen along with the others.
SinceKubelet ==
  /\ Running /\ experiment = "kubelet" /\ pc = "since"
  /\ pc' = "done" /\ sample' = Cardinality(Expected)
  /\ UNCHANGED <<experiment, monitorVars, requestVars, setupVars, cancelled, crashed, podVars>>

-----------------------------------------------------------------------------
\* PodMonitor.

\* Expectation.Done for a pod that is not recorded yet.  WaitGroup.Done panics when
\* the counter becomes negative.
Done(p) ==
  /\ seen' = seen \cup {p}
  /\ wg' = wg - 1
  /\ crashed' = IF wg = 0 THEN "negative" ELSE crashed

Dismissed == UNCHANGED <<wg, seen, crashed>>

\* The handler goroutine takes the next event of p.
TakeEvent(p) ==
  /\ Running /\ events[p] # <<>>
  /\ events' = [events EXCEPT ![p] = Tail(@)]
  /\ UNCHANGED <<experiment, pc, watched, sample, requestVars, setupVars, cancelled, api, readied>>

\* Mutant: an expectation does not remember the pods it has counted.
HandlePodEventE2E_NoSeen(p) ==
  /\ experiment = "e2e"
  /\ TakeEvent(p)
  /\ IF Head(events[p]) = "ready" /\ p[1] \in watched THEN Done(p) ELSE Dismissed

\* Mutant: pods are counted when they are created.
HandlePodEventE2E_NotReady(p) ==
  /\ experiment = "e2e"
  /\ TakeEvent(p)
  /\ IF Head(events[p]) # "gone" /\ p[1] \in watched /\ p \notin seen THEN Done(p) ELSE Dismissed

\* A ready pod counts once for the expectation of its target, whichever pod it is.
HandlePodEventE2E(p) ==
  /\ experiment = "e2e"
  /\ TakeEvent(p)
  /\ IF Head(events[p]) = "ready" /\ p[1] \in watched /\ p \notin seen THEN Done(p) ELSE Dismissed

\* Mutant: pods are not looked up by name.
HandlePodEventKubelet_AnyPod(p) ==
  /\ experiment = "kubelet"
  /\ TakeEvent(p)
  /\ IF Head(events[p]) \in {"ready", "gone"} /\ watched # {} /\ p \notin seen THEN Done(p) ELSE Dismissed

\* Mutant: a deleted pod does not count.
HandlePodEventKubelet_ReadyOnly(p) ==
  /\ experiment = "kubelet"
  /\ TakeEvent(p)
  /\ IF Head(events[p]) = "ready" /\ watched # {} /\ p \in Expected \ seen THEN Done(p) ELSE Dismissed

\* An expected pod counts once, when it is ready or when it is deleted.
HandlePodEventKubelet(p) ==
  /\ experiment = "kubelet"
  /\ TakeEvent(p)
  /\ IF Head(events[p]) \in {"ready", "gone"} /\ watched # {} /\ p \in Expected \ seen
     THEN Done(p) ELSE Dismissed

-----------------------------------------------------------------------------
\* The cluster and the user.

\* The deployment controller creates a ReplicaSet, the second one for a rollout.
ReplicaSetCreated(t, i) ==
  /\ Running /\ experiment = "e2e" /\ pc = "setup" /\ <<t, i>> \notin sets
  /\ i = 2 => t \in Rolling /\ <<t, 1>> \in sets
  /\ sets' = sets \cup {<<t, i>>}
  /\ UNCHANGED <<experiment, pc, monitorVars, sample, requestVars, connected, cancelled, crashed, podVars>>

\* The hub has listed the kubelet's address and shaken hands with it.
Connect ==
  /\ Running /\ experiment = "kubelet" /\ pc = "setup" /\ ~connected
  /\ connected' = TRUE
  /\ UNCHANGED <<experiment, pc, monitorVars, sample, requestVars, sets, cancelled, crashed, podVars>>

Cancel ==
  /\ Running /\ ~cancelled
  /\ cancelled' = TRUE
  /\ UNCHANGED <<experiment, pc, monitorVars, sample, requestVars, setupVars, crashed, podVars>>

\* A request takes effect; one that has failed without does not.
Apply(r) ==
  /\ Running /\ pc \in {"wait", "since"} /\ r \in Requests \ (applied \cup answered)
  /\ applied' = applied \cup {r}
  /\ UNCHANGED <<experiment, pc, monitorVars, sample, answered, nScaled, setupVars, cancelled, crashed, podVars>>

OfTarget(t, state) == {p \in Pods : p[1] = t /\ api[p] = state}

\* A pod is created: by the ReplicaSet of a target that has too few, or by
\* the kubelet that it was bound to.
MayCreate(p) ==
  IF experiment = "e2e"
  THEN /\ p[1] \in applied
       /\ p[2] > 1 => api[<<p[1], p[2] - 1>>] # "none"
       /\ p[2] <= nPodsPerTarget + Cardinality(OfTarget(p[1], "gone"))
  ELSE p \in applied \/ (p \notin Expected /\ p[1] = target /\ p[2] <= nPods + MaxSpare)

Step(p, state) ==
  /\ api' = [api EXCEPT ![p] = state]
  /\ events' = [events EXCEPT ![p] = Append(@, state)]
  /\ UNCHANGED <<experiment, pc, monitorVars, sample, requestVars, setupVars, cancelled, crashed>>

Create(p) ==
  /\ Running /\ api[p] = "none" /\ MayCreate(p)
  /\ Step(p, "pending") /\ readied' = readied

Ready(p) ==
  /\ Running /\ api[p] = "pending"
  /\ Step(p, "ready") /\ readied' = readied \cup {p}

\* An update of a pod that stays ready.
Update(p) ==
  /\ Running /\ api[p] = "ready" /\ Len(events[p]) < MaxBacklog
  /\ Step(p, "ready") /\ readied' = readied

Delete(p) ==
  /\ Running /\ api[p] \in {"pending", "ready"}
  /\ Cardinality(OfTarget(p[1], "gone")) < MaxSpare
  /\ Step(p, "gone") /\ readied' = readied

-----------------------------------------------------------------------------
Main ==
  \/ SetupE2E \/ SetupKubelet \/ WatchKubelet \/ Start \/ Wait \/ SinceE2E \/ SinceKubelet
  \/ \E t \in Targets : WatchE2E(t)

HandlePodEvent(p) == HandlePodEventE2E(p) \/ HandlePodEventKubelet(p)

PodStep(p) == Create(p) \/ Ready(p) \/ Update(p) \/ Delete(p)

Next ==
  \/ Main \/ SetupFatal \/ Connect \/ Cancel
  \/ \E t \in Targets, i \in 1 .. 2 : ReplicaSetCreated(t, i)
  \/ \E r \in Requests : Apply(r) \/ Answer(r)
  \/ \E p \in Pods : HandlePodEvent(p) \/ PodStep(p)

Spec == Init /\ [][Next]_vars

\* run and the informer's handler keep going, and so does the cluster: every deployment
\* gets a ReplicaSet, every request takes effect or is answered.
Fairness ==
  /\ WF_vars(Main) /\ WF_vars(Connect)
  /\ \A t \in Targets : WF_vars(ReplicaSetCreated(t, 1))
  /\ \A r \in Targets \cup Pods : WF_vars(r \in Requests /\ Apply(r))
  /\ \A p \in Pods : WF_vars(Create(p) \/ Ready(p)) /\ WF_vars(HandlePodEvent(p))

FairSpec == Spec /\ Fairness

-----------------------------------------------------------------------------
\* Every variable has its type; requests are only started when all targets are watched.
TypeOK ==
  /\ experiment \in {"e2e", "kubelet"}
  /\ pc \in {"setup", "watch", "wait", "since", "done", "stopped"}
  /\ wg \in Int /\ watched \in SUBSET Selected /\ seen \in SUBSET Pods /\ sample \in Nat
  /\ applied \in SUBSET Requests /\ answered \in SUBSET Requests /\ nScaled \in Nat
  /\ sets \in SUBSET (Targets \X (1 .. 2)) /\ connected \in BOOLEAN
  /\ cancelled \in BOOLEAN /\ crashed \in {"no", "negative", "nil"}
  /\ api \in [Pods -> {"none", "pending", "ready", "gone"}]
  /\ events \in [Pods -> Seq({"pending", "ready", "gone"})]
  /\ readied \in SUBSET Pods
  /\ pc \in {"wait", "since", "done"} => watched = Selected

\* The WaitGroup counts the pods that Expectation.Done has recorded, however many
\* events a pod has.
CountExact == pc \notin {"setup", "stopped"} => wg = Cardinality(Expected) - Cardinality(seen)

\* A deployment has had to replace a pod.
Replaced == experiment = "e2e" /\ \E p \in Pods \ Expected : api[p] # "none"

\* When run takes the latency it takes it from the expected pods, all of them, and
\* each has been ready or, with the kubelet driver, deleted.  A replacement takes
\* the place of an expected pod in the count.
CompleteAtEnd ==
  pc \in {"since", "done"} /\ ~Replaced =>
    /\ seen = Expected
    /\ \A p \in Expected : p \in readied \/ (experiment = "kubelet" /\ api[p] = "gone")
    /\ pc = "done" => sample = Cardinality(Expected)

\* What makes a driver crash.  The WaitGroup counter becomes negative after a
\* replacement only: not by an event that is handled twice, nor by a pod of the owner
\* that is not the driver's.  A nil client is called after a cancellation only, and
\* before the monitor is told to expect a pod.
CrashCauses ==
  /\ crashed = "negative" => Replaced
  /\ crashed = "nil" => cancelled /\ watched = {} /\ wg = 0

\* The count that run prints does not wait for the goroutines and may be too low.  That
\* never means that the latency leaves requests out: once wg.Wait has returned every
\* request has taken effect, unless a replacement stood in for a pod of another one.
AllApplied == pc \in {"since", "done"} /\ ~Replaced => applied = Requests

\* A deployment has two ReplicaSets.
Rollout(t) == <<t, 2>> \in sets

\* A run comes to an end if its requests all take effect and no deployment has a second
\* ReplicaSet, for which waitForReplicaSets would wait for ever.
RunEnds ==
  <>(~Running \/ cancelled \/ answered \ applied # {} \/ \E t \in Targets : Rollout(t))
=============================================================================
