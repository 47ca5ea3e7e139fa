# TLA+ models of kubedirect-bench

The repository benchmarks Kubernetes with and without *Kubedirect*, a direct
path between control-plane components. It holds a custom kubelet that simulates
pods, a trace replayer with a gateway, dispatchers and autoscalers, and
microbenchmark drivers. This directory models the concurrent parts in TLA+,
checks them with TLC on small instances and proves the main results with TLAPS.

## The system

| part | source | how it interacts | model |
|---|---|---|---|
| custom kubelet | `cmd/kubelet` | receives `Handshake` and `BindPod` from the scheduler, keeps bound pods in memory, exposes them in the API server, marks them ready after a delay, deletes them on request | `CustomKubelet`, promise in `PodLifecycle` |
| pod dispatcher | `pkg/gateway/dispatcher/pod.go` | gives each request a token of a ready pod, executes it there, returns the token; `Reconcile` follows the pods of the deployment | `PodDispatcher`, promise in `DispatchService` |
| backends | `pkg/backend` | `Execute` and `Close` of an endpoint; the gRPC backend has a pool of connections | `GrpcDispatcher`, which composes it with `PodDispatcher` |
| gateway | `pkg/gateway` | starts and stops with the trace driver; one relay per deployment between the client's channels and the dispatcher's; counts requests for the autoscaler | `TraceReplay`; `k8sGateway.Reconcile` in `PodDispatcher` |
| Knative dispatcher | `pkg/gateway/dispatcher/ksvc.go` | forwards each request to a service URL | `TraceReplay` |
| replay client, trace driver | `pkg/replay`, `experiments/trace` | senders, receiver, writer, and the shutdown order | `TraceReplay` |
| KPA autoscaler | `pkg/autoscaler` | counts requests, decides on pod counts on every tick, updates the deployment | `Autoscaler` |
| one-time autoscaler | `pkg/autoscaler/onetime.go` | scales once, on the first request | `Autoscaler` |
| workload | `pkg/workload` | trace files, sampling of rates, the function that is benchmarked | not modelled |
| pod-timing benchmarks | `experiments/microbench/e2e`, `breakdown/kubelet` | drivers that scale deployments or bind pods, and monitors that wait for the pods | `PodBench` |
| RPC breakdowns | `experiments/microbench/breakdown/{autoscaler,deployment,endpoints,replicaset,scheduler}` | drivers that time one controller each through a Kubedirect RPC | `RpcBench` |

## CustomKubelet

The API server is a log of versions per pod (`log`); the informer cache is the
prefix `seen`, the event handler has been told of the prefix `handled`. A
version records who wrote it, so that properties can speak about what the
kubelet did. The kubelet's own state keeps its names: `inMemCache` (the epoch a
pod was bound under, 0 if absent), `readyTimers`, the work queue (`dirty`,
`delayed`), `clientPool`, the epoch lock (`shaking`, `epoch`), one `pc` per pod
for the worker that syncs it, `exposing` for the goroutines of
`ExposeManagedPod`.

`SyncPod` is split where other goroutines can interfere: reading the informer
cache (`SyncPodGet`), reading the in-mem cache and the template
(`SyncPodInMem`), the timer (`SyncPodTimer`), and the API write (`SyncPodMark`,
`SyncPodDelete`). A request to the API server ends in one of three ways: it
succeeds, it fails without effect (`SyncPodError`, or another round of
`ExposeManagedPod`), or it takes effect and returns an error all the same, because
the answer is lost or too late (`SyncPodMarkLost`, `SyncPodDeleteLost`,
`ExposeManagedPodLost`). The code treats the last two alike: the worker's item is
queued again and `readyTimers` is left as it is, `ExposeManagedPod` tries again.
`Unanswered` says which kinds of request may lose an answer and `MaxLost` how often
for one pod; such versions of the log have `by = "lost"`. `Handshake` and
`BindPod` are split at the lock. The environment creates, deletes, fails and
force-deletes pods, deletes the owner and removes nodes. A node of `Late` is in
the informer cache before it has a service address there: addresses are
published by the kubelets when they start and by the operator who delegates
nodes, and the cache lags behind both. `isResponsibleFor` compares what the cache
shows, a missing address included.

The specification starts when `ListenAndServe` starts the workers. The address
of this node is published by then, but the cache may not show it (`thisNode` in
`Late`). The retries of the publication, and the errors that end the process
before, are not modelled.

`PodLifecycle` is what the kubelet promises of managed pods, as clients of the API
server see it: an object is created for a pod that was bound, becomes ready once,
and is removed only after its own deletion was requested. The mapping takes the
last version of the log and the pods of the `BindPod` calls.

Abstractions: a pod's status is one of `none`, `pending`, `ready`, `failed`.
Reference pods only matter in that there may be none yet, which is an error
that is retried. The kubelet process is not restarted by anybody, so there is
no restart action.

| run | instance | shows |
|---|---|---|
| `KubeletManaged` | 1 managed pod, 1 BindPod call, 2 epochs, owner may be deleted, patch mode, one answer of any kind lost | the type invariant; every in-mem pod is known to its source (`HandshakeComplete`); no nil client; the bound pod is not forgotten (`BoundPodNotForgotten`) |
| `KubeletNames` | 1 Kubernetes pod, its name used twice, failing and forced removal, update mode, one answer to a status write or delete lost | an incarnation after one whose removal the kubelet saw succeed waits for a timer of its own (`ReadyAfterDelay`); a terminal phase is never overwritten (`TerminalPhaseKept`) |
| `KubeletDelegation` | 2 workers, 3 nodes, one delegated and leaving, one foreign and `Late` | pods of foreign nodes are left alone (`OthersUntouched`), bound ones of the delegated node are not forgotten (`BoundPodNotForgotten`) |
| `KubeletLiveness` | 1 managed pod, 2 calls, update mode, one answer to a status write or delete lost | the refinement `ImplementsLifecycle`; bound pods become ready, deletions complete |
| `KubeletStaleDelete` | finding | a delete by name, from an old cache, removes a re-created pod |
| `KubeletResurrection` | finding | a pod whose object is gone is taken for one being created |

One pod suffices for the safety runs because pods share only the locks, the
workers and the client pool; two calls and two incarnations of a name are the
least that let an old call, timer or cache entry meet a new pod. The bounds
`MaxEpoch` and `MaxUid` limit handshakes and incarnations. One lost answer per pod
is the least that lets a retry meet its own effect. No answer is lost in
`KubeletDelegation`, which is about nodes: with one call and all three kinds of
request its properties hold too, on 15.7 million states.

A Create that takes effect and returns an error is the one lost answer that the code
does not absorb. `ExposeManagedPod` tries again (`kubedirect.go:122`), and the retry
may come after the first object was deleted on request. It then creates a second
object, and a worker whose cache still shows the first deletion removes that one by
name. With `Unanswered = {"create"}` `ImplementsLifecycle` is therefore false with
one call (a counterexample of 22 states); `BoundPodNotForgotten` and `BoundPodReady`
hold with one call and are false with two (44 states). The runs and theorems about
these properties exclude it, as `KubeletManaged` does not.

Seven more behaviours show up when the constants are changed. With a Kubernetes
pod and no handshake `NoNilClient` fails: `GetClient` (`kubedirect.go:41`) finds
no client before the node's first handshake. With `Forced = {m1}` and two calls
`BoundPodNotForgotten` fails: the timer of the removed pod makes the second
binding look handled. It also fails with `MaxUid = 2` and three calls, update mode,
no delay and no forced removal: the stale delete of the finding removes a third
object, a worker that had read that object starts a timer after the handler cleared
it, and the pod, bound again, is dropped as one that the informer is about to report
(`kubelet.go:301`; the counterexample has 67 states). `ReadyAfterDelay` needs its
condition for the same reason: the timer of a pod that others removed, or whose
delete returned an error, is kept until a handler or a worker sees the removal, and
may serve the next pod of that name. With `patch = TRUE` `TerminalPhaseKept` fails: a patch
carries no resource version. With `Late = {n1, n3}` `OthersUntouched` fails: two
missing addresses compare equal (`kubelet.go:199`). With `Late = {n2}`
`BoundPodNotForgotten` fails: a pod of a delegated node whose address is not in
the cache yet is dropped and not queued again (`kubelet.go:264`).

Fairness: informer, delayed queue, timers, event handler and workers are
goroutines that always run again (weak fairness). Steps that compete for the
single worker, or that an API error can interrupt for a while, have strong
fairness: the work queue is FIFO and failed items are retried with back-off.
Nothing is assumed of the environment.

## PodDispatcher, DispatchService and GrpcDispatcher

`PodDispatcher` has the channel of tokens as a bag (`tokens`), the endpoint map,
one control state per request (`req`) and the parallel goroutines of
`Reconcile` (`add`, `del`, `failed`, `puts`). Every interleaving of token
hand-over, look-up and removal is explored, and in the finding's run also that a
removed pod comes back. A failing `List`,
failing backends, a deleted deployment and cancellation are switches. Both runs have
`listErrors = FALSE`. A failed `List` is logged (`k8s.go:178`) and the deployment is
not queued again, so every endpoint is dropped until the next event:
`EndpointsConverge` is false with it, and a pod of which the endpoint is made again
may have a second set of tokens. `TokensKept`, `ExecutorsBound` and `PoolKept` are proved with failing
lists included.

`DispatchService` is what the dispatcher promises: a request is accepted,
assigned to a known pod with fewer than `concurrency` requests, finished and
answered once.

`GrpcDispatcher` adds the executors of the gRPC backend. Each is a pool of
connections (`pool[k][e]`, executor `e` of endpoint `k`) that `Execute` takes from
and gives back to, and that `Close` empties in a goroutine of its own once the
endpoint is removed. The channel of the pool is never closed, so `Close` never
ends: it also takes the connections that requests give back later. The actions
of the dispatcher are used as they are, and making an endpoint makes its first
client. A request may find no connection although there is one, because the
unbounded channel is fed by a goroutine; it then makes a client, whose connections
others may take first.

| run | instance | shows |
|---|---|---|
| `DispatcherService` (`GrpcDispatcher`) | 2 requests, 2 pods of which one leaves, 2 connections per client, failing backends and connections, deletion, cancellation | no token (`TokensNotLost`) and no connection (`PoolExact`) of a current endpoint is lost; the refinement `ImplementsService`, and with it the bound on requests per pod; every request answered; closed pools drained (`PoolDrained`); endpoints converge to the ready pods (`EndpointsConverge`) if `List` does not fail |
| `DispatcherDoubleToken` (`PodDispatcher`) | finding | a pod that returns under its key gets a second set of tokens |

Two requests and two pods let a request hold the only token of a pod while the
other takes, loses or waits for one; two connections per client let one be left
when another is in use. `MaxReady` bounds how often a pod becomes ready, and only
the pods of `Leaving` become unready. 2 is the least that lets an old token meet a
new endpoint, as in the finding; in `DispatcherService` it is 1, because the bound
on requests per pod, and with it the refinement, holds only then. `TokensNotLost`
is proved for every `MaxReady`.

`RequestAnswered` names one exception (`Stranded`): a request that waits for a
connection of an executor that is being closed may lose it to `Close` and waits
for ever, since `Execute` does not look at its context before it has a connection
(`grpc.go:102`).

Fairness is weak for the loop of `Reconcile`, for `Close` and for the goroutine of
each request, and strong for making a backend, which is retried until it
succeeds. An RPC returns because it has a deadline. Requests and pods are free, and
neither a failure nor the taking of a token is assumed: a request without a token
times out.

## TraceReplay

`at[r]` is the channel or goroutine that holds request `r` or its response,
from the sender to the output file. The four channels are unbounded, so no send
blocks. `main` is the control state of the trace driver; its timers are steps
that may happen at any time, with one exception. The 5 seconds before `Close` are
taken to be long enough for the gateway to have started and for its relays to see the
cancelled context: a relay that ran longer would send on a closed channel. No
other wait is assumed to be long enough for anything. Start-up is part of the
model: the cache sync, which a signal turns into a fatal error, the goroutine that
starts the gateway, the one in it that runs the autoscaler, and the client. Nothing
in the code orders the last three but two waits of 5 seconds, so the senders may be
ahead of the relays, and the relays of the autoscaler: a `ReqIn` before `Run` has set
`runCtx` panics (`panicked = "notStarted"`; with the one-time autoscaler only if its
goroutine is also ahead of `Run`). `framework` is the gateway and
the autoscaler of the run: Kubernetes with either autoscaler, of which only the KPA
counts requests, or Knative, which has none.

`ReplayShutdown` (2 targets, one with two senders and the other with one, every
framework, a signal at any moment) shows: the concurrency
handed to the autoscaler is exact (`ConcurrencyExact`);
each response that a relay passed on is in the summary (`SummaryComplete`); only
a signal before the last send can make a sender meet a closed channel
(`NoSendOnClosed`), in which case the process dies without a summary; and the
replay ends (`ReplayEnds`), by `main`'s return or by one of the crashes just named,
without any assumption on the dispatcher.

The `INVALID_TARGET` branch of `relay` is left out: a worker sends its own
target's requests to its own target's channel. Response status and file format
are left out.

## Autoscaler

One deployment, under the KPA or the one-time autoscaler (`framework`). With the
KPA `ReqIn` is two steps, because the decision can be stored between its count
and its look at the desired scale. A worker lists pods, observes, decides and
scales in four steps. Window averages are arbitrary numbers and windows elapse at
any time, which covers every metric history. The delay window keeps the counts
that are still the maximum of what follows them. The one-time autoscaler starts
one goroutine on the first request, which scales to `initialScale` or fails and is
not started again (`once`). An update that takes effect and returns an error leaves
the state that a successful one leaves, so it has no action of its own.

`AutoscalerKPA` (up to 2 pods observed, 2 requests, rates 2, threshold 1, initial
scale 1, with a delay window) shows: a scale from zero asks for at least one pod
(`AtLeastOneFromZero`); every decision provides for the stable window within the
rate limits (`ProvidesForStable`); no decision of a panic is below an earlier one
of that panic (`PanicFloor`); and a deployment with a request under way is scaled
up from zero although decisions cross requests, caches are old and updates fail
(`ScaledFromZero`), except that the one-time autoscaler's only attempt may fail
(`onetime.go:84` logs the error). The threshold is 1 rather than the configured 2
so that a panic can begin with one pod observed. `MaxPods` and `MaxRequests` are
bounds of the instance.

The comment at `decider/kpa.go:121` ("We do not scale down while in panic mode")
holds up to the delay window: an older, higher count that expires during a
panic lowers the decision to the maximum of the panic.

Fairness: ticker, worker, relay and cache keep running; of the KPA's repeated
attempts to scale some succeed. The one-time goroutine ends, in success or in
failure.

Two starts of the program are outside the model: a configuration that is nil
(`gateway/k8s.go:62` reads it unchecked) and rates that are not positive, which
neither configuration file of the repository has.

## PodBench

`e2e/common.go` and `breakdown/kubelet/{client,monitor}.go` do the same with
small differences, so one module has both; `experiment` says which driver runs.
`pc` is where `run` is, `wg` the WaitGroup, `seen` the pods that
`Expectation.Done` has recorded (the times themselves are left out), `events`
what the informer has still to deliver. The e2e driver waits until there are as many
ReplicaSets (`sets`) as deployments; one of `Rolling` may be given a second one.
The cluster creates, readies, updates
and deletes pods; a deployment replaces deleted ones. Requests may fail before
or after they took effect, and the context may be cancelled at any moment.

`BenchMonitor` (2 deployments, one of which may roll out, `-n 2`, one deletion and
one spare pod each)
shows: the counter is exact however often events repeat (`CountExact`); the
latency is taken from exactly the expected pods (`CompleteAtEnd`) and after every
request took effect (`AllApplied`) unless a
deployment replaced a pod; a driver crashes only by a negative WaitGroup after such
a replacement, or by a nil client after a cancellation and before anything is
expected (`CrashCauses`); and the run ends (`RunEnds`) unless a request fails, the
context is cancelled, or a rollout makes the number of ReplicaSets pass that of the
deployments (`e2e/common.go:191`), where the code does wait for ever. Replacements do
reach these exceptions: `Done` (`e2e/common.go:47`) counts any ready pod of the
deployment. One spare pod is the least that makes the counter negative.
`MaxBacklog` bounds the pending events that updates add.

The deployments have no pods at the start, and the data race of `Since` with a
handler (`e2e/common.go:77`) is left out: only a replacement is recorded then,
and that panics.

Fairness is weak for `run` and the handler, and for the cluster: requests that
have not failed take effect, each deployment gets its ReplicaSet, and pods are
created and become ready. No rollout is assumed.

## RpcBench

The five drivers share one shape and differ in which parts they have, so one
module has all of them and `driver` says which runs. `run` prepares its targets
(polls for ReplicaSets, or scales them and polls for ready pods), polls for a
client while the hub's lister and handshake run, starts one goroutine per `Watch`
and per call, and waits for two WaitGroups. `Watch`, update, `Scale` and
`SchedulePods` are split into sending, taking effect, returning, counting and
`Done`. Times are left out; the client hub, the API server and the controllers
are external, modelled from what `run` relies on: a `Watch`
is answered when its event happens, unless it is installed after the event.

`RpcDrivers` (2 targets, `-n 5`, so that the pods do not divide evenly, one
Deployment that may roll out, failing calls, cancellation at any moment) shows:
printed counts are exact (`ReportExact`); no total is printed of a truncated run
(`NotTruncated`), and a total covers every target whose RPC did not fail
(`TotalCovers`); comparing the number of ReplicaSets with that of Deployments
is enough unless a Deployment has two (`ReplicaSetsPresent`); a cancelled run ends
(`CancelEnds`); and a run ends by itself unless an update fails, a `Watch` comes
after its event, or a rollout upsets the count (`RunEnds`), where the code does
wait for ever. Two targets let one be done while the other is not.

Fairness: `run`, its goroutines, the controllers and the API server go on. Each of
their steps is taken at most once, so weak fairness of their disjunction is
fairness of each. One of the handshakes that are retried succeeds. No failure,
rollout or cancellation is assumed.

## Proofs

| module | theorem | statement |
|---|---|---|
| `CustomKubeletProofs` | `TypeCorrect` | `Spec => []TypeOK` |
| | `HandshakeCorrect` | `Spec => []HandshakeComplete` |
| | `ManagedNoNilClient` | `Spec => []NoNilClient` without Kubernetes pods and leaving nodes |
| | `OthersLeftAlone` | `Spec => []OthersUntouched` if not both this node and a foreign pod's node are `Late` |
| | `TerminalKept` | `Spec => []TerminalPhaseKept` when pods are marked by update |
| `PodHistoryProofs` | `DelayOfItsOwn` | `Spec => []ReadyAfterDelay` |
| | `RemovedAfterRequest` | `Spec => []RemovalRequested`: every removal by the kubelet follows a request for this object or an earlier one of its name |
| | `ObjectsNoticed` | `Spec => []ObjectNotForgotten` if the nodes of the pods served are not `Late`: an object that is pending or being deleted has work pending |
| | `DeletedOnRequest` | `Spec => []DeleteOnlyRequested` under `GracefulOnce` and without Kubernetes pods |
| | `BoundKept` | `Spec => []BoundPodNotForgotten` under `GracefulOnce` if the nodes of the managed pods served are not `Late` |
| | `LifecycleRefines` | `Spec => ImplementsLifecycle` under `GracefulOnce` |
| `PodDispatcherProofs` | `TypeCorrect` | `Spec => []TypeOK` |
| | `TokensKept` | `Spec => []TokensNotLost` |
| | `ConcurrencyBounded` | `Spec => []ServiceConcurrency` if no pod becomes ready twice and lists do not fail |
| | `DispatcherRefines` | `Spec => ImplementsService` under the same condition |
| | `ExecutorsBound` | `Spec => []ConcurrencyPerExecutor`: at most `podServiceConcurrency` requests per executor made |
| | `ExecutorsMade` | `Spec => []ExecutorPerReadiness` if lists do not fail |
| `GrpcDispatcherProofs` | `GrpcTypeCorrect` | `GrpcSpec => []GrpcTypeOK` |
| | `PoolKept` | `GrpcSpec => []PoolExact` |
| | `NobodyStarved` | `GrpcSpec => []WaitingServed`: a request that waits and is not stranded has a connection to come |
| | `GrpcTokensKept` | `GrpcSpec => []TokensNotLost /\ []ConcurrencyPerExecutor` |
| | `GrpcRefines` | `GrpcSpec => ImplementsService /\ []ServiceConcurrency` under the dispatcher's condition |
| `TraceReplayProofs` | `TypeCorrect` | `Spec => []TypeOK` |
| | `ConcurrencyCounted` | `Spec => []ConcurrencyExact` |
| | `SummaryCorrect` | `Spec => []SummaryComplete` |
| | `OnlySignalPanics` | `Spec => []NoSendOnClosed` |
| `AutoscalerProofs` | `TypeCorrect` | `Spec => []TypeOK` |
| | `StableProvided` | `Spec => []ProvidesForStable` |
| | `FromZero` | `Spec => []AtLeastOneFromZero` |
| | `PanicKept` | `Spec => PanicFloor`, an action property |
| `PodBenchProofs` | `TypeCorrect` | `Spec => []TypeOK` |
| | `Counted` | `Spec => []CountExact` |
| | `Complete` | `Spec => []CompleteAtEnd` |
| | `Crashes` | `Spec => []CrashCauses` |
| | `EveryRequest` | `Spec => []AllApplied` |
| `RpcBenchProofs` | `TypeCorrect` | `Spec => []TypeOK` |
| | `Reported` | `Spec => []ReportExact` |
| | `Complete` | `Spec => []NotTruncated` |
| | `Covered` | `Spec => []TotalCovers` |
| | `NilClientCancelled` | `Spec => []NilOnlyCancelled` |
| | `SetsComplete` | `Spec => []ReplicaSetsPresent` |

All hold for every value of the constants that meets the named assumptions of
the modules (`PodAssumption`, `BoundAssumption`, `DispatcherAssumption`,
`GrpcAssumption`, `ReplayAssumption`, `AutoscalerAssumption`, `BenchAssumption`,
`RpcBenchAssumption`): any number of pods, nodes, calls, requests, endpoints,
tokens, connections, targets and invocations.

`HandshakeComplete` is not inductive. The proof adds what the lock guarantees: a
call between taking the shared lock and inserting its pod has the node's current
epoch, because `Handshake` waits for such calls before it changes the epoch.
`NoNilClient` rests on: a bound, exposed or synced managed pod belongs to a node
that has shaken hands. `OthersUntouched` adds that a worker past
`isResponsibleFor` has a pod of this kubelet, and that only `Late` nodes lack an
address. `TerminalPhaseKept` adds that a worker about to mark a pod read a version
that was pending; an update is accepted only if that version is still the last.

`PodHistoryProofs` relates what the kubelet remembers of a pod to the history of the
objects of its name, pod by pod, since a step for one pod leaves the others alone.
`ReadyAfterDelay` needs that a timer in use, and the start that a marking worker
holds, are younger than every removal by a worker (`TimerOf`), and that a uid is one
stretch of the log (`UidOf`). `ObjectNotForgotten` is made inductive by what a worker
may know: either the next sync is on its way, or the one under way has read the last
version (`NoticedOf`); it needs no condition on who else removes or fails pods.

`GracefulOnce` says that others neither remove nor fail managed pods, that they request
the deletion of the first object of a name only, and that no Create takes effect and
returns an error. It excludes the counterexamples above; answers to status writes and
deletes may be lost, as often as `MaxLost` says. Under it `LifeOf` is inductive: the
first object is exposed once, a timer stands for an object that exists or is being
exposed, or for one whose removal the handler has yet to hear of, as after a delete
whose answer was lost (`TimerStands`), and nobody exposes a pod while `podLister` has still to
report a requested deletion. So the object that SyncPod deletes by name is the one
whose deletion it read, although a pod may be created again, as the finding
`KubeletResurrection` shows. `DeletedOnRequest` and the refinement follow; the
refinement adds that only bound pods are in the cache, synced or exposed
(`OnlyBound`). `BoundPodNotForgotten` adds that a worker about to delete leaves
another sync due unless there is an object to delete (`BoundOf`).

`TokensNotLost` counts: the tokens of an endpoint in the channel, with requests
and still to be put add up to at least its concurrency. `ServiceConcurrency`
needs the converse bound, and with it that an endpoint is made at most once,
which is where the assumption enters; the finding `DispatcherDoubleToken` shows
that it is needed. Without it the tokens are at most those of all executors made for
the key, and `Reconcile` makes at most one each time the pod becomes ready
(`ReadiedInv`), so a pod that became ready twice runs at most two sets of requests. The
refinement maps each request's control state to a phase
of the service; only assigning and finishing are not stutters, and assigning
uses the bound.

Every step of `GrpcDispatcher` is a step or a stutter of `PodDispatcher`, so the
dispatcher's theorems carry over (`GrpcIsDispatcher`). `PoolExact` is inductive
with the types: only `Close` takes a connection without a request, and it takes
none of a current executor. `WaitingServed` follows from the exact count: a
positive multiple of the connections per client is in the pool or in use.

`SummaryComplete` follows from the writer's count and from `DrainInv`: the
receiver stops only after `Close`, when no relay runs that could add a response.
`NoSendOnClosed` follows from `OrderInv`: closed inputs mean that `main` is past
its select, and a select that saw `finishSend` leaves nothing to send.

The autoscaler's invariant says that the delay window is bounded, so that it has a
greatest element, and that the stored decision is at least the maximum of the
panic under way. The clamp between the rate limits gives the other two.

`CompleteAtEnd` and the first half of `CrashCauses` compare sizes. Without a replacement
the recorded pods are a subset of the expected ones: for the e2e driver because
a recorded pod was ready (`EventInv`: pending events are true), so it was
created. The counter is the difference of the two sizes, so a counter of zero
makes the sets equal and a negative one is impossible. `AllApplied` follows: every
request has a recorded pod, a recorded pod was created, and only a request creates it
(`CreatedInv`).

For the RPC drivers each WaitGroup is the number of goroutines that were started
and have not called `Done`, and each counter the number that counted themselves
(`Counting`). Where `run` is says which were started and, past a `Wait`, how they
ended (`Phase`); `Causes` says why a call ended as it did.

Only model-checked: liveness under fairness (`BoundPodReady`, `DeletionCompletes`,
`RequestAnswered`, `PoolDrained`, `EndpointsConverge`, `ReplayEnds`,
`ScaledFromZero`, `RunEnds`, `CancelEnds`), which the prover does not reach. Every
other property of a passing run is also the statement of a theorem; where the
theorem has a condition, the run's constants meet it, but for `KubeletManaged`, which
checks `BoundPodNotForgotten` with a Create whose answer is lost.

Only proved: type correctness of `PodDispatcher` and of `Autoscaler`; that an RPC
driver calls a nil client only after a cancellation (`NilOnlyCancelled`); and the
invariants that the table above spells out (`RemovalRequested`,
`ObjectNotForgotten`, `ConcurrencyPerExecutor`, `ExecutorPerReadiness`,
`WaitingServed`). No run repeats them.

## Findings

- `KubeletStaleDelete`: the forced delete has no UID precondition
  (`kubelet.go:274`) although the comment before it relies on a requested
  deletion.
- `KubeletResurrection`: in-mem pods do not "only occur during creation"
  (`kubelet.go:269`); a worker that runs between the informer's cache update and
  its handler exposes a deleted pod again.
- `DispatcherDoubleToken`: tokens of removed pods are not always discarded
  (`pod.go:65`); a pod that returns under its key runs two requests at once.

## Not modelled

- `RequestStats` and the windows of the collector: the time integral of the
  concurrency over buckets. The averages it delivers are arbitrary in
  `Autoscaler`, so what is proved there does not depend on it.
- The panic of the autoscaler on an error that mentions `mvcc`
  (`autoscaler/interface.go:142`), which ends the process on purpose; such an
  error is like any other in the model.
- The end of the autoscaler: `runCtx.Done` in `tickAutoScaler`
  (`autoscaler/interface.go:163`) and the queue's `ShutDown` (line 121), which
  matter only when the program stops.
- The fake backend, which sleeps, and the choice of backends by flags.
- The pacing of senders: an invocation may be sent at any moment, which includes
  every pace.
- Trace files and their conversion, and the benchmarked function: sequential code
  without shared state. Most of it parses text.
- The composition of `TraceReplay`, `Autoscaler` and `PodDispatcher`. Each models
  the other two by all they may do: the autoscaler's requests come and go at any
  time, the dispatcher's pods too, and the replay's responses come at any time or
  never. Their product is beyond what TLC explores.
- Deployments that have pods before a benchmark starts, and the data race of
  `Since` (`e2e/common.go:77`).

Left out for good: flag parsing, logging, CSV and YAML parsing, generated
protobuf code, manifests and scripts, and the libraries (`client-go`,
`controller-runtime`, `chann`, Knative's windows, Kubedirect's RPC), which are
modelled by the behaviour this code relies on.

## Running

    tlc -workers 2 -config KubeletManaged.cfg MCCustomKubelet
    tlapm PodDispatcherProofs.tla

The proof modules make Zenon the default prover (`USE Zenon`); steps with
arithmetic cite `SMT`. In a module of this size that is several times faster than
trying SMT first, and it does not depend on the steps before.

`PROJECT.json` lists every run with its module, the source lines behind every
definition, and for each checked property a mutated definition that breaks it.
Definitions with an underscore (`ReturnToken_Kept`) are those mutants and are
used nowhere else.
