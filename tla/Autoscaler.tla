----------------------------- MODULE Autoscaler -----------------------------
(***************************************************************************)
(* The autoscalers of one deployment.  The Knative-style one is             *)
(* autoscalerImpl with its work queue and ticker                            *)
(* (pkg/autoscaler/interface.go), the KPA decider (decider/kpa.go) and the  *)
(* request count it looks at (metric/stats.go); the one-time autoscaler     *)
(* (onetime.go) scales on the first request.  Both use the deployment       *)
(* scaler (scaler/deployment.go).  Deployments share nothing but the 16     *)
(* workers.                                                                 *)
(*                                                                         *)
(* The window averages are arbitrary: the decider sees them only as the    *)
(* pod counts dspc and dppc, any numbers up to MaxPods.  Elapsed windows   *)
(* are arbitrary as well.                                                  *)
(***************************************************************************)
EXTENDS Integers, FiniteSetsExt

CONSTANTS
  maxScaleUpRate, maxScaleDownRate, panicThreshold,
  hasDelayWindow,   \* scaleDownDelaySeconds > 0
  async,            \* requests never queue the deployment themselves
  initialScale,     \* of the one-time autoscaler
  MaxPods,          \* bound of the observed pod counts and of the pods listed
  MaxRequests       \* bound of the requests under way

ASSUME AutoscalerAssumption ==
  /\ maxScaleUpRate \in Nat \ {0} /\ maxScaleDownRate \in Nat \ {0}
  /\ panicThreshold \in Nat \ {0}
  /\ hasDelayWindow \in BOOLEAN /\ async \in BOOLEAN
  /\ initialScale \in Nat \ {0}
  /\ MaxPods \in Nat /\ MaxRequests \in Nat

VARIABLES
  framework,      \* "kpa" or "one-time"
  once,           \* the one-time scaling: "unseen", "scaling", "scaled" or "failed"
  concurrency,    \* requests under way, RequestStats.concurrency
  reqIn,          \* the relay is in ReqIn, past the count
  active,         \* the decider is activated: its collector and the ticker run
  queued,         \* the key is in the work queue
  pc,             \* the worker that has the key: "idle", "listed", "observed", "decided"
  nReady,         \* ready pods the worker listed
  observed,       \* the worker's dspc, dppc and instant concurrency
  panicking,      \* panicTime is not zero
  maxPanicPods,
  delayWindow,    \* the pod counts recorded and not expired
  desiredScale,
  replicas,       \* spec.replicas at the API server
  cached,         \* spec.replicas in the manager's cache
  ready           \* ready pods in the manager's cache

deciderVars == <<panicking, maxPanicPods, delayWindow, desiredScale>>
workerVars == <<pc, nReady, observed>>
clusterVars == <<replicas, cached, ready>>
requestVars == <<concurrency, reqIn, active>>
oneTimeVars == <<framework, once>>
vars == <<oneTimeVars, requestVars, queued, workerVars, deciderVars, clusterVars>>

Nothing == [stable |-> 0, panic |-> 0, instant |-> 0]

Init ==
  /\ framework \in {"kpa", "one-time"} /\ once = "unseen"
  /\ concurrency = 0 /\ reqIn = FALSE /\ active = FALSE
  /\ queued = FALSE
  /\ pc = "idle" /\ nReady = 0 /\ observed = Nothing
  /\ panicking = FALSE /\ maxPanicPods = 0 /\ delayWindow = {} /\ desiredScale = 0
  /\ replicas = 0 /\ cached = 0 /\ ready = 0

-----------------------------------------------------------------------------
\* Mutant: the ticker is not started.
ReqIn_NoTicker ==
  /\ framework = "kpa"
  /\ ~reqIn /\ concurrency < MaxRequests
  /\ concurrency' = concurrency + 1
  /\ reqIn' = TRUE
  /\ UNCHANGED <<oneTimeVars, active, queued, workerVars, deciderVars, clusterVars>>

\* ReqIn counts the request and activates the decider.
ReqIn ==
  /\ framework = "kpa"
  /\ ~reqIn /\ concurrency < MaxRequests
  /\ concurrency' = concurrency + 1
  /\ active' = TRUE
  /\ reqIn' = TRUE
  /\ UNCHANGED <<oneTimeVars, queued, workerVars, deciderVars, clusterVars>>

\* The rest of ReqIn: a deployment without desired pods is queued at once.
ReqInDesired ==
  /\ reqIn
  /\ reqIn' = FALSE
  /\ queued' = (queued \/ (~async /\ desiredScale = 0))
  /\ UNCHANGED <<oneTimeVars, concurrency, active, workerVars, deciderVars, clusterVars>>

\* The same relay goroutine runs ReqOut.  The one-time autoscaler's does nothing.
ReqOut ==
  /\ ~reqIn /\ concurrency > 0
  /\ concurrency' = concurrency - 1
  /\ UNCHANGED <<oneTimeVars, reqIn, active, queued, workerVars, deciderVars, clusterVars>>

\* The ticker runs as long as the program: its exit on runCtx.Done and the queue's
\* ShutDown are not modelled.
tickAutoScaler ==
  /\ active
  /\ queued' = TRUE
  /\ UNCHANGED <<oneTimeVars, requestVars, workerVars, deciderVars, clusterVars>>

\* queue.Get, and scale lists the ready pods.
scaleList ==
  /\ queued /\ pc = "idle"
  /\ queued' = FALSE
  /\ pc' = "listed" /\ nReady' = ready
  /\ UNCHANGED <<oneTimeVars, requestVars, observed, deciderVars, clusterVars>>

\* processNextItem returns.
Done == pc' = "idle" /\ nReady' = 0 /\ observed' = Nothing

\* An error of Get, List or Scale is logged; the key is not queued again.  An update
\* that takes effect and returns an error leaves what Scale leaves.
scaleFails ==
  /\ pc \in {"listed", "decided"}
  /\ Done
  /\ UNCHANGED <<oneTimeVars, requestVars, queued, deciderVars, clusterVars>>

\* StableAndPanicAndInstantConcurrency.
observe ==
  /\ pc = "listed"
  /\ pc' = "observed"
  /\ \E s, p \in 0 .. MaxPods :
       observed' = [stable |-> s, panic |-> p, instant |-> concurrency]
  /\ UNCHANGED <<oneTimeVars, requestVars, queued, nReady, deciderVars, clusterVars>>

-----------------------------------------------------------------------------
AtLeast(a, b) == IF a >= b THEN a ELSE b

AtMost(a, b) == IF a <= b THEN a ELSE b

currentReady == AtLeast(1, nReady)

fromZero == nReady = 0 /\ observed.instant > 0

upperbound ==
  LET up == maxScaleUpRate * currentReady IN IF fromZero THEN AtLeast(up, 1) ELSE up

\* Mutant: no exception for a scale from zero.
lowerbound_RatesOnly == currentReady \div maxScaleDownRate

lowerbound ==
  LET low == currentReady \div maxScaleDownRate IN IF fromZero THEN AtLeast(low, 1) ELSE low

Clamp(n) == AtMost(AtLeast(n, lowerbound), upperbound)

isOverPanicThreshold == observed.panic >= panicThreshold * currentReady

\* delayWindow.Record and Current.  Counts of the window that are lower than a later
\* one are of no use; of the others the oldest, which are the highest, expire.
\* Without a delay window nothing is kept.
Record(count) ==
  \E limit \in {0} \cup delayWindow :
    LET window == {count} \cup {n \in delayWindow : count < n /\ n <= limit} IN
    /\ desiredScale' = Max(window)
    /\ delayWindow' = IF hasDelayWindow THEN window ELSE {}

\* Mutant: a decision in panic mode may be lower than the one before.
Reconcile_Forget ==
  LET stable == Clamp(observed.stable)
      panic == Clamp(observed.panic)
      count == IF panicking' THEN maxPanicPods' ELSE stable
  IN
  /\ pc = "observed"
  /\ pc' = "decided"
  /\ \E elapsed \in BOOLEAN :
       panicking' = (isOverPanicThreshold \/ (panicking /\ ~elapsed))
  /\ maxPanicPods' =
       IF panicking' THEN AtLeast(stable, panic) ELSE 0
  /\ Record(count)
  /\ UNCHANGED <<oneTimeVars, requestVars, queued, nReady, observed, clusterVars>>

\* Mutant: panic mode only looks at the panic window.
Reconcile_PanicOnly ==
  LET count == IF panicking' THEN maxPanicPods' ELSE Clamp(observed.stable) IN
  /\ pc = "observed"
  /\ pc' = "decided"
  /\ \E elapsed \in BOOLEAN :
       panicking' = (isOverPanicThreshold \/ (panicking /\ ~elapsed))
  /\ maxPanicPods' = IF panicking' THEN AtLeast(Clamp(observed.panic), maxPanicPods) ELSE 0
  /\ Record(count)
  /\ UNCHANGED <<oneTimeVars, requestVars, queued, nReady, observed, clusterVars>>

\* KPADecider.Reconcile after the observation.  Panic mode begins above the
\* threshold and ends a stable window after it was last exceeded.
Reconcile ==
  LET stable == Clamp(observed.stable)
      panic == Clamp(observed.panic)
      count == IF panicking' THEN maxPanicPods' ELSE stable
  IN
  /\ pc = "observed"
  /\ pc' = "decided"
  /\ \E elapsed \in BOOLEAN :
       panicking' = (isOverPanicThreshold \/ (panicking /\ ~elapsed))
  /\ maxPanicPods' =
       IF panicking' THEN AtLeast(AtLeast(stable, panic), maxPanicPods) ELSE 0
  /\ Record(count)
  /\ UNCHANGED <<oneTimeVars, requestVars, queued, nReady, observed, clusterVars>>

\* DeploymentScaler.Scale compares with the cached deployment and updates the
\* scale subresource, without a resourceVersion.
ScaleTo(desired) == replicas' = IF cached = desired THEN replicas ELSE desired

Scale ==
  /\ pc = "decided"
  /\ Done
  /\ ScaleTo(desiredScale)
  /\ UNCHANGED <<oneTimeVars, requestVars, queued, deciderVars, cached, ready>>

-----------------------------------------------------------------------------
\* OneTimeAutoscaler.ReqIn: the first request of the deployment starts a goroutine.
OneTimeReqIn ==
  /\ framework = "one-time"
  /\ concurrency < MaxRequests
  /\ concurrency' = concurrency + 1
  /\ once' = IF once = "unseen" THEN "scaling" ELSE once
  /\ UNCHANGED <<framework, reqIn, active, queued, workerVars, deciderVars, clusterVars>>

\* The goroutine scales the deployment.
OneTimeScale ==
  /\ once = "scaling" /\ once' = "scaled"
  /\ ScaleTo(initialScale)
  /\ UNCHANGED <<framework, requestVars, queued, workerVars, deciderVars, cached, ready>>

\* An error is logged, and as the deployment has been seen nothing scales it again.
OneTimeScaleFails ==
  /\ once = "scaling" /\ once' = "failed"
  /\ UNCHANGED <<framework, requestVars, queued, workerVars, deciderVars, clusterVars>>

-----------------------------------------------------------------------------
\* The manager's cache catches up with the deployment.
Informer ==
  /\ cached # replicas
  /\ cached' = replicas
  /\ UNCHANGED <<oneTimeVars, requestVars, queued, workerVars, deciderVars, replicas, ready>>

\* The cluster brings pods up and takes surplus ones down; pods also fail.
PodReady ==
  /\ ready < replicas /\ ready < MaxPods
  /\ ready' = ready + 1
  /\ UNCHANGED <<oneTimeVars, requestVars, queued, workerVars, deciderVars, replicas, cached>>

PodSurplus ==
  /\ ready > replicas
  /\ ready' = ready - 1
  /\ UNCHANGED <<oneTimeVars, requestVars, queued, workerVars, deciderVars, replicas, cached>>

PodFails ==
  /\ ready > 0 /\ ready <= replicas
  /\ ready' = ready - 1
  /\ UNCHANGED <<oneTimeVars, requestVars, queued, workerVars, deciderVars, replicas, cached>>

-----------------------------------------------------------------------------
Next ==
  \/ OneTimeReqIn \/ OneTimeScale \/ OneTimeScaleFails
  \/ ReqIn \/ ReqInDesired \/ ReqOut \/ tickAutoScaler
  \/ scaleList \/ observe \/ Reconcile \/ Scale \/ scaleFails
  \/ Informer \/ PodReady \/ PodSurplus \/ PodFails

Spec == Init /\ [][Next]_vars

\* The relay, the ticker, a worker and the cluster keep running; of the attempts
\* to scale some succeed.
Fairness ==
  /\ WF_vars(ReqInDesired) /\ WF_vars(tickAutoScaler)
  /\ WF_vars(scaleList) /\ SF_vars(observe) /\ WF_vars(Reconcile) /\ SF_vars(Scale)
  /\ WF_vars(OneTimeScale \/ OneTimeScaleFails)
  /\ WF_vars(Informer) /\ WF_vars(PodSurplus)

FairSpec == Spec /\ Fairness

-----------------------------------------------------------------------------
\* Every variable has its type; the decider remembers a panic maximum only while it panics.
TypeOK ==
  /\ framework \in {"kpa", "one-time"} /\ once \in {"unseen", "scaling", "scaled", "failed"}
  /\ concurrency \in Nat /\ reqIn \in BOOLEAN /\ active \in BOOLEAN
  /\ queued \in BOOLEAN
  /\ pc \in {"idle", "listed", "observed", "decided"} /\ nReady \in Nat
  /\ observed \in [stable : Nat, panic : Nat, instant : Nat]
  /\ panicking \in BOOLEAN /\ maxPanicPods \in Nat
  /\ delayWindow \in SUBSET Nat /\ desiredScale \in Nat
  /\ replicas \in Nat /\ cached \in Nat /\ ready \in Nat
  /\ ~panicking => maxPanicPods = 0

\* "If we're scaling from zero, we need to ensure we always have at least one
\* pod": whatever the windows say, in either mode and with any delay window.
AtLeastOneFromZero == pc = "decided" /\ fromZero => desiredScale >= 1

\* The decision provides for the stable window, within the rate limits, in
\* either mode and with any delay window.
ProvidesForStable == pc = "decided" => desiredScale >= Clamp(observed.stable)

\* "We do not scale down while in panic mode": no decision is below an earlier
\* one of the same panic, as that one was before the delay window raised it.
PanicFloor == [][panicking /\ panicking' => desiredScale' >= maxPanicPods]_vars

\* A deployment with requests under way is scaled up from zero: a decision
\* that crossed the request, an old cache or a failed update is made good by a tick.
\* The one-time autoscaler has a single attempt; if it succeeds the pods stay.
ScaledFromZero ==
  once # "failed" /\ concurrency > 0 ~> (replicas > 0 \/ concurrency = 0 \/ once = "failed")
=============================================================================
