------------------------------ MODULE RpcBench ------------------------------
(* The breakdown drivers that time one controller through a Kubedirect RPC:
   experiments/microbench/breakdown/{autoscaler,deployment,endpoints,replicaset,
   scheduler}.  The first three start a Watch RPC per target, sleep, update every
   target through the API server and wait for two WaitGroups; replicaset sends one
   blocking Scale RPC per target; scheduler sends one blocking RPC for all pods.

   External, modelled from how run uses it: the client hub (Unwrap gives a client
   once a handshake succeeded), the API server, and the controller behind the RPC.
   A Watch that is installed after the event it waits for is never answered.     *)
EXTENDS Integers, FiniteSets

CONSTANTS
  Targets,     \* the listed scaling targets
  nPods,       \* the -n flag
  Rolling,     \* the Deployments that may be given a second ReplicaSet, by a rollout
  rpcErrors    \* TRUE: calls may fail without a cancellation

ASSUME RpcBenchAssumption ==
  /\ IsFiniteSet(Targets) /\ Targets # {}
  /\ nPods \in Nat /\ Rolling \subseteq Targets /\ rpcErrors \in BOOLEAN

VARIABLES
  driver,      \* which of the five programs this is
  pc,          \* where its run function is
  cancelled,   \* ctx is done
  hub,         \* the client hub: "down", "listed" (it has an address) or "up"
  client,      \* kdClient: "unset", "nil" (polled in vain) or "set"
  watch,       \* watch[t]: the Watch RPC of t in its goroutine
  call,        \* call[t]: the update, Scale or SchedulePods call of t
  joined,      \* the goroutines that called Done: pairs of a WaitGroup and a target
  watchGroup, callGroup,   \* the counters of the WaitGroups (scaleGroup, updateGroup, wg)
  nFinished, nScaled,      \* the counters of successful calls
  sets,        \* the ReplicaSets of the Deployments: pairs of a target and a number
  replicas,    \* replicas[t]: the scale of t's ReplicaSet
  ready,       \* ready[t]: its ready pods
  applied,     \* the targets whose update the API server or the controller has
  event        \* the targets for which what the RPC waits for has happened

hubVars   == <<hub, client>>
watchVars == <<watch, watchGroup, nFinished>>
callVars  == <<call, callGroup, nScaled>>
goVars    == <<watchVars, callVars, joined>>
podVars   == <<sets, replicas, ready>>
worldVars == <<podVars, applied, event>>
vars      == <<driver, pc, cancelled, hubVars, goVars, worldVars>>

Drivers  == {"autoscaler", "deployment", "endpoints", "replicaset", "scheduler"}
Scaling  == {"autoscaler", "deployment"}
Watching == Scaling \cup {"endpoints"}

\* nPods spread over the targets, "resetting to 1".
nPodsPerTarget ==
  LET n == nPods \div Cardinality(Targets) IN IF n = 0 THEN 1 ELSE n

Ended == pc \in {"reported", "returned", "fatal", "crashed"}

\* The calls of a driver: the scheduler's only request is for all pods.
Called == IF driver = "scheduler" THEN {CHOOSE t \in Targets : TRUE} ELSE Targets

Init ==
  /\ driver \in Drivers /\ pc = "setup" /\ cancelled = FALSE
  /\ hub = "down" /\ client = "unset"
  /\ watch = [t \in Targets |-> "none"] /\ watchGroup = 0 /\ nFinished = 0
  /\ call = [t \in Targets |-> "none"] /\ callGroup = 0 /\ nScaled = 0
  /\ joined = {} /\ sets = {} /\ applied = {} /\ event = {}
  /\ replicas = [t \in Targets |-> 0] /\ ready = [t \in Targets |-> 0]

-----------------------------------------------------------------------------
\* run, up to the client.

\* Targets are listed and checked; klog.Fatal ends the process.
Setup ==
  /\ pc = "setup"
  /\ pc' \in {"fatal", CASE driver \in Scaling   -> "poll"
                         [] driver = "endpoints" -> "scaleup"
                         [] OTHER                -> "client"}
  /\ UNCHANGED <<driver, cancelled, hubVars, goVars, worldVars>>

\* endpoints scales its ReplicaSets one after the other.
ScaleUp(t) ==
  /\ pc = "scaleup" /\ replicas[t] = 0
  /\ replicas' = [replicas EXCEPT ![t] = nPodsPerTarget]
  /\ UNCHANGED <<driver, pc, cancelled, hubVars, goVars, sets, ready, applied, event>>

ScaledUp ==
  /\ pc = "scaleup" /\ \A t \in Targets : replicas[t] # 0
  /\ pc' = "poll"
  /\ UNCHANGED <<driver, cancelled, hubVars, goVars, worldVars>>

\* Mutants: fewer ReplicaSets are enough; the pods of all targets are expected of each.
waitForReplicaSets_AtMost == Cardinality(sets) <= Cardinality(Targets)
waitForReadyPods_All == \A t \in Targets : ready[t] = nPods

\* waitForReplicaSets compares numbers; waitForReadyPods looks at every ReplicaSet.
waitForReplicaSets == Cardinality(sets) = Cardinality(Targets)
waitForReadyPods == \A t \in Targets : ready[t] = nPodsPerTarget

Prepared ==
  /\ pc = "poll"
  /\ IF driver \in Scaling THEN waitForReplicaSets ELSE waitForReadyPods
  /\ pc' = "client"
  /\ UNCHANGED <<driver, cancelled, hubVars, goVars, worldVars>>

\* Mutant: the calls do not have the context.
Failure_Background == IF rpcErrors THEN {"error"} ELSE {}

\* How a call, or a poll, may fail: by itself, or because the context is done.
Failure == (IF rpcErrors THEN {"error"} ELSE {}) \cup (IF cancelled THEN {"aborted"} ELSE {})

\* A failed List or Update, and a poll that the context ends, are fatal.
PrepareFails(f) ==
  /\ pc \in {"scaleup", "poll"} /\ f \in Failure
  /\ pc' = "fatal"
  /\ UNCHANGED <<driver, cancelled, hubVars, goVars, worldVars>>

\* The lister finds a ready controller manager or scheduler pod.
serviceLister ==
  /\ pc = "client" /\ hub = "down"
  /\ hub' = "listed"
  /\ UNCHANGED <<driver, pc, cancelled, client, goVars, worldVars>>

\* The answer to a handshake carries its epoch, or the hub starts over.
doHandshake(ok) ==
  /\ pc = "client" /\ hub = "listed"
  /\ hub' = IF ok THEN "up" ELSE "down"
  /\ UNCHANGED <<driver, pc, cancelled, client, goVars, worldVars>>

AfterClient == IF driver \in Watching THEN "watch" ELSE "call"

\* The poll for Unwrap ends with a client, or with nil when the context is done:
\* its error is ignored.
PollClient ==
  /\ pc = "client"
  /\ \/ hub = "up" /\ client' = "set"
     \/ cancelled /\ client' = "nil"
  /\ pc' = AfterClient
  /\ UNCHANGED <<driver, cancelled, hub, goVars, worldVars>>

-----------------------------------------------------------------------------
\* run, from the client on.

StartWatchers ==
  /\ pc = "watch" /\ pc' = "sleep"
  /\ watchGroup' = Cardinality(Targets)
  /\ watch' = [t \in Targets |-> "sent"]
  /\ UNCHANGED <<driver, cancelled, hubVars, nFinished, callVars, joined, worldVars>>

\* "must wait till all watch callbacks are installed": nothing but time is waited for.
Sleep ==
  /\ pc = "sleep" /\ pc' = "call"
  /\ UNCHANGED <<driver, cancelled, hubVars, goVars, worldVars>>

StartCalls ==
  /\ pc = "call" /\ pc' = "callWait"
  /\ callGroup' = IF driver = "scheduler" THEN 0 ELSE Cardinality(Targets)
  /\ call' = [t \in Targets |-> IF t \in Called THEN "sent" ELSE "none"]
  /\ UNCHANGED <<driver, cancelled, hubVars, watchVars, nScaled, joined, worldVars>>

\* Wait returns; then the context is looked at, and the counter is printed.
CallWait ==
  /\ pc = "callWait" /\ callGroup = 0
  /\ pc' = IF cancelled THEN "returned" ELSE IF driver \in Watching THEN "watchWait" ELSE "reported"
  /\ UNCHANGED <<driver, cancelled, hubVars, goVars, worldVars>>

\* Mutant: the context is not looked at after watchGroup.Wait.
WatchWait_NoCheck ==
  /\ pc = "watchWait" /\ watchGroup = 0
  /\ pc' = "reported"
  /\ UNCHANGED <<driver, cancelled, hubVars, goVars, worldVars>>

WatchWait ==
  /\ pc = "watchWait" /\ watchGroup = 0
  /\ pc' = IF cancelled THEN "returned" ELSE "reported"
  /\ UNCHANGED <<driver, cancelled, hubVars, goVars, worldVars>>

\* SchedulePods returns to run itself.
SchedulePods ==
  /\ pc = "callWait"
  /\ \E t \in Called :
       \/ call[t] = "ok" /\ pc' = "reported"
       \/ call[t] \in {"error", "aborted"} /\ pc' = "returned"
  /\ UNCHANGED <<driver, cancelled, hubVars, goVars, worldVars>>

\* A method of a nil kdClient is called.
NilClient(t) ==
  /\ client = "nil"
  /\ \/ watch[t] = "sent"
     \/ driver \notin Watching /\ call[t] = "sent"
  /\ pc' = "crashed"
  /\ UNCHANGED <<driver, cancelled, hubVars, goVars, worldVars>>

-----------------------------------------------------------------------------
\* The goroutines.  An RPC ends with an answer, an error, or the end of ctx; a
\* successful one is counted; Done is deferred and comes last.

WatchReturns(t) ==
  /\ watch[t] = "installed" /\ t \in event
  /\ watch' = [watch EXCEPT ![t] = "ok"]
  /\ UNCHANGED <<driver, pc, cancelled, hubVars, watchGroup, nFinished, callVars, joined, worldVars>>

WatchFails(t, f) ==
  /\ watch[t] \in {"sent", "installed", "missed"} /\ client = "set"
  /\ f \in Failure /\ watch' = [watch EXCEPT ![t] = f]
  /\ UNCHANGED <<driver, pc, cancelled, hubVars, watchGroup, nFinished, callVars, joined, worldVars>>

WatchCounted(t) ==
  /\ watch[t] = "ok" /\ watch' = [watch EXCEPT ![t] = "counted"]
  /\ nFinished' = nFinished + 1
  /\ UNCHANGED <<driver, pc, cancelled, hubVars, watchGroup, callVars, joined, worldVars>>

\* Mutant: an error calls Done, and so does the deferred call.
WatchDone_Twice(t) ==
  /\ watch[t] \in {"counted", "error", "aborted"} /\ <<"watch", t>> \notin joined
  /\ joined' = joined \cup {<<"watch", t>>}
  /\ watchGroup' = watchGroup - (IF watch[t] = "counted" THEN 1 ELSE 2)
  /\ UNCHANGED <<driver, pc, cancelled, hubVars, watch, nFinished, callVars, worldVars>>

WatchDone(t) ==
  /\ watch[t] \in {"counted", "error", "aborted"} /\ <<"watch", t>> \notin joined
  /\ joined' = joined \cup {<<"watch", t>>} /\ watchGroup' = watchGroup - 1
  /\ UNCHANGED <<driver, pc, cancelled, hubVars, watch, nFinished, callVars, worldVars>>

\* Mutant: the request is not a blocking one.
CallReturns_NonBlocking(t) ==
  /\ call[t] = "sent" /\ t \in applied
  /\ call' = [call EXCEPT ![t] = "ok"]
  /\ UNCHANGED <<driver, pc, cancelled, hubVars, watchVars, callGroup, nScaled, joined, worldVars>>

\* A blocking request is answered after its event, an update when it is applied.
CallReturns(t) ==
  /\ call[t] = "sent" /\ t \in (IF driver \in Watching THEN applied ELSE event)
  /\ call' = [call EXCEPT ![t] = "ok"]
  /\ UNCHANGED <<driver, pc, cancelled, hubVars, watchVars, callGroup, nScaled, joined, worldVars>>

CallFails(t, f) ==
  /\ call[t] = "sent" /\ (driver \in Watching \/ client = "set")
  /\ f \in Failure /\ call' = [call EXCEPT ![t] = f]
  /\ UNCHANGED <<driver, pc, cancelled, hubVars, watchVars, callGroup, nScaled, joined, worldVars>>

CallCounted(t) ==
  /\ driver # "scheduler" /\ call[t] = "ok" /\ call' = [call EXCEPT ![t] = "counted"]
  /\ nScaled' = nScaled + 1
  /\ UNCHANGED <<driver, pc, cancelled, hubVars, watchVars, callGroup, joined, worldVars>>

\* Mutant: Done is called as soon as the call returns.
CallDone_NotDeferred(t) ==
  /\ driver # "scheduler"
  /\ call[t] \in {"ok", "counted", "error", "aborted"} /\ <<"call", t>> \notin joined
  /\ joined' = joined \cup {<<"call", t>>} /\ callGroup' = callGroup - 1
  /\ UNCHANGED <<driver, pc, cancelled, hubVars, watchVars, call, nScaled, worldVars>>

CallDone(t) ==
  /\ driver # "scheduler"
  /\ call[t] \in {"counted", "error", "aborted"} /\ <<"call", t>> \notin joined
  /\ joined' = joined \cup {<<"call", t>>} /\ callGroup' = callGroup - 1
  /\ UNCHANGED <<driver, pc, cancelled, hubVars, watchVars, call, nScaled, worldVars>>

-----------------------------------------------------------------------------
\* The cluster (external).

Cancel ==
  /\ ~cancelled /\ cancelled' = TRUE
  /\ UNCHANGED <<driver, pc, hubVars, goVars, worldVars>>

\* The controller gives a Deployment its ReplicaSet; a rollout gives it another.
ReplicaSetCreated(t, i) ==
  /\ driver \in Scaling /\ pc \in {"setup", "poll"} /\ <<t, i>> \notin sets
  /\ i = 2 => t \in Rolling /\ <<t, 1>> \in sets
  /\ sets' = sets \cup {<<t, i>>}
  /\ UNCHANGED <<driver, pc, cancelled, hubVars, goVars, replicas, ready, applied, event>>

PodReady(t) ==
  /\ ready[t] < replicas[t] /\ ready' = [ready EXCEPT ![t] = @ + 1]
  /\ UNCHANGED <<driver, pc, cancelled, hubVars, goVars, sets, replicas, applied, event>>

WatchInstalled(t) ==
  /\ watch[t] = "sent" /\ client = "set"
  /\ watch' = [watch EXCEPT ![t] = IF t \in event THEN "missed" ELSE "installed"]
  /\ UNCHANGED <<driver, pc, cancelled, hubVars, watchGroup, nFinished, callVars, joined, worldVars>>

\* The update of t takes effect: a new scale, a new selector, or pods to schedule.
CallApplied(t) ==
  /\ call[t] = "sent" /\ t \notin applied /\ (driver \in Watching \/ client = "set")
  /\ applied' = applied \cup {t}
  /\ UNCHANGED <<driver, pc, cancelled, hubVars, goVars, podVars, event>>

\* The controller is done with t.
Event(t) ==
  /\ t \in applied \ event
  /\ event' = event \cup {t}
  /\ UNCHANGED <<driver, pc, cancelled, hubVars, goVars, podVars, applied>>

-----------------------------------------------------------------------------
\* The five run functions.
WatchRun ==
  \/ Setup \/ Prepared \/ PrepareFails("aborted") \/ PollClient \/ StartWatchers \/ Sleep \/ StartCalls
  \/ CallWait \/ WatchWait

autoscalerRun == driver = "autoscaler" /\ WatchRun
deploymentRun == driver = "deployment" /\ WatchRun
endpointsRun  == driver = "endpoints" /\ (WatchRun \/ ScaledUp \/ \E t \in Targets : ScaleUp(t))
replicasetRun == driver = "replicaset" /\ (Setup \/ PollClient \/ StartCalls \/ CallWait)
schedulerRun  == driver = "scheduler" /\ (Setup \/ PollClient \/ StartCalls \/ SchedulePods)

Run == autoscalerRun \/ deploymentRun \/ endpointsRun \/ replicasetRun \/ schedulerRun

\* Each program has its own copy of the lister and of the handshake.
HubStep == serviceLister \/ \E ok \in BOOLEAN : doHandshake(ok)

autoscalerHub == driver = "autoscaler" /\ HubStep
deploymentHub == driver = "deployment" /\ HubStep
endpointsHub  == driver = "endpoints" /\ HubStep
replicasetHub == driver = "replicaset" /\ HubStep
schedulerHub  == driver = "scheduler" /\ HubStep

Hub == autoscalerHub \/ deploymentHub \/ endpointsHub \/ replicasetHub \/ schedulerHub

Goroutine(t) ==
  \/ NilClient(t) \/ WatchReturns(t) \/ WatchFails(t, "aborted") \/ WatchCounted(t) \/ WatchDone(t)
  \/ CallReturns(t) \/ CallFails(t, "aborted") \/ CallCounted(t) \/ CallDone(t)

Cluster(t) ==
  \/ ReplicaSetCreated(t, 1) \/ PodReady(t)
  \/ WatchInstalled(t) \/ CallApplied(t) \/ Event(t)

\* What may fail by itself.
Error(t) == PrepareFails("error") \/ WatchFails(t, "error") \/ CallFails(t, "error")

\* With the process its goroutines are gone.
Progress == ~Ended /\ (Run \/ \E t \in Targets : Goroutine(t) \/ Cluster(t))

Next ==
  \/ Progress
  \/ /\ ~Ended
     /\ Hub \/ Cancel \/ \E t \in Targets : Error(t) \/ ReplicaSetCreated(t, 2)

Spec == Init /\ [][Next]_vars

\* run and its goroutines go on, and the controllers and the API server do their
\* work: each of these steps is taken once, so fairness to all of them is fairness to
\* each.  One of the handshakes that are retried succeeds.  That a call
\* fails, or a rollout starts, is not assumed.
Fairness ==
  /\ WF_vars(Progress)
  /\ WF_vars(serviceLister) /\ SF_vars(doHandshake(TRUE))

FairSpec == Spec /\ Fairness

-----------------------------------------------------------------------------
Pcs == {"setup", "scaleup", "poll", "client", "watch", "sleep", "call", "callWait", "watchWait",
        "reported", "returned", "fatal", "crashed"}

\* Every variable has its type; no WaitGroup becomes negative.
TypeOK ==
  /\ driver \in Drivers /\ pc \in Pcs /\ cancelled \in BOOLEAN
  /\ hub \in {"down", "listed", "up"} /\ client \in {"unset", "nil", "set"}
  /\ watch \in [Targets -> {"none", "sent", "installed", "missed",
                            "ok", "counted", "error", "aborted"}]
  /\ call \in [Targets -> {"none", "sent", "ok", "counted", "error", "aborted"}]
  /\ joined \in SUBSET ({"watch", "call"} \X Targets)
  /\ watchGroup \in 0 .. Cardinality(Targets) /\ callGroup \in 0 .. Cardinality(Targets)
  /\ nFinished \in 0 .. Cardinality(Targets) /\ nScaled \in 0 .. Cardinality(Targets)
  /\ sets \in SUBSET (Targets \X (1 .. 2))
  /\ replicas \in [Targets -> {0, nPodsPerTarget}] /\ ready \in [Targets -> 0 .. nPodsPerTarget]
  /\ applied \in SUBSET Targets /\ event \in SUBSET Targets

Succeeded(f) == {t \in Targets : f[t] \in {"ok", "counted"}}
Rollout(t)   == <<t, 2>> \in sets

\* The printed numbers are exact: when run goes past a WaitGroup, its counter holds
\* the successful calls, and no call is under way (Done is deferred, so it comes
\* after AddInt32).
ReportExact ==
  /\ pc \in {"watchWait", "reported"} /\ driver # "scheduler" =>
       nScaled = Cardinality(Succeeded(call)) /\ \A t \in Targets : call[t] # "sent"
  /\ pc = "reported" /\ driver \in Watching =>
       /\ nFinished = Cardinality(Succeeded(watch))
       /\ \A t \in Targets : watch[t] \notin {"sent", "installed", "missed"}

\* A total is printed only for a run whose calls the end of the context did not cut
\* short: ctx is looked at after each Wait.
NotTruncated ==
  pc = "reported" => \A t \in Targets : watch[t] # "aborted" /\ call[t] # "aborted"

\* The total covers every target: when it is printed, the controller is done with
\* each target for which the RPC did not fail.
TotalCovers ==
  pc = "reported" => \A t \in Called :
    t \in event \/ (IF driver \in Watching THEN watch[t] ELSE call[t]) = "error"

\* When waitForReplicaSets has counted as many ReplicaSets as Deployments, each
\* Deployment has one, unless one of them has two.
ReplicaSetsPresent ==
  driver \in Scaling /\ pc \notin {"setup", "poll", "fatal"} =>
    \/ \E t \in Targets : Rollout(t)
    \/ \A t \in Targets : <<t, 1>> \in sets

\* Only a cancelled run has no client when it calls a method of kdClient.
NilOnlyCancelled == pc = "crashed" => cancelled

\* A run whose context ends comes to its end: every wait in it is for a call that
\* has the context, or polls it.
CancelEnds == cancelled ~> Ended

\* A run ends by itself unless an update fails, a Watch is installed after the event
\* it waits for, or a Deployment has a second ReplicaSet.
RunEnds ==
  <>(Ended \/ \E t \in Targets : call[t] = "error" \/ watch[t] = "missed" \/ Rollout(t))
=============================================================================
