--------------------------- MODULE RpcBenchProofs ---------------------------
(* Proofs about the RPC breakdown drivers.  Each WaitGroup counts the goroutines
   that were started and have not called Done, each counter those that counted their
   success; where run is says which goroutines were started and, past a Wait, how
   they ended. *)
EXTENDS RpcBench, FiniteSetTheorems, TLAPS

\* Most steps need no arithmetic and go to Zenon; the others cite SMT.
USE Zenon

WatchOpen == {t \in Targets : watch[t] # "none" /\ <<"watch", t>> \notin joined}
CallOpen  == {t \in Targets : driver # "scheduler" /\ call[t] # "none" /\ <<"call", t>> \notin joined}
Counted(f) == {t \in Targets : f[t] = "counted"}

Over == {"counted", "error", "aborted"}

\* The variables' types, the counters left to Counting.
Types ==
  /\ driver \in Drivers /\ pc \in Pcs /\ cancelled \in BOOLEAN
  /\ hub \in {"down", "listed", "up"} /\ client \in {"unset", "nil", "set"}
  /\ watch \in [Targets -> {"none", "sent", "installed", "missed",
                            "ok", "counted", "error", "aborted"}]
  /\ call \in [Targets -> {"none", "sent", "ok", "counted", "error", "aborted"}]
  /\ joined \in SUBSET ({"watch", "call"} \X Targets)
  /\ sets \in SUBSET (Targets \X (1 .. 2))
  /\ replicas \in [Targets -> {0, nPodsPerTarget}] /\ ready \in [Targets -> 0 .. nPodsPerTarget]
  /\ applied \in SUBSET Targets /\ event \in SUBSET Targets

\* A goroutine calls Done when it is over, and the counters say how many did what.
Counting ==
  /\ \A t \in Targets : /\ <<"watch", t>> \in joined => watch[t] \in Over
                        /\ <<"call", t>> \in joined => call[t] \in Over
  /\ watchGroup = Cardinality(WatchOpen) /\ nFinished = Cardinality(Counted(watch))
  /\ callGroup = Cardinality(CallOpen) /\ nScaled = Cardinality(Counted(call))

\* Why a call, a poll or the process ended as it did.
Causes ==
  /\ \A t \in Targets :
       /\ watch[t] = "aborted" \/ call[t] = "aborted" => cancelled
       /\ watch[t] \in {"ok", "counted"} => t \in event
       /\ driver \notin Watching /\ call[t] \in {"ok", "counted"} => t \in event
  /\ client = "nil" \/ pc = "crashed" => cancelled

\* What was started, and what is over, where run is.
Phase ==
  /\ pc \in {"setup", "scaleup", "poll", "client", "watch"} => \A t \in Targets : watch[t] = "none"
  /\ pc \in {"setup", "scaleup", "poll", "client", "watch", "sleep", "call"} =>
       \A t \in Targets : call[t] = "none"
  /\ pc \in {"sleep", "call", "callWait", "watchWait"} /\ driver \in Watching =>
       \A t \in Targets : watch[t] # "none"
  /\ driver \notin Watching => \A t \in Targets : watch[t] = "none"
  /\ pc \in {"callWait", "watchWait"} /\ driver # "scheduler" => \A t \in Targets : call[t] # "none"
  /\ pc \in {"watchWait", "reported"} /\ driver # "scheduler" =>
       \A t \in Targets : call[t] \in {"counted", "error"}
  /\ pc = "reported" /\ driver \in Watching => \A t \in Targets : watch[t] \in {"counted", "error"}
  /\ driver = "scheduler" => \A t \in Targets : call[t] # "counted" /\ (t \notin Called => call[t] = "none")
  /\ pc = "reported" /\ driver = "scheduler" => \A t \in Called : call[t] = "ok"

IInv == Types /\ Counting /\ Causes /\ Phase

-----------------------------------------------------------------------------
\* The cardinalities of two sets of targets that differ at most in t.
LEMMA TargetCount ==
  ASSUME NEW A \in SUBSET Targets, NEW B \in SUBSET Targets, NEW t \in Targets,
         \A u \in Targets \ {t} : u \in A <=> u \in B
  PROVE  /\ Cardinality(A) \in Nat /\ Cardinality(B) \in Nat
         /\ (t \in A <=> t \in B) => Cardinality(B) = Cardinality(A)
         /\ t \notin A /\ t \in B => Cardinality(B) = Cardinality(A) + 1
         /\ t \in A /\ t \notin B => Cardinality(B) = Cardinality(A) - 1
<1>1. IsFiniteSet(A) /\ IsFiniteSet(B)
  BY FS_Subset, RpcBenchAssumption
<1>2. Cardinality(A) \in Nat /\ Cardinality(B) \in Nat
  BY <1>1, FS_CardinalityType
<1>3. (t \in A <=> t \in B) => A = B
  BY SMT
<1>4. ASSUME t \notin A, t \in B
      PROVE  Cardinality(B) = Cardinality(A) + 1
  <2>1. B = A \cup {t}
    BY <1>4
  <2> QED BY <2>1, <1>1, <1>4, FS_AddElement
<1>5. ASSUME t \in A, t \notin B
      PROVE  Cardinality(B) = Cardinality(A) - 1
  <2>1. B = A \ {t}
    BY <1>5
  <2> QED BY <2>1, <1>1, <1>5, FS_RemoveElement
<1> QED BY <1>2, <1>3, <1>4, <1>5

LEMMA AtMostTargets ==
  ASSUME NEW A \in SUBSET Targets
  PROVE  Cardinality(A) \in 0 .. Cardinality(Targets)
<1>1. /\ IsFiniteSet(A) /\ Cardinality(A) <= Cardinality(Targets)
      /\ Cardinality(A) \in Nat /\ Cardinality(Targets) \in Nat
  BY FS_Subset, FS_CardinalityType, RpcBenchAssumption
<1> QED BY <1>1, SMT

LEMMA CalledType == Called \in SUBSET Targets /\ (driver = "scheduler" => \A t, u \in Called : t = u)
BY RpcBenchAssumption DEF Called

-----------------------------------------------------------------------------
\* The invariant implies the properties.

LEMMA IInvTypeOK == IInv => TypeOK
<1> SUFFICES ASSUME IInv PROVE TypeOK
  OBVIOUS
<1>1. watchGroup \in 0 .. Cardinality(Targets)
  BY AtMostTargets DEF IInv, Counting, WatchOpen
<1>2. callGroup \in 0 .. Cardinality(Targets)
  BY AtMostTargets DEF IInv, Counting, CallOpen
<1>3. nFinished \in 0 .. Cardinality(Targets)
  BY AtMostTargets DEF IInv, Counting, Counted
<1>4. nScaled \in 0 .. Cardinality(Targets)
  BY AtMostTargets DEF IInv, Counting, Counted
<1> QED BY <1>1, <1>2, <1>3, <1>4 DEF IInv, Types, TypeOK

LEMMA IInvProperties == IInv => ReportExact /\ NotTruncated /\ TotalCovers /\ NilOnlyCancelled
<1> SUFFICES ASSUME IInv PROVE ReportExact /\ NotTruncated /\ TotalCovers /\ NilOnlyCancelled
  OBVIOUS
<1>0. driver \in Drivers /\ "scheduler" \notin Watching
  BY DEF IInv, Types, Watching, Scaling
<1>1. ReportExact
  <2>1. ASSUME pc \in {"watchWait", "reported"}, driver # "scheduler"
        PROVE  nScaled = Cardinality(Succeeded(call)) /\ \A t \in Targets : call[t] # "sent"
    <3>1. \A t \in Targets : call[t] \in {"counted", "error"}
      BY <2>1 DEF IInv, Phase
    <3>2. Succeeded(call) = Counted(call)
      BY <3>1 DEF Succeeded, Counted
    <3> QED BY <3>1, <3>2 DEF IInv, Counting
  <2>2. ASSUME pc = "reported", driver \in Watching
        PROVE  /\ nFinished = Cardinality(Succeeded(watch))
               /\ \A t \in Targets : watch[t] \notin {"sent", "installed", "missed"}
    <3>1. \A t \in Targets : watch[t] \in {"counted", "error"}
      BY <2>2 DEF IInv, Phase
    <3>2. Succeeded(watch) = Counted(watch)
      BY <3>1 DEF Succeeded, Counted
    <3> QED BY <3>1, <3>2 DEF IInv, Counting
  <2> QED BY <2>1, <2>2 DEF ReportExact
<1>2. NotTruncated
  BY <1>0, CalledType DEF NotTruncated, IInv, Phase
<1>3. TotalCovers
  BY <1>0, CalledType DEF TotalCovers, IInv, Phase, Causes
<1>4. NilOnlyCancelled
  BY DEF NilOnlyCancelled, IInv, Causes
<1> QED BY <1>1, <1>2, <1>3, <1>4

-----------------------------------------------------------------------------
\* The steps, by what they change.

\* Steps of run that start no goroutine.
MainStep ==
  \/ Setup \/ ScaledUp \/ Prepared \/ PollClient \/ (\E f \in {"error", "aborted"} : PrepareFails(f))
  \/ driver \in Watching /\ (Sleep \/ WatchWait)
  \/ driver # "scheduler" /\ CallWait
  \/ driver = "scheduler" /\ SchedulePods
  \/ \E t \in Targets : NilClient(t)

\* Steps of the cluster that no goroutine sees yet.
WorldStep ==
  \/ serviceLister \/ Cancel \/ \E ok \in BOOLEAN : doHandshake(ok)
  \/ \E t \in Targets : \/ ScaleUp(t) \/ PodReady(t) \/ CallApplied(t) \/ Event(t)
                        \/ \E i \in 1 .. 2 : ReplicaSetCreated(t, i)

WatchStep(t) ==
  WatchReturns(t) \/ WatchCounted(t) \/ WatchInstalled(t) \/ \E f \in {"error", "aborted"} : WatchFails(t, f)

CallStep(t) == CallReturns(t) \/ CallCounted(t) \/ \E f \in {"error", "aborted"} : CallFails(t, f)

LEMMA StepKinds ==
  ASSUME Next
  PROVE  /\ ~Ended
         /\ \/ MainStep \/ WorldStep \/ StartCalls \/ (driver \in Watching /\ StartWatchers)
            \/ \E t \in Targets : WatchStep(t) \/ WatchDone(t) \/ CallStep(t) \/ CallDone(t)
<1> USE DEF Scaling, Watching
<1>1. ASSUME WatchRun, driver \in Watching
      PROVE  MainStep \/ StartCalls \/ StartWatchers
  BY <1>1 DEF WatchRun, MainStep
<1>2. ASSUME Run
      PROVE  MainStep \/ WorldStep \/ StartCalls \/ (driver \in Watching /\ StartWatchers)
  BY <1>1, <1>2 DEF Run, autoscalerRun, deploymentRun, endpointsRun, replicasetRun, schedulerRun,
     MainStep, WorldStep
<1>3. ASSUME Hub PROVE WorldStep
  BY <1>3 DEF Hub, HubStep, autoscalerHub, deploymentHub, endpointsHub, replicasetHub, schedulerHub,
     WorldStep
<1>4. ASSUME NEW t \in Targets, Goroutine(t)
      PROVE  MainStep \/ WatchStep(t) \/ WatchDone(t) \/ CallStep(t) \/ CallDone(t)
  BY <1>4 DEF Goroutine, MainStep, WatchStep, CallStep
<1>5. ASSUME NEW t \in Targets, Cluster(t) PROVE WorldStep \/ WatchStep(t)
  BY <1>5, SMT DEF Cluster, WorldStep, WatchStep
<1>6. ASSUME NEW t \in Targets, Error(t) PROVE MainStep \/ WatchStep(t) \/ CallStep(t)
  BY <1>6 DEF Error, MainStep, WatchStep, CallStep
<1>7. ASSUME NEW t \in Targets, ReplicaSetCreated(t, 2) PROVE WorldStep
  BY <1>7, SMT DEF WorldStep
<1> QED BY <1>2, <1>3, <1>4, <1>5, <1>6, <1>7 DEF Next, Progress, WorldStep

\* Which variables the kinds of steps leave alone.
LEMMA Frames ==
  /\ MainStep => UNCHANGED <<driver, cancelled, hub, goVars, worldVars>>
  /\ WorldStep => UNCHANGED <<driver, pc, client, goVars>>
  /\ \A t \in Targets :
       /\ WatchStep(t) => UNCHANGED <<driver, pc, cancelled, hubVars, watchGroup, callVars, joined, worldVars>>
       /\ CallStep(t) => UNCHANGED <<driver, pc, cancelled, hubVars, watchVars, callGroup, joined, worldVars>>
<1>1. MainStep => UNCHANGED <<driver, cancelled, hub, goVars, worldVars>>
  BY DEF MainStep, Setup, ScaledUp, Prepared, PollClient, PrepareFails, Sleep, WatchWait, CallWait,
     SchedulePods, NilClient, hubVars
<1>2. WorldStep => UNCHANGED <<driver, pc, client, goVars>>
  BY DEF WorldStep, serviceLister, Cancel, doHandshake, ScaleUp, PodReady, CallApplied, Event,
     ReplicaSetCreated, hubVars
<1>3. \A t \in Targets :
        WatchStep(t) => UNCHANGED <<driver, pc, cancelled, hubVars, watchGroup, callVars, joined, worldVars>>
  BY DEF WatchStep, WatchReturns, WatchCounted, WatchInstalled, WatchFails
<1>4. \A t \in Targets :
        CallStep(t) => UNCHANGED <<driver, pc, cancelled, hubVars, watchVars, callGroup, joined, worldVars>>
  BY DEF CallStep, CallReturns, CallCounted, CallFails
<1> QED BY <1>1, <1>2, <1>3, <1>4

\* How a Watch and a call go on.
LEMMA WatchMove ==
  ASSUME Types, NEW t \in Targets, WatchStep(t)
  PROVE  \E s \in {"installed", "missed", "ok", "counted", "error", "aborted"} :
           /\ watch' = [watch EXCEPT ![t] = s] /\ watch[t] \in {"sent", "installed", "missed", "ok"}
           /\ s = "counted" <=> watch[t] = "ok"
           /\ s = "ok" => t \in event
           /\ s = "aborted" => cancelled
           /\ nFinished' = IF s = "counted" THEN nFinished + 1 ELSE nFinished
<1>1. CASE WatchReturns(t)
  BY <1>1 DEF WatchReturns
<1>2. CASE WatchCounted(t)
  BY <1>2 DEF WatchCounted
<1>3. CASE WatchInstalled(t)
  BY <1>3 DEF WatchInstalled
<1>4. ASSUME NEW f \in {"error", "aborted"}, WatchFails(t, f)
      PROVE  /\ watch' = [watch EXCEPT ![t] = f] /\ watch[t] \in {"sent", "installed", "missed"}
             /\ f = "aborted" => cancelled
             /\ nFinished' = nFinished
  BY <1>4 DEF WatchFails, Failure
<1> QED BY <1>1, <1>2, <1>3, <1>4 DEF WatchStep

LEMMA CallMove ==
  ASSUME Types, NEW t \in Targets, CallStep(t)
  PROVE  \E s \in {"ok", "counted", "error", "aborted"} :
           /\ call' = [call EXCEPT ![t] = s] /\ call[t] \in {"sent", "ok"}
           /\ s = "counted" <=> call[t] = "ok"
           /\ s = "counted" => driver # "scheduler"
           /\ s = "ok" /\ driver \notin Watching => t \in event
           /\ s = "aborted" => cancelled
           /\ nScaled' = IF s = "counted" THEN nScaled + 1 ELSE nScaled
<1>1. CASE CallReturns(t)
  BY <1>1 DEF CallReturns
<1>2. CASE CallCounted(t)
  BY <1>2 DEF CallCounted
<1>3. ASSUME NEW f \in {"error", "aborted"}, CallFails(t, f)
      PROVE  /\ call' = [call EXCEPT ![t] = f] /\ call[t] = "sent"
             /\ f = "aborted" => cancelled
             /\ nScaled' = nScaled
  BY <1>3 DEF CallFails, Failure
<1> QED BY <1>1, <1>2, <1>3 DEF CallStep

-----------------------------------------------------------------------------
LEMMA TypesNext == IInv /\ [Next]_vars => Types'
<1> SUFFICES ASSUME IInv, [Next]_vars PROVE Types'
  OBVIOUS
<1>0. Types
  BY DEF IInv
<1>1. CASE MainStep
  <2>1. UNCHANGED <<driver, cancelled, hub, goVars, worldVars>>
    BY <1>1, Frames
  <2>2. pc' \in Pcs
    BY <1>1 DEF MainStep, Setup, ScaledUp, Prepared, PollClient, PrepareFails, Sleep, WatchWait, CallWait,
       SchedulePods, NilClient, AfterClient, Pcs
  <2>3. client' \in {"unset", "nil", "set"}
    BY <1>0, <1>1 DEF Types, MainStep, Setup, ScaledUp, Prepared, PollClient, PrepareFails, Sleep, WatchWait,
       CallWait, SchedulePods, NilClient, hubVars
  <2> QED BY <1>0, <2>1, <2>2, <2>3 DEF Types, goVars, watchVars, callVars, worldVars, podVars
<1>2. CASE WorldStep
  <2>1. UNCHANGED <<driver, pc, client, goVars>>
    BY <1>2, Frames
  <2>2. CASE serviceLister \/ Cancel \/ \E ok \in BOOLEAN : doHandshake(ok)
    BY <1>0, <2>1, <2>2 DEF serviceLister, Cancel, doHandshake, Types, hubVars, goVars, watchVars, callVars,
       worldVars, podVars
  <2>3. ASSUME NEW t \in Targets, CallApplied(t) \/ Event(t) \/ \E i \in 1 .. 2 : ReplicaSetCreated(t, i)
        PROVE  Types'
    BY <1>0, <2>1, <2>3, SMT DEF CallApplied, Event, ReplicaSetCreated, Types, hubVars, goVars, watchVars,
       callVars, podVars
  <2>4. ASSUME NEW t \in Targets, ScaleUp(t) PROVE Types'
    <3>1. replicas' \in [Targets -> {0, nPodsPerTarget}]
      BY <1>0, <2>4 DEF ScaleUp, Types
    <3> QED BY <1>0, <2>1, <2>4, <3>1 DEF ScaleUp, Types, hubVars, goVars, watchVars, callVars
  <2>5. ASSUME NEW t \in Targets, PodReady(t) PROVE Types'
    <3>1. nPodsPerTarget \in Nat
      <4>1. Cardinality(Targets) \in Nat /\ Cardinality(Targets) # 0
        BY FS_CardinalityType, FS_EmptySet, RpcBenchAssumption
      <4> QED BY <4>1, RpcBenchAssumption, SMT DEF nPodsPerTarget
    <3>2. replicas[t] \in {0, nPodsPerTarget} /\ ready[t] \in 0 .. nPodsPerTarget /\ ready[t] < replicas[t]
      BY <1>0, <2>5 DEF PodReady, Types
    <3>3. ready[t] + 1 \in 0 .. nPodsPerTarget
      BY <3>1, <3>2, SMT
    <3>4. ready' \in [Targets -> 0 .. nPodsPerTarget]
      BY <1>0, <2>5, <3>3 DEF PodReady, Types
    <3> QED BY <1>0, <2>1, <2>5, <3>4 DEF PodReady, Types, hubVars, goVars, watchVars, callVars
  <2> QED BY <1>2, <2>2, <2>3, <2>4, <2>5 DEF WorldStep
<1>3. CASE StartCalls \/ StartWatchers
  BY <1>0, <1>3 DEF StartCalls, StartWatchers, Types, Pcs, hubVars, watchVars, callVars, worldVars, podVars
<1>4. ASSUME NEW t \in Targets, WatchStep(t) PROVE Types'
  <2>1. PICK s \in {"installed", "missed", "ok", "counted", "error", "aborted"} :
          watch' = [watch EXCEPT ![t] = s]
    BY <1>0, <1>4, WatchMove
  <2>2. UNCHANGED <<driver, pc, cancelled, hubVars, watchGroup, callVars, joined, worldVars>>
    BY <1>4, Frames
  <2> QED BY <1>0, <2>1, <2>2 DEF Types, hubVars, callVars, worldVars, podVars
<1>5. ASSUME NEW t \in Targets, CallStep(t) PROVE Types'
  <2>1. PICK s \in {"ok", "counted", "error", "aborted"} : call' = [call EXCEPT ![t] = s]
    BY <1>0, <1>5, CallMove
  <2>2. UNCHANGED <<driver, pc, cancelled, hubVars, watchVars, callGroup, joined, worldVars>>
    BY <1>5, Frames
  <2> QED BY <1>0, <2>1, <2>2 DEF Types, hubVars, watchVars, worldVars, podVars
<1>6. ASSUME NEW t \in Targets, WatchDone(t) \/ CallDone(t) PROVE Types'
  BY <1>0, <1>6, SMT DEF WatchDone, CallDone, Types, hubVars, watchVars, callVars, worldVars, podVars
<1>7. CASE UNCHANGED vars
  BY <1>0, <1>7 DEF vars, Types, hubVars, goVars, watchVars, callVars, worldVars, podVars
<1> QED BY <1>1, <1>2, <1>3, <1>4, <1>5, <1>6, <1>7, StepKinds

LEMMA CausesNext == IInv /\ [Next]_vars => Causes'
<1> SUFFICES ASSUME IInv, [Next]_vars PROVE Causes'
  OBVIOUS
<1>0. Types /\ Causes
  BY DEF IInv
<1>1. CASE MainStep
  <2>1. UNCHANGED <<driver, cancelled, watch, call, event>>
    BY <1>1, Frames DEF goVars, watchVars, callVars, worldVars
  <2>2. client' = "nil" \/ pc' = "crashed" => cancelled
    <3>1. CASE PollClient
      BY <1>0, <3>1 DEF PollClient, Causes, AfterClient
    <3>2. CASE \E t \in Targets : NilClient(t)
      BY <1>0, <3>2 DEF NilClient, Causes, hubVars
    <3>3. CASE Setup \/ ScaledUp \/ Prepared \/ (\E f \in {"error", "aborted"} : PrepareFails(f))
               \/ Sleep \/ WatchWait \/ CallWait \/ SchedulePods
      BY <1>0, <3>3 DEF Setup, ScaledUp, Prepared, PrepareFails, Sleep, WatchWait, CallWait, SchedulePods,
         Causes, hubVars
    <3> QED BY <1>1, <3>1, <3>2, <3>3 DEF MainStep
  <2> QED BY <1>0, <2>1, <2>2 DEF Causes
<1>2. CASE WorldStep
  <2>1. UNCHANGED <<driver, pc, client, watch, call>>
    BY <1>2, Frames DEF goVars, watchVars, callVars
  <2>2. event \subseteq event'
    BY <1>2 DEF WorldStep, serviceLister, Cancel, doHandshake, ScaleUp, PodReady, CallApplied, Event,
       ReplicaSetCreated, worldVars
  <2>3. cancelled => cancelled'
    BY <1>2, Zenon DEF WorldStep, serviceLister, Cancel, doHandshake, ScaleUp, PodReady, CallApplied, Event,
       ReplicaSetCreated
  <2> QED BY <1>0, <2>1, <2>2, <2>3 DEF Causes
<1>3. CASE StartCalls \/ StartWatchers
  BY <1>0, <1>3 DEF StartCalls, StartWatchers, Causes, hubVars, watchVars, callVars, worldVars
<1>4. ASSUME NEW t \in Targets, WatchStep(t) PROVE Causes'
  <2>1. PICK s \in {"installed", "missed", "ok", "counted", "error", "aborted"} :
          /\ watch' = [watch EXCEPT ![t] = s]
          /\ s = "counted" <=> watch[t] = "ok"
          /\ s = "ok" => t \in event
          /\ s = "aborted" => cancelled
    BY <1>0, <1>4, WatchMove
  <2>2. UNCHANGED <<driver, pc, cancelled, client, call, event>>
    BY <1>4, Frames DEF hubVars, callVars, worldVars
  <2> QED BY <1>0, <2>1, <2>2 DEF Types, Causes
<1>5. ASSUME NEW t \in Targets, CallStep(t) PROVE Causes'
  <2>1. PICK s \in {"ok", "counted", "error", "aborted"} :
          /\ call' = [call EXCEPT ![t] = s]
          /\ s = "counted" <=> call[t] = "ok"
          /\ s = "ok" /\ driver \notin Watching => t \in event
          /\ s = "aborted" => cancelled
    BY <1>0, <1>5, CallMove
  <2>2. UNCHANGED <<driver, pc, cancelled, client, watch, event>>
    BY <1>5, Frames DEF hubVars, watchVars, worldVars
  <2> QED BY <1>0, <2>1, <2>2 DEF Types, Causes
<1>6. ASSUME NEW t \in Targets, WatchDone(t) \/ CallDone(t) PROVE Causes'
  BY <1>0, <1>6 DEF WatchDone, CallDone, Causes, hubVars, watchVars, callVars, worldVars
<1>7. CASE UNCHANGED vars
  BY <1>0, <1>7 DEF vars, Causes, hubVars, goVars, watchVars, callVars, worldVars
<1> QED BY <1>1, <1>2, <1>3, <1>4, <1>5, <1>6, <1>7, StepKinds

LEMMA CountingNext == IInv /\ [Next]_vars => Counting'
<1> SUFFICES ASSUME IInv, [Next]_vars PROVE Counting'
  OBVIOUS
<1>0. Types /\ Counting /\ Phase /\ driver' = driver
  <2>1. driver' = driver
    BY StepKinds, Frames DEF StartCalls, StartWatchers, WatchDone, CallDone, vars
  <2> QED BY <2>1 DEF IInv
<1>1. CASE UNCHANGED goVars
  BY <1>0, <1>1 DEF Counting, WatchOpen, CallOpen, Counted, goVars, watchVars, callVars
<1>2. CASE driver \in Watching /\ StartWatchers
  <2>1. /\ \A t \in Targets : watch[t] = "none"
        /\ watch' = [t \in Targets |-> "sent"] /\ watchGroup' = Cardinality(Targets)
        /\ UNCHANGED <<nFinished, call, callGroup, nScaled, joined>>
    BY <1>0, <1>2 DEF StartWatchers, Phase, callVars
  <2>2. \A t \in Targets : <<"watch", t>> \notin joined
    BY <1>0, <2>1 DEF Counting, Over
  <2>3. WatchOpen' = Targets
    BY <2>1, <2>2 DEF WatchOpen
  <2>4. Counted(watch)' = {} /\ Counted(watch) = {}
    BY <2>1 DEF Counted
  <2>5. CallOpen' = CallOpen /\ Counted(call)' = Counted(call)
    BY <1>0, <2>1 DEF CallOpen, Counted
  <2> QED BY <1>0, <2>1, <2>2, <2>3, <2>4, <2>5 DEF Counting
<1>3. CASE StartCalls
  <2>1. /\ \A t \in Targets : call[t] = "none"
        /\ call' = [t \in Targets |-> IF t \in Called THEN "sent" ELSE "none"]
        /\ callGroup' = IF driver = "scheduler" THEN 0 ELSE Cardinality(Targets)
        /\ UNCHANGED <<nScaled, watch, watchGroup, nFinished, joined>>
    BY <1>0, <1>3 DEF StartCalls, Phase, watchVars
  <2>2. \A t \in Targets : <<"call", t>> \notin joined
    BY <1>0, <2>1 DEF Counting, Over
  <2>3. CallOpen' = IF driver = "scheduler" THEN {} ELSE Targets
    BY <1>0, <2>1, <2>2 DEF CallOpen, Called
  <2>4. callGroup' = Cardinality(CallOpen')
    BY <2>1, <2>3, FS_EmptySet
  <2>5. Counted(call)' = {} /\ Counted(call) = {}
    BY <2>1 DEF Counted
  <2>6. WatchOpen' = WatchOpen /\ Counted(watch)' = Counted(watch)
    BY <2>1 DEF WatchOpen, Counted
  <2> QED BY <1>0, <2>1, <2>2, <2>4, <2>5, <2>6 DEF Counting
<1>4. ASSUME NEW t \in Targets, WatchStep(t) PROVE Counting'
  <2>1. PICK s \in {"installed", "missed", "ok", "counted", "error", "aborted"} :
          /\ watch' = [watch EXCEPT ![t] = s] /\ watch[t] \in {"sent", "installed", "missed", "ok"}
          /\ nFinished' = IF s = "counted" THEN nFinished + 1 ELSE nFinished
    BY <1>0, <1>4, WatchMove
  <2>2. UNCHANGED <<watchGroup, call, callGroup, nScaled, joined>>
    BY <1>4, Frames DEF callVars
  <2>3. <<"watch", t>> \notin joined
    BY <1>0, <2>1 DEF Counting, Over
  <2>4. WatchOpen' = WatchOpen /\ CallOpen' = CallOpen /\ Counted(call)' = Counted(call)
    BY <1>0, <2>1, <2>2 DEF Types, WatchOpen, CallOpen, Counted
  <2> DEFINE A == Counted(watch)
             B == Counted(watch')
  <2>5. /\ A \in SUBSET Targets /\ B \in SUBSET Targets
        /\ \A u \in Targets \ {t} : u \in A <=> u \in B
        /\ t \notin A /\ (t \in B <=> s = "counted")
    BY <1>0, <2>1 DEF Types, Counted
  <2> HIDE DEF A, B
  <2>6. /\ (t \in A <=> t \in B) => Cardinality(B) = Cardinality(A)
        /\ t \notin A /\ t \in B => Cardinality(B) = Cardinality(A) + 1
    BY <2>5, TargetCount
  <2>7. nFinished' = Cardinality(Counted(watch'))
    BY <1>0, <2>1, <2>5, <2>6 DEF Counting, A, B
  <2>8. \A u \in Targets : <<"watch", u>> \in joined => watch'[u] \in Over
    BY <1>0, <2>1, <2>3 DEF Types, Counting
  <2> QED BY <1>0, <2>2, <2>4, <2>7, <2>8 DEF Counting
<1>5. ASSUME NEW t \in Targets, CallStep(t) PROVE Counting'
  <2>1. PICK s \in {"ok", "counted", "error", "aborted"} :
          /\ call' = [call EXCEPT ![t] = s] /\ call[t] \in {"sent", "ok"}
          /\ nScaled' = IF s = "counted" THEN nScaled + 1 ELSE nScaled
    BY <1>0, <1>5, CallMove
  <2>2. UNCHANGED <<callGroup, watch, watchGroup, nFinished, joined>>
    BY <1>5, Frames DEF watchVars
  <2>3. <<"call", t>> \notin joined
    BY <1>0, <2>1 DEF Counting, Over
  <2>4. WatchOpen' = WatchOpen /\ CallOpen' = CallOpen /\ Counted(watch)' = Counted(watch)
    BY <1>0, <2>1, <2>2 DEF Types, WatchOpen, CallOpen, Counted
  <2> DEFINE A == Counted(call)
             B == Counted(call')
  <2>5. /\ A \in SUBSET Targets /\ B \in SUBSET Targets
        /\ \A u \in Targets \ {t} : u \in A <=> u \in B
        /\ t \notin A /\ (t \in B <=> s = "counted")
    BY <1>0, <2>1 DEF Types, Counted
  <2> HIDE DEF A, B
  <2>6. /\ (t \in A <=> t \in B) => Cardinality(B) = Cardinality(A)
        /\ t \notin A /\ t \in B => Cardinality(B) = Cardinality(A) + 1
    BY <2>5, TargetCount
  <2>7. nScaled' = Cardinality(Counted(call'))
    BY <1>0, <2>1, <2>5, <2>6 DEF Counting, A, B
  <2>8. \A u \in Targets : <<"call", u>> \in joined => call'[u] \in Over
    BY <1>0, <2>1, <2>3 DEF Types, Counting
  <2> QED BY <1>0, <2>2, <2>4, <2>7, <2>8 DEF Counting
<1>6. ASSUME NEW t \in Targets, WatchDone(t) PROVE Counting'
  <2>1. /\ watch[t] \in Over /\ <<"watch", t>> \notin joined
        /\ joined' = joined \cup {<<"watch", t>>} /\ watchGroup' = watchGroup - 1
        /\ UNCHANGED <<watch, nFinished, call, callGroup, nScaled>>
    BY <1>6 DEF WatchDone, Over, callVars
  <2> DEFINE A == WatchOpen
             B == WatchOpen'
  <2>2. /\ A \in SUBSET Targets /\ B \in SUBSET Targets
        /\ \A u \in Targets \ {t} : u \in A <=> u \in B
        /\ t \in A /\ t \notin B
    BY <2>1 DEF WatchOpen, Over
  <2> HIDE DEF A, B
  <2>3. Cardinality(B) = Cardinality(A) - 1
    BY <2>2, TargetCount
  <2>4. CallOpen' = CallOpen /\ Counted(call)' = Counted(call) /\ Counted(watch)' = Counted(watch)
    BY <1>0, <2>1 DEF CallOpen, Counted
  <2>5. watchGroup' = Cardinality(WatchOpen')
    BY <1>0, <2>1, <2>3 DEF Counting, A, B
  <2>6. \A u \in Targets : /\ <<"watch", u>> \in joined' => watch'[u] \in Over
                           /\ <<"call", u>> \in joined' => call'[u] \in Over
    BY <1>0, <2>1 DEF Counting
  <2> QED BY <1>0, <2>1, <2>4, <2>5, <2>6 DEF Counting
<1>7. ASSUME NEW t \in Targets, CallDone(t) PROVE Counting'
  <2>1. /\ driver # "scheduler" /\ call[t] \in Over /\ <<"call", t>> \notin joined
        /\ joined' = joined \cup {<<"call", t>>} /\ callGroup' = callGroup - 1
        /\ UNCHANGED <<call, nScaled, watch, watchGroup, nFinished>>
    BY <1>7 DEF CallDone, Over, watchVars
  <2> DEFINE A == CallOpen
             B == CallOpen'
  <2>2. /\ A \in SUBSET Targets /\ B \in SUBSET Targets
        /\ \A u \in Targets \ {t} : u \in A <=> u \in B
        /\ t \in A /\ t \notin B
    BY <1>0, <2>1 DEF CallOpen, Over
  <2> HIDE DEF A, B
  <2>3. Cardinality(B) = Cardinality(A) - 1
    BY <2>2, TargetCount
  <2>4. WatchOpen' = WatchOpen /\ Counted(call)' = Counted(call) /\ Counted(watch)' = Counted(watch)
    BY <2>1 DEF WatchOpen, Counted
  <2>5. callGroup' = Cardinality(CallOpen')
    BY <1>0, <2>1, <2>3 DEF Counting, A, B
  <2>6. \A u \in Targets : /\ <<"watch", u>> \in joined' => watch'[u] \in Over
                           /\ <<"call", u>> \in joined' => call'[u] \in Over
    BY <1>0, <2>1 DEF Counting
  <2> QED BY <1>0, <2>1, <2>4, <2>5, <2>6 DEF Counting
<1>8. CASE MainStep \/ WorldStep \/ UNCHANGED vars
  BY <1>1, <1>8, Frames DEF vars
<1> QED BY <1>2, <1>3, <1>4, <1>5, <1>6, <1>7, <1>8, StepKinds

\* A WaitGroup at zero: every goroutine that was started is over.
LEMMA GroupDone ==
  ASSUME Types, Counting
  PROVE  /\ watchGroup = 0 => \A t \in Targets : watch[t] # "none" => watch[t] \in Over
         /\ callGroup = 0 /\ driver # "scheduler" =>
              \A t \in Targets : call[t] # "none" => call[t] \in Over
<1>1. \A S \in SUBSET Targets : Cardinality(S) = 0 => S = {}
  BY FS_Subset, FS_EmptySet, RpcBenchAssumption
<1>2. ASSUME watchGroup = 0
      PROVE  \A t \in Targets : watch[t] # "none" => watch[t] \in Over
  <2>1. WatchOpen = {}
    BY <1>1, <1>2 DEF Counting, WatchOpen
  <2> QED BY <2>1 DEF Counting, WatchOpen
<1>3. ASSUME callGroup = 0, driver # "scheduler"
      PROVE  \A t \in Targets : call[t] # "none" => call[t] \in Over
  <2>1. CallOpen = {}
    BY <1>1, <1>3 DEF Counting, CallOpen
  <2> QED BY <1>3, <2>1 DEF Counting, CallOpen
<1> QED BY <1>2, <1>3

LEMMA PhaseNext == IInv /\ [Next]_vars => Phase'
<1> SUFFICES ASSUME IInv, [Next]_vars PROVE Phase'
  OBVIOUS
<1>0. Types /\ Counting /\ Causes /\ Phase /\ "scheduler" \notin Watching
  BY DEF IInv, Watching, Scaling
<1>1. CASE MainStep
  <2>1. driver' = driver /\ watch' = watch /\ call' = call /\ Called' = Called
    BY <1>1, Frames DEF goVars, watchVars, callVars, Called
  <2>2. CASE Setup \/ ScaledUp \/ (\E f \in {"error", "aborted"} : PrepareFails(f))
    BY <1>0, <2>1, <2>2 DEF Setup, ScaledUp, PrepareFails, Phase
  <2>3. CASE Prepared
    BY <1>0, <2>1, <2>3 DEF Prepared, Phase
  <2>4. CASE PollClient
    BY <1>0, <2>1, <2>4 DEF PollClient, AfterClient, Phase
  <2>5. CASE driver \in Watching /\ Sleep
    BY <1>0, <2>1, <2>5 DEF Sleep, Phase
  <2>6. CASE driver \in Watching /\ WatchWait
    <3>1. pc = "watchWait" /\ \A t \in Targets : watch[t] \in Over
      BY <1>0, <2>6, GroupDone DEF WatchWait, Phase
    <3>2. ~cancelled => \A t \in Targets : watch[t] \in {"counted", "error"}
      BY <1>0, <3>1 DEF Over, Causes
    <3>3. pc' = "returned" \/ (pc' = "reported" /\ ~cancelled)
      BY <2>6 DEF WatchWait
    <3> QED BY <1>0, <2>1, <2>6, <3>1, <3>2, <3>3 DEF Phase
  <2>7. CASE driver # "scheduler" /\ CallWait
    <3>1. pc = "callWait" /\ \A t \in Targets : call[t] \in Over
      BY <1>0, <2>7, GroupDone DEF CallWait, Phase
    <3>2. ~cancelled => \A t \in Targets : call[t] \in {"counted", "error"}
      BY <1>0, <3>1 DEF Over, Causes
    <3>3. \/ pc' = "returned"
          \/ pc' = "watchWait" /\ driver \in Watching /\ ~cancelled
          \/ pc' = "reported" /\ driver \notin Watching /\ ~cancelled
      BY <2>7 DEF CallWait
    <3> QED BY <1>0, <2>1, <2>7, <3>1, <3>2, <3>3 DEF Phase
  <2>8. CASE driver = "scheduler" /\ SchedulePods
    <3>1. pc' = "returned" \/ (pc' = "reported" /\ \E t \in Called : call[t] = "ok")
      BY <2>8 DEF SchedulePods
    <3>2. pc' = "reported" => \A t \in Called : call[t] = "ok"
      BY <2>8, <3>1, CalledType
    <3> QED BY <1>0, <2>1, <2>8, <3>1, <3>2 DEF Phase
  <2>9. CASE \E t \in Targets : NilClient(t)
    BY <1>0, <2>1, <2>9 DEF NilClient, Phase
  <2> QED BY <1>1, <2>2, <2>3, <2>4, <2>5, <2>6, <2>7, <2>8, <2>9 DEF MainStep
<1>2. CASE driver \in Watching /\ StartWatchers
  <2>1. driver' = driver /\ call' = call /\ pc = "watch" /\ pc' = "sleep" /\ watch' = [t \in Targets |-> "sent"]
    BY <1>2 DEF StartWatchers, callVars
  <2> QED BY <1>0, <1>2, <2>1 DEF Phase
<1>3. CASE StartCalls
  <2>1. /\ driver' = driver /\ watch' = watch /\ pc = "call" /\ pc' = "callWait" /\ Called' = Called
        /\ call' = [t \in Targets |-> IF t \in Called THEN "sent" ELSE "none"]
    BY <1>3 DEF StartCalls, watchVars, Called
  <2>2. driver # "scheduler" => Called = Targets
    BY DEF Called
  <2> QED BY <1>0, <2>1, <2>2 DEF Phase
<1>4. ASSUME NEW t \in Targets, WatchStep(t), ~Ended PROVE Phase'
  <2>1. PICK s \in {"installed", "missed", "ok", "counted", "error", "aborted"} :
          watch' = [watch EXCEPT ![t] = s] /\ watch[t] \in {"sent", "installed", "missed", "ok"}
    BY <1>0, <1>4, WatchMove
  <2>2. pc' = pc /\ pc # "reported" /\ driver' = driver /\ call' = call /\ Called' = Called
    BY <1>4, Frames DEF Ended, callVars, Called
  <2> QED BY <1>0, <2>1, <2>2 DEF Types, Phase
<1>5. ASSUME NEW t \in Targets, CallStep(t), ~Ended PROVE Phase'
  <2>1. PICK s \in {"ok", "counted", "error", "aborted"} :
          /\ call' = [call EXCEPT ![t] = s] /\ call[t] \in {"sent", "ok"}
          /\ s = "counted" => driver # "scheduler"
    BY <1>0, <1>5, CallMove
  <2>2. pc' = pc /\ pc # "reported" /\ driver' = driver /\ watch' = watch /\ Called' = Called
    BY <1>5, Frames DEF Ended, watchVars, Called
  <2> QED BY <1>0, <2>1, <2>2 DEF Types, Phase
<1>6. CASE UNCHANGED <<driver, pc, watch, call>>
  BY <1>0, <1>6 DEF Phase, Called
<1>7. CASE WorldStep \/ UNCHANGED vars
  BY <1>6, <1>7, Frames DEF vars, goVars, watchVars, callVars
<1>8. ASSUME NEW t \in Targets, WatchDone(t) \/ CallDone(t) PROVE Phase'
  BY <1>6, <1>8 DEF WatchDone, CallDone, watchVars, callVars
<1> QED BY <1>1, <1>2, <1>3, <1>4, <1>5, <1>7, <1>8, StepKinds

-----------------------------------------------------------------------------
LEMMA InitIInv == Init => IInv
<1> SUFFICES ASSUME Init PROVE IInv
  OBVIOUS
<1>1. nPodsPerTarget \in Nat
  <2>1. Cardinality(Targets) \in Nat /\ Cardinality(Targets) # 0
    BY FS_CardinalityType, FS_EmptySet, RpcBenchAssumption
  <2> QED BY <2>1, RpcBenchAssumption, SMT DEF nPodsPerTarget
<1>2. Types
  <2>1. /\ watch \in [Targets -> {"none", "sent", "installed", "missed",
                                 "ok", "counted", "error", "aborted"}]
        /\ call \in [Targets -> {"none", "sent", "ok", "counted", "error", "aborted"}]
    BY DEF Init
  <2>2. replicas \in [Targets -> {0, nPodsPerTarget}] /\ ready \in [Targets -> 0 .. nPodsPerTarget]
    BY <1>1, SMT DEF Init
  <2>3. cancelled \in BOOLEAN
    BY DEF Init
  <2> QED BY <2>1, <2>2, <2>3 DEF Init, Types, Pcs
<1>3. Counting
  <2>1. WatchOpen = {} /\ CallOpen = {} /\ Counted(watch) = {} /\ Counted(call) = {}
    BY DEF Init, WatchOpen, CallOpen, Counted
  <2>2. Cardinality({}) = 0
    BY FS_EmptySet
  <2> QED BY <2>1, <2>2 DEF Init, Counting
<1>4. Causes /\ Phase
  BY DEF Init, Causes, Phase
<1> QED BY <1>2, <1>3, <1>4 DEF IInv

LEMMA Inductive == Spec => []IInv
<1>1. IInv /\ [Next]_vars => IInv'
  BY TypesNext, CountingNext, CausesNext, PhaseNext DEF IInv
<1> QED BY <1>1, InitIInv, PTL DEF Spec

\* The variables of run keep their types, and neither WaitGroup of the drivers
\* becomes negative: every goroutine calls Done once.
THEOREM TypeCorrect == Spec => []TypeOK
BY Inductive, IInvTypeOK, PTL

\* For any number of targets, what run prints after a Wait is the number of calls
\* that succeeded, and none of them is still under way.
THEOREM Reported == Spec => []ReportExact
BY Inductive, IInvProperties, PTL

\* For any number of targets, no total is printed of a run that the end of its
\* context cut short.
THEOREM Complete == Spec => []NotTruncated
BY Inductive, IInvProperties, PTL

\* For any number of targets, the total that run prints covers the controller's work
\* on every target whose RPC did not fail.
THEOREM Covered == Spec => []TotalCovers
BY Inductive, IInvProperties, PTL

\* A method of a nil kdClient is called only in a run whose context is done.
THEOREM NilClientCancelled == Spec => []NilOnlyCancelled
BY Inductive, IInvProperties, PTL

-----------------------------------------------------------------------------
\* The ReplicaSets.

\* As many ReplicaSets as Deployments, and no rollout: one each.
LEMMA OneEach ==
  ASSUME Types, waitForReplicaSets, \A t \in Targets : ~Rollout(t)
  PROVE  \A t \in Targets : <<t, 1>> \in sets
<1>1. IsFiniteSet(Targets) /\ IsFiniteSet({1}) /\ Cardinality({1}) = 1
  BY RpcBenchAssumption, FS_Singleton
<1>2. sets \in SUBSET (Targets \X {1})
  BY SMT DEF Types, Rollout
<1>3. IsFiniteSet(Targets \X {1}) /\ Cardinality(Targets \X {1}) = Cardinality(Targets) * 1
  BY <1>1, FS_Product
<1>4. Cardinality(Targets) \in Nat
  BY <1>1, FS_CardinalityType
<1>5. Cardinality(Targets \X {1}) = Cardinality(sets)
  BY <1>3, <1>4, SMT DEF waitForReplicaSets
<1>6. sets = Targets \X {1}
  BY <1>2, <1>3, <1>5, FS_Subset
<1> QED BY <1>6

\* No ReplicaSet goes, and none comes once run has the client to wait for.
LEMMA SetsNext ==
  ASSUME IInv, [Next]_vars, driver \in Scaling, pc' \notin {"setup", "poll", "fatal"}
  PROVE  /\ driver' = driver /\ sets' = sets
         /\ pc \in {"setup", "poll", "fatal"} => waitForReplicaSets
<1>0. Next => pc # "fatal"
  BY StepKinds DEF Ended
<1>1. CASE Next /\ MainStep
  <2>1. driver' = driver /\ sets' = sets
    BY <1>1, Frames DEF worldVars, podVars
  <2>2. pc \in {"setup", "poll", "fatal"} => Prepared
    <3>1. ASSUME Setup PROVE FALSE
      BY <3>1 DEF Setup, Scaling
    <3>2. CASE ScaledUp \/ Sleep \/ WatchWait \/ CallWait \/ SchedulePods \/ PollClient
      BY <3>2 DEF ScaledUp, Sleep, WatchWait, CallWait, SchedulePods, PollClient
    <3>4. ASSUME NEW t \in Targets, NilClient(t) PROVE pc \notin {"setup", "poll"}
      BY <3>4 DEF NilClient, IInv, Phase, Scaling, Watching
    <3>3. ASSUME NEW x \in {"error", "aborted"}, PrepareFails(x) PROVE FALSE
      BY <3>3 DEF PrepareFails
    <3> QED BY <1>1, <3>1, <3>2, <3>3, <3>4, <1>0 DEF MainStep
  <2> QED BY <2>1, <2>2 DEF Prepared
<1>2. CASE WorldStep
  <2>1. UNCHANGED <<driver, pc>>
    BY <1>2, Frames
  <2>2. sets' = sets \/ pc \in {"setup", "poll"}
    BY <1>2 DEF WorldStep, serviceLister, Cancel, doHandshake, ScaleUp, PodReady, CallApplied, Event,
       ReplicaSetCreated, worldVars, podVars
  <2> QED BY <2>1, <2>2
<1>3. CASE StartCalls \/ StartWatchers
  BY <1>3 DEF StartCalls, StartWatchers, worldVars, podVars
<1>4. ASSUME NEW t \in Targets, WatchStep(t) \/ CallStep(t)
      PROVE  UNCHANGED <<driver, pc, sets>>
  BY <1>4, Frames DEF worldVars, podVars
<1>5. ASSUME NEW t \in Targets, WatchDone(t) \/ CallDone(t)
      PROVE  UNCHANGED <<driver, pc, sets>>
  BY <1>5 DEF WatchDone, CallDone, worldVars, podVars
<1>6. CASE UNCHANGED vars
  BY <1>6 DEF vars, worldVars, podVars
<1> QED BY <1>1, <1>2, <1>3, <1>4, <1>5, <1>6, StepKinds

\* Comparing two numbers is enough for waitForReplicaSets: however many Deployments
\* there are, each has its ReplicaSet when the poll ends, unless one has two.
THEOREM SetsComplete == Spec => []ReplicaSetsPresent
<1>1. Init => ReplicaSetsPresent
  BY DEF Init, ReplicaSetsPresent
<1>2. ASSUME IInv, ReplicaSetsPresent, [Next]_vars
      PROVE  ReplicaSetsPresent'
  <2> SUFFICES ASSUME (driver \in Scaling)', pc' \notin {"setup", "poll", "fatal"},
                      ~(\E t \in Targets : Rollout(t))'
               PROVE  \A t \in Targets : <<t, 1>> \in sets'
    BY DEF ReplicaSetsPresent
  <2>1. driver' = driver
    BY <1>2, StepKinds, Frames DEF StartCalls, StartWatchers, WatchDone, CallDone, vars
  <2>2. sets' = sets /\ (pc \in {"setup", "poll", "fatal"} => waitForReplicaSets)
    BY <1>2, <2>1, SetsNext
  <2>3. \A t \in Targets : ~Rollout(t)
    BY <2>2 DEF Rollout
  <2>4. CASE waitForReplicaSets
    BY <1>2, <2>2, <2>3, <2>4, OneEach DEF IInv
  <2>5. CASE pc \notin {"setup", "poll", "fatal"}
    BY <1>2, <2>1, <2>2, <2>3, <2>5 DEF ReplicaSetsPresent
  <2> QED BY <2>2, <2>4, <2>5
<1> QED BY <1>1, <1>2, Inductive, PTL DEF Spec
=============================================================================
