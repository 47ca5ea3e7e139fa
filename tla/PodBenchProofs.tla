--------------------------- MODULE PodBenchProofs ---------------------------
(***************************************************************************)
(* Proofs about PodBench, for any deployments, any number of pods and any   *)
(* number of replacements.                                                  *)
(***************************************************************************)
EXTENDS PodBench, FiniteSetTheorems, TLAPS

\* Most steps need no arithmetic and go to Zenon; the others cite SMT.
USE Zenon

\* Before wg.Add nothing is watched and nothing is counted; after it the counter
\* and the recorded times add up.
CountInv ==
  /\ pc = "setup" => wg = 0 /\ seen = {} /\ watched = {}
  /\ CountExact

\* A pod that was ready was created, and a pod that is ready was.
PodInv ==
  /\ \A p \in readied : api[p] # "none"
  /\ \A p \in Pods : api[p] = "ready" => p \in readied

\* Events that are still to be handled tell what did happen to their pod.
EventInv ==
  \A p \in Pods : \A i \in 1 .. Len(events[p]) :
    /\ events[p][i] = "ready" => p \in readied
    /\ events[p][i] = "gone" => api[p] = "gone"

\* Why a pod is recorded.
SeenInv ==
  \A p \in seen :
    \/ experiment = "e2e" /\ p \in readied
    \/ experiment = "kubelet" /\ p \in Expected /\ (p \in readied \/ api[p] = "gone")

\* A pod that the driver asked for exists because its request took effect.
CreatedInv ==
  \A p \in Pods :
    api[p] # "none" => IF experiment = "e2e" THEN p[1] \in applied ELSE p \in Expected => p \in applied

\* What a run that got past wg.Wait, or that WaitGroup.Done stopped, has counted.
EndInv ==
  /\ pc \in {"since", "done"} => wg <= 0
  /\ crashed = "negative" => wg < 0 /\ pc \in {"watch", "wait", "since"}
  /\ crashed = "nil" => cancelled /\ watched = {} /\ wg = 0
  /\ pc = "done" => sample = IF experiment = "e2e" THEN Cardinality(seen) ELSE Cardinality(Expected)

IInv == TypeOK /\ CountInv /\ PodInv /\ EventInv /\ SeenInv /\ EndInv /\ CreatedInv

-----------------------------------------------------------------------------
\* nPodsPerTarget is a positive number.
LEMMA ShareNat == nPodsPerTarget \in Nat \ {0}
<1>1. Cardinality(Targets) \in Nat
  BY FS_CardinalityType, BenchAssumption
<1>2. Cardinality(Targets) # 0
  BY FS_EmptySet, BenchAssumption
<1>3. nPods \div Cardinality(Targets) \in Nat
  BY <1>1, <1>2, BenchAssumption, SMT
<1> QED BY <1>3, SMT DEF nPodsPerTarget

\* The sets of pods are finite.
LEMMA PodsFinite == IsFiniteSet(Pods)
<1>1. IsFiniteSet(1 .. (IF nPods = 0 THEN 1 ELSE nPods) + MaxSpare)
  BY FS_Interval, BenchAssumption, SMT
<1> QED BY <1>1, FS_Product, BenchAssumption DEF Pods

\* The expected pods are finite in number.
LEMMA ExpectedFinite == IsFiniteSet(Expected)
<1>0. IsFiniteSet(1 .. nPodsPerTarget)
  BY FS_Interval, ShareNat, SMT
<1>1. IsFiniteSet(Targets \X (1 .. nPodsPerTarget))
  BY <1>0, FS_Product, BenchAssumption
<1>i. IsFiniteSet(1 .. nPods)
  BY FS_Interval, BenchAssumption, SMT
<1>s. IsFiniteSet({target})
  BY FS_Singleton
<1>2. IsFiniteSet({target} \X (1 .. nPods))
  BY <1>i, <1>s, FS_Product
<1>3. IsFiniteSet(newPodInfos)
  BY <1>2 DEF newPodInfos
<1> QED BY <1>1, <1>3 DEF Expected

\* Expectation.Done records one more pod.
LEMMA OneMore ==
  ASSUME NEW S \in SUBSET Pods, NEW p \in Pods \ S
  PROVE  Cardinality(S \cup {p}) = Cardinality(S) + 1
<1>1. IsFiniteSet(S)
  BY PodsFinite, FS_Subset
<1> QED BY <1>1, FS_AddElement

\* Sets of pods have a size.
LEMMA CardNat == ASSUME NEW S \in SUBSET Pods PROVE Cardinality(S) \in Nat
<1>1. IsFiniteSet(S)
  BY PodsFinite, FS_Subset
<1> QED BY <1>1, FS_CardinalityType

\* So has the set of expected pods.
LEMMA ExpectedNat == Cardinality(Expected) \in Nat
  BY ExpectedFinite, FS_CardinalityType

-----------------------------------------------------------------------------
\* Init establishes the invariant.
LEMMA InitInv == Init => IInv
<1> SUFFICES ASSUME Init PROVE IInv
  OBVIOUS
<1>a. events \in [Pods -> Seq({"pending", "ready", "gone"})]
  BY SMT DEF Init
<1>b. connected \in BOOLEAN /\ cancelled \in BOOLEAN
  BY Zenon DEF Init
<1>1. TypeOK
  BY <1>a, <1>b, SMT DEF Init, TypeOK
<1>2. CountInv /\ PodInv /\ SeenInv /\ EndInv
  BY DEF Init, CountInv, CountExact, PodInv, SeenInv, EndInv
<1>3. EventInv
  BY SMT DEF Init, EventInv
<1>4. CreatedInv
  BY DEF Init, CreatedInv
<1> QED BY <1>1, <1>2, <1>3, <1>4 DEF IInv

\* No step but a pod's creation has to show CreatedInv: requests stay applied.
LEMMA SameCreated ==
  ASSUME CreatedInv, UNCHANGED <<experiment, api>>, applied \subseteq applied'
  PROVE  CreatedInv'
<1>1. Expected' = Expected
  BY DEF Expected
<1> QED BY <1>1 DEF CreatedInv

\* What a step that leaves the pods and their recorded times alone has to show.
LEMMA SamePods ==
  ASSUME IInv, UNCHANGED <<experiment, seen, podVars>>
  PROVE  PodInv' /\ EventInv' /\ SeenInv'
<1>1. UNCHANGED <<experiment, seen, api, events, readied>>
  BY DEF podVars
<1>2. Expected' = Expected
  BY <1>1 DEF Expected
<1>3. PodInv' /\ SeenInv'
  BY <1>1, <1>2 DEF IInv, PodInv, SeenInv
<1>4. EventInv'
  BY <1>1 DEF IInv, EventInv
<1> QED BY <1>3, <1>4

\* The steps of run before and at wg.Wait, and its end.
LEMMA MainStep == IInv /\ Main => IInv'
<1> SUFFICES ASSUME IInv, Main PROVE IInv'
  OBVIOUS
<1>a. UNCHANGED <<experiment, seen, podVars>> /\ Running
  BY DEF Main, SetupE2E, SetupKubelet, WatchE2E, WatchKubelet, Start, Wait, SinceE2E, SinceKubelet, monitorVars
<1>b. PodInv' /\ EventInv' /\ SeenInv'
  BY <1>a, SamePods
<1>c. Expected' = Expected /\ Selected' = Selected /\ Requests' = Requests
  BY <1>a DEF Expected, Selected, Requests
<1>d. Cardinality(Expected) \in Nat /\ Cardinality(seen) \in Nat /\ Cardinality({}) = 0
  BY ExpectedNat, CardNat, FS_EmptySet DEF IInv, TypeOK
<1>e. crashed = "no" /\ CreatedInv'
  <2>1. UNCHANGED requestVars
    BY DEF Main, SetupE2E, SetupKubelet, WatchE2E, WatchKubelet, Start, Wait, SinceE2E, SinceKubelet
  <2> QED BY <1>a, <2>1, SameCreated DEF Running, IInv, requestVars, podVars
<1>f. pc = "setup" => wg = 0 /\ Cardinality(seen) = 0
  BY <1>d DEF IInv, CountInv
<1> USE DEF IInv, monitorVars, requestVars, setupVars, podVars
<1>1. CASE SetupE2E
  <2>1. TypeOK'
    BY <1>1, <1>c, <1>d, SMT DEF SetupE2E, TypeOK
  <2>2. CountInv' /\ EndInv'
    <3>1. Cardinality(seen') = 0
      BY <1>1, <1>f DEF SetupE2E
    <3>2. CountInv'
      BY <1>1, <1>c, <1>d, <1>f, <3>1, SMT DEF SetupE2E, CountInv, CountExact
    <3>3. EndInv'
      BY <1>1, <1>e DEF SetupE2E, EndInv
    <3> QED BY <3>2, <3>3
  <2> QED BY <1>b, <1>e, <2>1, <2>2
<1>2. CASE SetupKubelet
  <2>1. TypeOK'
    BY <1>2, <1>c, <1>d, SMT DEF SetupKubelet, TypeOK
  <2>2. CountInv' /\ EndInv'
    <3>1. Cardinality(seen') = 0
      BY <1>2, <1>f DEF SetupKubelet
    <3>2. CountInv'
      BY <1>2, <1>c, <1>d, <1>f, <3>1, SMT DEF SetupKubelet, CountInv, CountExact
    <3>3. EndInv'
      BY <1>2, <1>e DEF SetupKubelet, CountInv, EndInv
    <3> QED BY <3>2, <3>3
  <2> QED BY <1>b, <1>e, <2>1, <2>2
<1>3. CASE WatchKubelet \/ \E t \in Targets : WatchE2E(t)
  <2>1. TypeOK'
    BY <1>3, <1>c DEF WatchKubelet, WatchE2E, TypeOK, Selected
  <2>2. CountInv' /\ EndInv'
    BY <1>3, <1>c, <1>e DEF WatchKubelet, WatchE2E, CountInv, CountExact, EndInv
  <2> QED BY <1>b, <1>e, <2>1, <2>2
<1>4. CASE Start
  <2>1. TypeOK'
    BY <1>4, <1>c DEF Start, TypeOK
  <2>2. CountInv' /\ EndInv'
    BY <1>4, <1>c, <1>e DEF Start, CountInv, CountExact, EndInv
  <2> QED BY <1>b, <1>e, <2>1, <2>2
<1>5. CASE Wait
  <2>1. TypeOK'
    BY <1>5, <1>c DEF Wait, TypeOK
  <2>2. CountInv' /\ EndInv'
    BY <1>5, <1>c, <1>e, SMT DEF Wait, CountInv, CountExact, EndInv
  <2> QED BY <1>b, <1>e, <2>1, <2>2
<1>6. CASE SinceE2E \/ SinceKubelet
  <2>1. TypeOK'
    BY <1>6, <1>c, <1>d DEF SinceE2E, SinceKubelet, TypeOK
  <2>2. CountInv' /\ EndInv'
    BY <1>6, <1>c, <1>e DEF SinceE2E, SinceKubelet, CountInv, CountExact, EndInv
  <2> QED BY <1>b, <1>e, <2>1, <2>2
<1> QED BY <1>1, <1>2, <1>3, <1>4, <1>5, <1>6 DEF Main

\* Requests, their answers, the set-up's failure and the cluster's part in it, and the
\* cancellation.
Environment ==
  \/ SetupFatal \/ Connect \/ Cancel
  \/ \E t \in Targets, i \in 1 .. 2 : ReplicaSetCreated(t, i)
  \/ \E r \in Requests : Apply(r) \/ Answer(r)

LEMMA EnvironmentStep == ASSUME IInv, Environment PROVE IInv'
<1> USE DEF IInv, monitorVars, requestVars, setupVars, podVars
<1>a. UNCHANGED <<experiment, wg, watched, seen, sample, crashed, podVars>> /\ Running
  BY DEF Environment, SetupFatal, Connect, Cancel, ReplicaSetCreated, Apply, Answer
<1>p. pc' = pc \/ pc' = "stopped"
  BY DEF Environment, SetupFatal, Connect, Cancel, ReplicaSetCreated, Apply, Answer
<1>b. PodInv' /\ EventInv' /\ SeenInv'
  BY <1>a, SamePods
<1>c. Expected' = Expected /\ Selected' = Selected /\ Requests' = Requests
  BY <1>a DEF Expected, Selected, Requests
<1>1. applied' \in SUBSET Requests /\ answered' \in SUBSET Requests /\ nScaled' \in Nat
  <2>1. CASE UNCHANGED requestVars
    BY <2>1 DEF TypeOK
  <2>2. CASE \E r \in Requests : Apply(r) \/ Answer(r)
    BY <2>2, SMT DEF Apply, Answer, TypeOK
  <2> QED BY <2>1, <2>2 DEF Environment, SetupFatal, Connect, Cancel, ReplicaSetCreated
<1>2. connected' \in BOOLEAN /\ cancelled' \in BOOLEAN
  BY DEF Environment, SetupFatal, Connect, Cancel, ReplicaSetCreated, Apply, Answer, TypeOK
<1>3. sets' \in SUBSET (Targets \X (1 .. 2))
  <2>1. CASE sets' = sets
    BY <2>1 DEF TypeOK
  <2>2. ASSUME NEW t \in Targets, NEW i \in 1 .. 2, ReplicaSetCreated(t, i)
        PROVE  sets' \in SUBSET (Targets \X (1 .. 2))
    <3>1. sets' = sets \cup {<<t, i>>} /\ <<t, i>> \in Targets \X (1 .. 2)
      BY <2>2 DEF ReplicaSetCreated
    <3> QED BY <3>1 DEF TypeOK
  <2> QED BY <2>1, <2>2 DEF Environment, SetupFatal, Connect, Cancel, Apply, Answer
<1>4. TypeOK'
  BY <1>a, <1>p, <1>c, <1>1, <1>2, <1>3 DEF TypeOK
<1>5. CountInv' /\ EndInv'
  BY <1>a, <1>p, <1>c DEF Running, CountInv, CountExact, EndInv
<1>6. CreatedInv'
  <2>1. applied \subseteq applied'
    BY DEF Environment, SetupFatal, Connect, Cancel, ReplicaSetCreated, Apply, Answer
  <2> QED BY <1>a, <2>1, SameCreated
<1> QED BY <1>b, <1>4, <1>5, <1>6

\* The handler: a pod is recorded and counted once, for an event that did happen.
LEMMA HandleStep ==
  ASSUME IInv, NEW p \in Pods, HandlePodEvent(p)
  PROVE  IInv'
<1> USE DEF IInv
<1> DEFINE counts == seen' = seen \cup {p} /\ wg' = wg - 1
<1>a. /\ TakeEvent(p)
      /\ UNCHANGED <<experiment, pc, watched, sample, applied, answered, nScaled, sets, connected, cancelled, api, readied>>
  BY DEF HandlePodEvent, HandlePodEventE2E, HandlePodEventKubelet, TakeEvent, requestVars, setupVars
<1>b. Running /\ crashed = "no" /\ pc # "done" /\ pc # "stopped"
  BY <1>a DEF TakeEvent, Running
<1>c. Expected' = Expected /\ Selected' = Selected /\ Requests' = Requests
  BY <1>a DEF Expected, Selected, Requests
<1>d. events[p] \in Seq({"pending", "ready", "gone"}) /\ events[p] # <<>> /\ events' = [events EXCEPT ![p] = Tail(@)]
  BY <1>a DEF TakeEvent, TypeOK
<1>e. Head(events[p]) = events[p][1] /\ 1 \in 1 .. Len(events[p])
  BY <1>d, SMT
<1>f. Cardinality(Expected) \in Nat /\ Cardinality(seen) \in Nat
  BY ExpectedNat, CardNat DEF TypeOK
<1>g. \/ Dismissed
      \/ /\ Done(p) /\ watched # {} /\ p \notin seen
         /\ \/ experiment = "e2e" /\ Head(events[p]) = "ready"
            \/ experiment = "kubelet" /\ p \in Expected /\ Head(events[p]) \in {"ready", "gone"}
  BY DEF HandlePodEvent, HandlePodEventE2E, HandlePodEventKubelet
<1>1. EventInv'
  <2>1. events' \in [Pods -> Seq({"pending", "ready", "gone"})]
    BY <1>d, SMT DEF TypeOK
  <2>2. \A q \in Pods : \A i \in 1 .. Len(events'[q]) :
           \E j \in 1 .. Len(events[q]) : events'[q][i] = events[q][j]
    <3> TAKE q \in Pods
    <3> TAKE i \in 1 .. Len(events'[q])
    <3>1. CASE q = p
      <4>1. events'[q] = Tail(events[p])
        BY <1>d, <3>1 DEF TypeOK
      <4>2. Len(Tail(events[p])) = Len(events[p]) - 1 /\ Len(events[p]) \in Nat
        BY <1>d, SMT
      <4>3. i \in 1 .. Len(Tail(events[p]))
        BY <4>1
      <4>4. i + 1 \in 1 .. Len(events[p])
        BY <4>2, <4>3, SMT
      <4>5. Tail(events[p])[i] = events[p][i + 1]
        BY <1>d, <4>3, SMT
      <4> QED BY <3>1, <4>1, <4>4, <4>5
    <3>2. CASE q # p
      BY <1>d, <3>2 DEF TypeOK
    <3> QED BY <3>1, <3>2
  <2> QED BY <1>a, <2>2, SMT DEF EventInv
<1>2. PodInv' /\ CreatedInv'
  BY <1>a, SameCreated DEF PodInv
<1>3. CASE Dismissed
  <2>1. TypeOK'
    BY <1>a, <1>c, <1>d, <1>3, SMT DEF Dismissed, TypeOK
  <2>2. CountInv' /\ EndInv' /\ SeenInv'
    BY <1>a, <1>b, <1>c, <1>3 DEF Dismissed, CountInv, CountExact, EndInv, SeenInv
  <2> QED BY <1>1, <1>2, <2>1, <2>2
<1>4. CASE Done(p) /\ watched # {} /\ p \notin seen
  <2>1. counts /\ crashed' = IF wg = 0 THEN "negative" ELSE "no"
    BY <1>4, <1>b DEF Done
  <2>2. Cardinality(seen') = Cardinality(seen) + 1
    BY <1>4, <2>1, OneMore DEF TypeOK
  <2>3. pc # "setup"
    BY <1>4 DEF CountInv
  <2>4. TypeOK'
    BY <1>a, <1>c, <1>d, <2>1, SMT DEF TypeOK
  <2>5. CountInv'
    BY <1>a, <1>b, <1>c, <1>f, <2>1, <2>2, <2>3, SMT DEF CountInv, CountExact, TypeOK
  <2>6. EndInv'
    BY <1>a, <1>b, <2>1, <2>3, SMT DEF EndInv, TypeOK
  <2>7. \/ experiment = "e2e" /\ p \in readied
        \/ experiment = "kubelet" /\ p \in Expected /\ (p \in readied \/ api[p] = "gone")
    BY <1>4, <1>e, <1>g, <2>1 DEF EventInv, Dismissed
  <2>8. SeenInv'
    BY <1>a, <1>c, <2>1, <2>7 DEF SeenInv
  <2> QED BY <1>1, <1>2, <2>4, <2>5, <2>6, <2>8
<1> QED BY <1>g, <1>3, <1>4

\* The cluster: every event it sends is true when it is sent and stays so.
LEMMA ClusterStep ==
  ASSUME IInv, NEW p \in Pods, PodStep(p)
  PROVE  IInv'
<1> USE DEF IInv
<1>1. PICK state \in {"pending", "ready", "gone"} :
        /\ Step(p, state) /\ Running /\ api[p] # "gone"
        /\ state = "pending" => readied' = readied
        /\ state = "ready" => readied' = readied \cup {p}
        /\ state = "gone" => readied' = readied
  <2>1. CASE Create(p)
    BY <2>1 DEF Create
  <2>2. CASE Ready(p)
    BY <2>2 DEF Ready
  <2>3. CASE Update(p)
    <3>1. p \in readied
      BY <2>3 DEF Update, PodInv
    <3> QED BY <2>3, <3>1 DEF Update
  <2>4. CASE Delete(p)
    BY <2>4 DEF Delete
  <2> QED BY <2>1, <2>2, <2>3, <2>4 DEF PodStep
<1>2. /\ api' = [api EXCEPT ![p] = state] /\ events' = [events EXCEPT ![p] = Append(@, state)]
      /\ UNCHANGED <<experiment, pc, wg, watched, seen, sample, applied, answered, nScaled, sets, connected, cancelled, crashed>>
  BY <1>1 DEF Step, monitorVars, requestVars, setupVars
<1>3. Expected' = Expected /\ Selected' = Selected /\ Requests' = Requests
  BY <1>2 DEF Expected, Selected, Requests
<1>4. readied \subseteq readied' /\ readied' \subseteq readied \cup {p} /\ (state = "ready" => p \in readied')
  BY <1>1
<1>5. TypeOK'
  <2>1. Append(events[p], state) \in Seq({"pending", "ready", "gone"})
    BY SMT DEF TypeOK
  <2>2. events' \in [Pods -> Seq({"pending", "ready", "gone"})]
    BY <1>2, <2>1 DEF TypeOK
  <2>3. api' \in [Pods -> {"none", "pending", "ready", "gone"}] /\ readied' \in SUBSET Pods
    BY <1>2, <1>4 DEF TypeOK
  <2> QED BY <1>2, <1>3, <2>2, <2>3 DEF TypeOK
<1>6. CountInv' /\ EndInv'
  BY <1>2, <1>3 DEF CountInv, CountExact, EndInv
<1>7. \A q \in Pods : api'[q] = IF q = p THEN state ELSE api[q]
  BY <1>2 DEF TypeOK
<1>8. PodInv'
  BY <1>2, <1>4, <1>7 DEF PodInv, TypeOK
<1>9. SeenInv'
  BY <1>1, <1>2, <1>3, <1>4, <1>7 DEF SeenInv, TypeOK
<1>10. EventInv'
  <2> SUFFICES ASSUME NEW q \in Pods, NEW i \in 1 .. Len(events'[q])
               PROVE  /\ events'[q][i] = "ready" => q \in readied'
                      /\ events'[q][i] = "gone" => api'[q] = "gone"
    BY DEF EventInv
  <2>1. CASE q # p
    <3>1. events'[q] = events[q]
      BY <1>2, <2>1 DEF TypeOK
    <3> QED BY <1>4, <1>7, <2>1, <3>1 DEF EventInv
  <2>2. CASE q = p
    <3>1. events'[q] = Append(events[p], state) /\ events[p] \in Seq({"pending", "ready", "gone"})
      BY <1>2, <2>2 DEF TypeOK
    <3>2. \/ i \in 1 .. Len(events[p]) /\ events'[q][i] = events[p][i]
          \/ events'[q][i] = state
      BY <3>1, SMT
    <3>3. CASE events'[q][i] = state
      BY <1>4, <1>7, <2>2, <3>3
    <3>4. CASE i \in 1 .. Len(events[p]) /\ events'[q][i] = events[p][i]
      BY <1>1, <1>4, <2>2, <3>4 DEF EventInv
    <3> QED BY <3>2, <3>3, <3>4
  <2> QED BY <2>1, <2>2
<1>11. CreatedInv'
  <2>1. api[p] # "none" \/ MayCreate(p)
    BY DEF PodStep, Create, Ready, Update, Delete
  <2>2. IF experiment = "e2e" THEN p[1] \in applied ELSE p \in Expected => p \in applied
    BY <2>1 DEF CreatedInv, MayCreate, TypeOK
  <2> QED BY <1>2, <1>3, <1>7, <2>2 DEF CreatedInv
<1> QED BY <1>5, <1>6, <1>8, <1>9, <1>10, <1>11

-----------------------------------------------------------------------------
\* The invariant is inductive.
THEOREM Invariance == Spec => []IInv
<1>1. Init => IInv
  BY InitInv
<1>2. IInv /\ [Next]_vars => IInv'
  <2> SUFFICES ASSUME IInv, [Next]_vars PROVE IInv'
    OBVIOUS
  <2>1. CASE Main
    BY <2>1, MainStep
  <2>2. CASE Environment
    BY <2>2, EnvironmentStep
  <2>3. CASE \E p \in Pods : HandlePodEvent(p) \/ PodStep(p)
    BY <2>3, HandleStep, ClusterStep
  <2>4. CASE UNCHANGED vars
    <3>1. UNCHANGED <<experiment, pc, wg, watched, seen, sample, applied, answered, nScaled, sets, connected, cancelled, crashed, podVars>>
      BY <2>4 DEF vars, monitorVars, requestVars, setupVars
    <3>2. Expected' = Expected /\ Selected' = Selected /\ Requests' = Requests
      BY <3>1 DEF Expected, Selected, Requests
    <3>3. PodInv' /\ EventInv' /\ SeenInv'
      BY <3>1, SamePods
    <3>4. TypeOK' /\ CountInv' /\ EndInv' /\ CreatedInv'
      BY <3>1, <3>2, SameCreated, ZenonT(30) DEF IInv, TypeOK, CountInv, CountExact, EndInv, podVars
    <3> QED BY <3>3, <3>4 DEF IInv
  <2> QED BY <2>1, <2>2, <2>3, <2>4 DEF Next, Environment
<1> QED BY <1>1, <1>2, PTL DEF Spec

\* Without a replacement only expected pods are recorded: SeenInv for the kubelet
\* driver, and for the e2e driver because no other pod exists.
LEMMA SeenExpected ==
  ASSUME IInv, ~Replaced
  PROVE  /\ seen \in SUBSET Expected
         /\ Cardinality(seen) \in Nat /\ Cardinality(seen) <= Cardinality(Expected)
         /\ Cardinality(seen) = Cardinality(Expected) => seen = Expected
<1>1. seen \in SUBSET Expected
  BY DEF IInv, SeenInv, PodInv, Replaced, TypeOK
<1> QED BY <1>1, ExpectedFinite, FS_Subset, CardNat DEF IInv, TypeOK

\* Type correctness: run starts its requests with every target watched.
THEOREM TypeCorrect == Spec => []TypeOK
<1>1. IInv => TypeOK
  BY DEF IInv
<1> QED BY <1>1, Invariance, PTL

\* The WaitGroup's counter is what Expectation.Done has left of it.
THEOREM Counted == Spec => []CountExact
<1>1. IInv => CountExact
  BY DEF IInv, CountInv
<1> QED BY <1>1, Invariance, PTL

\* The latency is taken from all expected pods, unless one was replaced.
THEOREM Complete == Spec => []CompleteAtEnd
<1>1. IInv => CompleteAtEnd
  <2> SUFFICES ASSUME IInv, pc \in {"since", "done"}, ~Replaced
               PROVE  /\ seen = Expected
                      /\ \A p \in Expected : p \in readied \/ (experiment = "kubelet" /\ api[p] = "gone")
                      /\ pc = "done" => sample = Cardinality(Expected)
    BY DEF CompleteAtEnd
  <2>1. wg <= 0 /\ wg = Cardinality(Expected) - Cardinality(seen)
    BY DEF IInv, EndInv, CountInv, CountExact
  <2>2. seen = Expected
    BY <2>1, SeenExpected, ExpectedNat, SMT
  <2>3. \A p \in Expected : p \in readied \/ (experiment = "kubelet" /\ api[p] = "gone")
    BY <2>2 DEF IInv, SeenInv
  <2>4. pc = "done" => sample = Cardinality(Expected)
    BY <2>2 DEF IInv, EndInv
  <2> QED BY <2>2, <2>3, <2>4
<1> QED BY <1>1, Invariance, PTL

\* WaitGroup.Done panics only after a deployment replaced a pod, and the kubelet
\* driver calls a nil client only when its context is done, before it expects a pod.
THEOREM Crashes == Spec => []CrashCauses
<1>1. IInv /\ crashed = "negative" => Replaced
  <2> SUFFICES ASSUME IInv, crashed = "negative", ~Replaced PROVE FALSE
    OBVIOUS
  <2>1. wg < 0 /\ wg = Cardinality(Expected) - Cardinality(seen)
    BY DEF IInv, EndInv, CountInv, CountExact
  <2> QED BY <2>1, SeenExpected, ExpectedNat, SMT
<1>2. IInv /\ crashed = "nil" => cancelled /\ watched = {} /\ wg = 0
  BY DEF IInv, EndInv
<1>3. IInv => CrashCauses
  BY <1>1, <1>2 DEF CrashCauses
<1> QED BY <1>3, Invariance, PTL

\* When the latency is taken every request has taken effect, whatever the printed count,
\* unless a pod was replaced.
THEOREM EveryRequest == Spec => []AllApplied
<1>1. IInv => AllApplied
  <2> SUFFICES ASSUME IInv, pc \in {"since", "done"}, ~Replaced
               PROVE  applied = Requests
    BY DEF AllApplied
  <2>1. seen = Expected
    <3>1. wg <= 0 /\ wg = Cardinality(Expected) - Cardinality(seen)
      BY DEF IInv, EndInv, CountInv, CountExact
    <3> QED BY <3>1, SeenExpected, ExpectedNat, SMT
  <2>2. \A p \in Expected : p \in Pods /\ api[p] # "none"
    BY <2>1 DEF IInv, TypeOK, SeenInv, PodInv
  <2>3. CASE experiment = "e2e"
    <3>1. \A t \in Targets : <<t, 1>> \in Expected
      BY <2>3, ShareNat, SMT DEF Expected
    <3>2. \A t \in Targets : <<t, 1>>[1] \in applied
      BY <2>2, <2>3, <3>1 DEF IInv, CreatedInv
    <3> QED BY <2>3, <3>2 DEF IInv, TypeOK, Requests
  <2>4. CASE experiment # "e2e"
    BY <2>2, <2>4 DEF IInv, TypeOK, CreatedInv, Requests
  <2> QED BY <2>3, <2>4
<1> QED BY <1>1, Invariance, PTL
=============================================================================
