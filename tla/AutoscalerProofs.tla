-------------------------- MODULE AutoscalerProofs --------------------------
(***************************************************************************)
(* Proofs about Autoscaler, for any rates, thresholds and bounds: what the *)
(* decider decides is enough for the stable window, for a scale from zero  *)
(* and for the panic under way.                                            *)
(***************************************************************************)
EXTENDS Autoscaler, WellFoundedInduction, TLAPS

\* Most steps need no arithmetic and go to Zenon; the others cite SMT.
USE Zenon

-----------------------------------------------------------------------------
\* The greatest element of a bounded set of numbers.
LEMMA MaxOfBounded ==
  ASSUME NEW S \in SUBSET Nat, S # {}, NEW b \in Nat, \A n \in S : n <= b
  PROVE  Max(S) \in S /\ \A n \in S : Max(S) >= n
<1> DEFINE D == {b - n : n \in S}
<1>1. D \in SUBSET Nat /\ D # {}
  <2>1. \A n \in S : b - n \in Nat
    BY SMT
  <2>2. D \subseteq Nat
    BY <2>1
  <2>3. \E n \in S : b - n \in D
    OBVIOUS
  <2> QED BY <2>2, <2>3
<1>2. PICK d \in D : \A e \in D : d <= e
  <2> DEFINE Less == OpToRel(<, Nat)
  <2>1. IsWellFoundedOn(Less, Nat)
    BY NatLessThanWellFounded
  <2> HIDE DEF D
  <2>2. PICK d \in D : \A e \in D : ~(<<e, d>> \in Less)
    BY <1>1, <2>1, WFMin
  <2>3. \A e \in D : e \in Nat /\ d \in Nat /\ ~(e < d)
    BY <1>1, <2>2 DEF OpToRel
  <2>4. \A e \in D : d <= e
    BY <2>3, SMT
  <2> QED BY <2>4
<1>3. PICK x \in S : d = b - x
  BY <1>2
<1>4. \A n \in S : x >= n
  <2> TAKE n \in S
  <2>1. b - n \in D
    OBVIOUS
  <2>2. b - x <= b - n
    BY <1>2, <1>3, <2>1
  <2>3. x \in Nat /\ n \in Nat
    OBVIOUS
  <2> QED BY <2>2, <2>3, SMT
<1> QED BY <1>3, <1>4 DEF Max

\* The bounds of a decision, and what lies between them.
LEMMA BoundsType ==
  ASSUME nReady \in Nat
  PROVE  /\ currentReady \in Nat \ {0}
         /\ upperbound \in Nat /\ lowerbound \in Nat
<1>1. currentReady \in Nat \ {0}
  BY SMT DEF currentReady, AtLeast
<1>2. maxScaleUpRate * currentReady \in Nat
  BY <1>1, AutoscalerAssumption, SMT
<1>3. currentReady \div maxScaleDownRate \in Nat
  BY <1>1, AutoscalerAssumption, SMT
<1> QED BY <1>1, <1>2, <1>3 DEF upperbound, lowerbound, AtLeast

LEMMA ClampType ==
  ASSUME nReady \in Nat, NEW n \in Nat
  PROVE  Clamp(n) \in Nat
BY BoundsType DEF Clamp, AtMost, AtLeast

\* From zero, with a request under way, any decision is at least one pod.
LEMMA ClampFromZero ==
  ASSUME nReady \in Nat, fromZero, NEW n \in Nat
  PROVE  Clamp(n) >= 1
<1>1. currentReady \in Nat \ {0}
  BY BoundsType
<1>2. maxScaleUpRate * currentReady \in Nat /\ currentReady \div maxScaleDownRate \in Nat
  BY <1>1, AutoscalerAssumption, SMT
<1>3. upperbound >= 1 /\ lowerbound >= 1
  BY <1>2, SMT DEF upperbound, lowerbound, AtLeast
<1> QED BY <1>3, BoundsType, SMT DEF Clamp, AtMost, AtLeast

-----------------------------------------------------------------------------
\* The inductive invariant: the delay window is bounded, so that it has a greatest
\* element, and the decision stored is at least the maximum of the panic under way.
IInv ==
  /\ TypeOK
  /\ \E b \in Nat : \A n \in delayWindow : n <= b
  /\ panicking => desiredScale >= maxPanicPods
  /\ ProvidesForStable

\* What Record stores is at least the count it is given.
LEMMA RecordGuards ==
  ASSUME TypeOK, \E b \in Nat : \A n \in delayWindow : n <= b, NEW count \in Nat, Record(count)
  PROVE  /\ desiredScale' \in Nat /\ desiredScale' >= count
         /\ delayWindow' \in SUBSET Nat
         /\ (\E b \in Nat : \A n \in delayWindow : n <= b)'
<1>1. PICK limit \in {0} \cup delayWindow :
        LET window == {count} \cup {n \in delayWindow : count < n /\ n <= limit} IN
        /\ desiredScale' = Max(window)
        /\ delayWindow' = IF hasDelayWindow THEN window ELSE {}
  BY DEF Record
<1> DEFINE window == {count} \cup {n \in delayWindow : count < n /\ n <= limit}
<1>2. window \in SUBSET Nat /\ window # {} /\ count \in window
  BY DEF TypeOK
<1>3. PICK b \in Nat : \A n \in delayWindow : n <= b
  OBVIOUS
<1>4. b + count \in Nat /\ \A n \in window : n <= b + count
  BY <1>2, <1>3, SMT
<1>5. Max(window) \in window /\ \A n \in window : Max(window) >= n
  BY <1>2, <1>4, MaxOfBounded
<1>6. desiredScale' = Max(window) /\ delayWindow' \subseteq window
  BY <1>1
<1> QED BY <1>2, <1>4, <1>5, <1>6


LEMMA InitIInv == Init => IInv
<1> SUFFICES ASSUME Init PROVE IInv
  OBVIOUS
<1>1. TypeOK
  BY DEF Init, TypeOK, Nothing
<1> QED BY <1>1 DEF Init, IInv, ProvidesForStable

\* Steps that leave the decider and the worker's decision alone keep the invariant.
LEMMA DecisionKept ==
  ASSUME IInv, TypeOK', UNCHANGED deciderVars, pc' # "decided" \/ UNCHANGED workerVars
  PROVE  IInv'
<1>1. (panicking => desiredScale >= maxPanicPods)' /\ (\E b \in Nat : \A n \in delayWindow : n <= b)'
  BY DEF IInv, deciderVars
<1>2. ProvidesForStable'
  BY DEF IInv, ProvidesForStable, deciderVars, workerVars, Clamp, upperbound, lowerbound, currentReady,
     fromZero
<1> QED BY <1>1, <1>2 DEF IInv

LEMMA ReconcileKeeps ==
  ASSUME IInv, Reconcile
  PROVE  IInv'
<1> DEFINE stable == Clamp(observed.stable)
           panic == Clamp(observed.panic)
           count == IF panicking' THEN maxPanicPods' ELSE stable
<1>1. stable \in Nat /\ panic \in Nat
  BY ClampType DEF IInv, TypeOK
<1>2. panicking' \in BOOLEAN
  BY DEF Reconcile
<1>3. maxPanicPods' = IF panicking' THEN AtLeast(AtLeast(stable, panic), maxPanicPods) ELSE 0
  BY DEF Reconcile
<1> HIDE DEF stable, panic
<1>4. /\ maxPanicPods' \in Nat /\ (~panicking' => maxPanicPods' = 0)
      /\ panicking' => maxPanicPods' >= stable
  BY <1>1, <1>2, <1>3, SMT DEF AtLeast, IInv, TypeOK
<1>5. count \in Nat /\ count >= stable /\ (panicking' => count = maxPanicPods')
  BY <1>1, <1>2, <1>4, SMT
<1>6. Record(count)
  BY DEF Reconcile, stable, panic
<1> HIDE DEF count
<1>7. /\ desiredScale' \in Nat /\ desiredScale' >= count
      /\ delayWindow' \in SUBSET Nat
      /\ (\E b \in Nat : \A n \in delayWindow : n <= b)'
  BY <1>5, <1>6, RecordGuards DEF IInv
<1>8. TypeOK'
  <2>1. UNCHANGED <<oneTimeVars, requestVars, queued, nReady, observed, clusterVars>> /\ pc' = "decided"
    BY DEF Reconcile
  <2> QED BY <1>2, <1>4, <1>7, <2>1 DEF IInv, TypeOK, oneTimeVars, requestVars, clusterVars
<1>9. (panicking => desiredScale >= maxPanicPods)'
  BY <1>4, <1>5, <1>7
<1>10. ProvidesForStable'
  <2>1. Clamp(observed.stable)' = stable
    BY DEF Reconcile, stable, Clamp, upperbound, lowerbound, currentReady, fromZero
  <2> QED BY <1>1, <1>5, <1>7, <2>1, SMT DEF ProvidesForStable
<1> QED BY <1>7, <1>8, <1>9, <1>10 DEF IInv


LEMMA NextIInv == IInv /\ [Next]_vars => IInv'
<1> SUFFICES ASSUME IInv, [Next]_vars PROVE IInv'
  OBVIOUS
<1> USE DEF oneTimeVars, requestVars, workerVars, clusterVars
<1>1. ASSUME OneTimeReqIn \/ OneTimeScale \/ OneTimeScaleFails
      PROVE  IInv'
  <2>1. UNCHANGED <<framework, reqIn, active, queued, workerVars, deciderVars, cached, ready>>
    BY <1>1 DEF OneTimeReqIn, OneTimeScale, OneTimeScaleFails
  <2>2. once' \in {"unseen", "scaling", "scaled", "failed"}
    BY <1>1 DEF OneTimeReqIn, OneTimeScale, OneTimeScaleFails, IInv, TypeOK
  <2>3. concurrency' \in Nat /\ replicas' \in Nat
    BY <1>1, AutoscalerAssumption, SMT DEF OneTimeReqIn, OneTimeScale, OneTimeScaleFails, ScaleTo, IInv, TypeOK
  <2>4. TypeOK'
    BY <2>1, <2>2, <2>3 DEF IInv, TypeOK, deciderVars
  <2> QED BY <2>1, <2>4, DecisionKept
<1>2. ASSUME ReqIn \/ ReqInDesired \/ ReqOut \/ tickAutoScaler
      PROVE  IInv'
  <2>1. UNCHANGED <<oneTimeVars, workerVars, deciderVars, clusterVars>>
    BY <1>2 DEF ReqIn, ReqInDesired, ReqOut, tickAutoScaler
  <2>2. concurrency' \in Nat
    BY <1>2, SMT DEF ReqIn, ReqInDesired, ReqOut, tickAutoScaler, IInv, TypeOK
  <2>3. reqIn' \in BOOLEAN /\ active' \in BOOLEAN
    BY <1>2, Zenon DEF ReqIn, ReqInDesired, ReqOut, tickAutoScaler, IInv, TypeOK
  <2>4. queued' \in BOOLEAN
    BY <1>2, Zenon DEF ReqIn, ReqInDesired, ReqOut, tickAutoScaler, IInv, TypeOK
  <2>5. TypeOK'
    BY <2>1, <2>2, <2>3, <2>4 DEF IInv, TypeOK, deciderVars
  <2> QED BY <2>1, <2>5, DecisionKept
<1>3. ASSUME scaleList \/ scaleFails \/ Scale
      PROVE  IInv'
  <2>1. UNCHANGED <<oneTimeVars, requestVars, deciderVars, cached, ready>> /\ pc' \in {"idle", "listed"}
    BY <1>3 DEF scaleList, scaleFails, Scale, Done
  <2>2. queued' \in BOOLEAN
    BY <1>3, Zenon DEF scaleList, scaleFails, Scale, IInv, TypeOK
  <2>3. nReady' \in Nat /\ replicas' \in Nat
    BY <1>3, SMT DEF scaleList, scaleFails, Scale, ScaleTo, Done, IInv, TypeOK
  <2>4. observed' \in [stable : Nat, panic : Nat, instant : Nat]
    BY <1>3, SMT DEF scaleList, scaleFails, Scale, Done, Nothing, IInv, TypeOK
  <2>5. TypeOK'
    BY <2>1, <2>2, <2>3, <2>4 DEF IInv, TypeOK, deciderVars
  <2> QED BY <2>1, <2>5, DecisionKept
<1>4. ASSUME observe
      PROVE  IInv'
  <2>1. PICK s \in 0 .. MaxPods, p \in 0 .. MaxPods :
          observed' = [stable |-> s, panic |-> p, instant |-> concurrency]
    BY <1>4 DEF observe
  <2>2. observed' \in [stable : Nat, panic : Nat, instant : Nat]
    BY <2>1, AutoscalerAssumption, SMT DEF IInv, TypeOK
  <2>3. UNCHANGED <<oneTimeVars, requestVars, queued, nReady, deciderVars, clusterVars>>
        /\ pc' = "observed"
    BY <1>4 DEF observe
  <2>4. TypeOK'
    BY <2>2, <2>3 DEF IInv, TypeOK, deciderVars
  <2> QED BY <2>3, <2>4, DecisionKept
<1>5. ASSUME Informer \/ PodReady \/ PodSurplus \/ PodFails
      PROVE  IInv'
  <2>1. UNCHANGED <<oneTimeVars, requestVars, queued, workerVars, deciderVars, replicas>>
    BY <1>5 DEF Informer, PodReady, PodSurplus, PodFails
  <2>2. cached' \in Nat /\ ready' \in Nat
    BY <1>5, SMT DEF Informer, PodReady, PodSurplus, PodFails, IInv, TypeOK
  <2>3. TypeOK'
    BY <2>1, <2>2 DEF IInv, TypeOK, deciderVars
  <2> QED BY <2>1, <2>3, DecisionKept
<1>6. CASE UNCHANGED vars
  <2>1. TypeOK'
    BY <1>6 DEF vars, deciderVars, IInv, TypeOK
  <2> QED BY <1>6, <2>1, DecisionKept DEF vars
<1> QED BY <1>1, <1>2, <1>3, <1>4, <1>5, <1>6, ReconcileKeeps DEF Next

LEMMA Invariance == Spec => []IInv
BY InitIInv, NextIInv, PTL DEF Spec

-----------------------------------------------------------------------------
\* Every variable has its type; a panic maximum is remembered only during the panic.
THEOREM TypeCorrect == Spec => []TypeOK
<1>1. IInv => TypeOK
  BY DEF IInv
<1> QED BY <1>1, Invariance, PTL

\* What Reconcile decides is never less than the stable window asks for within the
\* rate limits, whatever the delay window holds and in either mode.
THEOREM StableProvided == Spec => []ProvidesForStable
<1>1. IInv => ProvidesForStable
  BY DEF IInv
<1> QED BY <1>1, Invariance, PTL

\* A deployment without ready pods and with a request under way gets at least one.
THEOREM FromZero == Spec => []AtLeastOneFromZero
<1>1. ASSUME IInv
      PROVE  AtLeastOneFromZero
  <2> SUFFICES ASSUME pc = "decided", fromZero
               PROVE  desiredScale >= 1
    BY DEF AtLeastOneFromZero
  <2>1. nReady \in Nat /\ observed.stable \in Nat /\ desiredScale \in Nat
    BY <1>1 DEF IInv, TypeOK
  <2>2. Clamp(observed.stable) >= 1 /\ Clamp(observed.stable) \in Nat
    BY <2>1, ClampFromZero, ClampType
  <2>3. desiredScale >= Clamp(observed.stable)
    BY <1>1 DEF IInv, ProvidesForStable
  <2> QED BY <2>1, <2>2, <2>3, SMT
<1> QED BY <1>1, Invariance, PTL

\* During a panic no decision is below the panic's maximum so far.
THEOREM PanicKept == Spec => PanicFloor
<1>1. ASSUME IInv, IInv', [Next]_vars
      PROVE  [panicking /\ panicking' => desiredScale' >= maxPanicPods]_vars
  <2> SUFFICES ASSUME panicking, panicking', Next
               PROVE  desiredScale' >= maxPanicPods
    BY <1>1
  <2>1. desiredScale' >= maxPanicPods'
    BY <1>1 DEF IInv
  <2>2. maxPanicPods' >= maxPanicPods
    <3>1. CASE Reconcile
      <4>1. Clamp(observed.stable) \in Nat /\ Clamp(observed.panic) \in Nat /\ maxPanicPods \in Nat
        BY <1>1, ClampType DEF IInv, TypeOK
      <4> QED BY <3>1, <4>1, SMT DEF Reconcile, AtLeast
    <3>2. CASE ~Reconcile
      <4>1. maxPanicPods' = maxPanicPods
        BY <3>2 DEF Next, OneTimeReqIn, OneTimeScale, OneTimeScaleFails, ReqIn, ReqInDesired, ReqOut,
           tickAutoScaler, scaleList, observe, Scale, scaleFails, Informer, PodReady, PodSurplus, PodFails,
           deciderVars
      <4> QED BY <1>1, <4>1, SMT DEF IInv, TypeOK
    <3> QED BY <3>1, <3>2
  <2> QED BY <1>1, <2>1, <2>2, SMT DEF IInv, TypeOK
<1> QED BY <1>1, Invariance, PTL DEF Spec, PanicFloor
====
