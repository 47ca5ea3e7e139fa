-------------------------- MODULE PodHistoryProofs --------------------------
(***************************************************************************)
(* What the custom kubelet remembers of a pod, against the history of the  *)
(* API objects of that name: its timer, the version its worker has read    *)
(* and the entry of the in-mem cache.                                      *)
(***************************************************************************)
EXTENDS CustomKubeletProofs

\* Most steps need no arithmetic and go to Zenon; the others cite SMT.
USE Zenon

-----------------------------------------------------------------------------
\* What a step for pod p leaves alone of the other pods, besides PodStepFrame.
LEMMA SyncFrame ==
  ASSUME TypeOK, NEW p \in Pods, PodStep(p)
  PROVE  /\ template' = template
         /\ \A q \in Pods \ {p} :
              /\ rv'[q] = rv[q] /\ since'[q] = since[q]
              /\ seen'[q] = seen[q] /\ handled'[q] = handled[q]
              /\ (q \in dirty => q \in dirty') /\ (q \in delayed => q \in delayed')
<1> USE DEF queueVars, syncVars, rpcVars, envVars, apiVars
<1>1. /\ rv' = rv \/ \E x : rv' = [rv EXCEPT ![p] = x]
      /\ since' = since \/ \E x : since' = [since EXCEPT ![p] = x]
  BY DEF PodStep, SyncDone, SyncContinue, CreatePlain, RequestDelete, ForceDelete, Fail, Informer, TimerElapses,
     DelayedAdd, handlePodEvent, handlePodEventFlush, SyncPodGet, SyncPodInMem, SyncPodTimer,
     SyncPodMark, refStatus, SyncPodDelete, SyncPodError, SyncPodMarkLost, SyncPodDeleteLost,
     ExposeManagedPod, ExposeManagedPodLost
<1>2. /\ seen' = seen \/ \E x : seen' = [seen EXCEPT ![p] = x]
      /\ handled' = handled \/ \E x : handled' = [handled EXCEPT ![p] = x]
      /\ template' = template
  BY DEF PodStep, CreatePlain, RequestDelete, ForceDelete, Fail, Informer, TimerElapses,
     DelayedAdd, handlePodEvent, handlePodEventFlush, SyncPodGet, SyncPodInMem, SyncPodTimer,
     SyncPodMark, refStatus, SyncPodDelete, SyncPodError, SyncPodMarkLost, SyncPodDeleteLost,
     ExposeManagedPod, ExposeManagedPodLost
<1>3. dirty \ {p} \subseteq dirty' /\ delayed \ {p} \subseteq delayed'
  BY DEF PodStep, SyncDone, SyncContinue, CreatePlain, RequestDelete, ForceDelete, Fail, Informer, TimerElapses,
     DelayedAdd, handlePodEvent, handlePodEventFlush, SyncPodGet, SyncPodInMem, SyncPodTimer,
     SyncPodMark, refStatus, SyncPodDelete, SyncPodError, SyncPodMarkLost, SyncPodDeleteLost,
     ExposeManagedPod, ExposeManagedPodLost
<1> QED BY <1>1, <1>2, <1>3 DEF TypeOK, LogType, SyncType

\* The steps that are not for a pod leave the pods' histories and the workers alone.
LEMMA OtherFrame ==
  ASSUME [Next]_vars, ~\E p \in Pods : PodStep(p)
  PROVE  UNCHANGED <<log, seen, handled, flushing, readyTimers, delayed, pc, rv, since, exposing>>
<1> USE DEF queueVars, syncVars, rpcVars, envVars, apiVars
<1>1. CASE \E n \in Nodes : NodeStep(n)
  BY <1>1 DEF NodeStep, NodeListed, AddrListed, NodeDeleted, HandshakeClient, HandshakeLock
<1>2. CASE \E c \in Calls : CallStep(c)
  BY <1>2 DEF CallStep, SendBindPod, BindPodRLock, BindPodInsert, BindPodEnqueue
<1>3. CASE TemplateListed \/ TemplateDeleted \/ UNCHANGED vars
  BY <1>3 DEF TemplateListed, TemplateDeleted, vars
<1> QED BY <1>1, <1>2, <1>3 DEF Next

\* The versions that follow one another in the history of a name.  Only the worker's
\* forced delete writes a removal by the kubelet, and takes the timer along if it is
\* answered.
Follows(p, v) ==
  \/ v.uid = api(p).uid + 1 /\ v.st = "pending" /\ ~v.del /\ api(p).st = "none"
  \/ /\ v.uid = api(p).uid /\ v.st # "none" /\ api(p).st # "none" /\ (api(p).del => v.del)
     /\ v.del => api(p).del \/ api(p).uid <= MaxUid
  \/ /\ v.uid = api(p).uid /\ v.st = "none" /\ ~v.del /\ api(p).st # "none"
     /\ v.by # "env" => pc[p] = "delete"
     /\ v.by = "kubelet" => pc'[p] = "idle" /\ readyTimers'[p] = NoTimer

LEMMA Written ==
  ASSUME TypeOK, ReadPending, NEW p \in Pods, PodStep(p)
  PROVE  log' = log \/ \E v \in Version : Write(p, v) /\ Follows(p, v)
<1> USE DEF queueVars, syncVars, rpcVars, envVars, apiVars
<1>1. api(p) \in Version
  BY VersionsHeld DEF TypeOK
<1>2. CASE CreatePlain(p)
  <2>1. Write(p, Created(p, "env")) /\ Follows(p, Created(p, "env"))
    BY <1>2 DEF CreatePlain, Created, Follows
  <2> QED BY <2>1, WrittenVersions DEF TypeOK
<1>3. CASE RequestDelete(p)
  <2>1. CASE api(p).st = "failed"
    <3>1. Write(p, Removed(p, "env")) /\ Follows(p, Removed(p, "env"))
      BY <1>3, <2>1 DEF RequestDelete, Removed, Follows
    <3> QED BY <3>1, WrittenVersions DEF TypeOK
  <2>2. CASE api(p).st # "failed"
    <3> DEFINE v == [api(p) EXCEPT !.del = TRUE, !.by = "env"]
    <3>1. v.uid = api(p).uid /\ v.st = api(p).st /\ v.del
      BY <1>1 DEF Version
    <3>2. Write(p, v) /\ Follows(p, v)
      BY <1>3, <2>2, <3>1 DEF RequestDelete, Follows
    <3> QED BY <3>2, WrittenVersions DEF TypeOK
  <2> QED BY <2>1, <2>2
<1>4. CASE ForceDelete(p)
  <2>1. Write(p, Removed(p, "env")) /\ Follows(p, Removed(p, "env"))
    BY <1>4 DEF ForceDelete, Removed, Follows
  <2> QED BY <2>1, WrittenVersions DEF TypeOK
<1>5. CASE Fail(p)
  <2> DEFINE v == [api(p) EXCEPT !.st = "failed", !.by = "env"]
  <2>1. v.uid = api(p).uid /\ v.st = "failed" /\ v.del = api(p).del
    BY <1>1 DEF Version
  <2>2. Write(p, v) /\ Follows(p, v)
    BY <1>5, <2>1 DEF Fail, Follows
  <2> QED BY <2>2, WrittenVersions DEF TypeOK
<1>6. CASE SyncPodMark(p) \/ SyncPodMarkLost(p)
  <2>1. CASE log' = log
    BY <2>1
  <2>2. CASE log' # log
    <3>0. PICK who \in {"kubelet", "lost"} :
            /\ pc[p] = "mark" /\ Accepts(p)
            /\ Write(p, [api(p) EXCEPT !.st = "ready", !.by = who])
      BY <1>6, <2>2 DEF SyncPodMark, SyncPodMarkLost, refStatus
    <3> DEFINE v == [api(p) EXCEPT !.st = "ready", !.by = who]
    <3>1. Accepts(p) /\ Write(p, v)
      BY <3>0
    <3>2. api(p).st # "none"
      BY <3>0 DEF Accepts, ReadPending, api
    <3>3. v.uid = api(p).uid /\ v.st = "ready" /\ v.del = api(p).del
      BY <1>1 DEF Version
    <3>4. Follows(p, v)
      BY <3>2, <3>3 DEF Follows
    <3> QED BY <3>1, <3>4, WrittenVersions DEF TypeOK
  <2> QED BY <2>1, <2>2
<1>7. CASE SyncPodDelete(p)
  <2>1. CASE api(p).st # "none"
    <3>1. /\ Write(p, Removed(p, "kubelet")) /\ pc[p] = "delete" /\ pc'[p] = "idle"
          /\ readyTimers'[p] = NoTimer
      BY <1>7, <2>1 DEF SyncPodDelete, SyncDone, TypeOK, SyncType, CacheType
    <3>2. Follows(p, Removed(p, "kubelet"))
      BY <2>1, <3>1 DEF Removed, Follows
    <3> QED BY <3>1, <3>2, WrittenVersions DEF TypeOK
  <2> QED BY <1>7, <2>1 DEF SyncPodDelete
<1>8. CASE ExposeManagedPod(p)
  <2>1. CASE api(p).st = "none" /\ NodeOf[p] \in clientPool
    <3>1. Write(p, Created(p, "kubelet")) /\ Follows(p, Created(p, "kubelet"))
      BY <1>8, <2>1 DEF ExposeManagedPod, Created, Follows
    <3> QED BY <3>1, WrittenVersions DEF TypeOK
  <2> QED BY <1>8, <2>1 DEF ExposeManagedPod
<1>9. CASE \/ Informer(p) \/ TimerElapses(p) \/ DelayedAdd(p) \/ handlePodEvent(p) \/ handlePodEventFlush(p)
           \/ SyncPodGet(p) \/ SyncPodInMem(p) \/ SyncPodTimer(p) \/ SyncPodError(p)
  BY <1>9 DEF Informer, TimerElapses, DelayedAdd, handlePodEvent, handlePodEventFlush, SyncPodGet,
     SyncPodInMem, SyncPodTimer, SyncPodError
<1>10. CASE SyncPodDeleteLost(p)
  <2>1. Write(p, Removed(p, "lost")) /\ Follows(p, Removed(p, "lost"))
    BY <1>10 DEF SyncPodDeleteLost, Removed, Follows
  <2> QED BY <2>1, WrittenVersions DEF TypeOK
<1>11. CASE ExposeManagedPodLost(p)
  <2>1. Write(p, Created(p, "lost")) /\ Follows(p, Created(p, "lost"))
    BY <1>11 DEF ExposeManagedPodLost, Created, Follows
  <2> QED BY <2>1, WrittenVersions DEF TypeOK
<1> QED BY <1>2, <1>3, <1>4, <1>5, <1>6, <1>7, <1>8, <1>9, <1>10, <1>11 DEF PodStep

-----------------------------------------------------------------------------
\* Incarnations and timers.

\* A uid changes only after a removal, objects have uids, and the uid of the current
\* version came with some version.
UidOf(p) ==
  /\ log[p][1] = NoPod
  /\ \A i \in 2 .. Len(log[p]) : log[p][i].uid # log[p][i - 1].uid => log[p][i - 1].st = "none"
  /\ \A i \in 1 .. Len(log[p]) : log[p][i].st # "none" => log[p][i].uid # 0
  /\ api(p).uid # 0 =>
       \E i \in 2 .. Len(log[p]) : log[p][i].uid = api(p).uid /\ log[p][i - 1].uid # api(p).uid

UidInv == \A p \in Pods : UidOf(p)

\* The timer of p, and the one its worker has seen elapse, are younger than every
\* removal of p by a worker that was answered.
TimerOf(p) ==
  \A i \in 1 .. Len(log[p]) : log[p][i].st = "none" /\ log[p][i].by = "kubelet" =>
    /\ readyTimers[p].st # "none" => readyTimers[p].at >= i
    /\ pc[p] = "mark" => since[p] >= i

TimerInv == \A p \in Pods : TimerOf(p)

\* A write, index by index.
LEMMA WriteIndices ==
  ASSUME TypeOK, NEW p \in Pods, NEW v \in Version, Write(p, v)
  PROVE  /\ Len(log[p]) \in Nat \ {0} /\ Len(log'[p]) = Len(log[p]) + 1 /\ api(p)' = v
         /\ log'[p][Len(log[p]) + 1] = v /\ log'[p][Len(log[p])] = api(p)
         /\ \A i \in 1 .. Len(log[p]) : log'[p][i] = log[p][i]
         /\ \A i \in 1 .. Len(log'[p]) : i \in 1 .. Len(log[p]) \/ i = Len(log[p]) + 1
<1>1. Len(log[p]) \in Nat \ {0}
  BY VersionsHeld, SMT DEF TypeOK
<1>2. /\ Len(log'[p]) = Len(log[p]) + 1 /\ log'[p][Len(log[p]) + 1] = v
      /\ \A i \in 1 .. Len(log[p]) : log'[p][i] = log[p][i]
  BY WriteLog DEF TypeOK
<1>3. api(p)' = v
  BY <1>2 DEF api
<1>4. log'[p][Len(log[p])] = api(p)
  BY <1>1, <1>2, SMT DEF api
<1>5. \A i \in 1 .. Len(log'[p]) : i \in 1 .. Len(log[p]) \/ i = Len(log[p]) + 1
  BY <1>1, <1>2, SMT
<1> QED BY <1>1, <1>2, <1>3, <1>4, <1>5

LEMMA UidStep ==
  ASSUME TypeOK, ReadPending, UidInv, [Next]_vars
  PROVE  UidInv'
<1>1. CASE log' = log
  BY <1>1 DEF UidInv, UidOf, api
<1>2. ASSUME NEW p \in Pods, NEW v \in Version, Write(p, v), Follows(p, v)
      PROVE  UidInv'
  <2> DEFINE n == Len(log[p])
  <2>1. \A q \in Pods \ {p} : log'[q] = log[q]
    BY <1>2, WriteLog DEF TypeOK
  <2>2. /\ n \in Nat \ {0} /\ Len(log'[p]) = n + 1 /\ api(p)' = v
        /\ log'[p][n + 1] = v /\ log'[p][n] = api(p)
        /\ \A i \in 1 .. n : log'[p][i] = log[p][i]
        /\ \A i \in 1 .. Len(log'[p]) : i \in 1 .. n \/ i = n + 1
    BY <1>2, WriteIndices
  <2>3. api(p).uid \in Nat /\ v.uid \in Nat
    BY <1>2, VersionsHeld DEF TypeOK, Version
  <2> HIDE DEF n
  <2>4. log'[p][1] = NoPod
    BY <2>2, SMT DEF UidInv, UidOf
  <2>5. ASSUME NEW i \in 2 .. Len(log'[p]), log'[p][i].uid # log'[p][i - 1].uid
        PROVE  log'[p][i - 1].st = "none"
    <3>1. CASE i = n + 1
      <4>1. log'[p][i - 1] = api(p) /\ log'[p][i] = v
        BY <2>2, <3>1, SMT
      <4> QED BY <1>2, <2>5, <4>1 DEF Follows
    <3>2. CASE i # n + 1
      <4>1. i \in 1 .. n /\ i - 1 \in 1 .. n /\ i \in 2 .. n
        BY <2>2, <3>2, SMT
      <4> QED BY <2>2, <2>5, <4>1 DEF UidInv, UidOf, n
    <3> QED BY <3>1, <3>2
  <2>6. ASSUME NEW i \in 1 .. Len(log'[p]), log'[p][i].st # "none"
        PROVE  log'[p][i].uid # 0
    <3>1. CASE i = n + 1
      <4>1. api(p).st # "none" => api(p).uid # 0
        BY <2>2, SMT DEF UidInv, UidOf, api, n
      <4> QED BY <1>2, <2>2, <2>3, <2>6, <3>1, <4>1, SMT DEF Follows
    <3>2. CASE i # n + 1
      BY <2>2, <2>6, <3>2 DEF UidInv, UidOf, n
    <3> QED BY <3>1, <3>2
  <2>7. ASSUME v.uid # 0
        PROVE  \E i \in 2 .. Len(log'[p]) : log'[p][i].uid = v.uid /\ log'[p][i - 1].uid # v.uid
    <3>1. CASE v.uid = api(p).uid
      <4>1. PICK i \in 2 .. n : log[p][i].uid = v.uid /\ log[p][i - 1].uid # v.uid
        BY <2>7, <3>1 DEF UidInv, UidOf, n
      <4>2. i \in 1 .. n /\ i - 1 \in 1 .. n /\ i \in 2 .. Len(log'[p])
        BY <2>2, SMT
      <4> QED BY <2>2, <4>1, <4>2
    <3>2. CASE v.uid # api(p).uid
      <4>1. n + 1 \in 2 .. Len(log'[p]) /\ (n + 1) - 1 = n
        BY <2>2, SMT
      <4> QED BY <2>2, <3>2, <4>1
    <3> QED BY <3>1, <3>2
  <2>8. \A q \in Pods \ {p} : api(q)' = api(q)
    BY <2>1 DEF api
  <2>9. UidOf(p)'
    BY <2>2, <2>4, <2>5, <2>6, <2>7 DEF UidOf
  <2>10. ASSUME NEW q \in Pods \ {p}
         PROVE  UidOf(q)'
    <3>1. UidOf(q) /\ log'[q] = log[q] /\ api(q)' = api(q)
      BY <2>1, <2>8 DEF UidInv
    <3> QED BY <3>1 DEF UidOf
  <2> QED BY <2>9, <2>10 DEF UidInv
<1>3. CASE \E p \in Pods : PodStep(p)
  BY <1>1, <1>2, <1>3, Written
<1> QED BY <1>1, <1>3, OtherFrame

\* The step of a worker, of the handler or of the clock for p.
LEMMA TimerStepOf ==
  ASSUME TypeOK, ReadPending, NEW p \in Pods, TimerOf(p), PodStep(p)
  PROVE  TimerOf(p)'
<1> USE DEF queueVars, syncVars, rpcVars, envVars, apiVars
<1>1. Len(log[p]) \in Nat \ {0} /\ readyTimers[p].at \in Nat
  BY VersionsHeld, SMT DEF TypeOK, CacheType
<1>2. CASE SyncPodDelete(p)
  <2>1. pc'[p] = "idle" /\ readyTimers'[p].st = "none"
    BY <1>2 DEF SyncPodDelete, SyncDone, NoTimer, TypeOK, SyncType, CacheType
  <2> QED BY <2>1 DEF TimerOf
<1>3. CASE \/ CreatePlain(p) \/ RequestDelete(p) \/ ForceDelete(p) \/ Fail(p) \/ SyncPodMark(p)
           \/ SyncPodMarkLost(p) \/ SyncPodDeleteLost(p) \/ ExposeManagedPod(p) \/ ExposeManagedPodLost(p)
  <2>1. readyTimers' = readyTimers /\ (pc'[p] = "mark" => pc[p] = "mark" /\ since'[p] = since[p])
    BY <1>3 DEF CreatePlain, RequestDelete, ForceDelete, Fail, SyncPodMark, SyncPodMarkLost,
       SyncPodDeleteLost, ExposeManagedPod, ExposeManagedPodLost, SyncDone, TypeOK, SyncType
  <2>2. CASE log' = log
    BY <2>1, <2>2 DEF TimerOf
  <2>3. ASSUME NEW v \in Version, Write(p, v), Follows(p, v)
        PROVE  TimerOf(p)'
    <3>1. /\ log'[p][Len(log[p]) + 1] = v
          /\ \A i \in 1 .. Len(log[p]) : log'[p][i] = log[p][i]
          /\ \A i \in 1 .. Len(log'[p]) : i \in 1 .. Len(log[p]) \/ i = Len(log[p]) + 1
      BY <2>3, WriteIndices
    <3>2. CASE v.st = "none" /\ v.by = "kubelet"
      <4>1. pc'[p] = "idle" /\ readyTimers'[p] = NoTimer
        BY <2>3, <3>2 DEF Follows
      <4>2. readyTimers'[p].st = "none"
        BY <4>1, SMT DEF NoTimer
      <4> QED BY <4>1, <4>2 DEF TimerOf
    <3>3. CASE ~(v.st = "none" /\ v.by = "kubelet")
      BY <2>1, <3>1, <3>3 DEF TimerOf
    <3> QED BY <3>2, <3>3
  <2> QED BY <1>3, <2>2, <2>3, Written DEF PodStep
<1>4. CASE Informer(p) \/ DelayedAdd(p) \/ handlePodEvent(p) \/ handlePodEventFlush(p)
  <2>1. UNCHANGED <<log, pc, since>> /\ (readyTimers' = readyTimers \/ readyTimers'[p] = NoTimer)
    BY <1>4 DEF Informer, DelayedAdd, handlePodEvent, handlePodEventFlush, TypeOK, CacheType
  <2> QED BY <2>1, SMT DEF TimerOf, NoTimer
<1>5. CASE TimerElapses(p)
  <2>1. UNCHANGED <<log, pc, since>> /\ readyTimers'[p].at = readyTimers[p].at /\ readyTimers[p].st # "none"
    BY <1>5 DEF TimerElapses, TypeOK, CacheType
  <2> QED BY <2>1 DEF TimerOf
<1>6. CASE SyncPodGet(p) \/ SyncPodInMem(p) \/ SyncPodError(p)
  <2>1. log' = log /\ pc'[p] # "mark" /\ (readyTimers' = readyTimers \/ readyTimers'[p] = NoTimer)
    BY <1>6 DEF SyncPodGet, SyncPodInMem, SyncPodError, SyncDone, SyncContinue, TypeOK, SyncType, CacheType
  <2> QED BY <2>1, SMT DEF TimerOf, NoTimer
<1>7. CASE SyncPodTimer(p)
  <2>1. log' = log /\ (pc'[p] = "mark" => since'[p] = readyTimers'[p].at /\ readyTimers'[p].st # "none")
    BY <1>7 DEF SyncPodTimer, SyncDone, SyncContinue, TypeOK, SyncType, CacheType
  <2>2. IF readyTimers[p].st = "none" THEN readyTimers'[p].at = Len(log[p]) ELSE readyTimers'[p] = readyTimers[p]
    BY <1>7 DEF SyncPodTimer, TypeOK, CacheType
  <2> QED BY <1>1, <2>1, <2>2, SMT DEF TimerOf
<1> QED BY <1>2, <1>3, <1>4, <1>5, <1>6, <1>7 DEF PodStep

LEMMA TimerStep ==
  ASSUME TypeOK, ReadPending, TimerInv, [Next]_vars
  PROVE  TimerInv'
<1>1. ASSUME NEW p \in Pods, PodStep(p)
      PROVE  TimerInv'
  <2>1. TimerOf(p)'
    BY <1>1, TimerStepOf DEF TimerInv
  <2>2. ASSUME NEW q \in Pods \ {p}
        PROVE  TimerOf(q)'
    <3>1. /\ log'[q] = log[q] /\ readyTimers'[q] = readyTimers[q] /\ pc'[q] = pc[q]
          /\ since'[q] = since[q]
      BY <1>1, PodStepFrame, SyncFrame
    <3>2. TimerOf(q)
      BY DEF TimerInv
    <3> QED BY <3>1, <3>2 DEF TimerOf
  <2> QED BY <2>1, <2>2 DEF TimerInv
<1>2. CASE ~\E p \in Pods : PodStep(p)
  <2>1. UNCHANGED <<log, readyTimers, pc, since>>
    BY <1>2, OtherFrame
  <2> QED BY <2>1 DEF TimerInv, TimerOf
<1> QED BY <1>1, <1>2

LEMMA ReadPendingAlways == Spec => []ReadPending
<1>1. Init => ReadPending
  BY DEF Init, ReadPending
<1>2. TypeOK /\ ReadPending /\ [Next]_vars => ReadPending'
  BY ReadPendingStep
<1> QED BY TypeCorrect, <1>1, <1>2, PTL DEF Spec

LEMMA UidAlways == Spec => []UidInv
<1>1. Init => UidInv
  BY SMT DEF Init, UidInv, UidOf, api, NoPod
<1>2. TypeOK /\ ReadPending /\ UidInv /\ [Next]_vars => UidInv'
  BY UidStep
<1> QED BY TypeCorrect, ReadPendingAlways, <1>1, <1>2, PTL DEF Spec

\* A pod that follows one whose removal SyncPod saw succeed is reported ready only after a
\* delay of its own, however often objects of its name come and go, whoever removes them
\* and whichever other requests take effect and return an error: the answered delete takes
\* the timer along, and the worker that marks a pod holds on to the timer's start.
THEOREM DelayOfItsOwn == Spec => []ReadyAfterDelay
<1>1. Init => TimerInv
  BY SMT DEF Init, TimerInv, TimerOf, NoTimer
<1>2. TypeOK /\ ReadPending /\ TimerInv /\ [Next]_vars => TimerInv'
  BY TimerStep
<1>3. ASSUME TypeOK, ReadPending, UidInv, TimerInv
      PROVE  ReadyAfterDelay
  <2> SUFFICES ASSUME NEW p \in Pods, pc[p] = "mark", Accepts(p), log[p][Born(p) - 1].by = "kubelet"
               PROVE  since[p] >= Born(p) - 1
    BY DEF ReadyAfterDelay
  <2>1. UidOf(p) /\ TimerOf(p)
    BY <1>3 DEF UidInv, TimerInv
  <2>2. Len(log[p]) \in Nat \ {0}
    BY <1>3, VersionsHeld, SMT DEF TypeOK
  <2>3. api(p).st # "none"
    BY <1>3 DEF Accepts, ReadPending, api
  <2>4. api(p).uid # 0
    BY <2>1, <2>2, <2>3, SMT DEF UidOf, api
  <2>5. Born(p) \in 2 .. Len(log[p]) /\ log[p][Born(p)].uid = api(p).uid /\ log[p][Born(p) - 1].uid # api(p).uid
    BY <2>1, <2>4 DEF UidOf, Born
  <2>6. log[p][Born(p) - 1].st = "none"
    BY <2>1, <2>5 DEF UidOf
  <2>7. Born(p) - 1 \in 1 .. Len(log[p])
    BY <2>2, <2>5, SMT
  <2> QED BY <2>1, <2>6, <2>7 DEF TimerOf
<1> QED BY TypeCorrect, ReadPendingAlways, UidAlways, <1>1, <1>2, <1>3, PTL DEF Spec

-----------------------------------------------------------------------------
\* Forced deletes, however pods are removed and created again.

\* SyncPod removes an object only if the deletion of this object or of an earlier one
\* of its name was requested.
RemovalRequested ==
  \A p \in Pods : \A i \in 2 .. Len(log[p]) :
    log[p][i].st = "none" /\ log[p][i].by # "env" =>
      \E j \in 1 .. i - 1 : log[p][j].del /\ log[p][j].uid <= log[p][i].uid

\* The worker that is about to delete has read a request for it.
DeleteRead ==
  \A p \in Pods : pc[p] = "delete" => rv[p] \in 1 .. Len(log[p]) /\ log[p][rv[p]].del

\* The uids of a name's objects grow.
UidsGrow == \A p \in Pods : \A i \in 1 .. Len(log[p]) : log[p][i].uid <= api(p).uid

LEMMA UidsGrowStep ==
  ASSUME TypeOK, ReadPending, UidsGrow, [Next]_vars
  PROVE  UidsGrow'
<1>1. CASE log' = log
  BY <1>1 DEF UidsGrow, api
<1>2. ASSUME NEW p \in Pods, NEW v \in Version, Write(p, v), Follows(p, v)
      PROVE  UidsGrow'
  <2>1. \A q \in Pods \ {p} : log'[q] = log[q]
    BY <1>2, WriteLog DEF TypeOK
  <2>2. /\ api(p)' = v /\ log'[p][Len(log[p]) + 1] = v
        /\ \A i \in 1 .. Len(log[p]) : log'[p][i] = log[p][i]
        /\ \A i \in 1 .. Len(log'[p]) : i \in 1 .. Len(log[p]) \/ i = Len(log[p]) + 1
    BY <1>2, WriteIndices
  <2>3. v.uid \in Nat /\ api(p).uid \in Nat /\ api(p).uid <= v.uid
    BY <1>2, VersionsHeld, SMT DEF Follows, Version, TypeOK
  <2>4. ASSUME NEW i \in 1 .. Len(log'[p])
        PROVE  log'[p][i].uid <= v.uid
    <3>1. CASE i = Len(log[p]) + 1
      BY <2>2, <2>3, <3>1, SMT
    <3>2. CASE i \in 1 .. Len(log[p])
      <4>1. log[p] \in Seq(Version)
        BY DEF TypeOK, LogType
      <4>2. log[p][i] \in Version
        BY <3>2, <4>1, SMT
      <4>3. log[p][i].uid \in Nat
        BY <4>2 DEF Version
      <4> QED BY <2>2, <2>3, <3>2, <4>3, SMTT(20) DEF UidsGrow
    <3> QED BY <2>2, <3>1, <3>2
  <2> QED BY <2>1, <2>2, <2>4 DEF UidsGrow, api
<1>3. CASE \E p \in Pods : PodStep(p)
  BY <1>1, <1>2, <1>3, Written
<1> QED BY <1>1, <1>3, OtherFrame

LEMMA DeleteReadStep ==
  ASSUME TypeOK, DeleteRead, [Next]_vars
  PROVE  DeleteRead'
<1> USE DEF queueVars, syncVars, rpcVars, envVars, apiVars
<1> SUFFICES ASSUME NEW p \in Pods, pc'[p] = "delete"
             PROVE  rv'[p] \in 1 .. Len(log'[p]) /\ log'[p][rv'[p]].del
  BY DEF DeleteRead
<1>1. ASSUME rv'[p] \in 1 .. Len(log[p]), log[p][rv'[p]].del
      PROVE  rv'[p] \in 1 .. Len(log'[p]) /\ log'[p][rv'[p]].del
  <2>1. log'[p][rv'[p]] = log[p][rv'[p]]
    BY <1>1, LogGrows
  <2>2. Len(log'[p]) = Len(log[p]) \/ Len(log'[p]) = Len(log[p]) + 1
    <3>1. CASE \E q \in Pods : PodStep(q)
      BY <3>1, PodStepFrame, WriteLog DEF TypeOK
    <3>2. CASE ~\E q \in Pods : PodStep(q)
      BY <3>2, OtherFrame
    <3> QED BY <3>1, <3>2
  <2>3. Len(log[p]) \in Nat
    BY VersionsHeld DEF TypeOK
  <2> QED BY <1>1, <2>1, <2>2, <2>3, SMT
<1>2. CASE SyncPodGet(p)
  <2>1. rv'[p] = seen[p] /\ lister(p).del
    BY <1>2 DEF SyncPodGet, SyncContinue, SyncDone, TypeOK, SyncType
  <2>2. seen[p] \in 1 .. Len(log[p])
    BY VersionsHeld, SMT DEF TypeOK, LogType
  <2> QED BY <1>1, <2>1, <2>2 DEF lister
<1>3. CASE ~SyncPodGet(p)
  <2>1. pc[p] = "delete" /\ rv'[p] = rv[p]
    <3>1. CASE PodStep(p)
      BY <1>3, <3>1 DEF PodStep, SyncDone, SyncContinue, CreatePlain, RequestDelete, ForceDelete, Fail,
         Informer, TimerElapses, DelayedAdd, handlePodEvent, handlePodEventFlush, SyncPodInMem,
         SyncPodTimer, SyncPodMark, SyncPodDelete, SyncPodError, SyncPodMarkLost, SyncPodDeleteLost,
         ExposeManagedPod, ExposeManagedPodLost, TypeOK, SyncType
    <3>2. ASSUME NEW q \in Pods, q # p, PodStep(q)
          PROVE  pc[p] = "delete" /\ rv'[p] = rv[p]
      BY <3>2, PodStepFrame, SyncFrame
    <3>3. CASE ~\E q \in Pods : PodStep(q)
      BY <3>3, OtherFrame
    <3> QED BY <3>1, <3>2, <3>3
  <2> QED BY <1>1, <2>1 DEF DeleteRead
<1> QED BY <1>2, <1>3

\* What remains of DeleteOnlyRequested for every pod and every environment: the stale
\* delete that SyncPod makes by name needs a request that it read, though perhaps one
\* for an earlier object.
THEOREM RemovedAfterRequest == Spec => []RemovalRequested
<1>1. Init => UidsGrow /\ DeleteRead /\ RemovalRequested
  BY SMT DEF Init, UidsGrow, api, NoPod, DeleteRead, RemovalRequested
<1>2. TypeOK /\ DeleteRead /\ [Next]_vars => DeleteRead'
  BY DeleteReadStep
<1>3. ASSUME TypeOK, ReadPending, UidsGrow, DeleteRead, RemovalRequested, [Next]_vars
      PROVE  RemovalRequested'
  <2>1. CASE log' = log
    BY <1>3, <2>1 DEF RemovalRequested
  <2>2. ASSUME NEW p \in Pods, NEW v \in Version, Write(p, v), Follows(p, v)
        PROVE  RemovalRequested'
    <3> DEFINE n == Len(log[p])
    <3>1. \A q \in Pods \ {p} : log'[q] = log[q]
      BY <1>3, <2>2, WriteLog DEF TypeOK
    <3>2. /\ n \in Nat \ {0} /\ Len(log'[p]) = n + 1 /\ log'[p][n + 1] = v
          /\ \A i \in 1 .. n : log'[p][i] = log[p][i]
      BY <1>3, <2>2, WriteIndices
    <3>3. v.st = "none" /\ v.by # "env" =>
            rv[p] \in 1 .. n /\ log[p][rv[p]].del /\ log[p][rv[p]].uid <= v.uid
      <4>1. \A i \in 1 .. n : log[p][i].uid <= api(p).uid
        BY <1>3 DEF UidsGrow
      <4> QED BY <1>3, <2>2, <4>1 DEF Follows, DeleteRead
    <3> HIDE DEF n
    <3>4. ASSUME NEW i \in 2 .. Len(log'[p]), log'[p][i].st = "none", log'[p][i].by # "env"
          PROVE  \E j \in 1 .. i - 1 : log'[p][j].del /\ log'[p][j].uid <= log'[p][i].uid
      <4>1. CASE i = n + 1
        <5>1. i - 1 = n
          BY <3>2, <4>1, SMT
        <5> QED BY <3>2, <3>3, <3>4, <4>1, <5>1
      <4>2. CASE i # n + 1
        <5>1. i \in 2 .. n /\ i \in 1 .. n /\ \A j \in 1 .. i - 1 : j \in 1 .. n
          BY <3>2, <4>2, SMT
        <5>2. PICK j \in 1 .. i - 1 : log[p][j].del /\ log[p][j].uid <= log[p][i].uid
          BY <1>3, <3>2, <3>4, <5>1 DEF RemovalRequested, n
        <5> QED BY <3>2, <5>1, <5>2
      <4> QED BY <4>1, <4>2
    <3> QED BY <1>3, <3>1, <3>4 DEF RemovalRequested
  <2>3. CASE \E p \in Pods : PodStep(p)
    BY <1>3, <2>1, <2>2, <2>3, Written
  <2> QED BY <1>3, <2>1, <2>3, OtherFrame
<1>4. TypeOK /\ ReadPending /\ UidsGrow /\ [Next]_vars => UidsGrow'
  BY UidsGrowStep
<1> QED BY TypeCorrect, ReadPendingAlways, <1>1, <1>2, <1>3, <1>4, PTL DEF Spec

-----------------------------------------------------------------------------
\* Objects that need the kubelet.

\* The nodes of the pods S that this kubelet serves besides its own are listed with
\* their addresses, and so is its own.
AddrServed(S) ==
  \A p \in S : NodeOf[p] \in Delegated \ {thisNode} => thisNode \notin Late /\ NodeOf[p] \notin Late

LEMMA ServedNotRefused ==
  ASSUME NEW S, AddrServed(S), BareInv, NEW p \in Pods, p \in S, NodeOf[p] \in Delegated \cup {thisNode}
  PROVE  isResponsibleFor(p) # "no"
<1>1. thisNode \in Nodes /\ NodeOf[p] \in Nodes
  BY PodAssumption
<1>2. NodeOf[p] # thisNode => nodeLister[thisNode] # "bare" /\ nodeLister[NodeOf[p]] # "bare"
  BY <1>1 DEF AddrServed, BareInv
<1> QED BY <1>2 DEF isResponsibleFor, ServiceAddr

\* A version that the kubelet has to do something about: make it ready or remove it.
NeedsSync(v) == v.st = "pending" \/ (v.st # "none" /\ v.del)

\* No object is forgotten: one of a served node that is pending or being deleted has
\* work pending, whatever was bound, removed, failed and created again before.
ObjectNotForgotten ==
  \A p \in Pods : NodeOf[p] \in Delegated \cup {thisNode} /\ NeedsSync(api(p)) => WorkPending(p)

\* The inductive form: the next sync is on its way, or the one under way has read the
\* current version.
Noticed(p) == p \in dirty \cup delayed \/ handled[p] < Len(log[p])

NoticedOf(p) ==
  /\ NodeOf[p] \in Delegated \cup {thisNode} /\ NeedsSync(api(p)) =>
       Noticed(p) \/ (pc[p] # "idle" /\ rv[p] = Len(log[p]))
  /\ pc[p] = "inmem" => rv[p] = 0

\* The steps for p itself.
LEMMA NoticedStepOf ==
  ASSUME AddrServed(Pods), TypeOK, BareInv, NEW p \in Pods, NoticedOf(p), PodStep(p)
  PROVE  NoticedOf(p)'
<1> USE DEF queueVars, syncVars, rpcVars, envVars, apiVars
<1>1. /\ Len(log[p]) \in Nat \ {0} /\ handled[p] \in Nat /\ seen[p] \in Nat
      /\ handled[p] <= seen[p] /\ seen[p] <= Len(log[p])
  BY VersionsHeld, SMT DEF TypeOK, LogType
<1>2. pc'[p] = "inmem" => rv'[p] = 0
  BY DEF NoticedOf, PodStep, SyncDone, SyncContinue, CreatePlain, RequestDelete, ForceDelete, Fail, Informer,
     TimerElapses, DelayedAdd, handlePodEvent, handlePodEventFlush, SyncPodGet, SyncPodInMem, SyncPodTimer,
     SyncPodMark, SyncPodDelete, SyncPodError, SyncPodMarkLost, SyncPodDeleteLost, ExposeManagedPod,
     ExposeManagedPodLost, TypeOK, SyncType
<1>3. ASSUME Noticed(p)' PROVE NoticedOf(p)'
  BY <1>2, <1>3 DEF NoticedOf
<1>4. ASSUME NEW v \in Version, Write(p, v), handled' = handled
      PROVE  NoticedOf(p)'
  <2>1. Len(log'[p]) = Len(log[p]) + 1
    BY <1>4, WriteLog DEF TypeOK
  <2>2. handled'[p] < Len(log'[p])
    BY <1>1, <1>4, <2>1, SMT
  <2> QED BY <1>3, <2>2 DEF Noticed
<1>5. ASSUME log' = log, handled' = handled, dirty \subseteq dirty', delayed \subseteq delayed',
             (pc[p] = pc'[p] /\ rv[p] = rv'[p]) \/ rv[p] = 0
      PROVE  NoticedOf(p)'
  <2>1. (Noticed(p) => Noticed(p)') /\ api(p)' = api(p)
    BY <1>5 DEF Noticed, api
  <2> QED BY <1>1, <1>2, <1>5, <2>1 DEF NoticedOf
<1>6. CASE CreatePlain(p) \/ RequestDelete(p) \/ ForceDelete(p) \/ Fail(p)
  <2>1. handled' = handled
    BY <1>6 DEF CreatePlain, RequestDelete, ForceDelete, Fail
  <2>2. \E v \in Version : Write(p, v)
    BY <1>6, WrittenVersions DEF CreatePlain, RequestDelete, ForceDelete, Fail, TypeOK
  <2> QED BY <1>4, <2>1, <2>2
<1>7. CASE Informer(p) \/ TimerElapses(p) \/ handlePodEventFlush(p)
  <2>1. UNCHANGED <<log, handled, dirty, delayed, pc, rv>>
    BY <1>7 DEF Informer, TimerElapses, handlePodEventFlush
  <2> QED BY <1>5, <2>1
<1>8. CASE DelayedAdd(p)
  BY <1>3, <1>8 DEF DelayedAdd, Noticed
<1>9. CASE handlePodEvent(p)
  <2>1. log' = log /\ handled'[p] = handled[p] + 1 /\ handled[p] < seen[p]
    BY <1>9 DEF handlePodEvent, TypeOK, LogType
  <2>2. CASE handled'[p] < Len(log[p])
    BY <1>3, <2>1, <2>2 DEF Noticed
  <2>3. CASE ~(handled'[p] < Len(log[p]))
    <3>1. handled[p] + 1 = Len(log[p])
      BY <1>1, <2>1, <2>3, SMT
    <3>2. api(p)' = api(p) /\ (api(p).st # "none" => p \in dirty')
      BY <1>9, <2>1, <3>1 DEF handlePodEvent, api
    <3>3. CASE api(p).st # "none"
      BY <1>3, <3>2, <3>3 DEF Noticed
    <3>4. CASE api(p).st = "none"
      BY <1>2, <3>2, <3>4 DEF NoticedOf, NeedsSync
    <3> QED BY <3>3, <3>4
  <2> QED BY <2>2, <2>3
<1>10. CASE SyncPodGet(p)
  <2>1. log' = log /\ handled' = handled /\ api(p)' = api(p)
    BY <1>10 DEF SyncPodGet, api
  <2>2. CASE handled[p] < Len(log[p])
    BY <1>3, <2>1, <2>2 DEF Noticed
  <2>3. CASE ~(handled[p] < Len(log[p]))
    <3>1. seen[p] = Len(log[p]) /\ lister(p) = api(p)
      BY <1>1, <2>3, SMT DEF lister, api
    <3>2. SUFFICES ASSUME NodeOf[p] \in Delegated \cup {thisNode}, NeedsSync(api(p))
                   PROVE  Noticed(p)' \/ (pc'[p] # "idle" /\ rv'[p] = Len(log[p]))
      BY <1>2, <2>1 DEF NoticedOf
    <3>3. isResponsibleFor(p) # "no"
      BY <3>2, ServedNotRefused
    <3>4. p \in delayed' \/ (pc'[p] \in {"delete", "timer"} /\ rv'[p] = seen[p])
      BY <1>10, <3>1, <3>2, <3>3 DEF SyncPodGet, SyncContinue, SyncDone, NeedsSync, TypeOK, SyncType
    <3> QED BY <3>1, <3>4 DEF Noticed
  <2> QED BY <2>2, <2>3
<1>11. CASE SyncPodInMem(p)
  <2>1. UNCHANGED <<log, handled, dirty>> /\ delayed \subseteq delayed' /\ pc[p] = "inmem"
    BY <1>11 DEF SyncPodInMem, SyncDone, SyncContinue
  <2> QED BY <1>5, <2>1 DEF NoticedOf
<1>12. CASE SyncPodTimer(p)
  <2>1. UNCHANGED <<log, handled, dirty>> /\ delayed \subseteq delayed' /\ pc[p] = "timer"
    BY <1>12 DEF SyncPodTimer, SyncDone, SyncContinue
  <2>2. p \in delayed' \/ rv[p] = 0 \/ (pc'[p] = "mark" /\ rv'[p] = rv[p])
    BY <1>12 DEF SyncPodTimer, SyncDone, SyncContinue, TypeOK, SyncType
  <2>3. CASE p \in delayed'
    BY <1>3, <2>3 DEF Noticed
  <2>4. CASE rv[p] = 0
    BY <1>5, <2>1, <2>4
  <2>5. CASE pc'[p] = "mark" /\ rv'[p] = rv[p]
    <3>1. (Noticed(p) => Noticed(p)') /\ api(p)' = api(p)
      BY <2>1 DEF Noticed, api
    <3> QED BY <1>2, <2>1, <2>5, <3>1 DEF NoticedOf
  <2> QED BY <2>2, <2>3, <2>4, <2>5
<1>13. CASE SyncPodMark(p)
  <2>1. CASE NodeOf[p] \notin clientPool
    <3>1. UNCHANGED <<log, handled, dirty, delayed, pc, rv>>
      BY <1>13, <2>1 DEF SyncPodMark
    <3> QED BY <1>5, <3>1
  <2>2. CASE NodeOf[p] \in clientPool /\ Accepts(p)
    <3>1. handled' = handled /\ \E v \in Version : Write(p, v)
      BY <1>13, <2>2, WrittenVersions DEF SyncPodMark, refStatus, TypeOK
    <3> QED BY <1>4, <3>1
  <2>3. CASE NodeOf[p] \in clientPool /\ ~Accepts(p)
    BY <1>3, <1>13, <2>3 DEF SyncPodMark, SyncDone, Noticed
  <2> QED BY <2>1, <2>2, <2>3
<1>14. CASE SyncPodDelete(p)
  <2>1. handled' = handled
    BY <1>14 DEF SyncPodDelete
  <2>2. CASE api(p).st # "none"
    <3>1. \E v \in Version : Write(p, v)
      BY <1>14, <2>2, WrittenVersions DEF SyncPodDelete, TypeOK
    <3> QED BY <1>4, <2>1, <3>1
  <2>3. CASE api(p).st = "none"
    <3>1. api(p)' = api(p)
      BY <1>14, <2>3 DEF SyncPodDelete, api
    <3> QED BY <1>2, <2>3, <3>1 DEF NoticedOf, NeedsSync
  <2> QED BY <2>2, <2>3
<1>15. CASE SyncPodError(p) \/ SyncPodMarkLost(p) \/ SyncPodDeleteLost(p)
  BY <1>3, <1>15 DEF SyncPodError, SyncPodMarkLost, SyncPodDeleteLost, SyncDone, Noticed
<1>16. CASE ExposeManagedPod(p) \/ ExposeManagedPodLost(p)
  <2>1. CASE log' = log
    <3>1. UNCHANGED <<handled, dirty, delayed, pc, rv>>
      BY <1>16 DEF ExposeManagedPod, ExposeManagedPodLost
    <3> QED BY <1>5, <2>1, <3>1
  <2>2. CASE log' # log
    <3>1. handled' = handled /\ \E v \in Version : Write(p, v)
      BY <1>16, <2>2, WrittenVersions DEF ExposeManagedPod, ExposeManagedPodLost, TypeOK
    <3> QED BY <1>4, <3>1
  <2> QED BY <2>1, <2>2
<1> QED BY <1>6, <1>7, <1>8, <1>9, <1>10, <1>11, <1>12, <1>13, <1>14, <1>15, <1>16 DEF PodStep

\* The safety that DeletionCompletes and BoundPodReady rest on, for all pods and every
\* environment: an event, an item of the work queue or a worker with the current version
\* stands for each object that SyncPod still has to make ready or to remove.
THEOREM ObjectsNoticed ==
  ASSUME AddrServed(Pods)
  PROVE  Spec => []ObjectNotForgotten
<1> DEFINE NoticedInv == \A p \in Pods : NoticedOf(p)
<1>1. Init => BareInv /\ NoticedInv
  BY SMT DEF Init, ListedAs, BareInv, NoticedOf, NeedsSync, api, NoPod
<1>2. ASSUME TypeOK, BareInv, NoticedInv, [Next]_vars
      PROVE  NoticedInv'
  <2> SUFFICES ASSUME NEW p \in Pods PROVE NoticedOf(p)'
    OBVIOUS
  <2>1. ASSUME log'[p] = log[p], handled'[p] = handled[p], pc'[p] = pc[p], rv'[p] = rv[p],
               p \in dirty => p \in dirty', p \in delayed => p \in delayed'
        PROVE  NoticedOf(p)'
    <3>1. (Noticed(p) => Noticed(p)') /\ api(p)' = api(p) /\ NoticedOf(p)
      BY <1>2, <2>1 DEF Noticed, api
    <3> QED BY <2>1, <3>1 DEF NoticedOf
  <2>2. CASE PodStep(p)
    BY <1>2, <2>2, NoticedStepOf
  <2>3. ASSUME NEW q \in Pods, q # p, PodStep(q)
        PROVE  NoticedOf(p)'
    BY <1>2, <2>1, <2>3, PodStepFrame, SyncFrame
  <2>4. CASE ~\E q \in Pods : PodStep(q)
    <3>1. UNCHANGED <<log, handled, pc, rv, delayed>>
      BY <1>2, <2>4, OtherFrame
    <3>2. dirty \subseteq dirty'
      BY <1>2, <2>4 DEF Next, NodeStep, NodeListed, AddrListed, NodeDeleted, HandshakeClient, HandshakeLock,
         CallStep, SendBindPod, BindPodRLock, BindPodInsert, BindPodEnqueue, TemplateListed,
         TemplateDeleted, vars, queueVars
    <3> QED BY <2>1, <3>1, <3>2
  <2> QED BY <2>2, <2>3, <2>4
<1>3. TypeOK /\ BareInv /\ [Next]_vars => BareInv'
  BY BareStep
<1>4. NoticedInv => ObjectNotForgotten
  BY DEF NoticedOf, Noticed, ObjectNotForgotten, WorkPending
<1> HIDE DEF NoticedInv
<1> QED BY TypeCorrect, <1>1, <1>2, <1>3, <1>4, PTL DEF Spec

-----------------------------------------------------------------------------
\* Managed pods whose deletion is requested once.

\* Others neither remove nor fail a managed pod, and request the deletion of the first
\* object of its name only, and no Create takes effect and returns an error: the retry
\* may come after the removal, and a worker may then delete the second object by name.
GracefulOnce ==
  Managed \cap (Forced \cup Failing) = {} /\ MaxUid <= 1 /\ "create" \notin Unanswered

\* The first object of the name exists.
FirstLife(p) == api(p).st # "none" /\ api(p).uid <= 1

\* The versions that podLister returns or will return.
Unseen(p) == seen[p] .. Len(log[p])

\* The next sync finds no API object, or the one under way has found none.
NoneRead(p) == lister(p).st = "none" \/ pc[p] = "inmem" \/ (pc[p] = "timer" /\ rv[p] = 0)

\* The versions of a name: there is no removal before the first object's, and no
\* request for a deletion after it.
HistoryOf(p) ==
  /\ log[p][1] = NoPod
  /\ Len(log[p]) > 1 => api(p).uid > 0
  /\ \A i \in 1 .. Len(log[p]) : log[p][i].st # "failed"
  /\ FirstLife(p) => \A i \in 2 .. Len(log[p]) : log[p][i].st # "none"
  /\ \A i \in 2 .. Len(log[p]) : log[p][i].st = "none" => \A j \in i .. Len(log[p]) : ~log[p][j].del

\* Whoever reads that a deletion is requested finds that object or none, whoever reads
\* an object that may live finds that it does.
DeletionOf(p) ==
  /\ \A i \in Unseen(p) : log[p][i].del => \A j \in i .. Len(log[p]) : log[p][j].st = "none" \/ log[p][j].del
  /\ pc[p] = "delete" =>
       seen[p] > 1 /\ exposing[p] = 0 /\ \A i \in Unseen(p) : log[p][i].st = "none" \/ log[p][i].del
  /\ \A i \in Unseen(p) : log[p][i].st # "none" /\ ~log[p][i].del => api(p).st # "none"
  /\ pc[p] = "timer" /\ rv[p] # 0 => api(p).st # "none"

\* A timer stands for an object that exists or is being exposed, or for one whose delete
\* returned an error: the handler has yet to hear of its removal.
TimerStands(p) ==
  readyTimers[p].st # "none" => exposing[p] > 0 \/ api(p).st # "none" \/ handled[p] < Len(log[p])

\* The first object is exposed once, and nobody exposes a pod whose deletion podLister
\* has yet to report.
ExposingOf(p) ==
  /\ exposing[p] > 0 => \A i \in Unseen(p) : ~log[p][i].del
  /\ FirstLife(p) => exposing[p] = 0
  /\ Len(log[p]) = 1 => exposing[p] <= 1 /\ (exposing[p] > 0 => readyTimers[p].st # "none")
  /\ TimerStands(p)
  /\ NoneRead(p) /\ FirstLife(p) => readyTimers[p].st # "none"
  /\ NoneRead(p) /\ readyTimers[p].st = "none" => \A i \in Unseen(p) : ~log[p][i].del

LifeOf(p) == HistoryOf(p) /\ DeletionOf(p) /\ ExposingOf(p)

\* The three ways in which p's object changes, and what goes with them.
Creates(p, v) ==
  /\ api(p).st = "none" /\ v.st = "pending" /\ ~v.del /\ v.uid = api(p).uid + 1
  /\ exposing[p] > 0 /\ exposing'[p] = exposing[p] - 1
  /\ readyTimers'[p] = readyTimers[p] /\ pc'[p] = pc[p] /\ rv'[p] = rv[p]

Updates(p, v) ==
  /\ api(p).st # "none" /\ v.st \in {"pending", "ready"} /\ v.uid = api(p).uid
  /\ (api(p).del => v.del) /\ (v.del => api(p).del \/ FirstLife(p))
  /\ exposing'[p] = exposing[p] /\ readyTimers'[p] = readyTimers[p]
  /\ pc'[p] = "idle" \/ (pc'[p] = pc[p] /\ rv'[p] = rv[p] /\ (pc[p] = "delete" => v.del))

Removes(p, v) ==
  /\ api(p).st # "none" /\ v.st = "none" /\ ~v.del /\ v.uid = api(p).uid
  /\ pc[p] = "delete" /\ pc'[p] = "idle"
  /\ exposing'[p] = exposing[p]

LEMMA LifeWrite ==
  ASSUME TypeOK, NEW p \in Pods, LifeOf(p), NEW v \in Version, Write(p, v), seen'[p] = seen[p],
         handled'[p] = handled[p], Creates(p, v) \/ Updates(p, v) \/ Removes(p, v)
  PROVE  LifeOf(p)'
<1> DEFINE n == Len(log[p])
<1>1. /\ n \in Nat \ {0} /\ Len(log'[p]) = n + 1 /\ api(p)' = v
      /\ log'[p][n + 1] = v /\ log[p][n] = api(p)
      /\ \A i \in 1 .. n : log'[p][i] = log[p][i]
  BY WriteIndices DEF api
<1>2. seen[p] \in 1 .. n /\ exposing[p] \in Nat /\ api(p).uid \in Nat
  BY <1>1, VersionsHeld, SMTT(20) DEF TypeOK, LogType, CacheType, Version
<1> HIDE DEF n
<1>3. HistoryOf(p) /\ DeletionOf(p) /\ ExposingOf(p)
  BY DEF LifeOf
<1>4. n \in Unseen(p) /\ \A i \in Unseen(p)' : i = n + 1 \/ (i \in Unseen(p) /\ i \in 1 .. n)
  BY <1>1, <1>2, SMT DEF Unseen, n
<1>5. lister(p)' = lister(p)
  BY <1>1, <1>2, SMT DEF lister
<1>6. api(p).st # "none" => n > 1
  BY <1>1, <1>3, SMT DEF HistoryOf, NoPod
<1>7. Creates(p, v) /\ v.uid <= 1 => n = 1
  <2>1. n > 1 => api(p).uid > 0
    BY <1>3 DEF HistoryOf, n
  <2>2. Creates(p, v) => v.uid = api(p).uid + 1
    BY DEF Creates
  <2> QED BY <1>1, <1>2, <2>1, <2>2, SMT
<1>8. FirstLife(p)' => ~Removes(p, v) /\ (Updates(p, v) => FirstLife(p)) /\ (Creates(p, v) => n = 1)
  BY <1>1, <1>7, SMT DEF FirstLife, Removes, Updates
<1>9. v.del => Updates(p, v) /\ (api(p).del \/ FirstLife(p))
  BY DEF Creates, Updates, Removes
<1>10. HistoryOf(p)'
  <2>1. log'[p][1] = NoPod
    BY <1>1, <1>3, SMT DEF HistoryOf
  <2>2. v.uid > 0
    <3>1. Creates(p, v) => v.uid = api(p).uid + 1
      BY DEF Creates
    <3>2. Updates(p, v) \/ Removes(p, v) => v.uid = api(p).uid /\ api(p).st # "none"
      BY DEF Updates, Removes
    <3>3. n > 1 => api(p).uid > 0
      BY <1>3 DEF HistoryOf, n
    <3> QED BY <1>2, <1>6, <3>1, <3>2, <3>3, SMT
  <2>3. \A i \in 1 .. Len(log'[p]) : log'[p][i].st # "failed"
    <3>1. v.st # "failed"
      BY DEF Creates, Updates, Removes
    <3>2. \A i \in 1 .. n : log[p][i].st # "failed"
      BY <1>3 DEF HistoryOf, n
    <3>3. \A i \in 1 .. n + 1 : i \in 1 .. n \/ i = n + 1
      BY <1>1, SMT
    <3> QED BY <1>1, <3>1, <3>2, <3>3
  <2>4. ASSUME FirstLife(p)', NEW i \in 2 .. Len(log'[p])
        PROVE  log'[p][i].st # "none"
    <3>1. CASE i = n + 1
      BY <1>1, <1>8, <2>4, <3>1 DEF Creates, Updates, Removes
    <3>2. CASE i # n + 1
      <4>1. i \in 2 .. n /\ n # 1
        BY <1>1, <2>4, <3>2, SMT
      <4>2. FirstLife(p)
        BY <1>8, <2>4, <4>1
      <4> QED BY <1>1, <1>3, <4>1, <4>2, SMT DEF HistoryOf, n
    <3> QED BY <3>1, <3>2
  <2>5. ASSUME NEW i \in 2 .. Len(log'[p]), log'[p][i].st = "none", NEW j \in i .. Len(log'[p])
        PROVE  ~log'[p][j].del
    <3>1. CASE i = n + 1
      <4>1. j = n + 1 /\ v.st = "none"
        BY <1>1, <2>5, <3>1, SMT
      <4> QED BY <1>1, <4>1 DEF Creates, Updates, Removes
    <3>2. CASE i # n + 1
      <4>1. i \in 2 .. n /\ log[p][i].st = "none"
        BY <1>1, <2>5, <3>2, SMT
      <4>2. \A k \in i .. n : ~log[p][k].del
        BY <1>3, <4>1 DEF HistoryOf, n
      <4>3. ~api(p).del /\ ~FirstLife(p)
        BY <1>1, <1>3, <4>1, <4>2, SMT DEF HistoryOf, n
      <4>4. j = n + 1 \/ (j \in i .. n /\ j \in 1 .. n)
        BY <1>1, <2>5, <4>1, SMT
      <4> QED BY <1>1, <1>9, <4>2, <4>3, <4>4
    <3> QED BY <3>1, <3>2
  <2> QED BY <1>1, <2>1, <2>2, <2>3, <2>4, <2>5 DEF HistoryOf
<1>11. DeletionOf(p)'
  <2>1. ASSUME NEW i \in Unseen(p)', log'[p][i].del, NEW j \in i .. Len(log'[p])
        PROVE  log'[p][j].st = "none" \/ log'[p][j].del
    <3>1. CASE i = n + 1
      BY <1>1, <2>1, <3>1, SMT
    <3>2. CASE i # n + 1
      <4>1. i \in Unseen(p) /\ i \in 1 .. n /\ log[p][i].del
        BY <1>1, <1>4, <2>1, <3>2
      <4>2. \A k \in i .. n : log[p][k].st = "none" \/ log[p][k].del
        BY <1>3, <4>1 DEF DeletionOf, n
      <4>3. exposing[p] = 0
        BY <1>2, <1>3, <4>1, SMT DEF ExposingOf
      <4>4. ~Creates(p, v)
        BY <4>3, SMT DEF Creates
      <4>5. api(p).st = "none" \/ api(p).del
        BY <1>1, <4>1, <4>2, SMT
      <4>6. v.st = "none" \/ v.del
        BY <4>4, <4>5 DEF Updates, Removes
      <4>7. j = n + 1 \/ (j \in i .. n /\ j \in 1 .. n)
        BY <1>1, <2>1, <4>1, SMT
      <4> QED BY <1>1, <4>2, <4>6, <4>7
    <3> QED BY <3>1, <3>2
  <2>2. ASSUME pc'[p] = "delete"
        PROVE  /\ seen'[p] > 1 /\ exposing'[p] = 0
               /\ \A i \in Unseen(p)' : log'[p][i].st = "none" \/ log'[p][i].del
    <3>1. pc[p] = "delete" /\ ~Removes(p, v) /\ (Updates(p, v) => v.del /\ exposing'[p] = exposing[p])
      BY <2>2 DEF Creates, Updates, Removes
    <3>2. seen[p] > 1 /\ exposing[p] = 0 /\ \A i \in Unseen(p) : log[p][i].st = "none" \/ log[p][i].del
      BY <1>3, <3>1 DEF DeletionOf
    <3>3. Updates(p, v)
      BY <3>1, <3>2, SMT DEF Creates
    <3> QED BY <1>1, <1>4, <3>1, <3>2, <3>3
  <2>3. ASSUME NEW i \in Unseen(p)', log'[p][i].st # "none", ~log'[p][i].del
        PROVE  v.st # "none"
    <3>1. CASE Removes(p, v)
      <4>1. \A k \in Unseen(p) : log[p][k].st = "none" \/ log[p][k].del
        BY <1>3, <3>1 DEF DeletionOf, Removes
      <4> QED BY <1>1, <1>4, <2>3, <3>1, <4>1 DEF Removes
    <3> QED BY <3>1 DEF Creates, Updates
  <2>4. pc'[p] = "timer" => v.st # "none"
    BY DEF Creates, Updates, Removes
  <2> QED BY <1>1, <2>1, <2>2, <2>3, <2>4 DEF DeletionOf
<1>12. ExposingOf(p)'
  <2>1. ASSUME exposing'[p] > 0, NEW i \in Unseen(p)'
        PROVE  ~log'[p][i].del
    <3>1. exposing[p] > 0
      BY <1>2, <2>1 DEF Creates, Updates, Removes
    <3>2. \A k \in Unseen(p) : ~log[p][k].del
      BY <1>3, <3>1 DEF ExposingOf
    <3>3. ~api(p).del /\ ~FirstLife(p)
      BY <1>1, <1>2, <1>3, <1>4, <3>1, <3>2, SMT DEF ExposingOf
    <3> QED BY <1>1, <1>4, <1>9, <3>2, <3>3
  <2>2. FirstLife(p)' => exposing'[p] = 0
    <3>1. CASE Creates(p, v) /\ n = 1
      BY <1>2, <1>3, <3>1, SMT DEF Creates, ExposingOf, n
    <3>2. CASE Updates(p, v) /\ FirstLife(p)
      BY <1>3, <3>2 DEF Updates, ExposingOf
    <3> QED BY <1>8, <3>1, <3>2
  <2>3. Len(log'[p]) # 1
    BY <1>1, SMT
  <2>4. TimerStands(p)'
    <3>1. handled[p] \in Nat /\ handled[p] <= n
      BY <1>1, VersionsHeld, SMT DEF TypeOK, LogType, n
    <3>2. handled[p] < n + 1
      BY <1>1, <3>1, SMT
    <3> QED BY <1>1, <3>2 DEF TimerStands
  <2>5. NoneRead(p)' => NoneRead(p)
    BY <1>5 DEF NoneRead, Creates, Updates, Removes
  <2>6. NoneRead(p)' /\ FirstLife(p)' => readyTimers'[p].st # "none"
    <3>1. CASE Creates(p, v) /\ n = 1
      BY <1>3, <3>1 DEF Creates, ExposingOf, n
    <3>2. CASE Updates(p, v) /\ FirstLife(p)
      BY <1>3, <2>5, <3>2 DEF Updates, ExposingOf
    <3> QED BY <1>8, <3>1, <3>2
  <2>7. ASSUME NoneRead(p)', readyTimers'[p].st = "none", NEW i \in Unseen(p)'
        PROVE  ~log'[p][i].del
    <3>1. CASE Removes(p, v)
      <4>1. seen[p] > 1 /\ lister(p).st = "none"
        BY <1>3, <1>5, <2>7, <3>1 DEF DeletionOf, Removes, NoneRead
      <4>2. seen[p] \in 2 .. n
        BY <1>1, <1>2, <4>1, SMT
      <4>3. \A k \in Unseen(p) : ~log[p][k].del
        BY <1>3, <4>1, <4>2 DEF HistoryOf, lister, Unseen, n
      <4> QED BY <1>1, <1>4, <3>1, <4>3 DEF Removes
    <3>2. CASE ~Removes(p, v)
      <4>1. readyTimers[p].st = "none"
        BY <2>7, <3>2 DEF Creates, Updates
      <4>2. \A k \in Unseen(p) : ~log[p][k].del
        BY <1>3, <2>5, <2>7, <4>1 DEF ExposingOf
      <4>3. ~api(p).del /\ ~FirstLife(p)
        BY <1>1, <1>3, <1>4, <2>5, <2>7, <4>1, <4>2 DEF ExposingOf
      <4> QED BY <1>1, <1>4, <1>9, <4>2, <4>3
    <3> QED BY <3>1, <3>2
  <2> QED BY <1>1, <2>1, <2>2, <2>3, <2>4, <2>6, <2>7 DEF ExposingOf
<1> QED BY <1>10, <1>11, <1>12 DEF LifeOf

\* Steps that write nothing and that neither start nor clear a timer.
LEMMA LifeKept ==
  ASSUME NEW p \in Pods, LifeOf(p), UNCHANGED <<log, seen>>, exposing'[p] = exposing[p],
         handled'[p] = handled[p] \/ TimerStands(p)',
         readyTimers'[p].st = "none" <=> readyTimers[p].st = "none",
         \/ pc'[p] = pc[p] /\ rv'[p] = rv[p]
         \/ pc'[p] \in {"idle", "mark"}
         \/ pc[p] = "inmem" /\ pc'[p] = "timer" /\ rv'[p] = 0
  PROVE  LifeOf(p)'
<1>1. api(p)' = api(p) /\ lister(p)' = lister(p) /\ Unseen(p)' = Unseen(p) /\ (FirstLife(p)' <=> FirstLife(p))
  BY DEF api, lister, Unseen, FirstLife
<1>2. NoneRead(p)' => NoneRead(p)
  BY <1>1 DEF NoneRead
<1>3. HistoryOf(p)'
  BY <1>1 DEF LifeOf, HistoryOf
<1>4. DeletionOf(p)'
  BY <1>1 DEF LifeOf, DeletionOf
<1>5. TimerStands(p)'
  BY <1>1 DEF LifeOf, ExposingOf, TimerStands
<1>6. ExposingOf(p)'
  BY <1>1, <1>2, <1>5 DEF LifeOf, ExposingOf
<1> QED BY <1>3, <1>4, <1>6 DEF LifeOf

LEMMA LifeInformer ==
  ASSUME TypeOK, NEW p \in Pods, LifeOf(p), Informer(p)
  PROVE  LifeOf(p)'
<1> USE DEF queueVars, syncVars, rpcVars, envVars, apiVars
<1>1. UNCHANGED <<log, handled, exposing, readyTimers, pc, rv>> /\ seen'[p] = seen[p] + 1 /\ seen[p] < Len(log[p])
  BY DEF Informer, TypeOK, LogType
<1>2. seen[p] \in Nat \ {0} /\ Len(log[p]) \in Nat
  BY VersionsHeld, SMT DEF TypeOK, LogType
<1>3. Unseen(p)' \subseteq Unseen(p) /\ seen[p] + 1 \in 2 .. Len(log[p]) /\ seen'[p] > 1
  BY <1>1, <1>2, SMT DEF Unseen
<1>4. api(p)' = api(p) /\ (FirstLife(p)' <=> FirstLife(p)) /\ lister(p)' = log[p][seen[p] + 1]
  BY <1>1 DEF api, lister, FirstLife
<1>5. HistoryOf(p) /\ DeletionOf(p) /\ ExposingOf(p)
  BY DEF LifeOf
<1>6. HistoryOf(p)'
  BY <1>1, <1>4, <1>5 DEF HistoryOf
<1>7. DeletionOf(p)'
  BY <1>1, <1>2, <1>3, <1>4, <1>5 DEF DeletionOf
<1>8. NoneRead(p)' => NoneRead(p) \/ log[p][seen[p] + 1].st = "none"
  BY <1>1, <1>4 DEF NoneRead
<1>9. ASSUME log[p][seen[p] + 1].st = "none"
      PROVE  ~FirstLife(p) /\ \A i \in Unseen(p)' : ~log[p][i].del
  BY <1>1, <1>3, <1>5, <1>9 DEF HistoryOf, Unseen
<1>10. ExposingOf(p)'
  BY <1>1, <1>3, <1>4, <1>5, <1>8, <1>9 DEF ExposingOf, TimerStands
<1> QED BY <1>6, <1>7, <1>10 DEF LifeOf

LEMMA LifeHandler ==
  ASSUME TypeOK, NEW p \in Pods, LifeOf(p), handlePodEvent(p)
  PROVE  LifeOf(p)'
<1> USE DEF queueVars, syncVars, rpcVars, envVars, apiVars
<1>1. UNCHANGED <<log, seen, exposing, pc, rv>> /\ handled[p] < seen[p]
  BY DEF handlePodEvent
<1>2. CASE readyTimers' = readyTimers
  <2>1. handled'[p] = handled[p] + 1 /\ api(p)' = api(p)
    BY <1>1 DEF handlePodEvent, api, TypeOK, LogType
  <2>2. handled'[p] < Len(log[p]) \/ log[p][handled[p] + 1] = api(p)
    <3>1. handled[p] \in Nat /\ seen[p] \in Nat /\ Len(log[p]) \in Nat /\ seen[p] <= Len(log[p])
      BY VersionsHeld, SMT DEF TypeOK, LogType
    <3>2. handled[p] + 1 < Len(log[p]) \/ handled[p] + 1 = Len(log[p])
      BY <1>1, <3>1, SMT
    <3> QED BY <2>1, <3>2 DEF api
  <2>3. readyTimers'[p].st # "none" => log[p][handled[p] + 1].st # "none"
    BY SMT DEF handlePodEvent, NoTimer, TypeOK, CacheType
  <2>4. TimerStands(p)'
    BY <1>1, <2>1, <2>2, <2>3 DEF TimerStands
  <2> QED BY <1>1, <1>2, <2>4, LifeKept
<1>3. CASE readyTimers' # readyTimers
  <2>1. readyTimers'[p].st = "none" /\ log[p][handled[p] + 1].st = "none"
    BY <1>3, SMT DEF handlePodEvent, NoTimer, TypeOK, CacheType
  <2>2. handled[p] + 1 \in 2 .. Len(log[p]) /\ Unseen(p) \subseteq (handled[p] + 1) .. Len(log[p])
    BY <1>1, VersionsHeld, SMT DEF TypeOK, LogType, Unseen
  <2>3. HistoryOf(p) /\ DeletionOf(p) /\ ExposingOf(p)
    BY DEF LifeOf
  <2>4. ~FirstLife(p) /\ \A i \in Unseen(p) : ~log[p][i].del
    BY <2>1, <2>2, <2>3 DEF HistoryOf
  <2>5. Len(log[p]) # 1
    <3>1. handled[p] \in Nat \ {0} /\ Len(log[p]) \in Nat /\ handled[p] < Len(log[p])
      BY <1>1, VersionsHeld, SMT DEF TypeOK, LogType
    <3>2. \A a \in Nat \ {0}, n \in Nat : a < n => n # 1
      BY SMT
    <3> QED BY <3>1, <3>2, Zenon
  <2>6. /\ api(p)' = api(p) /\ lister(p)' = lister(p) /\ Unseen(p)' = Unseen(p)
        /\ (FirstLife(p)' <=> FirstLife(p)) /\ (NoneRead(p)' <=> NoneRead(p))
    BY <1>1 DEF api, lister, Unseen, FirstLife, NoneRead
  <2>7. HistoryOf(p)' /\ DeletionOf(p)'
    BY <1>1, <2>3, <2>6 DEF HistoryOf, DeletionOf
  <2>8. ExposingOf(p)'
    BY <1>1, <2>1, <2>3, <2>4, <2>5, <2>6 DEF ExposingOf, TimerStands
  <2> QED BY <2>7, <2>8 DEF LifeOf
<1> QED BY <1>2, <1>3

LEMMA LifeGet ==
  ASSUME TypeOK, NEW p \in Pods, LifeOf(p), SyncPodGet(p)
  PROVE  LifeOf(p)'
<1> USE DEF queueVars, syncVars, rpcVars, envVars, apiVars
<1>1. UNCHANGED <<log, seen, handled, exposing>>
  BY DEF SyncPodGet
<1>2. /\ api(p)' = api(p) /\ lister(p)' = lister(p) /\ Unseen(p)' = Unseen(p)
      /\ (FirstLife(p)' <=> FirstLife(p))
  BY <1>1 DEF api, lister, Unseen, FirstLife
<1>3. HistoryOf(p) /\ DeletionOf(p) /\ ExposingOf(p)
  BY DEF LifeOf
<1>4. seen[p] \in Nat \ {0} /\ Len(log[p]) \in Nat \ {0} /\ seen[p] <= Len(log[p]) /\ exposing[p] \in Nat
  BY VersionsHeld, SMT DEF TypeOK, LogType, CacheType
<1>5. HistoryOf(p)'
  BY <1>1, <1>2, <1>3 DEF HistoryOf
<1>6. seen[p] \in Unseen(p)
  BY <1>4, SMT DEF Unseen
<1>7. lister(p).st # "none" => seen[p] > 1 /\ Len(log[p]) # 1
  <2>1. lister(p).st # "none" => seen[p] # 1
    BY <1>3, SMT DEF HistoryOf, NoPod, lister
  <2>2. \A a, n \in Nat \ {0} : a # 1 /\ a <= n => a > 1 /\ n # 1
    BY SMT
  <2> QED BY <1>4, <2>1, <2>2, Zenon
<1>8. CASE lister(p).st = "none"
  <2>1. readyTimers' = readyTimers /\ pc'[p] = "inmem"
    BY <1>8 DEF SyncPodGet, SyncContinue, TypeOK, SyncType
  <2>2. NoneRead(p)
    BY <1>8 DEF NoneRead
  <2>3. DeletionOf(p)'
    BY <1>1, <1>2, <1>3, <2>1 DEF DeletionOf
  <2>4. ExposingOf(p)'
    BY <1>1, <1>2, <1>3, <2>1, <2>2 DEF ExposingOf, TimerStands
  <2> QED BY <1>5, <2>3, <2>4 DEF LifeOf
<1>9. CASE lister(p).st # "none"
  <2>1. \/ pc'[p] = "idle" /\ (readyTimers' = readyTimers \/ readyTimers'[p].st = "none")
        \/ pc'[p] = "delete" /\ lister(p).del /\ readyTimers' = readyTimers
        \/ pc'[p] = "timer" /\ rv'[p] = seen[p] /\ ~lister(p).del /\ readyTimers' = readyTimers
    BY <1>9, SMT DEF SyncPodGet, SyncContinue, SyncDone, NoTimer, TypeOK, SyncType, CacheType
  <2>2. ~NoneRead(p)'
    BY <1>2, <1>4, <1>9, <2>1 DEF NoneRead
  <2>3. pc'[p] = "delete" =>
          seen[p] > 1 /\ exposing[p] = 0 /\ \A i \in Unseen(p) : log[p][i].st = "none" \/ log[p][i].del
    <3>1. lister(p).del => exposing[p] = 0
      <4>1. lister(p).del => ~(exposing[p] > 0)
        BY <1>3, <1>6 DEF ExposingOf, lister
      <4> QED BY <1>4, <4>1, SMT
    <3>2. lister(p).del => \A i \in Unseen(p) : log[p][i].st = "none" \/ log[p][i].del
      BY <1>3, <1>6 DEF DeletionOf, lister, Unseen
    <3> QED BY <1>7, <1>9, <2>1, <3>1, <3>2
  <2>4. pc'[p] = "timer" => api(p).st # "none"
    BY <1>3, <1>6, <1>9, <2>1 DEF DeletionOf, lister
  <2>5. DeletionOf(p)'
    BY <1>1, <1>2, <1>3, <2>3, <2>4 DEF DeletionOf
  <2>6. readyTimers'[p].st # "none" => readyTimers[p].st # "none"
    BY <2>1
  <2>7. ExposingOf(p)'
    BY <1>1, <1>2, <1>3, <1>7, <1>9, <2>2, <2>6 DEF ExposingOf, TimerStands
  <2> QED BY <1>5, <2>5, <2>7 DEF LifeOf
<1> QED BY <1>8, <1>9

LEMMA LifeTimer ==
  ASSUME TypeOK, NEW p \in Pods, LifeOf(p), SyncPodTimer(p)
  PROVE  LifeOf(p)'
<1> USE DEF queueVars, syncVars, rpcVars, envVars, apiVars
<1>1. UNCHANGED <<log, seen, handled>> /\ pc[p] = "timer" /\ pc'[p] \in {"idle", "mark"}
  BY DEF SyncPodTimer, SyncDone, SyncContinue, TypeOK, SyncType
<1>2. CASE readyTimers[p].st # "none"
  <2>1. readyTimers'[p] = readyTimers[p] /\ exposing' = exposing
    BY <1>2 DEF SyncPodTimer, TypeOK, CacheType
  <2> QED BY <1>1, <2>1, LifeKept
<1>3. CASE readyTimers[p].st = "none"
  <2>1. readyTimers'[p].st # "none"
    BY <1>3 DEF SyncPodTimer, TypeOK, CacheType
  <2>2. exposing'[p] = IF rv[p] = 0 THEN exposing[p] + 1 ELSE exposing[p]
    BY <1>3 DEF SyncPodTimer, TypeOK, CacheType
  <2>3. /\ api(p)' = api(p) /\ lister(p)' = lister(p) /\ Unseen(p)' = Unseen(p)
        /\ (FirstLife(p)' <=> FirstLife(p))
    BY <1>1 DEF api, lister, Unseen, FirstLife
  <2>4. HistoryOf(p) /\ DeletionOf(p) /\ ExposingOf(p) /\ exposing[p] \in Nat
    BY DEF LifeOf, TypeOK, CacheType
  <2>5. HistoryOf(p)' /\ DeletionOf(p)'
    BY <1>1, <2>3, <2>4 DEF HistoryOf, DeletionOf
  <2>6. CASE rv[p] = 0
    <3>1. ~FirstLife(p) /\ \A i \in Unseen(p) : ~log[p][i].del
      BY <1>1, <1>3, <2>4, <2>6 DEF ExposingOf, NoneRead
    <3>2. Len(log[p]) = 1 => exposing[p] = 0
      BY <1>3, <2>4, SMT DEF ExposingOf
    <3>3. exposing'[p] > 0 /\ (Len(log[p]) = 1 => exposing'[p] <= 1)
      BY <2>2, <2>4, <2>6, <3>2, SMT
    <3>4. ExposingOf(p)'
      BY <1>1, <2>1, <2>3, <2>4, <3>1, <3>3 DEF ExposingOf, TimerStands
    <3> QED BY <2>5, <3>4 DEF LifeOf
  <2>7. CASE rv[p] # 0
    <3>1. api(p).st # "none"
      BY <1>1, <2>4, <2>7 DEF DeletionOf
    <3>2. ExposingOf(p)'
      BY <1>1, <2>1, <2>2, <2>3, <2>4, <2>7, <3>1 DEF ExposingOf, TimerStands
    <3> QED BY <2>5, <3>2 DEF LifeOf
  <2> QED BY <2>6, <2>7
<1> QED BY <1>2, <1>3

LEMMA LifeStepOf ==
  ASSUME GracefulOnce, TypeOK, ReadPending, NEW p \in Managed, LifeOf(p), PodStep(p)
  PROVE  LifeOf(p)'
<1> USE DEF queueVars, syncVars, rpcVars, envVars, apiVars
<1>1. p \in Pods /\ p \notin Plain /\ p \notin Forced /\ p \notin Failing
  BY PodAssumption DEF GracefulOnce, Pods
<1>2. /\ api(p) \in Version /\ Len(log[p]) \in Nat \ {0} /\ api(p).st # "failed"
  BY <1>1, VersionsHeld, SMT DEF TypeOK, LifeOf, HistoryOf, api
<1>3. CASE RequestDelete(p)
  <2> DEFINE v == [api(p) EXCEPT !.del = TRUE, !.by = "env"]
  <2>1. Write(p, v) /\ v \in Version /\ UNCHANGED <<seen, handled, exposing, readyTimers, pc, rv>>
    BY <1>1, <1>2, <1>3, WrittenVersions DEF RequestDelete, TypeOK
  <2>2. v.uid = api(p).uid /\ v.st = api(p).st /\ v.del
    BY <1>2 DEF Version
  <2>3. FirstLife(p) /\ v.st \in {"pending", "ready"}
    BY <1>2, <1>3, <2>2, BoundAssumption, SMT DEF RequestDelete, FirstLife, GracefulOnce, Version
  <2> HIDE DEF v
  <2>4. Updates(p, v)
    BY <2>1, <2>2, <2>3 DEF Updates, FirstLife
  <2> QED BY <1>1, <2>1, <2>4, LifeWrite
<1>4. CASE SyncPodMark(p) \/ SyncPodMarkLost(p)
  <2>1. /\ UNCHANGED <<seen, handled, exposing, readyTimers>> /\ pc[p] = "mark"
        /\ pc'[p] = "idle" \/ UNCHANGED <<log, pc, rv>>
    BY <1>1, <1>4 DEF SyncPodMark, SyncPodMarkLost, SyncDone, TypeOK, SyncType
  <2>2. CASE log' = log
    BY <1>1, <2>1, <2>2, LifeKept
  <2>3. CASE log' # log
    <3>1. PICK who \in {"kubelet", "lost"} :
            Accepts(p) /\ Write(p, [api(p) EXCEPT !.st = "ready", !.by = who])
      BY <1>4, <2>3 DEF SyncPodMark, SyncPodMarkLost, refStatus
    <3> DEFINE v == [api(p) EXCEPT !.st = "ready", !.by = who]
    <3>2. Write(p, v) /\ v \in Version /\ pc'[p] = "idle"
      BY <1>1, <2>1, <2>3, <3>1, WrittenVersions DEF TypeOK
    <3>3. api(p).st # "none"
      BY <1>1, <2>1, <3>1 DEF Accepts, ReadPending, api
    <3>4. v.uid = api(p).uid /\ v.st = "ready" /\ v.del = api(p).del
      BY <1>2 DEF Version
    <3> HIDE DEF v
    <3>5. Updates(p, v)
      BY <2>1, <3>2, <3>3, <3>4 DEF Updates
    <3> QED BY <1>1, <2>1, <3>2, <3>5, LifeWrite
  <2> QED BY <2>2, <2>3
<1>5. CASE SyncPodDelete(p)
  <2>1. /\ UNCHANGED <<seen, handled, exposing>> /\ readyTimers'[p].st = "none" /\ pc[p] = "delete"
        /\ pc'[p] = "idle"
    BY <1>1, <1>5 DEF SyncPodDelete, SyncDone, NoTimer, TypeOK, SyncType, CacheType
  <2>2. CASE api(p).st # "none"
    <3>1. Write(p, Removed(p, "kubelet")) /\ Removed(p, "kubelet") \in Version
      BY <1>1, <1>5, <2>2, WrittenVersions DEF SyncPodDelete, TypeOK
    <3>2. Removes(p, Removed(p, "kubelet"))
      BY <2>1, <2>2 DEF Removes, Removed
    <3> QED BY <1>1, <2>1, <3>1, <3>2, LifeWrite
  <2>3. CASE api(p).st = "none"
    <3>1. log' = log
      BY <1>5, <2>3 DEF SyncPodDelete
    <3>2. HistoryOf(p) /\ DeletionOf(p) /\ ExposingOf(p)
      BY DEF LifeOf
    <3>3. /\ api(p)' = api(p) /\ lister(p)' = lister(p) /\ Unseen(p)' = Unseen(p)
          /\ ~FirstLife(p) /\ ~FirstLife(p)'
      BY <2>1, <2>3, <3>1 DEF api, lister, Unseen, FirstLife
    <3>4. HistoryOf(p)' /\ DeletionOf(p)'
      BY <2>1, <3>1, <3>2, <3>3 DEF HistoryOf, DeletionOf
    <3>5. seen[p] > 1 /\ exposing[p] = 0
      BY <2>1, <3>2 DEF DeletionOf
    <3>6. seen[p] \in 2 .. Len(log[p]) /\ Len(log[p]) # 1
      <4>1. seen[p] \in Nat /\ seen[p] <= Len(log[p])
        BY <1>1 DEF TypeOK, LogType
      <4>2. \A a \in Nat, n \in Nat \ {0} : a > 1 /\ a <= n => a \in 2 .. n /\ n # 1
        BY SMT
      <4> QED BY <1>2, <3>5, <4>1, <4>2, Zenon
    <3>7. lister(p).st = "none" => \A i \in Unseen(p) : ~log[p][i].del
      BY <3>2, <3>6 DEF HistoryOf, lister, Unseen
    <3>8. NoneRead(p)' => lister(p).st = "none"
      BY <2>1, <3>3 DEF NoneRead
    <3>9. ~(exposing'[p] > 0)
      BY <2>1, <3>5, SMT
    <3>10. ExposingOf(p)'
      BY <2>1, <3>1, <3>3, <3>6, <3>7, <3>8, <3>9 DEF ExposingOf, TimerStands
    <3> QED BY <3>4, <3>10 DEF LifeOf
  <2> QED BY <2>2, <2>3
<1>6. CASE ExposeManagedPod(p)
  <2>1. UNCHANGED <<seen, handled, readyTimers, pc, rv>> /\ exposing[p] > 0 /\ exposing[p] \in Nat
    BY <1>1, <1>6 DEF ExposeManagedPod, TypeOK, CacheType
  <2>2. CASE exposing' = exposing
    <3>1. log' = log
      BY <1>1, <1>6, <2>1, <2>2, SMT DEF ExposeManagedPod, TypeOK, CacheType
    <3> QED BY <1>1, <2>1, <2>2, <3>1, LifeKept
  <2>3. CASE exposing' # exposing
    <3>1. exposing'[p] = exposing[p] - 1
      BY <1>1, <1>6, <2>3 DEF ExposeManagedPod, TypeOK, CacheType
    <3>2. CASE api(p).st = "none"
      <4>1. Write(p, Created(p, "kubelet")) /\ Created(p, "kubelet") \in Version
        BY <1>1, <1>6, <2>3, <3>2, WrittenVersions DEF ExposeManagedPod, TypeOK
      <4>2. Creates(p, Created(p, "kubelet"))
        BY <2>1, <3>1, <3>2 DEF Creates, Created
      <4> QED BY <1>1, <2>1, <4>1, <4>2, LifeWrite
    <3>3. CASE api(p).st # "none"
      <4>1. log' = log
        BY <1>6, <3>3 DEF ExposeManagedPod
      <4>2. HistoryOf(p) /\ DeletionOf(p) /\ ExposingOf(p)
        BY DEF LifeOf
      <4>3. /\ api(p)' = api(p) /\ lister(p)' = lister(p) /\ Unseen(p)' = Unseen(p)
            /\ (FirstLife(p)' <=> FirstLife(p)) /\ (NoneRead(p)' <=> NoneRead(p))
        BY <2>1, <4>1 DEF api, lister, Unseen, FirstLife, NoneRead
      <4>4. pc[p] # "delete" /\ ~FirstLife(p)
        <5>1. exposing[p] # 0
          BY <2>1, SMT
        <5> QED BY <2>1, <4>2, <5>1 DEF DeletionOf, ExposingOf
      <4>5. HistoryOf(p)' /\ DeletionOf(p)'
        BY <2>1, <4>1, <4>2, <4>3, <4>4 DEF HistoryOf, DeletionOf
      <4>6. exposing[p] > 0 /\ (exposing[p] <= 1 => exposing'[p] <= 1 /\ ~(exposing'[p] > 0))
        BY <2>1, <3>1, SMT
      <4>7. ExposingOf(p)'
        BY <2>1, <3>3, <4>1, <4>2, <4>3, <4>4, <4>6 DEF ExposingOf, TimerStands
      <4> QED BY <4>5, <4>7 DEF LifeOf
    <3> QED BY <3>2, <3>3
  <2> QED BY <2>2, <2>3
<1>7. CASE TimerElapses(p)
  <2>1. UNCHANGED <<log, seen, handled, exposing, pc, rv>> /\ readyTimers[p].st # "none" /\ readyTimers'[p].st # "none"
    BY <1>1, <1>7 DEF TimerElapses, TypeOK, CacheType
  <2> QED BY <1>1, <2>1, LifeKept
<1>8. CASE DelayedAdd(p) \/ handlePodEventFlush(p)
  <2>1. UNCHANGED <<log, seen, handled, exposing, pc, rv, readyTimers>>
    BY <1>8 DEF DelayedAdd, handlePodEventFlush
  <2> QED BY <1>1, <2>1, LifeKept
<1>9. CASE SyncPodInMem(p) \/ SyncPodError(p)
  <2>1. /\ UNCHANGED <<log, seen, handled, exposing, readyTimers>>
        /\ pc'[p] = "idle" \/ (pc[p] = "inmem" /\ pc'[p] = "timer" /\ rv'[p] = 0)
    BY <1>1, <1>9 DEF SyncPodInMem, SyncPodError, SyncDone, SyncContinue, TypeOK, SyncType
  <2> QED BY <1>1, <2>1, LifeKept
<1>10. CASE SyncPodDeleteLost(p)
  <2>1. /\ UNCHANGED <<seen, handled, exposing, readyTimers>> /\ pc[p] = "delete" /\ pc'[p] = "idle"
        /\ api(p).st # "none"
    BY <1>1, <1>10 DEF SyncPodDeleteLost, SyncDone, TypeOK, SyncType
  <2>2. Write(p, Removed(p, "lost")) /\ Removed(p, "lost") \in Version
    BY <1>1, <1>10, WrittenVersions DEF SyncPodDeleteLost, TypeOK
  <2>3. Removes(p, Removed(p, "lost"))
    BY <2>1 DEF Removes, Removed
  <2> QED BY <1>1, <2>1, <2>2, <2>3, LifeWrite
<1>11. ~(CreatePlain(p) \/ ForceDelete(p) \/ Fail(p) \/ ExposeManagedPodLost(p))
  BY <1>1 DEF CreatePlain, ForceDelete, Fail, ExposeManagedPodLost, MayLose, GracefulOnce
<1> QED BY <1>1, <1>3, <1>4, <1>5, <1>6, <1>7, <1>8, <1>9, <1>10, <1>11, LifeInformer, LifeHandler, LifeGet,
           LifeTimer DEF PodStep

LifeInv == \A p \in Managed : LifeOf(p)

LEMMA LifeStep ==
  ASSUME GracefulOnce, TypeOK, ReadPending, LifeInv, [Next]_vars
  PROVE  LifeInv'
<1> SUFFICES ASSUME NEW q \in Managed PROVE LifeOf(q)'
  BY DEF LifeInv
<1>1. q \in Pods /\ LifeOf(q)
  BY DEF Pods, LifeInv
<1>2. CASE PodStep(q)
  BY <1>1, <1>2, LifeStepOf
<1>3. ASSUME /\ log'[q] = log[q] /\ seen'[q] = seen[q] /\ exposing'[q] = exposing[q] /\ pc'[q] = pc[q]
             /\ rv'[q] = rv[q] /\ readyTimers'[q] = readyTimers[q] /\ handled'[q] = handled[q]
      PROVE  LifeOf(q)'
  <2>1. /\ api(q)' = api(q) /\ lister(q)' = lister(q) /\ Unseen(q)' = Unseen(q)
        /\ (FirstLife(q)' <=> FirstLife(q)) /\ (NoneRead(q)' <=> NoneRead(q))
    <3>1. api(q)' = api(q)
      BY <1>3 DEF api
    <3>2. lister(q)' = lister(q) /\ Unseen(q)' = Unseen(q)
      BY <1>3 DEF lister, Unseen
    <3>3. FirstLife(q)' <=> FirstLife(q)
      BY <3>1, SMT DEF FirstLife
    <3>4. NoneRead(q)' <=> NoneRead(q)
      BY <1>3 DEF NoneRead, lister
    <3> QED BY <3>1, <3>2, <3>3, <3>4
  <2>2. HistoryOf(q)'
    BY <1>1, <1>3, <2>1 DEF LifeOf, HistoryOf
  <2>3. DeletionOf(q)'
    BY <1>1, <1>3, <2>1 DEF LifeOf, DeletionOf
  <2>4. ExposingOf(q)'
    BY <1>1, <1>3, <2>1 DEF LifeOf, ExposingOf, TimerStands
  <2> QED BY <2>2, <2>3, <2>4 DEF LifeOf
<1>4. ASSUME NEW p \in Pods \ {q}, PodStep(p)
      PROVE  LifeOf(q)'
  BY <1>1, <1>3, <1>4, PodStepFrame, SyncFrame, ZenonT(30)
<1>5. CASE ~\E p \in Pods : PodStep(p)
  BY <1>3, <1>5, OtherFrame
<1> QED BY <1>2, <1>4, <1>5

LEMMA LifeAlways ==
  ASSUME GracefulOnce
  PROVE  Spec => []LifeInv
<1>1. ASSUME Init, NEW p \in Managed
      PROVE  LifeOf(p)
  <2>1. p \in Pods
    BY DEF Pods
  <2>2. /\ log[p] = <<NoPod>> /\ seen[p] = 1 /\ exposing[p] = 0 /\ pc[p] = "idle" /\ rv[p] = 0
        /\ readyTimers[p] = NoTimer
    BY <1>1, <2>1 DEF Init
  <2>3. Len(log[p]) = 1 /\ log[p][1] = NoPod /\ api(p) = NoPod /\ lister(p) = NoPod /\ Unseen(p) = {1}
    <3>1. Len(log[p]) = 1 /\ log[p][1] = NoPod
      <4>1. \A x : Len(<<x>>) = 1 /\ <<x>>[1] = x
        BY SMT
      <4> QED BY <2>2, <4>1
    <3>2. 1 .. 1 = {1}
      BY SMT
    <3>3. api(p) = NoPod /\ lister(p) = NoPod
      BY <2>2, <3>1 DEF api, lister
    <3> QED BY <2>2, <3>1, <3>2, <3>3 DEF Unseen
  <2>4. NoPod.st = "none" /\ ~NoPod.del /\ NoTimer.st = "none"
    BY DEF NoPod, NoTimer
  <2>5. 1 .. 1 = {1} /\ 2 .. 1 = {} /\ ~(1 > 1) /\ ~(0 > 0) /\ 0 <= 1
    BY SMT
  <2>6. HistoryOf(p)
    BY <2>3, <2>4, <2>5 DEF HistoryOf, FirstLife
  <2>7. DeletionOf(p)
    BY <2>2, <2>3, <2>4 DEF DeletionOf
  <2>8. ExposingOf(p)
    BY <2>2, <2>3, <2>4, <2>5 DEF ExposingOf, TimerStands, FirstLife
  <2> QED BY <2>6, <2>7, <2>8 DEF LifeOf
<1>2. Init => LifeInv
  BY <1>1 DEF LifeInv
<1>3. TypeOK /\ ReadPending /\ LifeInv /\ [Next]_vars => LifeInv'
  BY LifeStep
<1> QED BY TypeCorrect, ReadPendingAlways, <1>2, <1>3, PTL DEF Spec

\* Where the stale delete cannot happen: if all pods are kd-managed, deletions are
\* requested of first objects only and every Create that takes effect is answered, SyncPod removes no object whose deletion was not
\* requested, although it deletes by name and may have read an old version.
THEOREM DeletedOnRequest ==
  ASSUME GracefulOnce, Plain = {}
  PROVE  Spec => []DeleteOnlyRequested
<1>1. Init => DeleteOnlyRequested
  BY SMT DEF Init, DeleteOnlyRequested
<1>2. ASSUME TypeOK, ReadPending, LifeInv, DeleteOnlyRequested, [Next]_vars
      PROVE  DeleteOnlyRequested'
  <2>1. CASE log' = log
    BY <1>2, <2>1 DEF DeleteOnlyRequested
  <2>2. ASSUME NEW p \in Pods, NEW v \in Version, Write(p, v), Follows(p, v)
        PROVE  DeleteOnlyRequested'
    <3> DEFINE n == Len(log[p])
    <3>1. \A q \in Pods \ {p} : log'[q] = log[q]
      BY <1>2, <2>2, WriteLog DEF TypeOK
    <3>2. /\ n \in Nat \ {0} /\ Len(log'[p]) = n + 1 /\ log'[p][n + 1] = v /\ log'[p][n] = api(p)
          /\ \A i \in 1 .. n : log'[p][i] = log[p][i]
      BY <1>2, <2>2, WriteIndices
    <3>3. v.st = "none" /\ v.by # "env" => api(p).del
      <4>1. p \in Managed /\ n \in Unseen(p) /\ api(p) = log[p][n]
        BY <1>2, <3>2, SMT DEF Pods, Unseen, TypeOK, LogType, api
      <4>2. DeletionOf(p)
        BY <1>2, <4>1 DEF LifeInv, LifeOf
      <4> QED BY <2>2, <4>1, <4>2 DEF Follows, DeletionOf
    <3> HIDE DEF n
    <3>4. ASSUME NEW i \in 2 .. Len(log'[p]), log'[p][i].st = "none", log'[p][i].by # "env"
          PROVE  log'[p][i - 1].del
      <4>1. CASE i = n + 1
        <5>1. i - 1 = n
          BY <3>2, <4>1, SMT
        <5> QED BY <3>2, <3>3, <3>4, <4>1, <5>1
      <4>2. CASE i # n + 1
        <5>1. i \in 2 .. n /\ i \in 1 .. n /\ i - 1 \in 1 .. n
          BY <3>2, <4>2, SMT
        <5> QED BY <1>2, <3>2, <3>4, <5>1 DEF DeleteOnlyRequested, n
      <4> QED BY <4>1, <4>2
    <3> QED BY <1>2, <3>1, <3>4 DEF DeleteOnlyRequested
  <2>3. CASE \E p \in Pods : PodStep(p)
    BY <1>2, <2>1, <2>2, <2>3, Written
  <2> QED BY <1>2, <2>1, <2>3, OtherFrame
<1> QED BY TypeCorrect, ReadPendingAlways, LifeAlways, <1>1, <1>2, PTL DEF Spec

-----------------------------------------------------------------------------
\* Bound pods.

\* The handler handles one event at a time, and BindPod inserts pods of a listed template.
BindInv ==
  /\ \A q \in flushing : flushing = {q}
  /\ template = "unknown" =>
       /\ \A p \in Managed : inMemCache[p] = 0
       /\ \A c \in Calls : call[c].pc \notin {"locked", "inserted"}

\* The next sync of p is due whatever the worker that holds p does.
Due(p) ==
  \/ p \in dirty \cup delayed \cup flushing \/ handled[p] < Len(log[p])
  \/ \E c \in Calls : call[c].pc = "inserted" /\ call[c].pod = p

\* An in-mem pod that is not exposed has work pending, also after the forced delete of
\* an object that is gone already.
BoundOf(p) ==
  /\ inMemCache[p] # 0 /\ template = "listed" /\ NodeOf[p] \in Delegated \cup {thisNode} =>
       WorkPending(p) \/ api(p).st # "none"
  /\ pc[p] = "delete" /\ inMemCache[p] # 0 => Due(p) \/ api(p).st # "none"

BoundInv == BindInv /\ \A p \in Managed : BoundOf(p)

LEMMA BindStep ==
  ASSUME TypeOK, BindInv, [Next]_vars
  PROVE  BindInv'
<1> USE DEF queueVars, syncVars, rpcVars, envVars, apiVars
<1>1. ASSUME NEW p \in Pods, PodStep(p)
      PROVE  BindInv'
  <2>1. UNCHANGED <<template, call>> /\ \A q \in Pods \ {p} : inMemCache'[q] = inMemCache[q]
    BY <1>1, PodStepFrame, SyncFrame
  <2>2. flushing' = flushing \/ flushing' \subseteq {p}
    BY <1>1 DEF PodStep, CreatePlain, RequestDelete, ForceDelete, Fail, Informer, TimerElapses,
       DelayedAdd, handlePodEvent, handlePodEventFlush, SyncPodGet, SyncPodInMem, SyncPodTimer,
       SyncPodMark, refStatus, SyncPodDelete, SyncPodError, SyncPodMarkLost, SyncPodDeleteLost,
       ExposeManagedPod, ExposeManagedPodLost
  <2>3. inMemCache' = inMemCache \/ inMemCache' = [inMemCache EXCEPT ![p] = 0]
    BY <1>1 DEF PodStep, CreatePlain, RequestDelete, ForceDelete, Fail, Informer, TimerElapses,
       DelayedAdd, handlePodEvent, handlePodEventFlush, SyncPodGet, SyncPodInMem, SyncPodTimer,
       SyncPodMark, refStatus, SyncPodDelete, SyncPodError, SyncPodMarkLost, SyncPodDeleteLost,
       ExposeManagedPod, ExposeManagedPodLost
  <2>4. \A q \in Managed : inMemCache[q] = 0 => inMemCache'[q] = 0
    BY <2>3 DEF TypeOK, CacheType, Pods
  <2>5. \A q \in flushing' : flushing' = {q}
    BY <2>2 DEF BindInv
  <2> QED BY <2>1, <2>4, <2>5 DEF BindInv
<1>2. ASSUME NEW c \in Calls, CallStep(c)
      PROVE  BindInv'
  <2>1. UNCHANGED <<template, flushing>>
    BY <1>2 DEF CallStep, SendBindPod, BindPodRLock, BindPodInsert, BindPodEnqueue
  <2>2. ASSUME template = "unknown"
        PROVE  inMemCache' = inMemCache /\ \A d \in Calls : call'[d].pc \notin {"locked", "inserted"}
    <3>1. \A d \in Calls : call[d].pc \notin {"locked", "inserted"}
      BY <2>2 DEF BindInv
    <3>2. SendBindPod(c) \/ BindPodRLock(c)
      BY <1>2, <3>1 DEF CallStep, BindPodInsert, BindPodEnqueue
    <3> QED BY <2>2, <3>1, <3>2, ZenonT(30) DEF SendBindPod, BindPodRLock, TypeOK, RpcType
  <2> QED BY <2>1, <2>2 DEF BindInv
<1>3. ASSUME NEW n \in Nodes, NodeStep(n)
      PROVE  BindInv'
  <2>1. UNCHANGED <<template, flushing, call, inMemCache>>
    BY <1>3 DEF NodeStep, NodeListed, AddrListed, NodeDeleted, HandshakeClient, HandshakeLock
  <2> QED BY <2>1 DEF BindInv
<1>4. CASE TemplateListed \/ TemplateDeleted \/ UNCHANGED vars
  <2>1. UNCHANGED <<flushing, call, inMemCache>> /\ (template' = "unknown" => template = "unknown")
    BY <1>4 DEF TemplateListed, TemplateDeleted, vars
  <2> QED BY <2>1 DEF BindInv
<1> QED BY <1>1, <1>2, <1>3, <1>4 DEF Next

\* The steps for p itself.
LEMMA BoundStepOf ==
  ASSUME GracefulOnce, AddrServed(Managed), TypeOK, ReadPending, BareInv, NEW p \in Managed, BoundOf(p), LifeOf(p)',
         PodStep(p)
  PROVE  BoundOf(p)'
<1> USE DEF queueVars, syncVars, rpcVars, envVars, apiVars
<1>1. p \in Pods /\ p \notin Plain /\ p \notin Forced /\ p \notin Failing
  BY PodAssumption DEF GracefulOnce, Pods
<1>2. /\ Len(log[p]) \in Nat \ {0} /\ handled[p] \in Nat /\ seen[p] \in Nat
      /\ handled[p] <= seen[p] /\ seen[p] <= Len(log[p])
  BY <1>1, VersionsHeld, SMT DEF TypeOK, LogType
<1>3. UNCHANGED <<call, template>>
  BY <1>1, PodStepFrame, SyncFrame
<1>4. ASSUME Due(p)'
      PROVE  BoundOf(p)'
  BY <1>4 DEF BoundOf, Due, WorkPending
<1>5. ASSUME api(p)'.st # "none"
      PROVE  BoundOf(p)'
  BY <1>5 DEF BoundOf
<1>6. ASSUME NEW v \in Version, Write(p, v), handled' = handled
      PROVE  BoundOf(p)'
  <2>1. Len(log'[p]) = Len(log[p]) + 1
    BY <1>1, <1>6, WriteLog DEF TypeOK
  <2>2. handled'[p] < Len(log'[p])
    BY <1>2, <1>6, <2>1, SMT
  <2> QED BY <1>4, <2>2 DEF Due
<1>7. CASE RequestDelete(p)
  <2>1. handled' = handled
    BY <1>7 DEF RequestDelete
  <2>2. \E v \in Version : Write(p, v)
    BY <1>1, <1>7, WrittenVersions DEF RequestDelete, TypeOK
  <2> QED BY <1>6, <2>1, <2>2
<1>8. CASE Informer(p) \/ TimerElapses(p)
  <2>1. UNCHANGED <<log, handled, flushing, inMemCache, dirty, delayed, pc, exposing>>
    BY <1>8 DEF Informer, TimerElapses
  <2> QED BY <1>3, <2>1 DEF BoundOf, WorkPending, Due, api
<1>9. CASE DelayedAdd(p) \/ handlePodEvent(p)
  <2>1. p \in dirty' \/ p \in flushing'
    BY <1>9 DEF DelayedAdd, handlePodEvent
  <2> QED BY <1>4, <2>1 DEF Due
<1>10. CASE handlePodEventFlush(p)
  <2>1. inMemCache'[p] = 0
    BY <1>1, <1>10 DEF handlePodEventFlush, TypeOK, CacheType
  <2> QED BY <2>1 DEF BoundOf
<1>11. ASSUME p \in delayed'
       PROVE  BoundOf(p)'
  BY <1>4, <1>11 DEF Due
<1>12. CASE SyncPodGet(p)
  <2>1. UNCHANGED <<log, handled>>
    BY <1>12 DEF SyncPodGet
  <2>2. CASE lister(p).st # "none"
    <3>1. handled[p] < Len(log[p]) \/ lister(p) = api(p)
      BY <1>2, SMT DEF lister, api
    <3>2. CASE handled[p] < Len(log[p])
      BY <1>4, <2>1, <3>2 DEF Due
    <3>3. CASE lister(p) = api(p)
      BY <1>5, <2>1, <2>2, <3>3 DEF api
    <3> QED BY <3>1, <3>2, <3>3
  <2>3. CASE lister(p).st = "none"
    <3>1. pc'[p] = "inmem"
      BY <1>1, <1>12, <2>3 DEF SyncPodGet, SyncContinue, TypeOK, SyncType
    <3> QED BY <3>1 DEF BoundOf, WorkPending
  <2> QED BY <2>2, <2>3
<1>13. CASE SyncPodInMem(p)
  <2>1. inMemCache' = inMemCache /\ pc'[p] # "delete"
    BY <1>1, <1>13 DEF SyncPodInMem, SyncDone, SyncContinue, TypeOK, SyncType
  <2>2. CASE inMemCache[p] # 0 /\ template = "listed" /\ NodeOf[p] \in Delegated \cup {thisNode}
    <3>1. isResponsibleFor(p) # "no"
      BY <1>1, <2>2, ServedNotRefused
    <3>2. p \in delayed' \/ pc'[p] = "timer"
      BY <1>1, <1>13, <2>2, <3>1 DEF SyncPodInMem, SyncDone, SyncContinue, TypeOK, SyncType
    <3> QED BY <1>11, <2>1, <3>2 DEF BoundOf, WorkPending
  <2> QED BY <1>3, <2>1, <2>2 DEF BoundOf
<1>14. CASE SyncPodTimer(p)
  <2>1. pc'[p] = "idle" \/ pc'[p] = "mark"
    BY <1>1, <1>14 DEF SyncPodTimer, SyncDone, SyncContinue, TypeOK, SyncType
  <2>2. readyTimers'[p].st # "none"
    BY <1>1, <1>14 DEF SyncPodTimer, TypeOK, CacheType
  <2>3. exposing'[p] > 0 \/ api(p)'.st # "none" \/ Due(p)'
    BY <2>2 DEF LifeOf, ExposingOf, TimerStands, Due
  <2> QED BY <1>4, <1>5, <2>1, <2>3 DEF BoundOf, WorkPending
<1>15. CASE SyncPodMark(p)
  <2>1. CASE NodeOf[p] \notin clientPool
    <3>1. pc'[p] = "mark"
      BY <1>15, <2>1 DEF SyncPodMark
    <3> QED BY <3>1 DEF BoundOf, WorkPending
  <2>2. CASE NodeOf[p] \in clientPool /\ Accepts(p)
    <3>1. handled' = handled /\ \E v \in Version : Write(p, v)
      BY <1>1, <1>15, <2>2, WrittenVersions DEF SyncPodMark, refStatus, TypeOK
    <3> QED BY <1>6, <3>1
  <2>3. CASE NodeOf[p] \in clientPool /\ ~Accepts(p)
    BY <1>11, <1>15, <2>3 DEF SyncPodMark, SyncDone
  <2> QED BY <2>1, <2>2, <2>3
<1>16. CASE SyncPodError(p) \/ SyncPodMarkLost(p) \/ SyncPodDeleteLost(p)
  BY <1>11, <1>16 DEF SyncPodError, SyncPodMarkLost, SyncPodDeleteLost, SyncDone
<1>17. CASE SyncPodDelete(p)
  <2>1. UNCHANGED <<handled, flushing, inMemCache, dirty>> /\ pc[p] = "delete" /\ pc'[p] = "idle"
        /\ delayed' = delayed
    BY <1>1, <1>17 DEF SyncPodDelete, SyncDone, TypeOK, SyncType
  <2>2. CASE api(p).st # "none"
    <3>1. \E v \in Version : Write(p, v)
      BY <1>1, <1>17, <2>2, WrittenVersions DEF SyncPodDelete, TypeOK
    <3> QED BY <1>6, <2>1, <3>1
  <2>3. CASE api(p).st = "none"
    <3>1. log' = log
      BY <1>17, <2>3 DEF SyncPodDelete
    <3>2. inMemCache[p] # 0 => Due(p)
      BY <2>1, <2>3 DEF BoundOf
    <3>3. Due(p) => Due(p)'
      BY <1>3, <2>1, <3>1 DEF Due
    <3>4. CASE inMemCache'[p] = 0
      BY <3>4 DEF BoundOf
    <3> QED BY <1>4, <2>1, <3>2, <3>3, <3>4
  <2> QED BY <2>2, <2>3
<1>18. CASE ExposeManagedPod(p)
  <2>1. CASE NodeOf[p] \notin clientPool
    <3>1. UNCHANGED <<log, handled, flushing, inMemCache, dirty, delayed, pc, exposing>>
      BY <1>18, <2>1 DEF ExposeManagedPod
    <3> QED BY <1>3, <3>1 DEF BoundOf, WorkPending, Due, api
  <2>2. CASE NodeOf[p] \in clientPool /\ api(p).st = "none"
    <3>1. handled' = handled /\ \E v \in Version : Write(p, v)
      BY <1>1, <1>18, <2>2, WrittenVersions DEF ExposeManagedPod, TypeOK
    <3> QED BY <1>6, <3>1
  <2>3. CASE NodeOf[p] \in clientPool /\ api(p).st # "none"
    <3>1. log' = log
      BY <1>18, <2>3 DEF ExposeManagedPod
    <3> QED BY <1>5, <2>3, <3>1 DEF api
  <2> QED BY <2>1, <2>2, <2>3
<1>19. ~(CreatePlain(p) \/ ForceDelete(p) \/ Fail(p) \/ ExposeManagedPodLost(p))
  BY <1>1 DEF CreatePlain, ForceDelete, Fail, ExposeManagedPodLost, MayLose, GracefulOnce
<1> QED BY <1>7, <1>8, <1>9, <1>10, <1>12, <1>13, <1>14, <1>15, <1>16, <1>17, <1>18, <1>19 DEF PodStep

\* Everybody else's steps.
LEMMA BoundOther ==
  ASSUME TypeOK, BindInv, NEW p \in Managed, BoundOf(p), [Next]_vars, ~PodStep(p)
  PROVE  BoundOf(p)'
<1> USE DEF queueVars, syncVars, rpcVars, envVars, apiVars
<1>1. p \in Pods
  BY DEF Pods
<1>2. ASSUME UNCHANGED <<call, template>>, log'[p] = log[p], handled'[p] = handled[p],
             inMemCache'[p] = inMemCache[p], pc'[p] = pc[p], exposing'[p] = exposing[p],
             p \in dirty => p \in dirty', p \in delayed => p \in delayed', p \in flushing => p \in flushing'
      PROVE  BoundOf(p)'
  <2>1. (Due(p) => Due(p)') /\ (WorkPending(p) => WorkPending(p)') /\ api(p)' = api(p)
    BY <1>2 DEF Due, WorkPending, api
  <2> QED BY <1>2, <2>1 DEF BoundOf
<1>3. ASSUME NEW q \in Pods, PodStep(q)
      PROVE  BoundOf(p)'
  <2>1. q # p
    BY <1>3
  <2>2. p \in flushing => p \in flushing'
    <3>1. CASE p \in flushing
      <4>1. flushing = {p} /\ ~handlePodEvent(q) /\ ~handlePodEventFlush(q)
        BY <2>1, <3>1 DEF BindInv, handlePodEvent, handlePodEventFlush
      <4>2. flushing' = flushing
        BY <1>3, <4>1 DEF PodStep, CreatePlain, RequestDelete, ForceDelete, Fail, Informer, TimerElapses,
           DelayedAdd, SyncPodGet, SyncPodInMem, SyncPodTimer, SyncPodMark, refStatus, SyncPodDelete,
           SyncPodError, SyncPodMarkLost, SyncPodDeleteLost, ExposeManagedPod, ExposeManagedPodLost
      <4> QED BY <3>1, <4>2
    <3> QED BY <3>1
  <2> QED BY <1>1, <1>2, <1>3, <2>1, <2>2, PodStepFrame, SyncFrame
<1>4. CASE ~\E q \in Pods : PodStep(q)
  <2>1. UNCHANGED <<log, handled, flushing, delayed, pc, exposing>>
    BY <1>4, OtherFrame
  <2>2. api(p)' = api(p)
    BY <2>1 DEF api
  <2>3. ASSUME NEW c \in Calls, CallStep(c)
        PROVE  BoundOf(p)'
    <3>1. template' = template
      BY <2>3 DEF CallStep, SendBindPod, BindPodRLock, BindPodInsert, BindPodEnqueue
    <3>2. dirty \subseteq dirty'
      BY <2>3 DEF CallStep, SendBindPod, BindPodRLock, BindPodInsert, BindPodEnqueue
    <3>3. inMemCache'[p] # 0 => inMemCache[p] # 0 \/ Due(p)'
      <4>1. CASE BindPodInsert(c)
        <5>1. CASE inMemCache' = inMemCache
          BY <5>1
        <5>2. CASE inMemCache[call[c].pod] = 0 /\ call[c].pod # p
          BY <1>1, <4>1, <5>2 DEF BindPodInsert, TypeOK, CacheType
        <5>3. CASE inMemCache[call[c].pod] = 0 /\ call[c].pod = p
          <6>1. call'[c].pc = "inserted" /\ call'[c].pod = p
            BY <4>1, <5>3 DEF BindPodInsert, TypeOK, RpcType
          <6> QED BY <6>1 DEF Due
        <5> QED BY <4>1, <5>1, <5>2, <5>3 DEF BindPodInsert
      <4>2. CASE ~BindPodInsert(c)
        BY <2>3, <4>2 DEF CallStep, SendBindPod, BindPodRLock, BindPodEnqueue
      <4> QED BY <4>1, <4>2
    <3>4. ASSUME NEW d \in Calls, call[d].pc = "inserted", call[d].pod = p
          PROVE  Due(p)'
      <4>1. CASE BindPodEnqueue(c) /\ c = d
        <5>1. p \in dirty'
          BY <3>4, <4>1 DEF BindPodEnqueue
        <5> QED BY <5>1 DEF Due
      <4>2. CASE ~(BindPodEnqueue(c) /\ c = d)
        <5>1. call'[d].pc = "inserted" /\ call'[d].pod = p
          BY <2>3, <3>4, <4>2 DEF CallStep, SendBindPod, BindPodRLock, BindPodInsert, BindPodEnqueue,
             TypeOK, RpcType
        <5> QED BY <5>1 DEF Due
      <4> QED BY <4>1, <4>2
    <3>5. Due(p) => Due(p)'
      BY <2>1, <3>2, <3>4 DEF Due
    <3>6. WorkPending(p) => WorkPending(p)'
      <4>1. WorkPending(p) <=> Due(p) \/ pc[p] # "idle" \/ exposing[p] > 0
        BY DEF WorkPending, Due
      <4>2. WorkPending(p)' <=> Due(p)' \/ pc'[p] # "idle" \/ exposing'[p] > 0
        BY DEF WorkPending, Due
      <4> QED BY <2>1, <3>5, <4>1, <4>2
    <3>7. Due(p)' => WorkPending(p)'
      BY DEF WorkPending, Due
    <3> QED BY <2>1, <2>2, <3>1, <3>3, <3>5, <3>6, <3>7 DEF BoundOf
  <2>4. ASSUME NEW n \in Nodes, NodeStep(n)
        PROVE  BoundOf(p)'
    <3>1. UNCHANGED <<call, template, inMemCache, dirty>>
      BY <2>4 DEF NodeStep, NodeListed, AddrListed, NodeDeleted, HandshakeClient, HandshakeLock
    <3> QED BY <1>2, <2>1, <3>1
  <2>5. CASE TemplateListed
    <3>1. UNCHANGED <<call, inMemCache, dirty>> /\ inMemCache[p] = 0
      BY <2>5 DEF TemplateListed, BindInv
    <3> QED BY <3>1 DEF BoundOf
  <2>6. CASE TemplateDeleted
    <3>1. UNCHANGED <<call, inMemCache, dirty>> /\ template' = "deleted"
      BY <2>6 DEF TemplateDeleted
    <3>2. Due(p) => Due(p)'
      BY <2>1, <3>1 DEF Due
    <3> QED BY <2>1, <2>2, <3>1, <3>2 DEF BoundOf
  <2>7. CASE UNCHANGED vars
    BY <1>2, <2>7 DEF vars
  <2> QED BY <1>4, <2>3, <2>4, <2>5, <2>6, <2>7 DEF Next
<1> QED BY <1>3, <1>4

\* BoundPodNotForgotten for pods that are created by answered requests and removed with
\* grace, on nodes that are listed with their addresses, whichever status writes and
\* deletes take effect and return an error: the object that the informer waits for is still
\* to be created whenever SyncPod drops an in-mem pod, and the pod is due again whenever
\* its forced delete finds nothing to delete.
THEOREM BoundKept ==
  ASSUME GracefulOnce, AddrServed(Managed)
  PROVE  Spec => []BoundPodNotForgotten
<1>1. Init => BoundInv /\ BareInv
  BY SMT DEF Init, ListedAs, BoundInv, BindInv, BoundOf, BareInv, Pods
<1>2. TypeOK /\ ReadPending /\ BareInv /\ BoundInv /\ LifeInv' /\ [Next]_vars => BoundInv'
  <2> SUFFICES ASSUME TypeOK, ReadPending, BareInv, BoundInv, LifeInv', [Next]_vars
               PROVE  BoundInv'
    OBVIOUS
  <2>1. BindInv'
    BY BindStep DEF BoundInv
  <2>2. ASSUME NEW p \in Managed
        PROVE  BoundOf(p)'
    <3>1. BindInv /\ BoundOf(p) /\ LifeOf(p)'
      BY DEF BoundInv, LifeInv
    <3> QED BY <3>1, BoundStepOf, BoundOther
  <2> QED BY <2>1, <2>2 DEF BoundInv
<1>3. TypeOK /\ BareInv /\ [Next]_vars => BareInv'
  BY BareStep
<1>4. BoundInv => BoundPodNotForgotten
  BY DEF BoundInv, BoundOf, BoundPodNotForgotten
<1> QED BY TypeCorrect, ReadPendingAlways, LifeAlways, <1>1, <1>2, <1>3, <1>4, PTL DEF Spec

-----------------------------------------------------------------------------
\* The refinement of PodLifecycle.

\* SyncPod takes for an in-mem pod, and exposes, only pods that were bound.
OnlyBound ==
  \A p \in Managed :
    inMemCache[p] # 0 \/ exposing[p] > 0 \/ (pc[p] = "timer" /\ rv[p] = 0) => p \in BoundPods

Objects == [p \in Managed |-> Visible(api(p))]

LEMMA CallBinds ==
  ASSUME TypeOK, OnlyBound, NEW c \in Calls, CallStep(c)
  PROVE  /\ UNCHANGED <<log, pc, rv, exposing>>
         /\ BoundPods' = BoundPods \/ BoundPods' = BoundPods \cup {call[c].pod}
         /\ \A p \in Managed : inMemCache'[p] # 0 => inMemCache[p] # 0 \/ p \in BoundPods'
<1> USE DEF queueVars, syncVars, rpcVars, envVars, apiVars
<1>1. UNCHANGED <<log, pc, rv, exposing>>
  BY DEF CallStep, SendBindPod, BindPodRLock, BindPodInsert, BindPodEnqueue
<1>2. /\ call[c].pod \in Managed /\ call'[c].pod = call[c].pod
      /\ \A d \in Calls \ {c} : call'[d] = call[d]
  BY ZenonT(30) DEF TypeOK, RpcType, CallStep, SendBindPod, BindPodRLock, BindPodInsert, BindPodEnqueue
<1>3. CASE BindPodInsert(c)
  <2>1. call'[c].pc \in {"inserted", "done"} /\ call[c].pc = "locked"
    BY <1>3, ZenonT(30) DEF BindPodInsert, TypeOK, RpcType
  <2>2. BoundPods' = BoundPods \cup {call[c].pod}
    BY <1>2, <2>1 DEF BoundPods
  <2>3. \A p \in Managed : inMemCache'[p] # 0 => inMemCache[p] # 0 \/ p = call[c].pod
    BY <1>3 DEF BindPodInsert, TypeOK, CacheType, Pods
  <2> QED BY <1>1, <2>2, <2>3
<1>4. CASE BindPodEnqueue(c)
  <2>1. call'[c].pc = "done" /\ call[c].pc = "inserted" /\ inMemCache' = inMemCache
    BY <1>4 DEF BindPodEnqueue, TypeOK, RpcType
  <2>2. BoundPods' = BoundPods
    BY <1>2, <2>1 DEF BoundPods
  <2> QED BY <1>1, <2>1, <2>2
<1>5. CASE SendBindPod(c) \/ BindPodRLock(c)
  <2>1. /\ call'[c].pc \notin {"inserted", "done"} /\ call[c].pc \notin {"inserted", "done"}
        /\ inMemCache' = inMemCache
    BY <1>5, SMT DEF SendBindPod, BindPodRLock, TypeOK, RpcType
  <2>2. BoundPods' = BoundPods
    BY <1>2, <2>1 DEF BoundPods
  <2> QED BY <1>1, <2>1, <2>2
<1> QED BY <1>3, <1>4, <1>5 DEF CallStep

LEMMA OnlyBoundStep ==
  ASSUME TypeOK, OnlyBound, [Next]_vars
  PROVE  OnlyBound'
<1> USE DEF queueVars, syncVars, rpcVars, envVars, apiVars
<1>1. ASSUME NEW q \in Pods, PodStep(q)
      PROVE  OnlyBound'
  <2>1. BoundPods' = BoundPods
    BY <1>1, PodStepFrame DEF BoundPods
  <2>2. ASSUME NEW p \in Managed, p # q, \/ inMemCache'[p] # 0 \/ exposing'[p] > 0
                                         \/ (pc'[p] = "timer" /\ rv'[p] = 0)
        PROVE  p \in BoundPods
    <3>1. p \in Pods
      BY DEF Pods
    <3>2. /\ inMemCache'[p] = inMemCache[p] /\ exposing'[p] = exposing[p]
          /\ pc'[p] = pc[p] /\ rv'[p] = rv[p]
      BY <1>1, <2>2, <3>1, PodStepFrame, SyncFrame
    <3> QED BY <2>2, <3>2 DEF OnlyBound
  <2>3. ASSUME q \in Managed, \/ inMemCache'[q] # 0 \/ exposing'[q] > 0
                              \/ (pc'[q] = "timer" /\ rv'[q] = 0)
        PROVE  q \in BoundPods
    <3>1. seen[q] # 0 /\ exposing[q] \in Nat
      BY <1>1, SMT DEF TypeOK, LogType, CacheType
    <3>2. CASE SyncPodGet(q)
      BY <1>1, <2>3, <3>1, <3>2 DEF SyncPodGet, SyncDone, SyncContinue, OnlyBound, TypeOK, SyncType
    <3>3. CASE SyncPodInMem(q)
      BY <1>1, <2>3, <3>3 DEF SyncPodInMem, SyncDone, SyncContinue, OnlyBound, TypeOK, SyncType
    <3>4. CASE SyncPodTimer(q)
      <4>1. inMemCache' = inMemCache /\ pc[q] = "timer" /\ pc'[q] # "timer"
        BY <1>1, <3>4 DEF SyncPodTimer, SyncDone, SyncContinue, TypeOK, SyncType
      <4>2. rv[q] # 0 => exposing' = exposing
        BY <3>4 DEF SyncPodTimer
      <4> QED BY <2>3, <4>1, <4>2 DEF OnlyBound
    <3>5. CASE \/ SyncPodMark(q) \/ SyncPodDelete(q) \/ SyncPodError(q)
               \/ SyncPodMarkLost(q) \/ SyncPodDeleteLost(q)
      <4>1. inMemCache' = inMemCache /\ exposing' = exposing /\ pc'[q] # "timer"
        BY <1>1, <3>5 DEF SyncPodMark, SyncPodDelete, SyncPodError, SyncPodMarkLost, SyncPodDeleteLost,
           SyncDone, TypeOK, SyncType
      <4> QED BY <2>3, <4>1 DEF OnlyBound
    <3>6. CASE ExposeManagedPod(q) \/ ExposeManagedPodLost(q)
      <4>1. inMemCache' = inMemCache /\ pc' = pc /\ rv' = rv /\ exposing[q] > 0
        BY <3>6 DEF ExposeManagedPod, ExposeManagedPodLost
      <4> QED BY <2>3, <4>1 DEF OnlyBound
    <3>7. CASE handlePodEventFlush(q)
      <4>1. exposing' = exposing /\ pc' = pc /\ rv' = rv /\ inMemCache'[q] = 0
        BY <1>1, <3>7 DEF handlePodEventFlush, TypeOK, CacheType
      <4> QED BY <2>3, <4>1 DEF OnlyBound
    <3>8. CASE \/ CreatePlain(q) \/ RequestDelete(q) \/ ForceDelete(q) \/ Fail(q) \/ Informer(q)
               \/ TimerElapses(q) \/ DelayedAdd(q) \/ handlePodEvent(q)
      <4>1. UNCHANGED <<inMemCache, exposing, pc, rv>>
        BY <3>8 DEF CreatePlain, RequestDelete, ForceDelete, Fail, Informer, TimerElapses, DelayedAdd,
           handlePodEvent
      <4> QED BY <2>3, <4>1 DEF OnlyBound
    <3> QED BY <1>1, <3>2, <3>3, <3>4, <3>5, <3>6, <3>7, <3>8 DEF PodStep
  <2> QED BY <2>1, <2>2, <2>3 DEF OnlyBound
<1>2. ASSUME NEW c \in Calls, CallStep(c)
      PROVE  OnlyBound'
  BY <1>2, CallBinds DEF OnlyBound
<1>3. CASE (\E n \in Nodes : NodeStep(n)) \/ TemplateListed \/ TemplateDeleted \/ UNCHANGED vars
  <2>1. UNCHANGED <<inMemCache, exposing, pc, rv, call>>
    BY <1>3 DEF NodeStep, NodeListed, AddrListed, NodeDeleted, HandshakeClient, HandshakeLock,
       TemplateListed, TemplateDeleted, vars
  <2> QED BY <2>1 DEF OnlyBound, BoundPods
<1> QED BY <1>1, <1>2, <1>3 DEF Next

\* What a write to p's object shows.
LEMMA ObjectsWrite ==
  ASSUME TypeOK, NEW p \in Managed, NEW v \in Version, Write(p, v)
  PROVE  Objects' = [Objects EXCEPT ![p] = Visible(v)] /\ Objects[p] = Visible(api(p))
<1>1. p \in Pods
  BY DEF Pods
<1>2. api(p)' = v
  BY <1>1, WriteIndices DEF api
<1>3. \A q \in Managed \ {p} : api(q)' = api(q)
  BY <1>1 DEF Write, api, TypeOK, LogType, Pods
<1> QED BY <1>2, <1>3 DEF Objects

\* A step for p is a step of p's lifecycle or does not show.
LEMMA LifecycleStepOf ==
  ASSUME GracefulOnce, TypeOK, ReadPending, OnlyBound, NEW p \in Managed, LifeOf(p), PodStep(p)
  PROVE  Lifecycle!LNext \/ UNCHANGED <<BoundPods, Objects>>
<1> USE DEF queueVars, syncVars, rpcVars, envVars, apiVars
<1>1. p \in Pods /\ p \notin Plain /\ p \notin Forced /\ p \notin Failing
  BY PodAssumption DEF GracefulOnce, Pods
<1>2. BoundPods' = BoundPods
  BY <1>1, PodStepFrame DEF BoundPods
<1>3. /\ api(p) \in Version /\ api(p).st # "failed" /\ Len(log[p]) \in Unseen(p)
  <2>1. Len(log[p]) \in Nat \ {0} /\ seen[p] \in Nat /\ seen[p] <= Len(log[p]) /\ log[p] \in Seq(Version)
    BY <1>1, VersionsHeld, SMT DEF TypeOK, LogType
  <2>2. Len(log[p]) \in 1 .. Len(log[p]) /\ Len(log[p]) \in seen[p] .. Len(log[p]) /\ api(p) \in Version
    BY <2>1, SMT DEF api
  <2> QED BY <2>2 DEF LifeOf, HistoryOf, api, Unseen
<1>4. CASE log' = log
  BY <1>2, <1>4 DEF Objects, api
<1>5. ASSUME NEW v \in Version, Write(p, v), Visible(v) = Visible(api(p))
      PROVE  UNCHANGED <<BoundPods, Objects>>
  <2>1. Objects' = [Objects EXCEPT ![p] = Objects[p]]
    BY <1>5, ObjectsWrite
  <2>2. Objects' = Objects
    BY <2>1 DEF Objects
  <2> QED BY <1>2, <2>2
<1>6. CASE RequestDelete(p)
  <2> DEFINE v == [api(p) EXCEPT !.del = TRUE, !.by = "env"]
  <2>1. Write(p, v) /\ v \in Version /\ api(p).st # "none" /\ ~api(p).del
    BY <1>3, <1>6 DEF RequestDelete, Version
  <2>2. Visible(v) = "deleting" /\ Visible(api(p)) \in {"pending", "ready"}
    BY <1>3, <2>1 DEF Visible, Version
  <2> HIDE DEF v
  <2>3. Objects' = [Objects EXCEPT ![p] = "deleting"] /\ Objects[p] \in {"pending", "ready"}
    BY <2>1, <2>2, ObjectsWrite
  <2>4. Lifecycle!AskDelete(p)
    BY <1>2, <2>3 DEF Lifecycle!AskDelete, Lifecycle!Moves, Objects
  <2> QED BY <2>4 DEF Lifecycle!LNext
<1>7. CASE (SyncPodMark(p) \/ SyncPodMarkLost(p)) /\ log' # log
  <2>0. PICK who \in {"kubelet", "lost"} :
          pc[p] = "mark" /\ Accepts(p) /\ Write(p, [api(p) EXCEPT !.st = "ready", !.by = who])
    BY <1>7 DEF SyncPodMark, SyncPodMarkLost, refStatus
  <2> DEFINE v == [api(p) EXCEPT !.st = "ready", !.by = who]
  <2>1. Write(p, v) /\ v \in Version
    BY <1>1, <2>0, WrittenVersions DEF TypeOK
  <2>2. api(p).st # "none"
    BY <1>1, <2>0 DEF Accepts, ReadPending, api
  <2>3. /\ Visible(v) = (IF api(p).del THEN "deleting" ELSE "ready")
        /\ Visible(api(p)) = (IF api(p).del THEN "deleting" ELSE api(p).st)
    BY <1>3, <2>2 DEF Visible, Version
  <2> HIDE DEF v
  <2>4. CASE api(p).del \/ api(p).st = "ready"
    <3>1. Visible(v) = Visible(api(p))
      BY <2>3, <2>4, SMT
    <3> QED BY <1>5, <2>1, <3>1
  <2>5. CASE ~api(p).del /\ api(p).st = "pending"
    <3>1. Objects' = [Objects EXCEPT ![p] = "ready"] /\ Objects[p] \in {"pending"}
      BY <2>1, <2>3, <2>5, ObjectsWrite
    <3>2. Lifecycle!MarkReady(p)
      BY <1>2, <3>1 DEF Lifecycle!MarkReady, Lifecycle!Moves, Objects
    <3> QED BY <3>2 DEF Lifecycle!LNext
  <2> QED BY <1>3, <2>2, <2>4, <2>5 DEF Version
<1>8. CASE (SyncPodDelete(p) \/ SyncPodDeleteLost(p)) /\ log' # log
  <2>1. PICK who \in {"kubelet", "lost"} :
          Write(p, Removed(p, who)) /\ api(p).st # "none" /\ pc[p] = "delete"
    BY <1>8 DEF SyncPodDelete, SyncPodDeleteLost
  <2>2. api(p).del
    BY <1>3, <2>1 DEF LifeOf, DeletionOf, api
  <2>3. Removed(p, who) \in Version /\ Visible(Removed(p, who)) = "none"
    <3>1. Visible(Removed(p, who)) = "none"
      BY DEF Removed, Visible
    <3> QED BY <1>1, <3>1, WrittenVersions DEF TypeOK
  <2>4. Visible(api(p)) = "deleting"
    BY <2>1, <2>2 DEF Visible
  <2>5. Objects' = [Objects EXCEPT ![p] = "none"] /\ Objects[p] \in {"deleting"}
    BY <2>1, <2>3, <2>4, ObjectsWrite
  <2>6. Lifecycle!Remove(p)
    BY <1>2, <2>5 DEF Lifecycle!Remove, Lifecycle!Moves, Objects
  <2> QED BY <2>6 DEF Lifecycle!LNext
<1>9. CASE ExposeManagedPod(p) /\ log' # log
  <2>1. Write(p, Created(p, "kubelet")) /\ api(p).st = "none" /\ exposing[p] > 0
    BY <1>9 DEF ExposeManagedPod
  <2>2. p \in BoundPods
    BY <2>1 DEF OnlyBound
  <2>3. Created(p, "kubelet") \in Version /\ Visible(Created(p, "kubelet")) = "pending"
    BY <1>3, SMT DEF Created, Version, Visible
  <2>4. Visible(api(p)) = "none"
    BY <2>1 DEF Visible
  <2>5. Objects' = [Objects EXCEPT ![p] = "pending"] /\ Objects[p] \in {"none"}
    BY <2>1, <2>3, <2>4, ObjectsWrite
  <2>6. Lifecycle!Expose(p)
    BY <1>2, <2>2, <2>5 DEF Lifecycle!Expose, Lifecycle!Moves, Objects
  <2> QED BY <2>6 DEF Lifecycle!LNext
<1>10. CASE \/ Informer(p) \/ TimerElapses(p) \/ DelayedAdd(p) \/ handlePodEvent(p) \/ handlePodEventFlush(p)
            \/ SyncPodGet(p) \/ SyncPodInMem(p) \/ SyncPodTimer(p) \/ SyncPodError(p)
  <2>1. log' = log
    BY <1>10 DEF Informer, TimerElapses, DelayedAdd, handlePodEvent, handlePodEventFlush, SyncPodGet,
       SyncPodInMem, SyncPodTimer, SyncPodError
  <2> QED BY <1>4, <2>1
<1>11. ~(CreatePlain(p) \/ ForceDelete(p) \/ Fail(p) \/ ExposeManagedPodLost(p))
  BY <1>1 DEF CreatePlain, ForceDelete, Fail, ExposeManagedPodLost, MayLose, GracefulOnce
<1> QED BY <1>4, <1>6, <1>7, <1>8, <1>9, <1>10, <1>11 DEF PodStep

\* For any number of pods, nodes, calls and workers, managed pods whose deletion is
\* requested once and gracefully go through the lifecycle of PodLifecycle, also when a
\* status write or a delete takes effect and returns an error.
THEOREM LifecycleRefines ==
  ASSUME GracefulOnce
  PROVE  Spec => ImplementsLifecycle
<1>1. ASSUME Init
      PROVE  OnlyBound /\ Lifecycle!LInit
  <2>1. BoundPods = {}
    BY <1>1 DEF Init, BoundPods
  <2>2. \A p \in Managed : Visible(api(p)) = "none"
    BY <1>1 DEF Init, api, Visible, NoPod, Pods
  <2>3. OnlyBound
    BY <1>1, SMT DEF Init, OnlyBound, Pods
  <2> QED BY <2>1, <2>2, <2>3 DEF Lifecycle!LInit
<1>2. TypeOK /\ OnlyBound /\ [Next]_vars => OnlyBound'
  BY OnlyBoundStep
<1>3. ASSUME TypeOK, ReadPending, OnlyBound, LifeInv, [Next]_vars
      PROVE  [Lifecycle!LNext]_(Lifecycle!lvars)
  <2> SUFFICES Lifecycle!LNext \/ UNCHANGED <<BoundPods, Objects>>
    BY DEF Lifecycle!lvars, Objects
  <2>1. ASSUME NEW p \in Managed, PodStep(p)
        PROVE  Lifecycle!LNext \/ UNCHANGED <<BoundPods, Objects>>
    BY <1>3, <2>1, LifecycleStepOf DEF LifeInv
  <2>2. ASSUME NEW q \in Plain, PodStep(q)
        PROVE  UNCHANGED <<BoundPods, Objects>>
    <3>1. q \in Pods /\ \A p \in Managed : p \in Pods \ {q}
      BY PodAssumption DEF Pods
    <3>2. UNCHANGED call /\ \A p \in Managed : log'[p] = log[p]
      BY <1>3, <2>2, <3>1, PodStepFrame
    <3> QED BY <3>2 DEF BoundPods, Objects, api
  <2>3. ASSUME NEW c \in Calls, CallStep(c)
        PROVE  Lifecycle!LNext \/ UNCHANGED <<BoundPods, Objects>>
    <3>1. log' = log /\ (BoundPods' = BoundPods \/ BoundPods' = BoundPods \cup {call[c].pod})
      BY <1>3, <2>3, CallBinds
    <3>2. Objects' = Objects
      BY <3>1 DEF Objects, api
    <3>3. CASE BoundPods' = BoundPods \cup {call[c].pod}
      <4>1. call[c].pod \in Managed
        BY <1>3 DEF TypeOK, RpcType
      <4>2. Lifecycle!Bind(call[c].pod)
        BY <3>2, <3>3 DEF Lifecycle!Bind, Objects
      <4> QED BY <4>1, <4>2 DEF Lifecycle!LNext
    <3> QED BY <3>1, <3>2, <3>3
  <2>4. CASE (\E n \in Nodes : NodeStep(n)) \/ TemplateListed \/ TemplateDeleted \/ UNCHANGED vars
    <3> USE DEF queueVars, syncVars, rpcVars, envVars, apiVars
    <3>1. UNCHANGED <<log, call>>
      BY <2>4 DEF NodeStep, NodeListed, AddrListed, NodeDeleted, HandshakeClient, HandshakeLock,
         TemplateListed, TemplateDeleted, vars
    <3> QED BY <3>1 DEF BoundPods, Objects, api
  <2> QED BY <1>3, <2>1, <2>2, <2>3, <2>4 DEF Next, Pods
<1> QED BY TypeCorrect, ReadPendingAlways, LifeAlways, <1>1, <1>2, <1>3, PTL
        DEF Spec, ImplementsLifecycle, Lifecycle!LSpec

====
