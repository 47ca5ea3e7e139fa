------------------------- MODULE CustomKubeletProofs -------------------------
(***************************************************************************)
(* Properties of the custom kubelet for any number of pods, nodes, calls,   *)
(* workers and handshakes.                                                  *)
(***************************************************************************)
EXTENDS CustomKubelet, TLAPS

\* Most steps need no arithmetic and go to Zenon; the others cite SMT.
USE Zenon

\* The versions that the API server and the informer cache hold are versions.
LEMMA VersionsHeld ==
  ASSUME LogType, NEW p \in Pods
  PROVE  /\ api(p) \in Version /\ lister(p) \in Version
         /\ Len(log[p]) \in Nat /\ Len(log[p]) > 0
BY SMT DEF LogType, api, lister

\* What a write of the API server does to the log.
LEMMA WriteLog ==
  ASSUME LogType, NEW p \in Pods, NEW v \in Version, Write(p, v)
  PROVE  /\ log' \in [Pods -> Seq(Version)]
         /\ Len(log'[p]) = Len(log[p]) + 1
         /\ log'[p][Len(log[p]) + 1] = v
         /\ \A i \in 1 .. Len(log[p]) : log'[p][i] = log[p][i]
         /\ \A q \in Pods \ {p} : log'[q] = log[q]
BY SMT DEF LogType, Write

\* A write leaves the informer cache and the handler behind the log.
LEMMA WriteType ==
  ASSUME LogType, NEW p \in Pods, NEW v \in Version, Write(p, v), UNCHANGED <<seen, handled>>
  PROVE  LogType'
<1>1. \A q \in Pods : Len(log[q]) <= Len(log'[q])
  BY WriteLog, VersionsHeld, SMT
<1>2. \A q \in Pods : Len(log[q]) \in Nat /\ Len(log'[q]) \in Nat
  BY WriteLog, VersionsHeld, SMT
<1> QED
  BY <1>1, <1>2, WriteLog, SMT DEF LogType

\* The versions that the actions write.
LEMMA WrittenVersions ==
  ASSUME LogType, NEW p \in Pods, NEW who \in {"env", "kubelet", "lost"}
  PROVE  /\ Created(p, who) \in Version /\ Removed(p, who) \in Version
         /\ [api(p) EXCEPT !.del = TRUE, !.by = who] \in Version
         /\ [api(p) EXCEPT !.st = "failed", !.by = who] \in Version
         /\ [api(p) EXCEPT !.st = "ready", !.by = who] \in Version
<1>1. api(p) \in Version
  BY VersionsHeld
<1>2. Created(p, who) \in Version /\ Removed(p, who) \in Version
  BY <1>1, SMT DEF Created, Removed, Version
<1>3. [api(p) EXCEPT !.del = TRUE, !.by = who] \in Version
  BY <1>1 DEF Version
<1>4. [api(p) EXCEPT !.st = "failed", !.by = who] \in Version
  BY <1>1 DEF Version
<1>5. [api(p) EXCEPT !.st = "ready", !.by = who] \in Version
  BY <1>1 DEF Version
<1> QED
  BY <1>2, <1>3, <1>4, <1>5

\* How a worker leaves a step keeps the types of its state.
LEMMA DoneType ==
  ASSUME SyncType, NEW p \in Pods, NEW again \in BOOLEAN, SyncDone(p, again),
         seen' = seen, dirty' \in SUBSET Pods, seen \in [Pods -> Nat]
  PROVE  SyncType'
<1>1. delayed' \in SUBSET Pods
  BY DEF SyncType, SyncDone
<1>2. /\ pc' = [pc EXCEPT ![p] = "idle"] /\ rv' = [rv EXCEPT ![p] = 0]
      /\ since' = [since EXCEPT ![p] = 0]
  BY DEF SyncDone
<1> QED
  BY <1>1, <1>2, SMT DEF SyncType

LEMMA ContinueType ==
  ASSUME SyncType, NEW p \in Pods, NEW at \in {"inmem", "timer", "mark", "delete"},
         NEW v \in Nat, NEW t \in Nat, SyncContinue(p, at, v, t),
         seen' = seen, dirty' \in SUBSET Pods, seen \in [Pods -> Nat], v <= seen[p]
  PROVE  SyncType'
BY DEF SyncType, SyncContinue

LEMMA TypeInit == Init => TypeOK
<1> SUFFICES ASSUME Init PROVE TypeOK
  OBVIOUS
<1>1. LogType
  BY SMT DEF Init, LogType, NoPod, Version
<1>2. CacheType
  BY DEF Init, CacheType, NoTimer, ListedAs
<1>3. SyncType
  BY SMT DEF Init, SyncType
<1>4. RpcType
  BY SMT DEF Init, RpcType
<1> QED
  BY <1>1, <1>2, <1>3, <1>4 DEF TypeOK

\* Every step keeps the types.
LEMMA TypeNext ==
  ASSUME TypeOK, [Next]_vars
  PROVE  TypeOK'
<1> USE DEF TypeOK
<1> USE DEF queueVars, syncVars, rpcVars, envVars, apiVars
<1>1. ASSUME NEW p \in Pods, CreatePlain(p) \/ RequestDelete(p) \/ ForceDelete(p) \/ Fail(p)
      PROVE  TypeOK'
  <2>1. PICK v \in Version : Write(p, v)
    BY <1>1, WrittenVersions DEF CreatePlain, RequestDelete, ForceDelete, Fail
  <2>2. UNCHANGED <<seen, handled, flushing, inMemCache, readyTimers, queueVars,
                    syncVars, exposing, clientPool, rpcVars, envVars, panicked>>
    BY <1>1 DEF CreatePlain, RequestDelete, ForceDelete, Fail
  <2>3. LogType'
    BY <2>1, <2>2, WriteType
  <2>4. CacheType' /\ SyncType' /\ RpcType'
    BY <2>2 DEF CacheType, SyncType, RpcType
  <2> QED
    BY <2>3, <2>4
<1>2. ASSUME NEW p \in Pods, Informer(p)
      PROVE  TypeOK'
  <2>1. LogType'
    BY <1>2, VersionsHeld, SMT DEF Informer, LogType
  <2>2. SyncType'
    BY <1>2, SMT DEF Informer, SyncType, LogType
  <2>3. CacheType' /\ RpcType'
    BY <1>2 DEF Informer, CacheType, RpcType
  <2> QED
    BY <2>1, <2>2, <2>3
<1>3. ASSUME NEW p \in Pods, TimerElapses(p)
      PROVE  TypeOK'
  <2>1. CacheType'
    BY <1>3 DEF TimerElapses, CacheType
  <2>2. LogType' /\ SyncType' /\ RpcType'
    BY <1>3 DEF TimerElapses, LogType, SyncType, RpcType
  <2> QED
    BY <2>1, <2>2
<1>4. ASSUME NEW p \in Pods, DelayedAdd(p)
      PROVE  TypeOK'
  <2>1. SyncType'
    BY <1>4 DEF DelayedAdd, SyncType
  <2>2. LogType' /\ CacheType' /\ RpcType'
    BY <1>4 DEF DelayedAdd, LogType, CacheType, RpcType
  <2> QED
    BY <2>1, <2>2
<1>5. ASSUME NEW p \in Pods, handlePodEvent(p)
      PROVE  TypeOK'
  <2>1. LogType'
    BY <1>5, SMT DEF handlePodEvent, LogType
  <2>2. CacheType'
    BY <1>5, SMT DEF handlePodEvent, CacheType, NoTimer
  <2>3. SyncType'
    BY <1>5 DEF handlePodEvent, SyncType
  <2>4. RpcType'
    BY <1>5 DEF handlePodEvent, RpcType
  <2> QED
    BY <2>1, <2>2, <2>3, <2>4
<1>6. ASSUME NEW p \in Pods, handlePodEventFlush(p)
      PROVE  TypeOK'
  <2>1. CacheType'
    BY <1>6 DEF handlePodEventFlush, CacheType
  <2>2. LogType' /\ SyncType' /\ RpcType'
    BY <1>6 DEF handlePodEventFlush, LogType, SyncType, RpcType
  <2> QED
    BY <2>1, <2>2
<1>7. ASSUME NEW p \in Pods, SyncPodGet(p)
      PROVE  TypeOK'
  <2>1. UNCHANGED <<apiVars, handled, flushing, inMemCache, exposing, clientPool, rpcVars,
                    envVars, panicked>> /\ dirty' \in SUBSET Pods
    BY <1>7 DEF SyncPodGet, SyncType
  <2>2. LogType' /\ RpcType'
    BY <2>1 DEF LogType, RpcType
  <2>3. CacheType'
    <3>1. readyTimers' = readyTimers \/ readyTimers' = [readyTimers EXCEPT ![p] = NoTimer]
      BY <1>7 DEF SyncPodGet
    <3> QED
      BY <2>1, <3>1, SMT DEF CacheType, NoTimer
  <2>4. SyncType'
    <3>1. seen[p] \in Nat /\ 0 <= seen[p] /\ seen \in [Pods -> Nat]
      BY SMT DEF LogType
    <3>2. \/ \E again \in BOOLEAN : SyncDone(p, again)
          \/ \E at \in {"inmem", "timer", "delete"}, v \in {0, seen[p]} : SyncContinue(p, at, v, 0)
      BY <1>7 DEF SyncPodGet
    <3> QED
      BY <2>1, <3>1, <3>2, DoneType, ContinueType, SMT
  <2> QED
    BY <2>2, <2>3, <2>4
<1>8. ASSUME NEW p \in Pods, SyncPodInMem(p)
      PROVE  TypeOK'
  <2>1. LogType' /\ CacheType' /\ RpcType'
    BY <1>8 DEF SyncPodInMem, LogType, CacheType, RpcType
  <2>2. SyncType'
    <3>1. \/ \E again \in BOOLEAN : SyncDone(p, again)
          \/ SyncContinue(p, "timer", 0, 0)
      BY <1>8 DEF SyncPodInMem
    <3>2. seen[p] \in Nat /\ 0 <= seen[p] /\ seen \in [Pods -> Nat]
      BY SMT DEF LogType
    <3>3. seen' = seen /\ dirty' \in SUBSET Pods
      BY <1>8 DEF SyncPodInMem, SyncType
    <3> QED
      BY <3>1, <3>2, <3>3, DoneType, ContinueType
  <2> QED
    BY <2>1, <2>2
<1>9. ASSUME NEW p \in Pods, SyncPodTimer(p)
      PROVE  TypeOK'
  <2> DEFINE t == IF readyTimers[p].st = "none"
                  THEN [st |-> IF readyDelay = 0 THEN "elapsed" ELSE "running", at |-> Len(log[p])]
                  ELSE readyTimers[p]
  <2>1. t \in [st : {"none", "running", "elapsed"}, at : Nat]
    BY VersionsHeld DEF CacheType
  <2>2. /\ readyTimers' = [readyTimers EXCEPT ![p] = t]
        /\ exposing' = IF readyTimers[p].st = "none" /\ rv[p] = 0
                       THEN [exposing EXCEPT ![p] = @ + 1] ELSE exposing
        /\ UNCHANGED <<apiVars, handled, flushing, inMemCache, dirty, clientPool, rpcVars,
                       envVars, panicked>>
    BY <1>9 DEF SyncPodTimer
  <2>3. \/ \E again \in BOOLEAN : SyncDone(p, again)
        \/ SyncContinue(p, "mark", rv[p], t.at)
    BY <1>9 DEF SyncPodTimer
  <2> HIDE DEF t
  <2>4. exposing' \in [Pods -> Nat]
    BY <2>2, SMT DEF CacheType
  <2>5. CacheType'
    BY <2>1, <2>2, <2>4 DEF CacheType
  <2>6. LogType' /\ RpcType'
    BY <2>2 DEF LogType, RpcType
  <2>7. SyncType'
    <3>1. rv[p] \in Nat /\ rv[p] <= seen[p] /\ t.at \in Nat /\ seen \in [Pods -> Nat]
      BY <2>1 DEF LogType, SyncType
    <3>2. seen' = seen /\ dirty' \in SUBSET Pods
      BY <2>2 DEF SyncType
    <3> QED
      BY <2>3, <3>1, <3>2, DoneType, ContinueType
  <2> QED
    BY <2>5, <2>6, <2>7
<1>10. ASSUME NEW p \in Pods, SyncPodMark(p)
       PROVE  TypeOK'
  <2>1. UNCHANGED <<seen, handled, flushing, inMemCache, readyTimers, dirty, exposing,
                    clientPool, rpcVars, envVars>> /\ panicked' \in BOOLEAN
    BY <1>10 DEF SyncPodMark, refStatus, CacheType
  <2>2. CacheType' /\ RpcType'
    BY <2>1 DEF CacheType, RpcType
  <2>3. log' = log \/ \E v \in Version : Write(p, v)
    BY <1>10, WrittenVersions DEF SyncPodMark, refStatus
  <2>4. LogType'
    BY <2>1, <2>3, WriteType DEF LogType
  <2>5. UNCHANGED <<syncVars, delayed>> \/ \E again \in BOOLEAN : SyncDone(p, again)
    BY <1>10 DEF SyncPodMark, refStatus
  <2>6. SyncType'
    <3>1. seen' = seen /\ dirty' = dirty /\ dirty' \in SUBSET Pods /\ seen \in [Pods -> Nat]
      BY <2>1 DEF LogType, SyncType
    <3>2. CASE UNCHANGED <<syncVars, delayed>>
      BY <3>1, <3>2 DEF SyncType
    <3>3. CASE \E again \in BOOLEAN : SyncDone(p, again)
      BY <3>1, <3>3, DoneType
    <3> QED
      BY <2>5, <3>2, <3>3
  <2> QED
    BY <2>2, <2>4, <2>6
<1>11. ASSUME NEW p \in Pods, SyncPodDelete(p) \/ SyncPodError(p) \/ SyncPodMarkLost(p) \/ SyncPodDeleteLost(p)
       PROVE  TypeOK'
  <2>1. /\ UNCHANGED <<seen, handled, flushing, inMemCache, dirty, exposing, clientPool,
                       rpcVars, envVars, panicked>>
        /\ readyTimers' = readyTimers \/ readyTimers' = [readyTimers EXCEPT ![p] = NoTimer]
        /\ log' = log \/ \E v \in Version : Write(p, v)
        /\ \E again \in BOOLEAN : SyncDone(p, again)
    BY <1>11, WrittenVersions DEF SyncPodDelete, SyncPodError, SyncPodMarkLost, refStatus, SyncPodDeleteLost
  <2>2. CacheType' /\ RpcType'
    BY <2>1, SMT DEF CacheType, RpcType, NoTimer
  <2>3. LogType'
    BY <2>1, WriteType DEF LogType
  <2>4. SyncType'
    <3>1. seen' = seen /\ dirty' \in SUBSET Pods /\ seen \in [Pods -> Nat]
      BY <2>1 DEF LogType, SyncType
    <3> QED
      BY <2>1, <3>1, DoneType
  <2> QED
    BY <2>2, <2>3, <2>4
<1>12. ASSUME NEW p \in Pods, ExposeManagedPod(p) \/ ExposeManagedPodLost(p)
       PROVE  TypeOK'
  <2>1. /\ UNCHANGED <<seen, handled, flushing, inMemCache, readyTimers, queueVars, syncVars,
                       clientPool, rpcVars, envVars>>
        /\ panicked' \in BOOLEAN
        /\ log' = log \/ Write(p, Created(p, "kubelet")) \/ Write(p, Created(p, "lost"))
        /\ exposing' = exposing \/ exposing' = [exposing EXCEPT ![p] = @ - 1]
        /\ exposing[p] > 0
    BY <1>12 DEF ExposeManagedPod, ExposeManagedPodLost, CacheType
  <2>2. exposing' \in [Pods -> Nat]
    BY <2>1, SMT DEF CacheType
  <2>3. CacheType' /\ SyncType' /\ RpcType'
    BY <2>1, <2>2 DEF CacheType, SyncType, RpcType
  <2>4. LogType'
    BY <2>1, WrittenVersions, WriteType DEF LogType
  <2> QED
    BY <2>3, <2>4
<1>13. ASSUME NEW n \in Nodes, NodeListed(n) \/ AddrListed(n) \/ NodeDeleted(n)
       PROVE  TypeOK'
  <2>1. CacheType'
    BY <1>13 DEF NodeListed, AddrListed, NodeDeleted, ListedAs, CacheType
  <2>2. LogType' /\ SyncType' /\ RpcType'
    BY <1>13 DEF NodeListed, AddrListed, NodeDeleted, LogType, SyncType, RpcType
  <2> QED
    BY <2>1, <2>2
<1>14. ASSUME NEW n \in Nodes, HandshakeClient(n) \/ HandshakeLock(n)
       PROVE  TypeOK'
  <2>1. CacheType'
    BY <1>14 DEF HandshakeClient, HandshakeLock, CacheType
  <2>2. RpcType'
    <3>1. CASE HandshakeClient(n)
      BY <3>1 DEF HandshakeClient, RpcType
    <3>2. CASE HandshakeLock(n)
      <4>1. epoch' \in [Nodes -> Nat] /\ shaking' \in SUBSET Nodes
        BY <3>2, SMT DEF HandshakeLock, RpcType
      <4>2. reported' \in [Nodes -> SUBSET Managed]
        BY <3>2 DEF HandshakeLock, RpcType
      <4> QED
        BY <3>2, <4>1, <4>2 DEF HandshakeLock, RpcType
    <3> QED
      BY <1>14, <3>1, <3>2
  <2>3. LogType' /\ SyncType'
    BY <1>14 DEF HandshakeClient, HandshakeLock, LogType, SyncType
  <2> QED
    BY <2>1, <2>2, <2>3
<1>15. ASSUME NEW c \in Calls, CallStep(c)
       PROVE  TypeOK'
  <2>1. call[c].pod \in Managed /\ call[c].epoch \in Nat /\ call[c].pod \in Pods
    BY DEF RpcType, Pods
  <2>2. /\ UNCHANGED <<apiVars, handled, flushing, readyTimers, delayed, syncVars, exposing,
                       clientPool, epoch, shaking, reported, envVars, panicked>>
        /\ inMemCache' = inMemCache \/ inMemCache' = [inMemCache EXCEPT ![call[c].pod] = call[c].epoch]
        /\ dirty' = dirty \/ dirty' = dirty \cup {call[c].pod}
    BY <1>15 DEF CallStep, SendBindPod, BindPodRLock, BindPodInsert, BindPodEnqueue
  <2>3. LogType' /\ CacheType' /\ SyncType'
    BY <2>1, <2>2 DEF LogType, CacheType, SyncType
  <2>4. NodeOf[call[c].pod] \in Nodes
    BY <2>1, PodAssumption
  <2>5. RpcType'
    <3>1. CASE SendBindPod(c)
      BY <2>4, <3>1 DEF SendBindPod, RpcType
    <3>2. CASE BindPodRLock(c)
      BY <3>2 DEF BindPodRLock, RpcType
    <3>3. CASE BindPodInsert(c)
      BY <3>3, SMT DEF BindPodInsert, RpcType
    <3>4. CASE BindPodEnqueue(c)
      BY <3>4 DEF BindPodEnqueue, RpcType
    <3> QED
      BY <1>15, <3>1, <3>2, <3>3, <3>4 DEF CallStep
  <2> QED
    BY <2>3, <2>5
<1>16. ASSUME TemplateListed \/ TemplateDeleted
       PROVE  TypeOK'
  BY <1>16 DEF TemplateListed, TemplateDeleted, LogType, CacheType, SyncType, RpcType
<1>17. ASSUME UNCHANGED vars
       PROVE  TypeOK'
  BY <1>17 DEF vars, LogType, CacheType, SyncType, RpcType
<1> QED
  BY <1>1, <1>2, <1>3, <1>4, <1>5, <1>6, <1>7, <1>8, <1>9, <1>10, <1>11, <1>12, <1>13, <1>14,
     <1>15, <1>16, <1>17 DEF Next, PodStep, NodeStep

\* Spec keeps the types, and workers, handler and informer cache only ever refer
\* to versions of an object that the API server has had.
THEOREM TypeCorrect == Spec => []TypeOK
<1>1. TypeOK /\ [Next]_vars => TypeOK'
  BY TypeNext
<1> QED
  BY TypeInit, <1>1, PTL DEF Spec

-----------------------------------------------------------------------------
\* What a step for pod p leaves alone: the RPC state, and all other pods.
LEMMA PodStepFrame ==
  ASSUME TypeOK, NEW p \in Pods, PodStep(p)
  PROVE  /\ UNCHANGED <<clientPool, shaking, epoch, reported, call, nodeLister>>
         /\ \A q \in Pods \ {p} :
              /\ inMemCache'[q] = inMemCache[q] /\ readyTimers'[q] = readyTimers[q]
              /\ pc'[q] = pc[q] /\ exposing'[q] = exposing[q] /\ log'[q] = log[q]
         /\ log' = log \/ \E v \in Version : Write(p, v)
<1> USE DEF queueVars, syncVars, rpcVars, envVars, apiVars
<1>1. UNCHANGED <<clientPool, shaking, epoch, reported, call, nodeLister>>
  BY DEF PodStep, CreatePlain, RequestDelete, ForceDelete, Fail, Informer, TimerElapses,
     DelayedAdd, handlePodEvent, handlePodEventFlush, SyncPodGet, SyncPodInMem, SyncPodTimer,
     SyncPodMark, refStatus, SyncPodDelete, SyncPodError, SyncPodMarkLost, SyncPodDeleteLost,
     ExposeManagedPod, ExposeManagedPodLost
<1>2. inMemCache' = inMemCache \/ inMemCache' = [inMemCache EXCEPT ![p] = 0]
  BY DEF PodStep, CreatePlain, RequestDelete, ForceDelete, Fail, Informer, TimerElapses,
     DelayedAdd, handlePodEvent, handlePodEventFlush, SyncPodGet, SyncPodInMem, SyncPodTimer,
     SyncPodMark, refStatus, SyncPodDelete, SyncPodError, SyncPodMarkLost, SyncPodDeleteLost,
     ExposeManagedPod, ExposeManagedPodLost
<1>3. pc' = pc \/ \E x : pc' = [pc EXCEPT ![p] = x]
  BY DEF PodStep, SyncDone, SyncContinue, CreatePlain, RequestDelete, ForceDelete, Fail, Informer, TimerElapses,
     DelayedAdd, handlePodEvent, handlePodEventFlush, SyncPodGet, SyncPodInMem, SyncPodTimer,
     SyncPodMark, refStatus, SyncPodDelete, SyncPodError, SyncPodMarkLost, SyncPodDeleteLost,
     ExposeManagedPod, ExposeManagedPodLost
<1>4. exposing' = exposing \/ \E x : exposing' = [exposing EXCEPT ![p] = x]
  BY DEF PodStep, CreatePlain, RequestDelete, ForceDelete, Fail, Informer, TimerElapses,
     DelayedAdd, handlePodEvent, handlePodEventFlush, SyncPodGet, SyncPodInMem, SyncPodTimer,
     SyncPodMark, refStatus, SyncPodDelete, SyncPodError, SyncPodMarkLost, SyncPodDeleteLost,
     ExposeManagedPod, ExposeManagedPodLost
<1>5. readyTimers' = readyTimers \/ \E x : readyTimers' = [readyTimers EXCEPT ![p] = x]
  <2>1. CASE TimerElapses(p)
    BY <2>1 DEF TimerElapses
  <2>2. CASE ~TimerElapses(p)
    BY <2>2 DEF PodStep, CreatePlain, RequestDelete, ForceDelete, Fail, Informer, TimerElapses,
     DelayedAdd, handlePodEvent, handlePodEventFlush, SyncPodGet, SyncPodInMem, SyncPodTimer,
     SyncPodMark, refStatus, SyncPodDelete, SyncPodError, SyncPodMarkLost, SyncPodDeleteLost,
     ExposeManagedPod, ExposeManagedPodLost
  <2> QED
    BY <2>1, <2>2
<1>6. log' = log \/ \E v \in Version : Write(p, v)
  BY WrittenVersions DEF PodStep, TypeOK, CreatePlain, RequestDelete, ForceDelete, Fail, Informer, TimerElapses,
     DelayedAdd, handlePodEvent, handlePodEventFlush, SyncPodGet, SyncPodInMem, SyncPodTimer,
     SyncPodMark, refStatus, SyncPodDelete, SyncPodError, SyncPodMarkLost, SyncPodDeleteLost,
     ExposeManagedPod, ExposeManagedPodLost
<1>7. \A q \in Pods \ {p} : log'[q] = log[q]
  BY <1>6, WriteLog DEF TypeOK
<1> QED
  BY <1>1, <1>2, <1>3, <1>4, <1>5, <1>6, <1>7 DEF TypeOK, CacheType, SyncType

-----------------------------------------------------------------------------
\* Handshake and BindPod.

\* A call past RLock runs under the current epoch of its node's source: the
\* exclusive lock of Handshake waits for such calls.
HoldersCurrent ==
  \A c \in Calls : call[c].pc \in {"locked", "inserted"} =>
    call[c].epoch = epoch[NodeOf[call[c].pod]]

HandshakeInv == HoldersCurrent /\ HandshakeComplete

LEMMA HandshakeStep ==
  ASSUME TypeOK, HandshakeInv, [Next]_vars
  PROVE  HandshakeInv'
<1> USE DEF HandshakeInv
<1> USE DEF queueVars, syncVars, rpcVars, envVars, apiVars
<1>1. CASE UNCHANGED <<inMemCache, epoch, reported, call>>
  BY <1>1 DEF HoldersCurrent, HandshakeComplete
<1>2. ASSUME NEW p \in Pods, handlePodEventFlush(p)
      PROVE  HandshakeInv'
  <2>1. inMemCache' = [inMemCache EXCEPT ![p] = 0] /\ UNCHANGED <<epoch, reported, call>>
    BY <1>2 DEF handlePodEventFlush
  <2>2. \A q \in Managed : inMemCache'[q] # 0 => inMemCache'[q] = inMemCache[q]
    BY <2>1 DEF TypeOK, CacheType, Pods
  <2> QED
    BY <2>1, <2>2 DEF HoldersCurrent, HandshakeComplete
<1>3. ASSUME NEW n \in Nodes, HandshakeLock(n)
      PROVE  HandshakeInv'
  <2>1. /\ epoch' = [epoch EXCEPT ![n] = @ + 1]
        /\ reported' = [reported EXCEPT ![n] = {p \in Managed : NodeOf[p] = n /\ inMemCache[p] # 0}]
        /\ UNCHANGED <<inMemCache, call>> /\ Holders(n) = {}
    BY <1>3 DEF HandshakeLock
  <2>2. HoldersCurrent'
    <3> SUFFICES ASSUME NEW c \in Calls, call[c].pc \in {"locked", "inserted"}
                 PROVE  call[c].epoch = epoch'[NodeOf[call[c].pod]]
      BY <2>1 DEF HoldersCurrent
    <3>1. NodeOf[call[c].pod] # n
      BY <2>1 DEF Holders
    <3>2. NodeOf[call[c].pod] \in Nodes
      BY PodAssumption DEF TypeOK, RpcType, Pods
    <3>3. epoch'[NodeOf[call[c].pod]] = epoch[NodeOf[call[c].pod]]
      BY <2>1, <3>1, <3>2 DEF TypeOK, RpcType
    <3> QED
      BY <3>3 DEF HoldersCurrent
  <2>3. HandshakeComplete'
    <3> SUFFICES ASSUME NEW p \in Managed, inMemCache[p] # 0
                 PROVE  p \in reported'[NodeOf[p]] \/ inMemCache[p] = epoch'[NodeOf[p]]
      BY <2>1 DEF HandshakeComplete
    <3>1. CASE NodeOf[p] = n
      BY <2>1, <3>1 DEF TypeOK, RpcType
    <3>2. CASE NodeOf[p] # n
      BY <2>1, <3>2, SMT DEF HandshakeComplete, TypeOK, RpcType
    <3> QED
      BY <3>1, <3>2
  <2> QED
    BY <2>2, <2>3
<1>4. ASSUME NEW c \in Calls, SendBindPod(c) \/ BindPodRLock(c) \/ BindPodEnqueue(c)
      PROVE  HandshakeInv'
  <2>1. UNCHANGED <<inMemCache, epoch, reported>>
    BY <1>4 DEF SendBindPod, BindPodRLock, BindPodEnqueue
  <2>2. HandshakeComplete'
    BY <2>1 DEF HandshakeComplete
  <2>3. HoldersCurrent'
    <3>1. CASE SendBindPod(c)
      BY <2>1, <3>1 DEF SendBindPod, HoldersCurrent, TypeOK, RpcType
    <3>2. CASE BindPodRLock(c)
      BY <2>1, <3>2 DEF BindPodRLock, HoldersCurrent, TypeOK, RpcType
    <3>3. CASE BindPodEnqueue(c)
      BY <2>1, <3>3 DEF BindPodEnqueue, HoldersCurrent, TypeOK, RpcType
    <3> QED
      BY <1>4, <3>1, <3>2, <3>3
  <2> QED
    BY <2>2, <2>3
<1>5. ASSUME NEW c \in Calls, BindPodInsert(c)
      PROVE  HandshakeInv'
  <2>1. call[c].epoch = epoch[NodeOf[call[c].pod]] /\ UNCHANGED <<epoch, reported>>
    BY <1>5 DEF BindPodInsert, HoldersCurrent
  <2>2. HoldersCurrent'
    BY <1>5, <2>1, ZenonT(30) DEF BindPodInsert, HoldersCurrent, TypeOK, RpcType
  <2>3. inMemCache' = inMemCache \/ inMemCache' = [inMemCache EXCEPT ![call[c].pod] = call[c].epoch]
    BY <1>5 DEF BindPodInsert
  <2>4. HandshakeComplete'
    BY <2>1, <2>3 DEF HandshakeComplete, TypeOK, CacheType, Pods
  <2> QED
    BY <2>2, <2>4
<1>6. ASSUME NEW p \in Pods, PodStep(p), ~handlePodEventFlush(p)
      PROVE  UNCHANGED <<inMemCache, epoch, reported, call>>
  BY <1>6 DEF PodStep, CreatePlain, RequestDelete, ForceDelete, Fail, Informer, TimerElapses,
     DelayedAdd, handlePodEvent, SyncPodGet, SyncPodInMem, SyncPodTimer, SyncPodMark, refStatus,
     SyncPodDelete, SyncPodError, SyncPodMarkLost, SyncPodDeleteLost, ExposeManagedPod,
     ExposeManagedPodLost
<1>7. ASSUME NEW n \in Nodes, NodeStep(n), ~HandshakeLock(n)
      PROVE  UNCHANGED <<inMemCache, epoch, reported, call>>
  BY <1>7 DEF NodeStep, NodeListed, AddrListed, NodeDeleted, HandshakeClient
<1>8. TemplateListed \/ TemplateDeleted \/ UNCHANGED vars =>
        UNCHANGED <<inMemCache, epoch, reported, call>>
  BY DEF TemplateListed, TemplateDeleted, vars
<1> QED
  BY <1>1, <1>2, <1>3, <1>4, <1>5, <1>6, <1>7, <1>8 DEF Next, CallStep

\* After any number of handshakes and BindPod calls, in any interleaving, a
\* source knows of every in-mem pod of its node.
THEOREM HandshakeCorrect == Spec => []HandshakeComplete
<1>1. Init => HandshakeInv
  BY SMT DEF Init, HandshakeInv, HoldersCurrent, HandshakeComplete, Pods
<1>2. TypeOK /\ HandshakeInv /\ [Next]_vars => HandshakeInv'
  BY HandshakeStep
<1> QED
  BY TypeCorrect, <1>1, <1>2, PTL DEF Spec, HandshakeInv

-----------------------------------------------------------------------------
\* GetClient.

\* The kubelet has worked on p, or the API server has had an object p.
Reached(p) ==
  \/ inMemCache[p] # 0 \/ pc[p] \in {"timer", "mark", "delete"}
  \/ exposing[p] > 0 \/ Len(log[p]) > 1

\* A pod reaches the kubelet only after a Handshake has created the node's client.
ClientInv ==
  /\ ~panicked
  /\ \A n \in Nodes : n \in shaking \/ epoch[n] > 0 => n \in clientPool
  /\ \A c \in Calls : call[c].pc # "unsent" => epoch[NodeOf[call[c].pod]] > 0
  /\ \A p \in Pods : log[p][1] = NoPod
  /\ \A p \in Pods : Reached(p) => NodeOf[p] \in clientPool

LEMMA ClientStep ==
  ASSUME Plain = {}, Leaving = {}, TypeOK, ClientInv, [Next]_vars
  PROVE  ClientInv'
<1> USE DEF queueVars, syncVars, rpcVars, envVars, apiVars
<1>1. ASSUME NEW p \in Pods, PodStep(p)
      PROVE  ClientInv'
  <2>1. UNCHANGED <<clientPool, shaking, epoch, call>>
    BY <1>1, PodStepFrame
  <2>2. \A q \in Pods \ {p} : /\ inMemCache'[q] = inMemCache[q] /\ pc'[q] = pc[q]
                              /\ exposing'[q] = exposing[q] /\ log'[q] = log[q]
    BY <1>1, PodStepFrame
  <2>3. log'[p][1] = NoPod
    <3>1. log[p][1] = NoPod /\ 1 \in 1 .. Len(log[p])
      <4>1. log[p][1] = NoPod
        BY Zenon DEF ClientInv
      <4>2. Len(log[p]) \in Nat /\ Len(log[p]) > 0
        BY VersionsHeld DEF TypeOK
      <4> QED
        BY <4>1, <4>2, SMT
    <3>2. log' = log \/ \E v \in Version : Write(p, v)
      BY <1>1, PodStepFrame
    <3> QED
      BY <1>1, <3>1, <3>2, WriteLog DEF TypeOK
  <2>4. Reached(p)' => Reached(p)
    <3>1. CASE CreatePlain(p) \/ RequestDelete(p) \/ ForceDelete(p) \/ Fail(p)
      <4>1. api(p).st # "none"
        BY <3>1 DEF CreatePlain, RequestDelete, ForceDelete, Fail
      <4>2. Len(log[p]) > 1
        <5>1. log[p][1].st = "none"
          <6>1. log[p][1] = NoPod
            BY Zenon DEF ClientInv
          <6> QED
            BY <6>1, SMT DEF NoPod
        <5>2. Len(log[p]) \in Nat /\ Len(log[p]) > 0
          BY VersionsHeld DEF TypeOK
        <5>3. Len(log[p]) # 1
          BY <4>1, <5>1 DEF api
        <5>4. \A k \in Nat : k > 0 /\ k # 1 => k > 1
          BY SMT
        <5> QED
          BY <5>2, <5>3, <5>4, Zenon
      <4> QED
        BY <4>2 DEF Reached
    <3>2. CASE Informer(p) \/ TimerElapses(p) \/ DelayedAdd(p) \/ handlePodEvent(p)
      BY <3>2 DEF Informer, TimerElapses, DelayedAdd, handlePodEvent, Reached
    <3>3. CASE handlePodEventFlush(p)
      BY <3>3 DEF handlePodEventFlush, Reached, TypeOK, CacheType
    <3>4. CASE SyncPodGet(p)
      <4>1. CASE lister(p).st = "none"
        BY <3>4, <4>1 DEF SyncPodGet, SyncContinue, Reached, TypeOK, SyncType
      <4>2. CASE lister(p).st # "none"
        <5>1. log[p][1].st = "none" /\ log[p][seen[p]].st # "none"
          <6>1. log[p][1] = NoPod
            BY DEF ClientInv
          <6>2. NoPod.st = "none"
            BY DEF NoPod
          <6> QED
            BY <4>2, <6>1, <6>2 DEF lister
        <5>2. seen[p] \in Nat /\ seen[p] > 0 /\ Len(log[p]) \in Nat /\ seen[p] <= Len(log[p])
          BY VersionsHeld, SMT DEF TypeOK, LogType
        <5>3. Len(log[p]) > 1
          <6>1. seen[p] # 1
            BY <5>1
          <6> QED
            BY <5>2, <6>1, SMT
        <5> QED
          BY <5>3 DEF Reached
      <4> QED
        BY <4>1, <4>2
    <3>5. CASE SyncPodInMem(p)
      BY <3>5 DEF SyncPodInMem, SyncDone, SyncContinue, Reached, TypeOK, SyncType
    <3>6. CASE SyncPodTimer(p) \/ SyncPodMark(p) \/ SyncPodDelete(p) \/ SyncPodError(p)
               \/ SyncPodMarkLost(p) \/ SyncPodDeleteLost(p)
      BY <3>6 DEF SyncPodTimer, SyncPodMark, refStatus, SyncPodDelete, SyncPodError, SyncPodMarkLost,
         SyncPodDeleteLost, Reached
    <3>7. CASE ExposeManagedPod(p) \/ ExposeManagedPodLost(p)
      BY <3>7 DEF ExposeManagedPod, ExposeManagedPodLost, Reached
    <3> QED
      BY <1>1, <3>1, <3>2, <3>3, <3>4, <3>5, <3>6, <3>7 DEF PodStep
  <2>5. ~panicked'
    <3>1. pc[p] = "mark" \/ exposing[p] > 0 => NodeOf[p] \in clientPool
      BY DEF ClientInv, Reached
    <3> QED
      BY <1>1, <3>1 DEF ClientInv, PodStep, CreatePlain, RequestDelete, ForceDelete, Fail, Informer,
         TimerElapses, DelayedAdd, handlePodEvent, handlePodEventFlush, SyncPodGet, SyncPodInMem,
         SyncPodTimer, SyncPodMark, refStatus, SyncPodDelete, SyncPodError, SyncPodMarkLost,
         SyncPodDeleteLost, ExposeManagedPod, ExposeManagedPodLost
  <2>6. \A q \in Pods : Reached(q)' => Reached(q)
    BY <2>2, <2>4 DEF Reached
  <2>7. \A q \in Pods : log'[q][1] = NoPod
    <3>1. \A q \in Pods : log[q][1] = NoPod
      BY DEF ClientInv
    <3> QED
      BY <2>2, <2>3, <3>1, SMT
  <2> QED
    BY <2>1, <2>5, <2>6, <2>7 DEF ClientInv
<1>2. ASSUME NEW n \in Nodes, NodeStep(n)
      PROVE  ClientInv'
  <2>1. UNCHANGED <<panicked, log, inMemCache, pc, exposing, call>> /\ clientPool \subseteq clientPool'
    BY <1>2 DEF NodeStep, NodeListed, AddrListed, NodeDeleted, HandshakeClient, HandshakeLock
  <2>2. \A m \in Nodes : m \in shaking' \/ epoch'[m] > 0 => m \in clientPool'
    BY <1>2 DEF NodeStep, NodeListed, AddrListed, NodeDeleted, HandshakeClient, HandshakeLock, ClientInv,
       TypeOK, RpcType
  <2>3. \A m \in Nodes : epoch[m] > 0 => epoch'[m] > 0
    <3>1. epoch \in [Nodes -> Nat]
      BY DEF TypeOK, RpcType
    <3>2. CASE HandshakeLock(n)
      <4>1. epoch' = [epoch EXCEPT ![n] = @ + 1]
        BY <3>2 DEF HandshakeLock
      <4> QED
        BY <3>1, <4>1, SMT
    <3>3. CASE NodeListed(n) \/ AddrListed(n) \/ NodeDeleted(n) \/ HandshakeClient(n)
      BY <3>3 DEF NodeListed, AddrListed, NodeDeleted, HandshakeClient
    <3> QED
      BY <1>2, <3>2, <3>3 DEF NodeStep
  <2>4. \A c \in Calls : NodeOf[call[c].pod] \in Nodes
    BY PodAssumption DEF TypeOK, RpcType, Pods
  <2> QED
    BY <2>1, <2>2, <2>3, <2>4 DEF ClientInv, Reached
<1>3. ASSUME NEW c \in Calls, CallStep(c)
      PROVE  ClientInv'
  <2>1. call[c].pod \in Pods /\ NodeOf[call[c].pod] \in Nodes
    BY PodAssumption DEF TypeOK, RpcType, Pods
  <2>2. UNCHANGED <<panicked, log, pc, exposing, clientPool, shaking, epoch>>
    BY <1>3 DEF CallStep, SendBindPod, BindPodRLock, BindPodInsert, BindPodEnqueue
  <2>3. \A d \in Calls : call'[d].pod = call[d].pod /\
          (call'[d].pc # "unsent" => call[d].pc # "unsent" \/ epoch[NodeOf[call[d].pod]] > 0)
    BY <1>3, SMT DEF CallStep, SendBindPod, BindPodRLock, BindPodInsert, BindPodEnqueue, TypeOK, RpcType
  <2>4. inMemCache' = inMemCache \/ (/\ call[c].pc # "unsent"
                                     /\ inMemCache' = [inMemCache EXCEPT ![call[c].pod] = call[c].epoch])
    BY <1>3 DEF CallStep, SendBindPod, BindPodRLock, BindPodInsert, BindPodEnqueue
  <2>5. \A p \in Pods : Reached(p)' => Reached(p) \/ NodeOf[p] \in clientPool
    BY <2>1, <2>2, <2>4 DEF Reached, ClientInv, TypeOK, CacheType
  <2> QED
    BY <2>2, <2>3, <2>5 DEF ClientInv
<1>4. ASSUME TemplateListed \/ TemplateDeleted \/ UNCHANGED vars
      PROVE  ClientInv'
  <2>1. UNCHANGED <<panicked, shaking, epoch, clientPool, call, log, inMemCache, pc, exposing>>
    BY <1>4 DEF TemplateListed, TemplateDeleted, vars
  <2> QED
    BY <2>1 DEF ClientInv, Reached
<1> QED
  BY <1>1, <1>2, <1>3, <1>4 DEF Next

\* With kd-managed pods only and no node deleted, GetClient never returns nil
\* where SyncPod and ExposeManagedPod use it: BindPod needs an epoch, and
\* Handshake makes the client before it sets one.
THEOREM ManagedNoNilClient ==
  ASSUME Plain = {}, Leaving = {}
  PROVE  Spec => []NoNilClient
<1>1. Init => ClientInv
  BY SMT DEF Init, ClientInv, Reached, NoPod
<1>2. TypeOK /\ ClientInv /\ [Next]_vars => ClientInv'
  BY ClientStep
<1>3. ClientInv => NoNilClient
  BY DEF ClientInv, NoNilClient
<1> QED
  BY TypeCorrect, <1>1, <1>2, <1>3, PTL DEF Spec

-----------------------------------------------------------------------------
\* Pods of nodes that are not delegated to this kubelet.

Foreign == {p \in Pods : NodeOf[p] \notin Delegated \cup {thisNode}}

\* Not both this node and the node of a foreign pod are listed without an address.
AddrKnown == thisNode \in Late => \A p \in Foreign : NodeOf[p] \notin Late

\* Only late nodes are listed without an address.
BareInv == \A n \in Nodes : nodeLister[n] = "bare" => n \in Late

\* No worker gets further with a foreign pod than the in-mem cache.
ForeignInv ==
  \A p \in Foreign :
    /\ readyTimers[p] = NoTimer /\ exposing[p] = 0 /\ pc[p] \in {"idle", "inmem"}
    /\ \A i \in 1 .. Len(log[p]) : log[p][i].by = "env"

LEMMA ForeignNotResponsible ==
  ASSUME AddrKnown, BareInv, NEW p \in Foreign PROVE isResponsibleFor(p) # "yes"
<1>1. thisNode \in Nodes /\ NodeOf[p] \in Nodes
  BY PodAssumption DEF Foreign
<1>2. ~(nodeLister[thisNode] = "bare" /\ nodeLister[NodeOf[p]] = "bare")
  BY <1>1 DEF AddrKnown, BareInv
<1> QED
  BY <1>2 DEF Foreign, isResponsibleFor, ServiceAddr

LEMMA BareStep ==
  ASSUME TypeOK, BareInv, [Next]_vars
  PROVE  BareInv'
<1> USE DEF queueVars, syncVars, rpcVars, envVars, apiVars
<1>1. CASE \E p \in Pods : PodStep(p)
  <2>1. nodeLister' = nodeLister
    BY <1>1, PodStepFrame
  <2> QED
    BY <2>1 DEF BareInv
<1>2. ASSUME NEW n \in Nodes, NodeStep(n)
      PROVE  BareInv'
  <2>1. CASE NodeListed(n)
    BY <2>1 DEF NodeListed, ListedAs, BareInv, TypeOK, CacheType
  <2>2. CASE AddrListed(n) \/ NodeDeleted(n)
    BY <2>2 DEF AddrListed, NodeDeleted, BareInv, TypeOK, CacheType
  <2>3. CASE HandshakeClient(n) \/ HandshakeLock(n)
    BY <2>3 DEF HandshakeClient, HandshakeLock, BareInv
  <2> QED
    BY <1>2, <2>1, <2>2, <2>3 DEF NodeStep
<1>3. ASSUME NEW c \in Calls, CallStep(c)
      PROVE  nodeLister' = nodeLister
  BY <1>3 DEF CallStep, SendBindPod, BindPodRLock, BindPodInsert, BindPodEnqueue
<1>4. ASSUME TemplateListed \/ TemplateDeleted \/ UNCHANGED vars
      PROVE  nodeLister' = nodeLister
  BY <1>4 DEF TemplateListed, TemplateDeleted, vars
<1> QED
  BY <1>1, <1>2, <1>3, <1>4 DEF Next, BareInv

LEMMA ForeignStep ==
  ASSUME AddrKnown, TypeOK, BareInv, ForeignInv, [Next]_vars
  PROVE  ForeignInv'
<1> USE DEF queueVars, syncVars, rpcVars, envVars, apiVars
<1>1. ASSUME NEW p \in Pods, PodStep(p), NEW q \in Foreign, q # p
      PROVE  /\ readyTimers'[q] = NoTimer /\ exposing'[q] = 0 /\ pc'[q] \in {"idle", "inmem"}
             /\ \A i \in 1 .. Len(log'[q]) : log'[q][i].by = "env"
  <2>1. q \in Pods \ {p}
    BY <1>1 DEF Foreign
  <2>2. /\ readyTimers'[q] = readyTimers[q] /\ exposing'[q] = exposing[q]
        /\ pc'[q] = pc[q] /\ log'[q] = log[q]
    BY <1>1, <2>1, PodStepFrame
  <2> QED
    BY <1>1, <2>2 DEF ForeignInv
<1>2. ASSUME NEW p \in Foreign, PodStep(p)
      PROVE  /\ readyTimers'[p] = NoTimer /\ exposing'[p] = 0 /\ pc'[p] \in {"idle", "inmem"}
             /\ \A i \in 1 .. Len(log'[p]) : log'[p][i].by = "env"
  <2>1. p \in Pods /\ isResponsibleFor(p) # "yes"
    BY ForeignNotResponsible DEF Foreign
  <2>2. readyTimers[p] = NoTimer /\ exposing[p] = 0 /\ pc[p] \in {"idle", "inmem"}
    BY DEF ForeignInv
  <2>3. CASE CreatePlain(p) \/ RequestDelete(p) \/ ForceDelete(p) \/ Fail(p)
    <3>1. UNCHANGED <<readyTimers, exposing, pc>>
      BY <2>3 DEF CreatePlain, RequestDelete, ForceDelete, Fail
    <3>2. PICK v \in Version : Write(p, v) /\ v.by = "env"
      <4>1. api(p) \in Version
        BY <2>1, VersionsHeld DEF TypeOK
      <4>2. /\ Created(p, "env").by = "env" /\ Removed(p, "env").by = "env"
            /\ [api(p) EXCEPT !.del = TRUE, !.by = "env"].by = "env"
            /\ [api(p) EXCEPT !.st = "failed", !.by = "env"].by = "env"
        BY <4>1 DEF Created, Removed, Version
      <4> QED
        BY <2>1, <2>3, <4>2, WrittenVersions DEF CreatePlain, RequestDelete, ForceDelete, Fail, TypeOK
    <3>3. Len(log[p]) \in Nat
      BY <2>1, VersionsHeld DEF TypeOK
    <3>4. \A i \in 1 .. Len(log'[p]) : i \in 1 .. Len(log[p]) \/ i = Len(log[p]) + 1
      BY <2>1, <3>2, <3>3, WriteLog, SMT DEF TypeOK
    <3>5. \A i \in 1 .. Len(log'[p]) : log'[p][i].by = "env"
      BY <2>1, <3>2, <3>4, WriteLog, SMT DEF TypeOK, ForeignInv
    <3> QED
      BY <2>2, <3>1, <3>5
  <2>4. CASE Informer(p) \/ DelayedAdd(p) \/ handlePodEvent(p) \/ handlePodEventFlush(p)
    <3>1. UNCHANGED <<log, pc, exposing>>
      BY <2>4 DEF Informer, DelayedAdd, handlePodEvent, handlePodEventFlush
    <3>2. readyTimers'[p] = NoTimer
      BY <2>1, <2>2, <2>4 DEF Informer, DelayedAdd, handlePodEvent, handlePodEventFlush, TypeOK, CacheType
    <3> QED
      BY <2>2, <3>1, <3>2 DEF ForeignInv
  <2>5. CASE TimerElapses(p) \/ SyncPodTimer(p) \/ SyncPodMark(p) \/ SyncPodDelete(p)
             \/ SyncPodError(p) \/ SyncPodMarkLost(p) \/ SyncPodDeleteLost(p)
             \/ ExposeManagedPod(p) \/ ExposeManagedPodLost(p)
    <3>1. readyTimers[p].st # "running" /\ ~(exposing[p] > 0)
      BY <2>2, SMT DEF NoTimer
    <3> QED
      BY <2>2, <2>5, <3>1 DEF TimerElapses, SyncPodTimer, SyncPodMark, refStatus, SyncPodDelete, SyncPodError,
         SyncPodMarkLost, SyncPodDeleteLost, ExposeManagedPod, ExposeManagedPodLost
  <2>6. CASE SyncPodGet(p)
    BY <2>1, <2>6 DEF SyncPodGet, SyncDone, SyncContinue, ForeignInv, TypeOK, SyncType, CacheType
  <2>7. CASE SyncPodInMem(p)
    BY <2>1, <2>7 DEF SyncPodInMem, SyncDone, SyncContinue, ForeignInv, TypeOK, SyncType
  <2> QED
    BY <1>2, <2>3, <2>4, <2>5, <2>6, <2>7 DEF PodStep
<1>3. ASSUME NEW p \in Pods, PodStep(p)
      PROVE  ForeignInv'
  BY <1>1, <1>2, <1>3 DEF ForeignInv
<1>4. ASSUME NEW n \in Nodes, NodeStep(n)
      PROVE  ForeignInv'
  <2>1. UNCHANGED <<readyTimers, exposing, pc, log>>
    BY <1>4 DEF NodeStep, NodeListed, AddrListed, NodeDeleted, HandshakeClient, HandshakeLock
  <2> QED
    BY <2>1 DEF ForeignInv
<1>5. ASSUME NEW c \in Calls, CallStep(c)
      PROVE  ForeignInv'
  <2>1. UNCHANGED <<readyTimers, exposing, pc, log>>
    BY <1>5 DEF CallStep, SendBindPod, BindPodRLock, BindPodInsert, BindPodEnqueue
  <2> QED
    BY <2>1 DEF ForeignInv
<1>6. ASSUME TemplateListed \/ TemplateDeleted \/ UNCHANGED vars
      PROVE  ForeignInv'
  <2>1. UNCHANGED <<readyTimers, exposing, pc, log>>
    BY <1>6 DEF TemplateListed, TemplateDeleted, vars
  <2> QED
    BY <2>1 DEF ForeignInv
<1> QED
  BY <1>3, <1>4, <1>5, <1>6 DEF Next

\* However nodes come, go and are listed, SyncPod never starts a timer for,
\* exposes, marks or deletes a pod of a node that is not delegated to it, unless
\* its cache shows neither that node's address nor its own.
THEOREM OthersLeftAlone ==
  ASSUME AddrKnown
  PROVE  Spec => []OthersUntouched
<1>1. Init => BareInv /\ ForeignInv
  BY SMT DEF Init, ListedAs, BareInv, ForeignInv, Foreign, NoPod
<1>2. TypeOK /\ BareInv /\ ForeignInv /\ [Next]_vars => (BareInv /\ ForeignInv)'
  BY AddrKnown, BareStep, ForeignStep
<1>3. ForeignInv => OthersUntouched
  BY DEF ForeignInv, Foreign, OthersUntouched
<1> QED
  BY TypeCorrect, <1>1, <1>2, <1>3, PTL DEF Spec

-----------------------------------------------------------------------------
\* Terminal phases.

\* A worker that waits for a timer or marks an API object read it as pending.
ReadPending ==
  \A p \in Pods :
    /\ pc[p] = "mark" => rv[p] # 0
    /\ pc[p] \in {"timer", "mark"} /\ rv[p] # 0 => log[p][rv[p]].st = "pending"

\* No step rewrites a version that was written.
LEMMA LogGrows ==
  ASSUME TypeOK, [Next]_vars, NEW p \in Pods, NEW i \in 1 .. Len(log[p])
  PROVE  log'[p][i] = log[p][i]
<1> USE DEF queueVars, syncVars, rpcVars, envVars, apiVars
<1>1. CASE \E q \in Pods : PodStep(q)
  <2>1. PICK q \in Pods : PodStep(q)
    BY <1>1
  <2>2. log' = log \/ \E v \in Version : Write(q, v)
    BY <2>1, PodStepFrame
  <2> QED BY <2>2, WriteLog DEF TypeOK
<1>2. ASSUME NEW n \in Nodes, NodeStep(n)
      PROVE  log' = log
  BY <1>2 DEF NodeStep, NodeListed, AddrListed, NodeDeleted, HandshakeClient, HandshakeLock
<1>3. ASSUME NEW c \in Calls, CallStep(c)
      PROVE  log' = log
  BY <1>3 DEF CallStep, SendBindPod, BindPodRLock, BindPodInsert, BindPodEnqueue
<1>4. ASSUME TemplateListed \/ TemplateDeleted \/ UNCHANGED vars
      PROVE  log' = log
  BY <1>4 DEF TemplateListed, TemplateDeleted, vars
<1> QED BY <1>1, <1>2, <1>3, <1>4 DEF Next

LEMMA ReadPendingStep ==
  ASSUME TypeOK, ReadPending, [Next]_vars
  PROVE  ReadPending'
<1> USE DEF queueVars, syncVars, rpcVars, envVars, apiVars
<1>1. \A p \in Pods : rv[p] \in Nat /\ rv[p] <= Len(log[p]) /\ Len(log[p]) \in Nat
  BY VersionsHeld, SMT DEF TypeOK, LogType, SyncType
<1>2. ASSUME NEW p \in Pods, rv[p] # 0
      PROVE  log'[p][rv[p]] = log[p][rv[p]]
  <2>1. rv[p] \in 1 .. Len(log[p])
    BY <1>1, <1>2, SMT
  <2> QED
    BY <2>1, LogGrows
<1>3. ASSUME NEW p \in Pods, pc'[p] = pc[p], rv'[p] = rv[p]
      PROVE  /\ pc'[p] = "mark" => rv'[p] # 0
             /\ pc'[p] \in {"timer", "mark"} /\ rv'[p] # 0 => log'[p][rv'[p]].st = "pending"
  BY <1>2, <1>3 DEF ReadPending
<1>4. CASE UNCHANGED <<pc, rv>>
  BY <1>3, <1>4 DEF ReadPending
<1>5. ASSUME NEW p \in Pods,
             \A q \in Pods \ {p} : pc'[q] = pc[q] /\ rv'[q] = rv[q],
             pc'[p] = "mark" => rv'[p] # 0,
             pc'[p] \in {"timer", "mark"} /\ rv'[p] # 0 => log'[p][rv'[p]].st = "pending"
      PROVE  ReadPending'
  BY <1>3, <1>5 DEF ReadPending
<1>6. ASSUME NEW p \in Pods, \E again \in BOOLEAN : SyncDone(p, again)
      PROVE  ReadPending'
  <2>1. pc' = [pc EXCEPT ![p] = "idle"] /\ rv' = [rv EXCEPT ![p] = 0]
    BY <1>6 DEF SyncDone
  <2>2. pc'[p] = "idle" /\ \A q \in Pods \ {p} : pc'[q] = pc[q] /\ rv'[q] = rv[q]
    BY <2>1 DEF TypeOK, SyncType
  <2> QED BY <1>5, <2>2
<1>14. ASSUME NEW p \in Pods, NEW at, NEW v, NEW t, SyncContinue(p, at, v, t)
       PROVE  pc'[p] = at /\ rv'[p] = v /\ \A q \in Pods \ {p} : pc'[q] = pc[q] /\ rv'[q] = rv[q]
  BY <1>14 DEF SyncContinue, TypeOK, SyncType
<1>7. ASSUME NEW p \in Pods, SyncPodGet(p)
      PROVE  ReadPending'
  <2>1. CASE \E again \in BOOLEAN : SyncDone(p, again)
    BY <1>6, <2>1
  <2>2. CASE SyncContinue(p, "inmem", 0, 0) \/ SyncContinue(p, "delete", seen[p], 0)
    <3>1. pc'[p] \in {"inmem", "delete"} /\ \A q \in Pods \ {p} : pc'[q] = pc[q] /\ rv'[q] = rv[q]
      BY <1>14, <2>2
    <3> QED BY <1>5, <3>1
  <2>3. CASE lister(p).st = "pending" /\ SyncContinue(p, "timer", seen[p], 0)
    <3>1. /\ pc'[p] = "timer" /\ rv'[p] = seen[p]
          /\ \A q \in Pods \ {p} : pc'[q] = pc[q] /\ rv'[q] = rv[q]
      BY <1>14, <2>3
    <3>2. log'[p][seen[p]].st = "pending"
      BY <1>7, <2>3 DEF SyncPodGet, lister
    <3> QED BY <1>5, <3>1, <3>2
  <2>4. \/ \E again \in BOOLEAN : SyncDone(p, again)
        \/ SyncContinue(p, "inmem", 0, 0) \/ SyncContinue(p, "delete", seen[p], 0)
        \/ lister(p).st = "pending" /\ SyncContinue(p, "timer", seen[p], 0)
    BY <1>7 DEF SyncPodGet
  <2> QED BY <2>1, <2>2, <2>3, <2>4
<1>8. ASSUME NEW p \in Pods, SyncPodInMem(p)
      PROVE  ReadPending'
  <2>1. CASE \E again \in BOOLEAN : SyncDone(p, again)
    BY <1>6, <2>1
  <2>2. CASE SyncContinue(p, "timer", 0, 0)
    <3>1. /\ pc'[p] = "timer" /\ rv'[p] = 0
          /\ \A q \in Pods \ {p} : pc'[q] = pc[q] /\ rv'[q] = rv[q]
      BY <1>14, <2>2
    <3> QED BY <1>5, <3>1
  <2>3. (\E again \in BOOLEAN : SyncDone(p, again)) \/ SyncContinue(p, "timer", 0, 0)
    BY <1>8 DEF SyncPodInMem
  <2> QED BY <2>1, <2>2, <2>3
<1>9. ASSUME NEW p \in Pods, SyncPodTimer(p)
      PROVE  ReadPending'
  <2>1. CASE \E again \in BOOLEAN : SyncDone(p, again)
    BY <1>6, <2>1
  <2>2. CASE rv[p] # 0 /\ \E t : SyncContinue(p, "mark", rv[p], t)
    <3>1. /\ pc'[p] = "mark" /\ rv'[p] = rv[p]
          /\ \A q \in Pods \ {p} : pc'[q] = pc[q] /\ rv'[q] = rv[q]
      BY <1>14, <2>2
    <3>2. log'[p][rv[p]].st = "pending"
      BY <1>2, <1>9, <2>2 DEF SyncPodTimer, ReadPending
    <3> QED BY <1>5, <2>2, <3>1, <3>2
  <2>3. \/ \E again \in BOOLEAN : SyncDone(p, again)
        \/ rv[p] # 0 /\ \E t : SyncContinue(p, "mark", rv[p], t)
    BY <1>9 DEF SyncPodTimer
  <2> QED BY <2>1, <2>2, <2>3
<1>10. ASSUME NEW p \in Pods, \/ SyncPodMark(p) \/ SyncPodDelete(p) \/ SyncPodError(p)
                              \/ SyncPodMarkLost(p) \/ SyncPodDeleteLost(p)
       PROVE  ReadPending'
  <2>1. UNCHANGED <<pc, rv>> \/ \E again \in BOOLEAN : SyncDone(p, again)
    BY <1>10 DEF SyncPodMark, refStatus, SyncPodDelete, SyncPodError, SyncPodMarkLost, SyncPodDeleteLost
  <2> QED BY <1>4, <1>6, <2>1
<1>11. CASE UNCHANGED vars \/ \E n \in Nodes : NodeStep(n)
  BY <1>4, <1>11 DEF vars, NodeStep, NodeListed, AddrListed, NodeDeleted, HandshakeClient, HandshakeLock
<1>12. ASSUME TemplateListed \/ TemplateDeleted \/ \E c \in Calls : CallStep(c)
       PROVE  ReadPending'
  <2>1. UNCHANGED <<pc, rv>>
    BY <1>12 DEF TemplateListed, TemplateDeleted, CallStep, SendBindPod, BindPodRLock, BindPodInsert,
       BindPodEnqueue
  <2> QED BY <1>4, <2>1
<1>13. ASSUME NEW p \in Pods, \/ CreatePlain(p) \/ RequestDelete(p) \/ ForceDelete(p) \/ Fail(p) \/ Informer(p)
                              \/ TimerElapses(p) \/ DelayedAdd(p) \/ handlePodEvent(p)
                              \/ handlePodEventFlush(p) \/ ExposeManagedPod(p) \/ ExposeManagedPodLost(p)
       PROVE  ReadPending'
  BY <1>4, <1>13 DEF CreatePlain, RequestDelete, ForceDelete, Fail, Informer, TimerElapses, DelayedAdd,
     handlePodEvent, handlePodEventFlush, ExposeManagedPod, ExposeManagedPodLost
<1> QED
  BY <1>7, <1>8, <1>9, <1>10, <1>11, <1>12, <1>13 DEF Next, PodStep


\* What a step writes over a version in a terminal phase: an update needs the version
\* that was read as pending.
LEMMA TerminalWrite ==
  ASSUME ~patch, TypeOK, ReadPending, NEW p \in Pods, PodStep(p)
  PROVE  \/ log' = log
         \/ \E v \in Version : Write(p, v) /\ (api(p).st = "failed" => v.st \in {"failed", "none"})
<1> USE DEF queueVars, syncVars, rpcVars, envVars, apiVars
<1>1. api(p) \in Version
  BY VersionsHeld DEF TypeOK
<1>2. /\ Removed(p, "env").st = "none" /\ Removed(p, "kubelet").st = "none" /\ Removed(p, "lost").st = "none"
      /\ [api(p) EXCEPT !.del = TRUE, !.by = "env"].st = api(p).st
      /\ [api(p) EXCEPT !.st = "failed", !.by = "env"].st = "failed"
  BY <1>1 DEF Removed, Version
<1>3. CASE CreatePlain(p) \/ RequestDelete(p) \/ ForceDelete(p) \/ Fail(p)
  BY <1>2, <1>3, WrittenVersions DEF CreatePlain, RequestDelete, ForceDelete, Fail, TypeOK
<1>4. CASE SyncPodMark(p) \/ SyncPodMarkLost(p)
  <2>1. CASE log' = log
    BY <2>1
  <2>2. CASE /\ pc[p] = "mark" /\ Accepts(p)
             /\ \E who \in {"kubelet", "lost"} : Write(p, [api(p) EXCEPT !.st = refStatus, !.by = who])
    <3>1. rv[p] = Len(log[p]) /\ rv[p] # 0
      BY <2>2 DEF Accepts, ReadPending
    <3>2. api(p).st = "pending"
      BY <2>2, <3>1 DEF ReadPending, api
    <3> QED BY <2>2, <3>2, WrittenVersions DEF TypeOK, refStatus
  <2> QED BY <1>4, <2>1, <2>2 DEF SyncPodMark, SyncPodMarkLost
<1>5. CASE SyncPodDelete(p) \/ SyncPodDeleteLost(p) \/ ExposeManagedPod(p) \/ ExposeManagedPodLost(p)
  BY <1>2, <1>5, WrittenVersions DEF SyncPodDelete, SyncPodDeleteLost, ExposeManagedPod,
     ExposeManagedPodLost, TypeOK
<1>6. CASE \/ Informer(p) \/ TimerElapses(p) \/ DelayedAdd(p) \/ handlePodEvent(p) \/ handlePodEventFlush(p)
           \/ SyncPodGet(p) \/ SyncPodInMem(p) \/ SyncPodTimer(p) \/ SyncPodError(p)
  BY <1>6 DEF Informer, TimerElapses, DelayedAdd, handlePodEvent, handlePodEventFlush, SyncPodGet,
     SyncPodInMem, SyncPodTimer, SyncPodError
<1> QED BY <1>3, <1>4, <1>5, <1>6 DEF PodStep

LEMMA TerminalStep ==
  ASSUME ~patch, TypeOK, ReadPending, TerminalPhaseKept, [Next]_vars
  PROVE  TerminalPhaseKept'
<1> USE DEF queueVars, syncVars, rpcVars, envVars, apiVars
<1>1. CASE log' = log
  BY <1>1 DEF TerminalPhaseKept
<1>2. ASSUME NEW p \in Pods, NEW v \in Version, Write(p, v), api(p).st = "failed" => v.st \in {"failed", "none"}
      PROVE  TerminalPhaseKept'
  <2>1. /\ Len(log'[p]) = Len(log[p]) + 1 /\ log'[p][Len(log[p]) + 1] = v
        /\ \A i \in 1 .. Len(log[p]) : log'[p][i] = log[p][i]
        /\ \A q \in Pods \ {p} : log'[q] = log[q]
    BY <1>2, WriteLog DEF TypeOK
  <2>2. Len(log[p]) \in Nat /\ Len(log[p]) > 0
    BY VersionsHeld DEF TypeOK
  <2>3. ASSUME NEW i \in 2 .. Len(log'[p]), log'[p][i - 1].st = "failed"
        PROVE  log'[p][i].st \in {"failed", "none"}
    <3>1. CASE i = Len(log[p]) + 1
      <4>1. log'[p][i - 1] = api(p)
        BY <2>1, <2>2, <3>1, SMT DEF api
      <4> QED BY <1>2, <2>1, <2>3, <3>1, <4>1
    <3>2. CASE i # Len(log[p]) + 1
      <4>1. i \in 2 .. Len(log[p]) /\ i - 1 \in 1 .. Len(log[p]) /\ i \in 1 .. Len(log[p])
        BY <2>1, <2>2, <3>2, SMT
      <4> QED BY <2>1, <2>3, <4>1 DEF TerminalPhaseKept
    <3> QED BY <3>1, <3>2
  <2> QED BY <2>1, <2>3 DEF TerminalPhaseKept
<1>3. ASSUME NEW p \in Pods, PodStep(p)
      PROVE  TerminalPhaseKept'
  BY <1>1, <1>2, <1>3, TerminalWrite
<1>4. ASSUME NEW n \in Nodes, NodeStep(n)
      PROVE  log' = log
  BY <1>4 DEF NodeStep, NodeListed, AddrListed, NodeDeleted, HandshakeClient, HandshakeLock
<1>5. ASSUME NEW c \in Calls, CallStep(c)
      PROVE  log' = log
  BY <1>5 DEF CallStep, SendBindPod, BindPodRLock, BindPodInsert, BindPodEnqueue
<1>6. ASSUME TemplateListed \/ TemplateDeleted \/ UNCHANGED vars
      PROVE  log' = log
  BY <1>6 DEF TemplateListed, TemplateDeleted, vars
<1> QED BY <1>1, <1>3, <1>4, <1>5, <1>6 DEF Next

\* With status updates (not patches) markPodReady never takes a pod out of a terminal
\* phase, whoever moves pods there and removes them, however stale the informer cache.
THEOREM TerminalKept ==
  ASSUME ~patch
  PROVE  Spec => []TerminalPhaseKept
<1>1. Init => ReadPending /\ TerminalPhaseKept
  BY SMT DEF Init, ReadPending, TerminalPhaseKept
<1>2. TypeOK /\ ReadPending /\ [Next]_vars => ReadPending'
  BY ReadPendingStep
<1>3. TypeOK /\ ReadPending /\ TerminalPhaseKept /\ [Next]_vars => TerminalPhaseKept'
  BY TerminalStep
<1> QED
  BY TypeCorrect, <1>1, <1>2, <1>3, PTL DEF Spec
====
