-------------------------- MODULE TraceReplayProofs --------------------------
(***************************************************************************)
(* Proofs about TraceReplay, for any targets, traces and senders: the      *)
(* count the autoscaler uses is exact, the summary is complete and only an  *)
(* interrupted replay sends on a closed channel.                            *)
(***************************************************************************)
EXTENDS TraceReplay, FiniteSetTheorems, TLAPS

\* Most steps need no arithmetic and go to Zenon; the others cite SMT.
USE Zenon

-----------------------------------------------------------------------------
\* A finite number of targets with finite traces makes finitely many requests.
LEMMA RequestsFinite == IsFiniteSet(Requests)
<1> DEFINE Trace(t) == {t} \X (0 .. Invocations[t] - 1)
           Traces == {Trace(t) : t \in Targets}
           f == [t \in Targets |-> Trace(t)]
<1>1. \A t \in Targets : IsFiniteSet(Trace(t))
  <2> TAKE t \in Targets
  <2>1. IsFiniteSet(0 .. Invocations[t] - 1)
    <3>1. 0 \in Int /\ Invocations[t] - 1 \in Int
      BY ReplayAssumption, SMT
    <3> QED BY <3>1, FS_Interval
  <2> QED BY <2>1, FS_Singleton, FS_Product
<1>2. f \in Surjection(Targets, Traces)
  BY DEF Surjection
<1>3. IsFiniteSet(Traces)
  BY <1>2, FS_Surjection, ReplayAssumption
<1>4. IsFiniteSet(UNION Traces)
  BY <1>1, <1>3, FS_UNION
<1> QED BY <1>4 DEF Requests

LEMMA TargetType == \A r \in Requests : Target(r) \in Targets
BY SMT DEF Requests, Target

\* The cardinalities of two sets of requests that differ at most in r.
LEMMA SetCount ==
  ASSUME NEW A \in SUBSET Requests, NEW B \in SUBSET Requests, NEW r \in Requests,
         \A q \in Requests \ {r} : q \in A <=> q \in B
  PROVE  /\ Cardinality(A) \in Nat /\ Cardinality(B) \in Nat
         /\ (r \in A <=> r \in B) => Cardinality(B) = Cardinality(A)
         /\ r \notin A /\ r \in B => Cardinality(B) = Cardinality(A) + 1
         /\ r \in A /\ r \notin B => Cardinality(B) = Cardinality(A) - 1
<1>1. IsFiniteSet(A) /\ IsFiniteSet(B)
  BY FS_Subset, RequestsFinite
<1>2. Cardinality(A) \in Nat /\ Cardinality(B) \in Nat
  BY <1>1, FS_CardinalityType
<1>3. (r \in A <=> r \in B) => A = B
  BY SMT
<1>4. ASSUME r \notin A, r \in B
      PROVE  Cardinality(B) = Cardinality(A) + 1
  <2>1. B = A \cup {r}
    BY <1>4
  <2> QED BY <2>1, <1>1, <1>4, FS_AddElement
<1>5. ASSUME r \in A, r \notin B
      PROVE  Cardinality(B) = Cardinality(A) - 1
  <2>1. B = A \ {r}
    BY <1>5
  <2> QED BY <2>1, <1>1, <1>5, FS_RemoveElement
<1> QED BY <1>2, <1>3, <1>4, <1>5

-----------------------------------------------------------------------------
\* The type invariant.

\* Start has begun when main closes the gateway, so no relay is started after that.
GatewayFirst == main \in {"closing", "returned"} => gateway # "off"

LEMMA GatewayNext == GatewayFirst /\ [Next]_vars => GatewayFirst'
<1> SUFFICES ASSUME GatewayFirst, [Next]_vars PROVE GatewayFirst'
  OBVIOUS
<1> USE DEF gatewayVars, mainVars, clientVars, GatewayFirst
<1>1. ASSUME NEW r \in Requests, RequestStep(r)
      PROVE  GatewayFirst'
  BY <1>1 DEF RequestStep, send, relayRequest, Run, Dispatch, relayResponse, recvResponse, writeResponse
<1>2. ASSUME (\E t \in Targets : TargetStep(t)) \/ UNCHANGED vars
      PROVE  GatewayFirst'
  BY <1>2 DEF TargetStep, relayStops, RunStops, CloseInput, vars
<1>3. ASSUME ProcessStep
      PROVE  GatewayFirst'
  BY <1>3 DEF ProcessStep, Start, autoscalerRun, mainGateway, mainFatal, mainClient, Signal, mainSelect,
     mainCancel, CloseOutput, mainReturns, recvDone, writeSummary
<1> QED BY <1>1, <1>2, <1>3 DEF Next

LEMMA TypeNext == TypeOK /\ GatewayFirst /\ [Next]_vars => TypeOK'
<1> SUFFICES ASSUME TypeOK, GatewayFirst, [Next]_vars PROVE TypeOK'
  OBVIOUS
<1> USE DEF gatewayVars, mainVars, clientVars
<1>1. ASSUME NEW r \in Requests, RequestStep(r)
      PROVE  TypeOK'
  <2>1. UNCHANGED <<framework, gateway, relaying, dispatching, ctxDone, main, branch, openInputs, recv>>
    BY <1>1 DEF RequestStep, send, relayRequest, Run, Dispatch, relayResponse, recvResponse,
       writeResponse
  <2>2. at' \in [Requests -> Places]
    BY <1>1 DEF RequestStep, send, relayRequest, Run, Dispatch, relayResponse, recvResponse,
       writeResponse, Move, Places, TypeOK
  <2>3. concurrency' \in [Targets -> Int]
    BY <1>1, TargetType, SMT DEF Counts, RequestStep, send, relayRequest, Run, Dispatch, relayResponse,
       recvResponse, writeResponse, TypeOK
  <2>4. nTotal' \in Nat
    BY <1>1, SMT DEF RequestStep, send, relayRequest, Run, Dispatch, relayResponse, recvResponse,
       writeResponse, TypeOK
  <2>5. panicked' \in {"no", "closed", "notStarted"}
    BY <1>1 DEF RequestStep, send, relayRequest, Run, Dispatch, relayResponse, recvResponse,
       writeResponse, TypeOK
  <2> QED BY <2>1, <2>2, <2>3, <2>4, <2>5, ZenonT(30) DEF TypeOK
<1>2. ASSUME NEW t \in Targets, TargetStep(t)
      PROVE  TypeOK'
  BY <1>2, ZenonT(30) DEF TargetStep, relayStops, RunStops, CloseInput, TypeOK
<1>3. ASSUME ProcessStep
      PROVE  TypeOK'
  <2>1. CASE Start
    <3>1. main \notin {"closing", "returned"}
      BY <2>1 DEF Start, GatewayFirst
    <3>2. gateway' \in {"off", "relaying", "started"}
      BY <2>1 DEF Start
    <3> QED BY <2>1, <3>1, <3>2 DEF Start, TypeOK
  <2>2. CASE autoscalerRun
    BY <2>2, ZenonT(30) DEF autoscalerRun, TypeOK
  <2>3. CASE mainGateway
    BY <2>3 DEF mainGateway, TypeOK
  <2>4. CASE mainFatal
    BY <2>4 DEF mainFatal, TypeOK
  <2>5. CASE mainClient
    BY <2>5 DEF mainClient, TypeOK
  <2>6. CASE Signal
    BY <2>6, ZenonT(30) DEF Signal, TypeOK
  <2>7. CASE mainSelect
    <3>1. CASE ctxDone /\ main' = "cancelled" /\ branch' = "signal"
      BY <2>7, <3>1 DEF mainSelect, TypeOK
    <3>2. CASE main' = "waiting" /\ branch' = "finished"
      BY <2>7, <3>2 DEF mainSelect, TypeOK
    <3> QED BY <2>7, <3>1, <3>2 DEF mainSelect
  <2>8. CASE mainCancel
    BY <2>8 DEF mainCancel, TypeOK
  <2>9. CASE CloseOutput \/ mainReturns \/ recvDone \/ writeSummary
    BY <2>9, SMT DEF CloseOutput, mainReturns, recvDone, writeSummary, TypeOK
  <2> QED BY <1>3, <2>1, <2>2, <2>3, <2>4, <2>5, <2>6, <2>7, <2>8, <2>9 DEF ProcessStep
<1>4. CASE UNCHANGED vars
  BY <1>4, SMT DEF vars, TypeOK
<1> QED BY <1>1, <1>2, <1>3, <1>4 DEF Next

\* Every variable keeps its type, and the gateway is closed only after the relays.
THEOREM TypeCorrect == Spec => []TypeOK
<1>1. ASSUME Init
      PROVE  TypeOK
  <2>1. at \in [Requests -> Places] /\ concurrency \in [Targets -> Int] /\ nTotal \in Nat
    BY <1>1, SMT DEF Init, Places
  <2>2. ctxDone \in BOOLEAN /\ panicked = "no" /\ framework \in {"kpa", "one-time", "knative"} /\ gateway = "off"
    BY <1>1 DEF Init
  <2>3. main = "setup" /\ branch = "none" /\ recv = "running"
    BY <1>1 DEF Init
  <2>4. relaying \in SUBSET Targets /\ dispatching \in SUBSET Targets /\ openInputs \in SUBSET Targets
    BY <1>1 DEF Init
  <2> QED BY <2>1, <2>2, <2>3, <2>4 DEF TypeOK
<1>2. Init => GatewayFirst
  BY DEF Init, GatewayFirst
<1> QED BY <1>1, <1>2, GatewayNext, TypeNext, PTL DEF Spec

-----------------------------------------------------------------------------
\* The counts.

Written == {r \in Requests : at[r] = "written"}

\* The relays' and the writer's counts are the numbers of requests in those places.
CountInv == ConcurrencyExact /\ nTotal = Cardinality(Written)

\* A request that moves leaves the others where they are.
LEMMA MoveFrame ==
  ASSUME TypeOK, NEW r \in Requests, NEW from, NEW to, Move(r, from, to)
  PROVE  at[r] = from /\ at'[r] = to /\ \A q \in Requests \ {r} : at'[q] = at[q]
BY DEF Move, TypeOK

LEMMA CountNext == TypeOK /\ CountInv /\ [Next]_vars => CountInv'
<1> SUFFICES ASSUME TypeOK, CountInv, [Next]_vars PROVE CountInv'
  OBVIOUS
<1> USE DEF gatewayVars, mainVars, clientVars
<1>0. framework' = framework
  BY DEF Next, RequestStep, send, relayRequest, Run, Dispatch, relayResponse, recvResponse, writeResponse,
     TargetStep, relayStops, RunStops, CloseInput, ProcessStep, Start, autoscalerRun, mainGateway, mainFatal,
     mainClient, Signal, mainSelect, mainCancel, CloseOutput, mainReturns, recvDone,
     writeSummary, vars
<1>1. ASSUME at' = at, concurrency' = concurrency, nTotal' = nTotal
      PROVE  CountInv'
  BY <1>0, <1>1 DEF CountInv, ConcurrencyExact, Outstanding, Written
<1>2. ASSUME NEW r \in Requests, \A q \in Requests \ {r} : at'[q] = at[q]
      PROVE  /\ \A t \in Targets : \A q \in Requests \ {r} : q \in Outstanding(t) <=> q \in Outstanding(t)'
             /\ \A q \in Requests \ {r} : q \in Written <=> q \in Written'
  BY <1>2 DEF Outstanding, Written
<1>3. \A t \in Targets : Outstanding(t) \in SUBSET Requests /\ Outstanding(t)' \in SUBSET Requests
  BY DEF Outstanding
<1>4. Written \in SUBSET Requests /\ Written' \in SUBSET Requests
  BY DEF Written
<1>5. concurrency \in [Targets -> Int] /\ nTotal \in Nat
  BY DEF TypeOK
<1>6. ASSUME NEW r \in Requests, \A q \in Requests \ {r} : at'[q] = at[q],
             r \in Written <=> r \in Written', nTotal' = nTotal
      PROVE  nTotal' = Cardinality(Written')
  BY <1>2, <1>4, <1>6, SetCount DEF CountInv
<1>7. ASSUME NEW r \in Requests, \A q \in Requests \ {r} : at'[q] = at[q],
             \A t \in Targets : r \in Outstanding(t) <=> r \in Outstanding(t)',
             concurrency' = concurrency
      PROVE  ConcurrencyExact'
  <2>1. \A t \in Targets : Cardinality(Outstanding(t)') = Cardinality(Outstanding(t))
    BY <1>2, <1>3, <1>7, SetCount
  <2> QED BY <1>0, <2>1, <1>7 DEF CountInv, ConcurrencyExact
<1>8. ASSUME NEW r \in Requests, relayRequest(r) \/ relayResponse(r)
      PROVE  CountInv'
  <2>1. \A q \in Requests \ {r} : at'[q] = at[q]
    BY <1>8, MoveFrame DEF relayRequest, relayResponse
  <2>2. \A t \in Targets \ {Target(r)} :
          /\ concurrency'[t] = concurrency[t]
          /\ Cardinality(Outstanding(t)') = Cardinality(Outstanding(t))
    <3> TAKE t \in Targets \ {Target(r)}
    <3>1. r \notin Outstanding(t) /\ r \notin Outstanding(t)'
      BY DEF Outstanding
    <3>2. concurrency'[t] = concurrency[t]
      BY <1>8, <1>5 DEF relayRequest, relayResponse
    <3> QED BY <3>1, <3>2, <2>1, <1>2, <1>3, SetCount
  <2>3. ASSUME framework = "kpa"
        PROVE  concurrency'[Target(r)] = Cardinality(Outstanding(Target(r))')
    <3> DEFINE t == Target(r)
    <3>0. t \in Targets /\ Counts = 1
      BY <2>3, TargetType DEF Counts
    <3>1. CASE relayRequest(r)
      <4>1. r \notin Outstanding(t) /\ r \in Outstanding(t)'
        BY <3>1, MoveFrame, SMT DEF relayRequest, Outstanding
      <4>2. concurrency'[t] = concurrency[t] + 1
        BY <3>0, <3>1, <1>5 DEF relayRequest
      <4> QED BY <2>3, <3>0, <4>1, <4>2, <2>1, <1>2, <1>3, SetCount, SMT DEF CountInv, ConcurrencyExact
    <3>2. CASE relayResponse(r)
      <4>1. r \in Outstanding(t) /\ r \notin Outstanding(t)'
        BY <3>2, MoveFrame, SMT DEF relayResponse, Outstanding
      <4>2. concurrency'[t] = concurrency[t] - 1
        BY <3>0, <3>2, <1>5 DEF relayResponse
      <4> QED BY <2>3, <3>0, <4>1, <4>2, <2>1, <1>2, <1>3, SetCount, SMT DEF CountInv, ConcurrencyExact
    <3> QED BY <1>8, <3>1, <3>2
  <2>4. r \in Written <=> r \in Written'
    BY <1>8, MoveFrame, SMT DEF relayRequest, relayResponse, Written
  <2>5. nTotal' = nTotal
    BY <1>8 DEF relayRequest, relayResponse
  <2>6. ConcurrencyExact'
    BY <1>0, <2>2, <2>3 DEF CountInv, ConcurrencyExact
  <2> QED BY <2>1, <2>4, <2>5, <2>6, <1>6 DEF CountInv
<1>9. ASSUME NEW r \in Requests, writeResponse(r)
      PROVE  CountInv'
  <2>1. at[r] = "writer" /\ at'[r] = "written" /\ \A q \in Requests \ {r} : at'[q] = at[q]
    BY <1>9, MoveFrame DEF writeResponse
  <2>2. concurrency' = concurrency /\ nTotal' = nTotal + 1
    BY <1>9 DEF writeResponse
  <2>3. \A t \in Targets : r \in Outstanding(t) <=> r \in Outstanding(t)'
    BY <2>1 DEF Outstanding
  <2>4. r \notin Written /\ r \in Written'
    BY <2>1 DEF Written
  <2>5. nTotal' = Cardinality(Written')
    BY <2>1, <2>2, <2>4, <1>2, <1>4, <1>5, SetCount DEF CountInv
  <2> QED BY <2>1, <2>2, <2>3, <2>5, <1>7 DEF CountInv
<1>10. ASSUME NEW r \in Requests, send(r) \/ Run(r) \/ Dispatch(r) \/ recvResponse(r)
       PROVE  CountInv'
  <2>1. concurrency' = concurrency /\ nTotal' = nTotal
    BY <1>10 DEF send, Run, Dispatch, recvResponse
  <2>2. CASE at' = at
    BY <1>1, <2>1, <2>2
  <2>3. CASE Move(r, "unsent", "externalInput") \/ Move(r, "internalInput", "dispatched")
             \/ Move(r, "dispatched", "internalOutput") \/ Move(r, "externalOutput", "writer")
    <3>1. \A q \in Requests \ {r} : at'[q] = at[q]
      BY <2>3, MoveFrame
    <3>2. /\ \A t \in Targets : r \in Outstanding(t) <=> r \in Outstanding(t)'
          /\ r \in Written <=> r \in Written'
      BY <2>3, MoveFrame, SMT DEF Outstanding, Written
    <3> QED BY <2>1, <3>1, <3>2, <1>6, <1>7 DEF CountInv
  <2> QED BY <1>10, <2>2, <2>3 DEF send, Run, Dispatch, recvResponse
<1>11. ASSUME (\E t \in Targets : TargetStep(t)) \/ ProcessStep \/ UNCHANGED vars
       PROVE  at' = at /\ concurrency' = concurrency /\ nTotal' = nTotal
  BY <1>11 DEF TargetStep, relayStops, RunStops, CloseInput, ProcessStep, Start, autoscalerRun,
     mainGateway, mainFatal, mainClient, Signal, mainSelect, mainCancel, CloseOutput, mainReturns, recvDone,
     writeSummary, vars
<1> QED BY <1>1, <1>8, <1>9, <1>10, <1>11 DEF Next, RequestStep

LEMMA CountInit == Init => CountInv
<1> SUFFICES ASSUME Init PROVE CountInv
  OBVIOUS
<1>1. Written = {} /\ \A t \in Targets : Outstanding(t) = {}
  BY DEF Init, Written, Outstanding
<1> QED BY <1>1, FS_EmptySet DEF Init, CountInv, ConcurrencyExact

\* The concurrency the autoscaler decides on is the number of requests that
\* onReqIn has counted and onReqOut has not, whenever the replay is stopped.
THEOREM ConcurrencyCounted == Spec => []ConcurrencyExact
<1>1. CountInv => ConcurrencyExact
  BY DEF CountInv
<1> QED BY TypeCorrect, CountInit, CountNext, <1>1, PTL DEF Spec

-----------------------------------------------------------------------------
\* Draining.

Nowhere(place) == \A r \in Requests : at[r] # place

\* The receiver stops after Close, when no relay can add a response any more,
\* and the writer stops after the receiver.
DrainInv ==
  /\ recv # "running" => main \in {"closing", "returned"} /\ Nowhere("externalOutput")
  /\ recv = "finished" => Nowhere("writer")

LEMMA DrainNext == TypeOK /\ DrainInv /\ [Next]_vars => DrainInv'
<1> SUFFICES ASSUME TypeOK, DrainInv, [Next]_vars PROVE DrainInv'
  OBVIOUS
<1> USE DEF gatewayVars, mainVars, clientVars
<1>1. ASSUME NEW r \in Requests, RequestStep(r)
      PROVE  DrainInv'
  <2>1. main' = main /\ recv' = recv
    BY <1>1 DEF RequestStep, send, relayRequest, Run, Dispatch, relayResponse, recvResponse,
       writeResponse
  <2>2. recv # "running" => relaying = {}
    BY DEF DrainInv, TypeOK
  <2>3. CASE at' = at
    BY <2>1, <2>3 DEF DrainInv, Nowhere
  <2>4. CASE at' # at
    <3>1. \A q \in Requests \ {r} : at'[q] = at[q]
      BY <1>1, <2>4, MoveFrame DEF RequestStep, send, relayRequest, Run, Dispatch,
         relayResponse, recvResponse, writeResponse
    <3>2. at'[r] = "externalOutput" => relaying # {}
      BY <1>1, <2>4, MoveFrame, SMT DEF RequestStep, send, relayRequest, Run, Dispatch,
         relayResponse, recvResponse, writeResponse
    <3>3. at'[r] = "writer" => recv = "running"
      BY <1>1, <2>4, MoveFrame, SMT DEF RequestStep, send, relayRequest, Run, Dispatch,
         relayResponse, recvResponse, writeResponse
    <3> QED BY <2>1, <2>2, <3>1, <3>2, <3>3 DEF DrainInv, Nowhere
  <2> QED BY <2>3, <2>4
<1>2. ASSUME NEW t \in Targets, TargetStep(t)
      PROVE  DrainInv'
  BY <1>2 DEF TargetStep, relayStops, RunStops, CloseInput, DrainInv, Nowhere
<1>3. ASSUME ProcessStep
      PROVE  DrainInv'
  BY <1>3 DEF ProcessStep, Start, autoscalerRun, mainGateway, mainFatal, mainClient, Signal, mainSelect,
     mainCancel, CloseOutput, mainReturns, recvDone, writeSummary, DrainInv, Nowhere
<1>4. CASE UNCHANGED vars
  BY <1>4 DEF vars, DrainInv, Nowhere
<1> QED BY <1>1, <1>2, <1>3, <1>4 DEF Next

\* When finishRecv is closed, every response a relay passed on is written and counted.
THEOREM SummaryCorrect == Spec => []SummaryComplete
<1>1. Init => DrainInv
  BY DEF Init, DrainInv
<1>2. CountInv /\ DrainInv => SummaryComplete
  BY DEF CountInv, DrainInv, Nowhere, SummaryComplete, Written
<1> QED BY TypeCorrect, CountInit, CountNext, DrainNext, <1>1, <1>2, PTL DEF Spec

-----------------------------------------------------------------------------
\* The order of sending and closing.

\* Inputs are closed by Close only, and main gets there either through the
\* signal or with nothing left to send.
OrderInv ==
  /\ openInputs # Targets => main \in {"closing", "returned"}
  /\ branch = "none" => Starting \/ main = "select"
  /\ branch = "finished" => finishSend
  /\ NoSendOnClosed

LEMMA OrderNext == TypeOK /\ OrderInv /\ [Next]_vars => OrderInv'
<1> SUFFICES ASSUME TypeOK, OrderInv, [Next]_vars PROVE OrderInv'
  OBVIOUS
<1> USE DEF gatewayVars, mainVars, clientVars
<1>1. ASSUME NEW r \in Requests, RequestStep(r)
      PROVE  OrderInv'
  <2>1. UNCHANGED <<openInputs, main, branch>>
    BY <1>1 DEF RequestStep, send, relayRequest, Run, Dispatch, relayResponse, recvResponse,
       writeResponse
  <2>2. finishSend => finishSend'
    <3>1. CASE at' = at
      BY <3>1 DEF finishSend
    <3>2. CASE at' # at
      BY <1>1, <3>2, MoveFrame DEF finishSend, RequestStep, send, relayRequest, Run, Dispatch,
         relayResponse, recvResponse, writeResponse
    <3> QED BY <3>1, <3>2
  <2>3. NoSendOnClosed'
    <3>1. CASE panicked' = panicked \/ panicked' # "closed"
      BY <2>1, <3>1 DEF OrderInv, NoSendOnClosed
    <3>2. CASE panicked' # panicked /\ panicked' = "closed"
      <4>1. ~finishSend /\ Target(r) \notin openInputs
        BY <1>1, <3>2 DEF finishSend, RequestStep, send, relayRequest, Run, Dispatch,
           relayResponse, recvResponse, writeResponse
      <4>2. openInputs # Targets
        BY <4>1, TargetType
      <4>3. branch \in {"none", "signal", "finished"}
        BY DEF TypeOK
      <4> QED BY <2>1, <4>1, <4>2, <4>3 DEF OrderInv, NoSendOnClosed, Starting
    <3> QED BY <3>1, <3>2
  <2> QED BY <2>1, <2>2, <2>3 DEF OrderInv, Starting
<1>2. ASSUME NEW t \in Targets, TargetStep(t)
      PROVE  OrderInv'
  BY <1>2 DEF TargetStep, relayStops, RunStops, CloseInput, OrderInv, finishSend, NoSendOnClosed, Starting
<1>3. ASSUME ProcessStep
      PROVE  OrderInv'
  BY <1>3 DEF ProcessStep, Start, autoscalerRun, mainGateway, mainFatal, mainClient, Signal, mainSelect,
     mainCancel, CloseOutput, mainReturns, recvDone, writeSummary, Live, OrderInv, finishSend,
     NoSendOnClosed, Starting
<1>4. CASE UNCHANGED vars
  BY <1>4 DEF vars, OrderInv, finishSend, NoSendOnClosed, Starting
<1> QED BY <1>1, <1>2, <1>3, <1>4 DEF Next

\* A sender meets a closed channel only if a signal made main skip finishSend.
THEOREM OnlySignalPanics == Spec => []NoSendOnClosed
<1>1. Init => OrderInv
  BY DEF Init, OrderInv, NoSendOnClosed, Starting
<1>2. OrderInv => NoSendOnClosed
  BY DEF OrderInv
<1> QED BY TypeCorrect, OrderNext, <1>1, <1>2, PTL DEF Spec

=============================================================================
