----------------------------- MODULE TraceReplay -----------------------------
(***************************************************************************)
(* A trace replay from end to end: the senders of the replay client        *)
(* (pkg/replay), the relays of the gateway (pkg/gateway), the client's     *)
(* receiver and writer, and the main function that starts and stops them   *)
(* (experiments/trace/main.go), with either gateway.  The dispatcher       *)
(* between the relays is the service of DispatchService, reduced to        *)
(* accepting and answering, or that of a knative service.                  *)
(*                                                                         *)
(* A request is <<t, i>>, the i-th invocation of target t's trace, and     *)
(* at[r] is the channel or goroutine that holds it or its response.        *)
(***************************************************************************)
EXTENDS Integers, FiniteSets

CONSTANTS
  Targets,       \* deployments; one relay, dispatcher and worker each
  Invocations,   \* the length of each target's trace
  perSender,     \* invocations one sender takes, 60 * maxInvocationsPerSecondPerSender
  maySignal      \* the process may be interrupted before the trace is sent

ASSUME ReplayAssumption ==
  /\ IsFiniteSet(Targets)
  /\ Invocations \in [Targets -> Nat]
  /\ perSender \in Nat \ {0}
  /\ maySignal \in BOOLEAN

Requests == UNION {{t} \X (0 .. Invocations[t] - 1) : t \in Targets}

Target(r) == r[1]

VARIABLES
  framework,     \* the k8s gateway with autoscaler "kpa" or "one-time", or "knative"
  gateway,       \* "off", "relaying" and, when the autoscaler has runCtx, "started"
  at,            \* where each request or its response is
  concurrency,   \* RequestStats.concurrency of each target
  relaying,      \* targets whose relay goroutine runs
  dispatching,   \* targets whose dispatcher accepts requests
  ctxDone,       \* the context is cancelled
  main,          \* control state of main
  branch,        \* the case main's select took
  openInputs,    \* targets whose externalInput is not closed
  recv,          \* the receiver: "running", "done" and, written out, "finished"
  nTotal,        \* responses counted by the writer
  panicked       \* "no", "closed" (sent on a closed channel) or "notStarted" (runCtx is nil)

gatewayVars == <<framework, gateway, concurrency, relaying, dispatching>>
mainVars == <<ctxDone, main, branch, openInputs>>
clientVars == <<recv, nTotal, panicked>>
vars == <<at, gatewayVars, mainVars, clientVars>>

Places == {"unsent", "externalInput", "internalInput", "dispatched", "internalOutput",
           "externalOutput", "writer", "written"}

Init ==
  /\ framework \in {"kpa", "one-time", "knative"} /\ gateway = "off"
  /\ at = [r \in Requests |-> "unsent"]
  /\ concurrency = [t \in Targets |-> 0]
  /\ relaying = {} /\ dispatching = {}
  /\ ctxDone = FALSE /\ main = "setup" /\ branch = "none"
  /\ openInputs = Targets
  /\ recv = "running" /\ nTotal = 0 /\ panicked = "no"

\* The process runs until main returns or fails, or a goroutine panics.
Live == main \notin {"returned", "fatal"} /\ panicked = "no"

\* main has not started the client.
Starting == main \in {"setup", "gateway", "fatal"}

Move(r, from, to) == at[r] = from /\ at' = [at EXCEPT ![r] = to]

-----------------------------------------------------------------------------
\* newWorker: Ceil(invocations / perSender) senders, dealt round robin.
nSenders(t) == (Invocations[t] + perSender - 1) \div perSender

senderInvocations(r) ==
  LET n == nSenders(Target(r))
  IN {q \in Requests : Target(q) = Target(r) /\ q[2] % n = r[2] % n}

\* A sender sends its share in order.  It does not look at the context, and a
\* send on a closed channel panics.
send(r) ==
  /\ Live /\ ~Starting
  /\ at[r] = "unsent"
  /\ \A q \in senderInvocations(r) : q[2] < r[2] => at[q] # "unsent"
  /\ IF Target(r) \in openInputs
     THEN Move(r, "unsent", "externalInput") /\ UNCHANGED panicked
     ELSE panicked' = "closed" /\ UNCHANGED at
  /\ UNCHANGED <<gatewayVars, mainVars, recv, nTotal>>

\* close(finishSend) follows the last send.
finishSend == \A r \in Requests : at[r] # "unsent"

\* onReqIn and onReqOut have the KPA autoscaler count; the one-time autoscaler does not
\* count and those of a knative gateway do nothing.
Counts == IF framework = "kpa" THEN 1 ELSE 0

\* ReqIn of the autoscaler before Run has set runCtx: that of the KPA autoscaler panics.
\* The one-time autoscaler's starts a goroutine for the first request of a target, which
\* fails on the nil context unless Run comes first.
ReqInEarly(r) ==
  /\ gateway = "relaying"
  /\ \/ framework = "kpa"
     \/ \A q \in Requests \ {r} :
          Target(q) = Target(r) => at[q] \in {"unsent", "externalInput"}

\* relay takes a request: onReqIn counts it and it goes on to the dispatcher.  Every
\* request of a target's channel has that target, its worker being the only sender.
relayRequest(r) ==
  /\ Live
  /\ Target(r) \in relaying
  /\ Move(r, "externalInput", "internalInput")
  /\ concurrency' = [concurrency EXCEPT ![Target(r)] = @ + Counts]
  /\ \/ (framework # "kpa" \/ gateway = "started") /\ UNCHANGED panicked
     \/ ReqInEarly(r) /\ panicked' = "notStarted"
  /\ UNCHANGED <<framework, gateway, relaying, dispatching, mainVars, recv, nTotal>>

\* Run starts a goroutine for the request.
Run(r) ==
  /\ Live
  /\ Target(r) \in dispatching
  /\ Move(r, "internalInput", "dispatched")
  /\ UNCHANGED <<gatewayVars, mainVars, clientVars>>

\* Dispatch answers, with a result, a failure or a timeout; the context may be
\* done by then.
Dispatch(r) ==
  /\ Live
  /\ Move(r, "dispatched", "internalOutput")
  /\ UNCHANGED <<gatewayVars, mainVars, clientVars>>

\* Mutant: onReqOut is not called.
relayResponse_NoCount(r) ==
  /\ Live
  /\ Target(r) \in relaying
  /\ Move(r, "internalOutput", "externalOutput")
  /\ UNCHANGED <<gatewayVars, mainVars, clientVars>>

\* relay takes a response: onReqOut, then the channel all targets share.
relayResponse(r) ==
  /\ Live
  /\ Target(r) \in relaying
  /\ Move(r, "internalOutput", "externalOutput")
  /\ concurrency' = [concurrency EXCEPT ![Target(r)] = @ - Counts]
  /\ UNCHANGED <<framework, gateway, relaying, dispatching, mainVars, clientVars>>

\* The relay's select sees ctx.Done(), whatever else is ready.
relayStops(t) ==
  /\ Live
  /\ ctxDone /\ t \in relaying
  /\ relaying' = relaying \ {t}
  /\ UNCHANGED <<framework, gateway, at, concurrency, dispatching, mainVars, clientVars>>

RunStops(t) ==
  /\ Live
  /\ ctxDone /\ t \in dispatching
  /\ dispatching' = dispatching \ {t}
  /\ UNCHANGED <<framework, gateway, at, concurrency, relaying, mainVars, clientVars>>

-----------------------------------------------------------------------------
\* Client.recv hands a response to the writer.
recvResponse(r) ==
  /\ Live
  /\ recv = "running"
  /\ Move(r, "externalOutput", "writer")
  /\ UNCHANGED <<gatewayVars, mainVars, clientVars>>

\* Mutant: the receiver stops as soon as the channel is closed, with responses in it.
recvDone_NotDrained ==
  /\ Live
  /\ recv = "running" /\ main = "closing"
  /\ recv' = "done"
  /\ UNCHANGED <<at, gatewayVars, mainVars, nTotal, panicked>>

\* The range loop of recv ends when externalOutput is closed and drained; the
\* writer's channel is closed.
recvDone ==
  /\ Live
  /\ recv = "running" /\ main = "closing"
  /\ \A r \in Requests : at[r] # "externalOutput"
  /\ recv' = "done"
  /\ UNCHANGED <<at, gatewayVars, mainVars, nTotal, panicked>>

\* Client.write counts and records a response.
writeResponse(r) ==
  /\ Live
  /\ Move(r, "writer", "written")
  /\ nTotal' = nTotal + 1
  /\ UNCHANGED <<gatewayVars, mainVars, recv, panicked>>

\* The writer's channel is closed and drained: the summary, then close(finishRecv).
writeSummary ==
  /\ Live
  /\ recv = "done"
  /\ \A r \in Requests : at[r] # "writer"
  /\ recv' = "finished"
  /\ UNCHANGED <<at, gatewayVars, mainVars, nTotal, panicked>>

-----------------------------------------------------------------------------
\* Start of either gateway: relays and dispatchers, then the autoscaler if there is one.
Start ==
  /\ Live
  /\ gateway = "off" /\ main # "setup"
  /\ gateway' = IF framework = "knative" THEN "started" ELSE "relaying"
  /\ relaying' = Targets /\ dispatching' = Targets
  /\ UNCHANGED <<framework, concurrency, at, mainVars, clientVars>>

\* Run of the autoscaler, in a goroutine, sets runCtx.
autoscalerRun ==
  /\ Live
  /\ gateway = "relaying"
  /\ gateway' = "started"
  /\ UNCHANGED <<framework, concurrency, relaying, dispatching, at, mainVars, clientVars>>

\* The caches are synced; after 5 seconds main starts the gateway in a goroutine.
mainGateway ==
  /\ Live
  /\ main = "setup" /\ main' = "gateway"
  /\ UNCHANGED <<at, gatewayVars, ctxDone, branch, openInputs, clientVars>>

\* A signal before the caches are synced: WaitForCacheSync returns false.
mainFatal ==
  /\ Live
  /\ main = "setup" /\ ctxDone
  /\ main' = "fatal"
  /\ UNCHANGED <<at, gatewayVars, ctxDone, branch, openInputs, clientVars>>

\* The client is started 5 seconds later.  Nothing makes main wait for the goroutines
\* of Start and Run.
mainClient ==
  /\ Live
  /\ main = "gateway" /\ main' = "select"
  /\ UNCHANGED <<at, gatewayVars, ctxDone, branch, openInputs, clientVars>>

\* SetupSignalHandler cancels the context.
Signal ==
  /\ Live
  /\ maySignal /\ ~ctxDone
  /\ ctxDone' = TRUE
  /\ UNCHANGED <<at, gatewayVars, main, branch, openInputs, clientVars>>

\* Mutant: main does not wait for the senders.
mainSelect_NoWait ==
  /\ Live
  /\ main = "select"
  /\ main' = "waiting" /\ branch' = "finished"
  /\ UNCHANGED <<at, gatewayVars, ctxDone, openInputs, clientVars>>

\* main's select: the context is done, or the trace is sent and 15 seconds begin.
mainSelect ==
  /\ Live
  /\ main = "select"
  /\ \/ ctxDone /\ main' = "cancelled" /\ branch' = "signal"
     \/ finishSend /\ main' = "waiting" /\ branch' = "finished"
  /\ UNCHANGED <<at, gatewayVars, ctxDone, openInputs, clientVars>>

\* The 15 seconds are over, answered or not: cancel().
mainCancel ==
  /\ Live
  /\ main = "waiting"
  /\ main' = "cancelled" /\ ctxDone' = TRUE
  /\ UNCHANGED <<at, gatewayVars, branch, openInputs, clientVars>>

\* Mutant: the gateway is closed at once.
CloseOutput_NoWait ==
  /\ Live
  /\ main = "cancelled"
  /\ main' = "closing"
  /\ UNCHANGED <<at, gatewayVars, ctxDone, branch, openInputs, clientVars>>

\* Mutant: the inputs are closed only once the receiver has finished.
CloseOutput_Late ==
  /\ Live
  /\ main = "cancelled" /\ gateway # "off" /\ relaying = {} /\ recv = "finished"
  /\ main' = "closing"
  /\ UNCHANGED <<at, gatewayVars, ctxDone, branch, openInputs, clientVars>>

\* Close, after 5 seconds in which the relays have begun and returned: externalOutput
\* first.
CloseOutput ==
  /\ Live
  /\ main = "cancelled" /\ gateway # "off" /\ relaying = {}
  /\ main' = "closing"
  /\ UNCHANGED <<at, gatewayVars, ctxDone, branch, openInputs, clientVars>>

\* Close goes on with the external inputs, one by one.
CloseInput(t) ==
  /\ Live
  /\ main = "closing" /\ t \in openInputs
  /\ openInputs' = openInputs \ {t}
  /\ UNCHANGED <<at, gatewayVars, ctxDone, main, branch, clientVars>>

\* <-client.FinishRecv(), and main returns.
mainReturns ==
  /\ Live
  /\ main = "closing" /\ openInputs = {} /\ recv = "finished"
  /\ main' = "returned"
  /\ UNCHANGED <<at, gatewayVars, ctxDone, branch, openInputs, clientVars>>

-----------------------------------------------------------------------------
RequestStep(r) ==
  \/ send(r) \/ relayRequest(r) \/ Run(r) \/ Dispatch(r) \/ relayResponse(r)
  \/ recvResponse(r) \/ writeResponse(r)

TargetStep(t) == relayStops(t) \/ RunStops(t) \/ CloseInput(t)

ProcessStep ==
  \/ Start \/ autoscalerRun \/ mainGateway \/ mainFatal \/ mainClient \/ Signal \/ mainSelect
  \/ mainCancel \/ CloseOutput \/ mainReturns \/ recvDone \/ writeSummary

Next ==
  \/ \E r \in Requests : RequestStep(r)
  \/ \E t \in Targets : TargetStep(t)
  \/ ProcessStep

Spec == Init /\ [][Next]_vars

\* The client's goroutines keep running, timers expire and a relay's select, which
\* picks a ready case at random, sees ctx.Done() in the end.  Nothing is assumed of
\* the dispatcher, nor that the relays pass anything on.  Each of these steps is taken
\* once, so fairness to all of them is fairness to each.
Progress ==
  \/ \E r \in Requests : send(r) \/ recvResponse(r) \/ writeResponse(r)
  \/ \E t \in Targets : relayStops(t) \/ CloseInput(t)
  \/ Start \/ autoscalerRun \/ mainGateway \/ mainClient \/ mainSelect \/ mainCancel
  \/ CloseOutput \/ recvDone \/ writeSummary \/ mainReturns

Fairness == WF_vars(Progress)

FairSpec == Spec /\ Fairness

-----------------------------------------------------------------------------
\* Every variable has its type; main closes the gateway only after every relay returned.
TypeOK ==
  /\ framework \in {"kpa", "one-time", "knative"} /\ gateway \in {"off", "relaying", "started"}
  /\ at \in [Requests -> Places]
  /\ concurrency \in [Targets -> Int]
  /\ relaying \in SUBSET Targets /\ dispatching \in SUBSET Targets
  /\ openInputs \in SUBSET Targets
  /\ ctxDone \in BOOLEAN /\ panicked \in {"no", "closed", "notStarted"}
  /\ main \in {"setup", "gateway", "select", "waiting", "cancelled", "closing", "returned",
              "fatal"}
  /\ branch \in {"none", "signal", "finished"}
  /\ recv \in {"running", "done", "finished"}
  /\ nTotal \in Nat
  /\ main \in {"cancelled", "closing", "returned"} => ctxDone
  /\ main \in {"closing", "returned"} => relaying = {}

\* Requests of t that onReqIn has counted and onReqOut has not.
Outstanding(t) ==
  {r \in Requests :
     Target(r) = t /\ at[r] \in {"internalInput", "dispatched", "internalOutput"}}

\* The concurrency the autoscaler decides on (InstantConcurrency) is the number of
\* requests between the two relay branches: no response is counted twice, no
\* timeout or shutdown leaves the count behind.
ConcurrencyExact ==
  framework = "kpa" => \A t \in Targets : concurrency[t] = Cardinality(Outstanding(t))

\* Once finishRecv is closed every response that a relay passed on is in the
\* output, and the summary's total is their number: Close drains externalOutput
\* and the writer's channel.
SummaryComplete ==
  recv = "finished" =>
    /\ \A r \in Requests : at[r] \notin {"externalOutput", "writer"}
    /\ nTotal = Cardinality({r \in Requests : at[r] = "written"})

\* No sender meets a closed channel unless a signal made main skip finishSend;
\* one that comes during the 15 seconds does no harm.
NoSendOnClosed == panicked = "closed" => branch = "signal"

\* The replay ends: main returns, gives up before its caches are synced, or the process
\* panics, in a sender after a signal or in the autoscaler when a request came before its
\* Run.  In particular main never waits for a receiver that nobody stops.
ReplayEnds == <>(main \in {"returned", "fatal"} \/ panicked # "no")
=============================================================================
