---------------------------- MODULE MCTraceReplay ----------------------------
(* Instances of TraceReplay for TLC. *)
EXTENDS TraceReplay

CONSTANTS t1, t2

\* Two targets, the first with more invocations than one sender takes.
Traces == [t \in Targets |-> IF t = t1 THEN 2 ELSE 1]
=============================================================================
