SPECIFICATION FairSpec
CONSTANTS
  Targets = {t1, t2}
  Invocations <- Traces
  perSender = 1
  maySignal = TRUE
  t1 = t1
  t2 = t2
INVARIANTS TypeOK ConcurrencyExact SummaryComplete NoSendOnClosed
PROPERTY ReplayEnds
\* The process stops when main returns.
CHECK_DEADLOCK FALSE
