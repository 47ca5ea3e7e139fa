SPECIFICATION FairSpec
CONSTANTS
  Targets = {t1, t2}
  target = t1
  nPods = 2
  Rolling = {t1}
  MaxSpare = 1
  MaxBacklog = 1
INVARIANTS TypeOK CountExact CompleteAtEnd CrashCauses AllApplied
PROPERTY RunEnds
\* The run ends, or waits for ever when a request fails.
CHECK_DEADLOCK FALSE
