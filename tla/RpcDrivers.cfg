SPECIFICATION FairSpec
CONSTANTS
  Targets = {t1, t2}
  nPods = 5
  Rolling = {t1}
  rpcErrors = TRUE
INVARIANTS TypeOK ReportExact NotTruncated TotalCovers ReplicaSetsPresent
PROPERTIES CancelEnds RunEnds
\* The process ends.
CHECK_DEADLOCK FALSE
