SPECIFICATION Spec
CONSTANTS
  Requests = {r1, r2}
  Keys = {k1, k2}
  NoKey = NoKey
  podServiceConcurrency = 1
  MaxReady = 2
  Leaving = {k1}
  listErrors = FALSE
  backendErrors = FALSE
  mayDelete = FALSE
  mayCancel = FALSE
INVARIANT ServiceConcurrency
\* Once every request is answered and the pods stop changing there is nothing to do.
CHECK_DEADLOCK FALSE
