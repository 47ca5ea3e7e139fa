SPECIFICATION FairSpec
CONSTANTS
  Requests = {r1, r2}
  Keys = {k1, k2}
  NoKey = NoKey
  podServiceConcurrency = 1
  grpcExecutorConcurrency = 2
  MaxReady = 1
  Leaving = {k1}
  listErrors = FALSE
  backendErrors = TRUE
  mayDelete = TRUE
  mayCancel = TRUE
INVARIANTS TokensNotLost GrpcTypeOK PoolExact
PROPERTIES RequestAnswered PoolDrained EndpointsConverge ImplementsService
\* Once every request is answered and the pods stop changing there is nothing to do.
CHECK_DEADLOCK FALSE
