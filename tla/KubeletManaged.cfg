SPECIFICATION Spec
CONSTANTS
  Managed = {m1}
  Plain = {}
  Nodes = {n1}
  thisNode = n1
  Delegated = {}
  NodeOf <- OnThisNode
  Calls = {c1}
  MaxEpoch = 2
  MaxUid = 1
  Forced = {}
  Failing = {}
  Leaving = {}
  Late = {}
  Unanswered = {"create", "mark", "delete"}
  MaxLost = 1
  ownerDeleted = TRUE
  nWorkers = 1
  readyDelay = 1
  patch = TRUE
  n1 = n1
  n2 = n2
  n3 = n3
INVARIANTS TypeOK HandshakeComplete NoNilClient BoundPodNotForgotten
\* The server goes quiet once the bounded environment has nothing left to send.
CHECK_DEADLOCK FALSE
