SPECIFICATION FairSpec
CONSTANTS
  Managed = {m1}
  Plain = {}
  Nodes = {n1}
  thisNode = n1
  Delegated = {}
  NodeOf <- OnThisNode
  Calls = {c1, c2}
  MaxEpoch = 1
  MaxUid = 1
  Forced = {}
  Failing = {}
  Leaving = {}
  Late = {}
  Unanswered = {"mark", "delete"}
  MaxLost = 1
  ownerDeleted = FALSE
  nWorkers = 1
  readyDelay = 1
  patch = FALSE
  n1 = n1
  n2 = n2
  n3 = n3
PROPERTIES ImplementsLifecycle BoundPodReady DeletionCompletes
\* The server goes quiet once the bounded environment has nothing left to send.
CHECK_DEADLOCK FALSE
