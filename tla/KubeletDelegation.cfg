SPECIFICATION Spec
CONSTANTS
  Managed = {m1}
  Plain = {p1}
  Nodes = {n1, n2, n3}
  thisNode = n1
  Delegated = {n2}
  NodeOf <- OnOtherNodes
  Calls = {c1}
  MaxEpoch = 1
  MaxUid = 1
  Forced = {}
  Failing = {}
  Leaving = {n2}
  Late = {n3}
  Unanswered = {}
  MaxLost = 0
  ownerDeleted = FALSE
  nWorkers = 2
  readyDelay = 1
  patch = FALSE
  n1 = n1
  n2 = n2
  n3 = n3
INVARIANTS OthersUntouched BoundPodNotForgotten
\* The server goes quiet once the bounded environment has nothing left to send.
CHECK_DEADLOCK FALSE
