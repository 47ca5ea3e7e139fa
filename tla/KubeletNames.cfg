SPECIFICATION Spec
CONSTANTS
  Managed = {}
  Plain = {p1}
  Nodes = {n1}
  thisNode = n1
  Delegated = {}
  NodeOf <- OnThisNode
  Calls = {}
  MaxEpoch = 1
  MaxUid = 2
  Forced = {p1}
  Failing = {p1}
  Leaving = {}
  Late = {}
  Unanswered = {"mark", "delete"}
  MaxLost = 1
  ownerDeleted = FALSE
  nWorkers = 1
  readyDelay = 1
  patch = FALSE
  n1 = n1
  n2 = n2
  n3 = n3
INVARIANTS ReadyAfterDelay TerminalPhaseKept
\* The server goes quiet once the bounded environment has nothing left to send.
CHECK_DEADLOCK FALSE
