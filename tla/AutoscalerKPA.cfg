SPECIFICATION FairSpec
CONSTANTS
  maxScaleUpRate = 2
  maxScaleDownRate = 2
  panicThreshold = 1
  hasDelayWindow = TRUE
  async = FALSE
  initialScale = 1
  MaxPods = 2
  MaxRequests = 2
INVARIANTS AtLeastOneFromZero ProvidesForStable
PROPERTIES PanicFloor ScaledFromZero
