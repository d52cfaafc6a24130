CONSTANTS
  N = 2
  MaxSignals = 2
  MayCancel = TRUE
  Interactive = TRUE
SPECIFICATION Spec
INVARIANTS NoneLeftBehind StatusPassesThrough InterruptNotSuccess
PROPERTIES CancelEnds ForwardedEnds
CHECK_DEADLOCK FALSE
