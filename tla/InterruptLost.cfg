CONSTANTS
  N = 1
  MaxSignals = 1
  MayCancel = FALSE
  Interactive = FALSE
SPECIFICATION HeedingSpec
PROPERTY InterruptEnds
CHECK_DEADLOCK FALSE
