SPECIFICATION Spec
CONSTANTS
  Calls = {c1, c2}
  Free = Free
  MayTimeOut = TRUE
  MaxClicks = 2
  MaxOutside = 1
INVARIANTS NoRestartIsLost RestartsOnce SpinnerEndsWithOperation
PROPERTIES FailedRestartIsOver
SYMMETRY Symmetry
\* The user may stop clicking.
CHECK_DEADLOCK FALSE
