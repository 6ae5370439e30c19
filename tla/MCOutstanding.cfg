SPECIFICATION Spec
CONSTANTS
  n1 = n1
  Notifiers = {n1}
  Shapes <- MCShapes
  Cap = 1
  MaxPanics = 1
INVARIANTS
  NoMarkStranded
  SignalIsKept
  NoSleepOnReady
PROPERTIES
  SignalledIsPolled
CHECK_DEADLOCK FALSE
