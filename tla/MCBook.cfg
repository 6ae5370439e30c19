SPECIFICATION Spec
CONSTANTS
  k1 = k1
  k2 = k2
  k3 = k3
  None = None
  Keys = {k1, k2, k3}
  NClasses = 2
  MaxInflight <- MCMaxInflight
  Deadlines <- MCDeadlines
  MaxPending = 3
  MaxResident = 1
  EvictAfter = 1
  EvictIters = 2
  MaxItems = 4
  MaxTime = 1
SYMMETRY Symmetry
INVARIANTS
  ExclusiveOwner
  Conserved
  CountersAgree
  RingsAgree
  LinksAgree
  StateIsLatest
PROPERTIES
  ImplementsAffinity
CHECK_DEADLOCK FALSE
