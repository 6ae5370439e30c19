SPECIFICATION PartsSpec
CONSTANTS
  p1 = p1
  p2 = p2
  p3 = p3
  Tasks = {p1, p2, p3}
  NoWaker = NoWaker
  CompactFloor = 1
  Workers = 1
  QueueDepth = 1
  MaxRuns = 3
  Levels = 3
  SlotBits = 1
  WordDigits = 4
  WheelCapacity = 2
  MaxGeneration = 2
  Granule = 2
  Durations <- MCDurations
  Starts = {0, 23, 30}
  Machines <- MCMachines
  Quotas <- MCQuotas
  Workloads <- MCWorkloads
  Wall = 100
  Busy = {0, 3, 120}
  Producers = {p1, p2, p3}
  Capacity = 2
  Empty = Empty
  MaxPushes = 2
  DispatchBudget = 2
  HighestTime = 1
  MaxDispatches = 3
  MaxTime = 2
  Keys = {p1, p2, p3}
  Payloads = {"a", "b"}
  MaxQueued = 4
SYMMETRY MCSymmetry
INVARIANTS
  PermitReachesTheNext
  NextEventExact
  PlanIsSound
  FullIsHonest
  NeverExaggerates
  SlabIsSound
PROPERTIES
  AdvanceProgresses
  ImplementsAlarm
  ImplementsFifo
CHECK_DEADLOCK FALSE
