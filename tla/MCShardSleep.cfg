SPECIFICATION ShardSpec
CONSTANTS
  k1 = k1
  k2 = k2
  Id = r
  KeyA = k1
  KeyB = k2
  None = None
  NoId = NoId
  Keys = {k1, k2}
  RequestIds = {r}
  NClasses = 2
  MaxInflight <- MCMaxInflight
  Deadlines <- MCDeadlines
  MaxPending = 3
  MaxResident = 1
  EvictAfter = 1
  EvictIters = 2
  MaxItems = 3
  MaxTime = 1
  FlushSlots = 1
  AdmitBatch = 3
  CompleteBatch = 1
  AbortOnPanic = TRUE
  InboxCapacity = 2
  MaxSends = 3
  Submissions <- MCSubmissions
INVARIANTS
  NothingToDo
CHECK_DEADLOCK FALSE
