SPECIFICATION ThreadsSpec
CONSTANTS
  c1 = c1
  c2 = c2
  Clients = {c1, c2}
  NShards = 2
  SlotsPerShard = 1
  Hash <- MCHash
  Classes = 1
  DeferredShards = 1
  Depth = 1
  Batches <- MCBatches
  Modes = {"submit_batch", "try_submit_batch", "call"}
  MaxCalls = 1
  Plans <- MCPlans
  Policies = {"Require"}
  MaxPendings = {0, 1}
  n1 = n1
  n2 = n2
  n3 = n3
  v1 = v1
  v2 = v2
  Notifiers = {n1, n2, n3}
  Wakers = {v1, v2}
  NoWaker = NoWaker
INVARIANTS
  NoUntoldSleeper
  BatchReported
  CellIsOwned
  NoLostWake
PROPERTIES
  SubmissionEnds
  SpawnSettles
  ShutdownJoins
  SignalsAreSeen
CHECK_DEADLOCK FALSE
