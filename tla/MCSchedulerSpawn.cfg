SPECIFICATION SchedulerSpec
CONSTANTS
  c1 = c1
  c2 = c2
  Clients = {c1, c2}
  NShards = 2
  SlotsPerShard = 1
  Hash <- MCHash
  Classes = 1
  DeferredShards = 1
  Depth = 1
  Batches <- MCBatches
  Modes = {"submit_batch", "try_submit_batch", "call"}
  MaxCalls = 1
  Plans <- MCPlans
  Policies = {"Require"}
  MaxPendings = {0, 1}
PROPERTIES
  SpawnReturns
CHECK_DEADLOCK FALSE
