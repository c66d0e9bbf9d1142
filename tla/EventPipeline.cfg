SPECIFICATION PipelineSpec
CONSTANTS
  p1 = p1
  garbage = garbage
  Events <- MCEvents
  Poison = {garbage}
  Replicas = {r1}
  Keys = {a}
  Accounts = {a, b}
  Partitions = {p1}
  PartitionOf <- MCPartitionOf
  Batch = 2
  MaxAttempts = 1
  MaxRows = 2
  MaxFaults = 2
  MaxRollbacks = 1
  Workers = {w1, w2}
  Affected <- MCAffected
  NoWorker = NoWorker
  NoTask = NoTask
  MaxLog = 1
  MaxDbFaults = 1
  MaxMoves = 2
PROPERTIES
  EveryMessagePassed
  ImplementsTrail
CHECK_DEADLOCK FALSE
