SPECIFICATION Spec
CONSTANTS
  p1 = p1
  p2 = p2
  Events <- MCEvents
  Poison = {}
  MaxLog = 0
  Replicas = {r1, r2}
  Keys = {a}
  Partitions = {p1, p2}
  PartitionOf <- MCPartitionOf
  Batch = 2
  MaxAttempts = 2
  MaxRows = 3
  MaxFaults = 2
  MaxRollbacks = 1
INVARIANTS
  StatusIsHonest
  NoDoublePublishing
PROPERTIES
  OvertakingHasACause
  EveryRowSettled
CHECK_DEADLOCK FALSE
