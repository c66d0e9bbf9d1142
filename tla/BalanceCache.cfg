SPECIFICATION Spec
CONSTANTS
  Users = {alice, bob}
  Readers = {r1, r2}
  TTL = 2
  MaxDelay = 1
  MaxVersion = 1
  MaxFaults = 2
  NoEntry = NoEntry
  Idle = Idle
INVARIANTS
  StalenessHasABoundAndACause
SYMMETRY MCSymmetry
CHECK_DEADLOCK FALSE
