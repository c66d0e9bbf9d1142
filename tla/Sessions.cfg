SPECIFICATION Spec
CONSTANTS
  Users = {alice, bob}
  Roles = {employee, admin}
  Requests = {r1, r2}
  Gone = Gone
  NoTask = NoTask
  MaxTokens = 3
  MaxEvents = 1
SYMMETRY Symmetry
INVARIANTS
  RevokedForAReason
PROPERTIES
  PairIsDue
CHECK_DEADLOCK FALSE
