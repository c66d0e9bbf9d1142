SPECIFICATION Spec
CONSTANTS
  t1 = t1
  alice = alice
  bob = bob
  Workers = {w1, w2}
  Transactions = {t1}
  Accounts = {alice, bob}
  Legs <- MCBothLegs
  Verdicts <- MCVerdicts
  EventPartition = events
  CancelPartition = cancellations
  NoWorker = NoWorker
  NoTask = NoTask
  MaxLog = 2
  MaxErrors = 1
  MaxTimeouts = 1
  MaxMoves = 1
INVARIANTS
  CancelledStaysClosed
  OnlyErrorsSkip
PROPERTIES
  ClosedAlertsStay
CHECK_DEADLOCK FALSE
