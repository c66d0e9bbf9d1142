SPECIFICATION Spec
CONSTANTS
  t1 = t1
  alice = alice
  bob = bob
  Holds = {h1, h2}
  NoHold = NoHold
  MaxNotes = 1
  MaxUnderWay = 2
  Transactions = {t1}
  Accounts = {alice, bob}
  Legs <- MCLegs
  NoTransaction = NoTransaction
  Limit = 1
  MaxPolls = 2
  MaxCalls = 2
PROPERTIES
  SuccessIsOwn
  ButtonsComeBack
  ReversedLeavesTheList
  OpenAlertIsShown
CHECK_DEADLOCK FALSE
