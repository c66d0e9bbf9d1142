SPECIFICATION Spec
CONSTANTS
  alice = alice
  bob = bob
  shop = shop
  store = store
  clean = clean
  dirty = dirty
  Accounts = {alice, bob, shop}
  Payees <- MCPayees
  PayeeKind <- MCPayeeKind
  Currency <- MCCurrency
  Status <- MCActive
  Amounts = {1, 2}
  MaxTxAmount = 2
  DailyLimit = 3
  Window = 1
  Docs = {}
  DocOwner <- MCDocOwner
  DocStatus <- MCDocStatus
  DocReasons <- MCDocReasons
  DocExpected <- MCDocExpected
  HoldOnStatus = {"SUSPICIOUS"}
  HoldOnReasons = {"duplicate_document", "amount_mismatch"}
  Keys = {}
  NoDoc = NoDoc
  NoKey = NoKey
  NoAccount = NoAccount
  Staff = Staff
  MaxTx = 4
  MaxHolds = 0
  MaxTime = 2
INVARIANTS
  LedgerExplainsBalance
  TransfersBalance
  CompensatedAtMostOnce
  CancellationMirrorsOriginal
  DailyCapInEveryWindow
CHECK_DEADLOCK FALSE
