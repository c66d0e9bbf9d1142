SPECIFICATION Spec
CONSTANTS
  alice = alice
  bob = bob
  shop = shop
  store = store
  clean = clean
  dirty = dirty
  Accounts = {alice, store}
  Payees <- MCPayees
  PayeeKind <- MCPayeeKind
  Currency <- MCCurrency
  Status <- MCActive
  Amounts = {0, 1}
  MaxTxAmount = 1
  DailyLimit = 0
  Window = 1
  Docs = {clean, dirty}
  DocOwner <- MCDocOwner
  DocStatus <- MCDocStatus
  DocReasons <- MCDocReasons
  DocExpected <- MCDocExpected
  HoldOnStatus = {"SUSPICIOUS"}
  HoldOnReasons = {"duplicate_document", "amount_mismatch"}
  Keys = {k1, k2}
  NoDoc = NoDoc
  NoKey = NoKey
  NoAccount = NoAccount
  Staff = Staff
  MaxTx = 4
  MaxHolds = 2
  MaxTime = 0
INVARIANTS
  KeyTakesEffectOnce
  FlaggedDocumentNeedsRelease
  CleanDocumentSingleUse
SYMMETRY KeySymmetry
CHECK_DEADLOCK FALSE
