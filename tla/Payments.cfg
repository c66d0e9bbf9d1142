SPECIFICATION Spec
CONSTANTS
  Kinds = {"TRANSFER", "BILL_PAYMENT"}
  Accounts = {alice, bob}
  Nobody = Nobody
  Amounts = {1, 2}
  MaxReviews = 2
  MaxClicks = 2
  MaxLookups = 1
  MaxUploads = 1
SYMMETRY Symmetry
INVARIANTS
  ReviewPaidOnce
  PaidAsConfirmed
  ReceiptIsOwn
  SecondChargeWasWarned
CHECK_DEADLOCK FALSE
