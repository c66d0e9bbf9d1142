SPECIFICATION SystemSpec
CONSTANTS
  Users = {u1, u2}
  Emails = {e1, e2}
  Roles = {"customer", "employee"}
  Requests = {r1, r2}
  Calls = {c1, c2}
  Nothing = Nothing
  MaxRequests = 2
  MaxTotal = 3
SYMMETRY Symmetry
INVARIANTS
  EmailsUnique
  RoleIsGranted
  WelcomedHaveAccounts
  ListIsFromTheDirectory
  DepositGoesWhereClicked
CHECK_DEADLOCK FALSE
