SPECIFICATION FairAuthSpec
CONSTANTS
  a = a
  r1 = r1
  r2 = r2
  Pages = {a}
  Requests = {r1, r2}
  Page <- MCPage
  MaxTokens = 3
  FaultBudget = 1
INVARIANTS
  AuthInv
  RedeemedIsDead
  LogoutHolds
  SessionIsHeld
PROPERTIES
  RequestsEnd
CHECK_DEADLOCK FALSE
