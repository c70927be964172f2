SPECIFICATION LimiterSpec
CONSTANTS
  q1 = q1
  q2 = q2
  s1 = s1
  Requests = {q1, q2}
  Replicas = {s1}
  Home <- MCHome
  RequestsPerSecond = 1
  Second = 2
  MaxSkew = 1
  SweepAge = 2
  MaxTime = 4
  MaxGrants = 2
  FaultBudget = 2
INVARIANTS
  LimiterInv
  LimitHolds
  QuietAllows
  FallbackHolds
SYMMETRY MCSymmetry
CHECK_DEADLOCK FALSE
