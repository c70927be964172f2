SPECIFICATION FairRepoSpec
CONSTANTS
  c1 = c1
  c2 = c2
  x = x
  y = y
  Callers <- MCCallers
  Keys = {k1}
  Versions <- MCVersions
  Values <- MCValues
  NoValue = NoValue
  MaxRetries = 1
  FaultBudget = 2
INVARIANTS
  RepoInv
  AckedIsStored
PROPERTIES
  NeverOlder
  ImplementsRegister
  CallsEnd
