SPECIFICATION FairLockedSpec
CONSTANTS
  w1 = w1
  r1 = r1
  r2 = r2
  bool = bool
  empty = empty
  on = on
  Writers = {w1}
  Workers = {}
  Reconcilers = {r1, r2}
  Callers <- MCCallers
  Replicas <- MCReplicas
  Keys = {k1}
  Types = {bool}
  Raws = {empty, on}
  EmptyRaw = empty
  Versions <- MCVersions
  Values <- MCValues
  ValidValues <- MCValid
  NoValue = NoValue
  MaxRetries = 0
  FaultBudget = 1
  MaxTasks = 2
  MaxTaskRetries = 1
  FetchLimit = 1
  BatchSize = 1
  MaxSessions = 2
  LockBudget = 1
INVARIANTS
  CompletedConverges
  PublishedWasCommitted
  LockInv
  OnePass
PROPERTIES
  RepairedWhileAble
CHECK_DEADLOCK FALSE
