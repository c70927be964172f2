SPECIFICATION FairSyncSpec
CONSTANTS
  w1 = w1
  w2 = w2
  p1 = p1
  p2 = p2
  r1 = r1
  bool = bool
  str = str
  empty = empty
  on = on
  Writers = {w1}
  Workers = {p1}
  Reconcilers = {r1}
  Callers <- MCCallers
  Replicas <- OneReplica
  Keys = {k1}
  Types = {str}
  Raws = {empty}
  EmptyRaw = empty
  Versions <- MCVersions
  Values <- MCValues
  ValidValues <- MCValid
  NoValue = NoValue
  MaxRetries = 1
  FaultBudget = 2
  MaxTasks = 1
  MaxTaskRetries = 1
  FetchLimit = 1
  BatchSize = 1
PROPERTIES
  MissingRepaired
CHECK_DEADLOCK FALSE
