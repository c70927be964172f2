SPECIFICATION FairSyncSpec
CONSTANTS
  w1 = w1
  w2 = w2
  p1 = p1
  p2 = p2
  r1 = r1
  bool = bool
  str = str
  empty = empty
  on = on
  Writers = {w1, w2}
  Workers = {p1}
  Reconcilers = {r1}
  Callers <- MCCallers
  Replicas <- OneReplica
  Keys = {k1}
  Types = {str}
  Raws = {empty, on}
  EmptyRaw = empty
  Versions <- MCVersions
  Values <- MCValues
  ValidValues <- MCValid
  NoValue = NoValue
  MaxRetries = 1
  FaultBudget = 0
  MaxTasks = 2
  MaxTaskRetries = 2
  FetchLimit = 1
  BatchSize = 1
PROPERTIES
  EventuallyConsistent
CHECK_DEADLOCK FALSE
