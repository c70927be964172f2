SPECIFICATION FairSyncSpec
CONSTANTS
  w1 = w1
  w2 = w2
  p1 = p1
  p2 = p2
  r1 = r1
  bool = bool
  str = str
  empty = empty
  on = on
  Writers = {w1}
  Workers = {p2}
  Reconcilers = {r1}
  Callers <- MCCallers
  Replicas <- TwoReplicas
  Keys = {k1}
  Types = {bool}
  Raws = {empty, on}
  EmptyRaw = empty
  Versions <- MCVersions
  Values <- MCValues
  ValidValues <- MCValid
  NoValue = NoValue
  MaxRetries = 1
  FaultBudget = 2
  MaxTasks = 3
  MaxTaskRetries = 2
  FetchLimit = 1
  BatchSize = 1
INVARIANTS
  SyncInv
  CompletedIsPublished
PROPERTIES
  NeverOlder
  TasksSettle
CHECK_DEADLOCK FALSE
