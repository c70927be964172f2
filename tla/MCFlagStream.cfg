SPECIFICATION StreamSpec
CONSTANTS
  c1 = c1
  d1 = d1
  Conns = {c1}
  Scopes = {1, 2}
  Names = {flag}
  Sub <- MCSub
  Wild <- MCWild
  Dash <- MCWild
  Events <- AllEvents
  Ping = Ping
  NoMsg = NoMsg
  Size = 2
  SendCap = 1
  QueueCap = 1
  MaxRev = 3
  MaxFailures = 1
INVARIANTS
  StreamInv
  BufferExact
  StreamOrdered
  NoGap
  SnapshotNotBehind
  SnapshotComplete
CHECK_DEADLOCK FALSE
