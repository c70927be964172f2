SPECIFICATION SdkSpec
CONSTANTS
  a = a
  b = b
  Conns = {c1}
  Scopes = {1, 2}
  Mine = {1}
  Names = {a, b}
  Sub <- MCSub
  Wild = {}
  Dash = {}
  Events <- MCEvents
  Ping = Ping
  NoMsg = NoMsg
  Size = 2
  SendCap = 1
  QueueCap = 1
  MaxRev = 2
  MaxSaves = 0
  MaxFailures = 0
INVARIANT ResetCatchesUp
CHECK_DEADLOCK FALSE
