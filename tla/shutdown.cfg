SPECIFICATION LiveSpec
CONSTANTS
  app = app
  bg = bg
  AliasCallers = {app}
  PushCallers = {}
  Closers = {bg}
  Statuses = {0}
  Replies = {0}
  Noise = {}
  Timed = {FALSE}
  PushCap = 1
  AckCap = 1
  SendRoom = 1
  MaxPushes = 2
  MaxBeats = 0
  MaxCalls = 2
  MaxNoise = 0
PROPERTIES PeerLossEndsCalls CloseReturns CloseEndsHeartbeat
CHECK_DEADLOCK FALSE
