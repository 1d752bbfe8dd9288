SPECIFICATION Spec
CONSTANTS
  app = app
  bg = bg
  AliasCallers = {}
  PushCallers = {app, bg}
  Closers = {bg}
  Statuses = {0}
  Replies = {0}
  Noise = {"junk", "short"}
  Timed = {FALSE}
  PushCap = 1
  AckCap = 1
  SendRoom = 1
  MaxPushes = 3
  MaxBeats = 0
  MaxCalls = 2
  MaxNoise = 1
INVARIANTS TypeOK PushAccounting AckedFirst ClosedErrorIsFirstCause
PROPERTY IsPushStream
CHECK_DEADLOCK FALSE
