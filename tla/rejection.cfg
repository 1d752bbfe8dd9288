SPECIFICATION Spec
CONSTANTS
  app = app
  bg = bg
  AliasCallers = {app}
  PushCallers = {}
  Closers = {}
  Statuses <- SignedStatuses
  Replies = {1}
  Noise = {}
  Timed = {FALSE}
  PushCap = 1
  AckCap = 1
  SendRoom = 2
  MaxPushes = 0
  MaxBeats = 0
  MaxCalls = 1
  MaxNoise = 0
PROPERTY RejectionReported
CHECK_DEADLOCK FALSE
