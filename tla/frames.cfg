SPECIFICATION Spec
CONSTANTS
  app = app
  bg = bg
  AliasCallers = {app, bg}
  PushCallers = {}
  Closers = {bg}
  Statuses = {0}
  Replies = {1}
  Noise = {}
  Timed = {FALSE}
  PushCap = 1
  AckCap = 2
  SendRoom = 3
  MaxPushes = 1
  MaxBeats = 1
  MaxCalls = 2
  MaxNoise = 0
INVARIANTS FramesWhole RidsUnique CloseNeverTears AnswersForAll
CHECK_DEADLOCK FALSE
