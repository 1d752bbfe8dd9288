SPECIFICATION LiveSpec
CONSTANTS
  app = app
  bg = bg
  AliasCallers = {app}
  PushCallers = {}
  Closers = {}
  Statuses = {1}
  Replies = {0, 1}
  Noise = {"other", "junk"}
  Timed = {TRUE, FALSE}
  PushCap = 1
  AckCap = 1
  SendRoom = 1
  MaxPushes = 1
  MaxBeats = 0
  MaxCalls = 2
  MaxNoise = 1
PROPERTIES AliasAnswersItsCall AliasReturns
CHECK_DEADLOCK FALSE
