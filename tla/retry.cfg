SPECIFICATION Spec
CONSTANTS
  FreshCodec = {TRUE}
  Passwords = {TRUE}
  Timeouts = {TRUE}
  MaxCalls = 2
  MaxClients = 0
  MaxCrashes = 0
PROPERTY RegisterStartsLoops
CHECK_DEADLOCK FALSE
