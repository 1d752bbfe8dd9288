SPECIFICATION LiveSpec
CONSTANTS
  FreshCodec = {TRUE, FALSE}
  Passwords = {TRUE, FALSE}
  Timeouts = {TRUE, FALSE}
  MaxCalls = 3
  MaxClients = 1
  MaxCrashes = 1
INVARIANTS TypeOK RegisteredOnce IdentityMatches LoginDecrypts NoSocketLeak
PROPERTIES StoredIdentityKept SessionKeepsIdentity RegisterReturns
CHECK_DEADLOCK FALSE
