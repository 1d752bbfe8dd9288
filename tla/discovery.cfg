SPECIFICATION LiveSpec
CONSTANTS
  s1 = s1
  s2 = s2
  fb = fb
  Fallback = fb
  Servers = {s1, s2}
  MaxAddresses = 2
  Hosts = 2
  SisTimeout = 2
  DialTimeout = 3
  Resolved = 2
  Timeout = 5
INVARIANTS TypeOK WithinDeadline FallbackTriedLast SilentSisLeavesTime
PROPERTY SearchEnds
CHECK_DEADLOCK FALSE
