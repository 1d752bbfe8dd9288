SPECIFICATION Spec
CONSTANTS
  c1 = c1
  c2 = c2
  c3 = c3
  Clients = {c1, c2, c3}
  Lengths = {1, 2, 3}
  Passwords = {TRUE, FALSE}
  Kinds = {"file", "memory"}
  MaxIssued = 3
SYMMETRY Perms
INVARIANTS
  TypeOK
  FileIsWhole
  OneIdentity
PROPERTY
  SettledStays
CHECK_DEADLOCK FALSE
