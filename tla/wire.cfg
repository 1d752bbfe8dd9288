SPECIFICATION Spec
CONSTANTS
  Sizes <- MCSizes
  Seed = 1
  Juid = 2
  Sid = 3
INVARIANTS
  FieldsReadBack
  PrefixTellsFrame
  InspectionOpens
CHECK_DEADLOCK FALSE
