SPECIFICATION Spec
CONSTANTS
  Codes <- SomeCodes
  Texts <- SomeTexts
  Malformed <- NotUtf8
  Juid <- SomeJuid
INVARIANTS TypeOK ReturnedIsWritten WholeBodyDecodes
CHECK_DEADLOCK FALSE
