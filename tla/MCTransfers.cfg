CONSTANTS
  MaxSize = 5
  MaxLength = 6
SPECIFICATION Spec
INVARIANTS
  TypeOK
  CompleteOrError
  PrefixOnly
PROPERTY Ends
CHECK_DEADLOCK FALSE
