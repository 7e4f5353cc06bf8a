CONSTANTS
  Count = 4
  Torn = Torn
  Content <- MCContent
SPECIFICATION MCFairSpec
INVARIANTS
  TypeOK
  Migrated
  LossBound
  DepthBounded
PROPERTIES
  ImplementsPromise
  Termination
CHECK_DEADLOCK FALSE
