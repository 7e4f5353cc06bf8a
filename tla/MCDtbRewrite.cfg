CONSTANTS
  MaxParts = 3
  DataMax = 64
  Page = 4
  MaxRuns = 3
  Images <- MCImages
  Lists <- MCLists
SPECIFICATION Spec
INVARIANTS
  TypeOK
  ReadsBack
  PhandlesUnique
  OthersUntouched
  PhandlesReused
  StaysWritable
  SortedByRecord
CHECK_DEADLOCK FALSE
