CONSTANTS
  Word = 64
  MaxParts = 6
  MaxBlock = 2
  BootloaderSize = 1
  ReservedSize = 1
  EnvSize = 1
  GapReserved = 1
  GapPartition = 1
  OffsetReserved = 2
  DiskSize = 10
  MaxRuns = 2
  MaxCuts = 2
  LegalNames <- MCLegalNames
  Essential <- MCEssential
  NameReadings <- MCNameReadings
  IndexReadings <- MCIndexReadings
  Targets <- MCTargets
  Requests <- MCRequests
  GarbageDParts <- MCGarbageDParts
  GarbageTables <- MCGarbageTables
SPECIFICATION Spec
INVARIANTS
  TypeOK
  
  TableStays
  DtbSurvives
PROPERTY SourceFirst
CHECK_DEADLOCK FALSE
