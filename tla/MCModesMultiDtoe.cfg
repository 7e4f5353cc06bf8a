CONSTANTS
  Word = 64
  MaxParts = 6
  MaxBlock = 2
  BootloaderSize = 1
  ReservedSize = 1
  EnvSize = 1
  GapReserved = 1
  GapPartition = 1
  OffsetReserved = 2
  DiskSize = 10
  MaxRuns = 1
  MaxCuts = 0
  LegalNames <- MCLegalNames
  Essential <- MCEssential
  NameReadings <- MCNameReadings
  IndexReadings <- MCIndexReadings
  Targets <- MixedTargets
  Requests <- DtoeRequests
  GarbageDParts <- MCGarbageDParts
  GarbageTables <- MCGarbageTables
SPECIFICATION Spec
PROPERTY DtoeNeedsOneEpt
CHECK_DEADLOCK FALSE
