CONSTANTS
  Word = 64
  MaxParts = 4
  MaxBlock = 2
  BootloaderSize = 1
  ReservedSize = 1
  EnvSize = 1
  GapReserved = 1
  GapPartition = 1
  IdLimit = 64
  Count = 5
  Torn = Torn
  Size = 5
  Offsets = {0, 1, 2, 3}
  Sizes = {1, 2}
  LegalNames <- MCLegalNames
  Essential <- MCEssential
  Requests <- SkippedRequests
SPECIFICATION Spec
INVARIANT ExitZeroMeansMigrated
CHECK_DEADLOCK FALSE
