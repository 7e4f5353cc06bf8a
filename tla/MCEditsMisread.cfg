CONSTANTS
  Word = 64
  MaxParts = 7
  MaxBlock = 2
  BootloaderSize = 1
  ReservedSize = 1
  EnvSize = 1
  GapReserved = 1
  GapPartition = 1
  OffsetReserved = 4
  Limit = 12
  LegalNames <- MCLegalNames
  Essential <- MCEssential
  NameReadings <- MCNameReadings
  IndexReadings <- MCIndexReadings
  EditRequests <- MisreadRequests
SPECIFICATION Spec
PROPERTY DeletesSelected
CHECK_DEADLOCK FALSE
