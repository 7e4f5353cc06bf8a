CONSTANTS
  Word = 64
  DtbSize = 2
  DataSize = 1
  ReservedPartSize = 32
  TableSize = 1
  MagicSize = 1
  OffsetReserved = 18
  OffsetDtb = 4
  Files <- MCFiles
  SysBlock <- MCSysBlock
  CommandLines <- PartitionLines
SPECIFICATION Spec
PROPERTY FindsDisk
CHECK_DEADLOCK FALSE
