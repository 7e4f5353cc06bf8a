CONSTANTS
  Word = 64
  DtbSize = 2
  DataSize = 1
  ReservedPartSize = 32
  TableSize = 1
  MagicSize = 1
  OffsetReserved = 18
  OffsetDtb = 4
  Files <- MCFiles
  SysBlock <- MCSysBlock
  CommandLines <- DumpLines
SPECIFICATION Spec
INVARIANT EnoughToRead
CHECK_DEADLOCK FALSE
