CONSTANTS
  MaxLen = 22
  ShortLine = 1
  EmptyLines = 2
  EmptyLine = 1
  EndOfLine = 1
  EndOfPage = 2
  Margin = 2
  IdSize = 1
  DocSize = 1
  PageSize = 2
  BufferLen = 3
  LongLines <- MCLongLines
  Specials <- MCSpecials
  Blocks <- MCBlocks
  MaxPages = 2
  MaxRecords = 2
  QueueSize = 20
  CapiBuffer = 4
  FilterBuffer = 4
  MaxShort = 1
  HeaderSize = 1
  Files <- MCFiles
SPECIFICATION MCSpec
INVARIANTS FaxWholeElse LinesInTheirPageElse AllLinesSent
PROPERTIES RecvSFFEnds
CHECK_DEADLOCK FALSE
