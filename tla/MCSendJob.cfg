CONSTANTS
  BlockSize = 2
  MaxTry = 3
  MaxSeq = 4
  Window = 2
  Runs <- MCRuns
  Docs <- MCDocs
SPECIFICATION FairSpec
INVARIANTS OkayMeansDeliveredElse FaxesApart QFileTellsResult
PROPERTIES ProgramEnds
CHECK_DEADLOCK FALSE
