CONSTANTS
  BlockSize = 1
  MaxTry = 2
  MaxSeq = 3
  Receivers <- MCReceivers
  FirstDisk <- MCDisk
  Documents <- MCDocuments
  MaxIncoming = 3
SPECIFICATION Spec
INVARIANTS HylaFAXIsTold FilesAreHandedOver JobFilesDistinct
CHECK_DEADLOCK FALSE
