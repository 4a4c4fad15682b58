CONSTANTS
  d1 = d1
  d2 = d2
  NoData = NoData
  MaxEntries = 3
  Data <- MCData
  Channels = {c1, c2, c3}
  PLCIs = {257, 513, 258}
  Configs <- MCConfigs
  Called <- MCCalled
  MaxByte = 17
  Strings <- MCStrings
  Infos <- MCInfos
  InfoFields = {1, 5}
SPECIFICATION MCSpec
SYMMETRY PlciSymmetry
INVARIANTS SoleClaimElse AnswersByList SentAsSetElse UnderstoodAsSaid
PROPERTIES Refines OnlyItsOwn
CHECK_DEADLOCK FALSE
