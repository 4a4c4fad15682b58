CONSTANTS
  Plain = {a, b}
  Sorted = {c}
  Words = {w1, w2, w3}
  e1 = e1
  e2 = e2
  e3 = e3
  e4 = e4
  Entries <- MCEntries
  KeyOf <- MCKeyOf
  Nil = Nil
  Strings <- MCTexts
  RemoveSets <- MCRemoveSets
  Fillers = {"-", "NUL"}
  Slash = "/"
  NUL = "NUL"
  Terminator = "NUL"
  Junk = "junk"
  Offset = 2
  MaxText = 3
  Jobs <- MCJobs
  NoString = "[none]"
  BufferSize = 4
  ShortBits = 3
  IntBits = 4
  LongBits = 6
  MaxLines = 3
  PieceLen = 3
  Files <- MCFiles
  Options <- MCOptions
  MainItems <- MCMainItems
  Items <- MCItems
  DeviceItem <- d
  Device <- MCDevice
  Null = Null
SPECIFICATION MCSpec
SYMMETRY WordsSymmetry
INVARIANTS ReadAsPrinted
PROPERTIES IsListSeq HoldsText ConfAsWrittenElse
CHECK_DEADLOCK FALSE
