CONSTANTS
  Users = {main}
  Capi = capi
  Sig = sigalrm
  MaxPuts = 2
  MaxRegs = 2
  MaxSigs = 1
SPECIFICATION FairSpec
INVARIANTS PutsInOrder NothingLeftBehind
PROPERTY ReleaseEnds
CHECK_DEADLOCK FALSE
