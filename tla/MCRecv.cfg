CONSTANTS
  App = "recv"
  Plcis <- MCPlcis
  Handles <- MCHandles
  MaxCalls = 2
  StrictDriver = FALSE
  MaxFrames = 0
  RingingTimeout = FALSE
  MaxJobs = 0
  MaxFaults = 1
  DisconnectTimeout = FALSE
  UseDDI = TRUE
  OtherClaims = TRUE
SPECIFICATION Spec
INVARIANTS ChannelInv NoOrphanCall
PROPERTIES ResetSticks CallbackOrder
CHECK_DEADLOCK FALSE
