CONSTANTS
  App = "send"
  Plcis <- MCPlcis
  Handles <- MCHandles
  MaxCalls = 0
  StrictDriver = TRUE
  MaxFrames = 2
  RingingTimeout = FALSE
  MaxJobs = 2
  MaxFaults = 1
  DisconnectTimeout = TRUE
  UseDDI = FALSE
  OtherClaims = FALSE
SPECIFICATION Spec
INVARIANTS TimerHasHandler SinglePost
