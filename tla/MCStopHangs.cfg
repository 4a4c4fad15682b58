CONSTANTS
  App = "recv"
  Plcis <- MCPlcis
  Handles <- MCHandles
  MaxCalls = 1
  StrictDriver = FALSE
  MaxFrames = 0
  RingingTimeout = FALSE
  MaxJobs = 0
  MaxFaults = 0
  DisconnectTimeout = FALSE
  UseDDI = FALSE
  OtherClaims = TRUE
SPECIFICATION FairSpec
PROPERTIES StopFinishes
CHECK_DEADLOCK FALSE
