CONSTANTS
  App = "recv"
  Plcis <- MCPlcis
  Handles <- MCHandles
  MaxCalls = 1
  StrictDriver = FALSE
  MaxFrames = 0
  RingingTimeout = FALSE
  MaxJobs = 0
  MaxFaults = 1
  DisconnectTimeout = FALSE
  UseDDI = TRUE
  OtherClaims = FALSE
  N = 2
  MaxSecs = 2
  MaxMeets = 1
SPECIFICATION MCSpec
INVARIANTS ListHoldsTimers
PROPERTIES StopFinishes TimersFire
