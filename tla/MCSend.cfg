CONSTANTS
  App = "send"
  Plcis <- MCPlcis
  Handles <- MCHandles
  MaxCalls = 0
  StrictDriver = FALSE
  MaxFrames = 3
  RingingTimeout = TRUE
  MaxJobs = 2
  MaxFaults = 1
  DisconnectTimeout = FALSE
  UseDDI = FALSE
  OtherClaims = FALSE
SPECIFICATION FairSpec
INVARIANTS BufferOwnedOnce DataInFlight
PROPERTIES CallbackOrder SendFinishes
