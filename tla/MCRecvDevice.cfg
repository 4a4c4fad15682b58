CONSTANTS
  Devices = {d1, d2, d3}
  Configured = {d1, d2}
  CountThreads = 2
  CapiFails = TRUE
  None = None
SPECIFICATION FairSpec
INVARIANTS DeviceInv
PROPERTIES StopEndsDevice SignalEndsProgram
