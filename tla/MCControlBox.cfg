\* Two Ctrl events, one of which ends the process; both platforms.
CONSTANTS
  b1 = b1
  p1 = p1
  h1 = h1
  h2 = h2
  Devices = {b1, p1}
  Handlers = {h1, h2}
  Ending = {h2}
  Configs <- AllConfigs
SPECIFICATION FairSpec
CHECK_DEADLOCK FALSE
INVARIANTS TypeInv CleanIfStopFirst AliveUntilStop AbortNeedsTwo HandlerStopsAll
PROPERTY StopEndsProgram
