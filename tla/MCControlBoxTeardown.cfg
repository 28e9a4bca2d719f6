\* One Ctrl-C: are the devices stopped when the event loop is left?
CONSTANTS
  b1 = b1
  p1 = p1
  h1 = h1
  h2 = h2
  Devices = {b1, p1}
  Handlers = {h1}
  Ending = {}
  Configs <- Plain
SPECIFICATION FairSpec
CHECK_DEADLOCK FALSE
INVARIANT TeardownAfterStop
