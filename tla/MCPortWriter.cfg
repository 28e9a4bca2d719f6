\* Two frames, three writes, a device that may be pulled once.
CONSTANTS
  f1 = f1
  f2 = f2
  Frames = {f1, f2}
  Wild = Wild
  Zero = Zero
  Unloaded = Unloaded
  Builds <- AllBuilds
  MaxWrites = 3
  MaxPulls = 1
SPECIFICATION FairSpec
CHECK_DEADLOCK FALSE
INVARIANTS FtdiSendsGiven TornNeedsOverlap StrayNeedsTimeout
PROPERTIES DestructorReturns LastFrameGoesOut PullIsNoticed
