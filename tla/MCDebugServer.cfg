\* Two tools and two logging threads, on both platforms.
CONSTANTS
  p1 = p1
  p2 = p2
  p3 = p3
  l1 = l1
  l2 = l2
  Peers = {p1, p2}
  NoPeer = NoPeer
  Loggers = {l1, l2}
  Main = Main
  Builds <- AllBuilds
  MaxLines <- TwoLinesAndOne
SPECIFICATION FairSpec
CHECK_DEADLOCK FALSE
INVARIANTS TypeInv WalkIsComplete QuietTeardown
PROPERTIES WrongDropNeedsTwo DestructorReturns
