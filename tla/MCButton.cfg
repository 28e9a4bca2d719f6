\* Button and poti, with and without the test tool, every gesture and merged read.
CONSTANTS
  Configs <- AllConfigs
  MaxGestures = 5
  MaxNet = 3
SPECIFICATION FairSpec
CHECK_DEADLOCK FALSE
INVARIANTS LateAtMostOnce LastValueArrives DownsHavePresses SettledAgrees
PROPERTIES Alternation StopReturnsUnlessOpen PressNoticed
