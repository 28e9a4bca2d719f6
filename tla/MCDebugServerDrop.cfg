\* Three tools, one logging thread: two may be down in one walk.
CONSTANTS
  p1 = p1
  p2 = p2
  p3 = p3
  l1 = l1
  l2 = l2
  Peers = {p1, p2, p3}
  NoPeer = NoPeer
  Loggers = {l1}
  Main = Main
  Builds <- Windows
  MaxLines <- OneLine
SPECIFICATION Spec
CHECK_DEADLOCK FALSE
PROPERTY OnlyDownDropped
