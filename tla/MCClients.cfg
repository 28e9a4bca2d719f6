\* Two senders, three calls of which the last is alone, lamps inside and at both ends of the universe.
CONSTANTS
  s1 = s1
  s2 = s2
  Senders = {s1, s2}
  Top = 8
  Header = 2
  Addresses <- SomeAddresses
  Calls <- CallsOf
  MaxCalls = 3
SPECIFICATION Spec
CONSTRAINT ThirdAlone
CHECK_DEADLOCK FALSE
INVARIANTS TypeInv MirrorUnlessRaced ClientsAgree SceneBrightness
