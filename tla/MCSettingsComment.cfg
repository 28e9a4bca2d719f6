CONSTANTS
  Machines <- MCMachines
  Reads <- MCReads
  DefaultText <- MCDefaultText
  DefaultNumber = 9
  SceneNumbers = {0, 1, 2}
  Junk = {0, 77}
  Missing = Missing
SPECIFICATION Spec
CONSTRAINT ScenesAlone
CHECK_DEADLOCK FALSE
INVARIANT CommentsLeaveNoTrace
