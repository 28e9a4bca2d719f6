CONSTANTS
  Ids = {n1, n2, n3, n4}
  Handles = {h1, h2}
  Null = Null
  Values = {v}
  MaxElems = 3
SPECIFICATION Spec
SYMMETRY Symmetry
CHECK_DEADLOCK FALSE
INVARIANTS RefsCount OrderKept InsertLands
