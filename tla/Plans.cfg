CONSTANTS
  a = a
  b = b
  c = c
  Doc = Doc
  None = None
SPECIFICATION Spec
INVARIANTS
  DoneIsInOrder
  NothingLost
  EachBlockOnce
  PagesAreWhole
PROPERTIES
  RunsKeepTheirWord
SYMMETRY Symmetry
CHECK_DEADLOCK FALSE
