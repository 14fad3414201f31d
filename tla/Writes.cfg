CONSTANTS
  l1 = l1
  l2 = l2
  None = None
SPECIFICATION Spec
INVARIANTS
  DoneStands
  RejectedLeavesNoTrace
  LinksAreAccountedFor
  FieldsArrive
  WholeFiles
PROPERTIES
  EditsAreKept
  OthersAreLeftAlone
SYMMETRY Symmetry
CHECK_DEADLOCK FALSE
