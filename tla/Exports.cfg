CONSTANTS
  NoGroup = NoGroup
  None = None
SPECIFICATION Spec
INVARIANTS
  AcceptedIsWritten
  EveryBlockOnceInOrder
  TheGridTiles
  CallsAreWhole
PROPERTIES
  FolderIsAccountedFor
CHECK_DEADLOCK FALSE
