CONSTANT
  None = None
SPECIFICATION Spec
INVARIANTS
  UntouchedReadsAsPublished
  WrittenReadsAsSent
  RequestsAreSound
PROPERTIES
  PeoplesTextStays
CHECK_DEADLOCK FALSE
