CONSTANTS
  p = p
  q = q
  a = a
  b = b
  a1 = a1
  a2 = a2
  b1 = b1
  b2 = b2
  legacy = legacy
  tok1 = tok1
  tok2 = tok2
  tok3 = tok3
  bad = bad
  h1 = h1
  h2 = h2
  h3 = h3
  Unread = Unread
  None = None
SPECIFICATION Spec
INVARIANTS
  EverySecretIsListedOnce
  NoTokenForgotten
  TakesItsOwnAnswer
  MissingMeansMissing
PROPERTIES
  ImplementsSignIns
  OnlyWorkingTokensSaved
  ImplementsWriteCall
SYMMETRY Symmetry
CHECK_DEADLOCK FALSE
