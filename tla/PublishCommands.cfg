CONSTANTS
  p1 = p1
  p2 = p2
  Procs = {p1, p2}
  doc = doc
  sec = sec
  Refs = {doc}
  Document = doc
  field = field
  intro = intro
  body = body
  FieldParts = {}
  SectionParts = {intro}
  blank = blank
  plain = plain
  other = other
  raw = raw
  unkeyed = unkeyed
  Texts = {blank, plain, other, raw, unkeyed}
  Blank = blank
  Unkeyed = unkeyed
  Form <- FormDef
  i1 = i1
  i2 = i2
  Ids = {i1, i2}
  None = None
  Into = i1
  Yamls <- CommandYamls
  FirstYaml <- IntoFirst
  WholeContent = FALSE
  Keyed = FALSE
  Compared = {intro}
  Templated = FALSE
  Fills = TRUE
  MaxEdits = 1
  MaxRevisions = 1
  MaxFaults = 1
SPECIFICATION Spec
INVARIANT OwnWritesExplained
PROPERTIES
  AppliedMeansPublished
  SeenBeforeOverwritten
