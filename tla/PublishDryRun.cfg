CONSTANTS
  p1 = p1
  Procs = {p1}
  doc = doc
  sec = sec
  Refs = {doc}
  Document = doc
  field = field
  intro = intro
  body = body
  FieldParts = {}
  SectionParts = {intro}
  blank = blank
  plain = plain
  other = other
  raw = raw
  unkeyed = unkeyed
  Texts = {blank, plain, other, raw, unkeyed}
  Blank = blank
  Unkeyed = unkeyed
  Form <- FormDef
  i1 = i1
  i2 = i2
  Ids = {i1, i2}
  None = None
  Into = None
  Yamls <- RaceYamls
  FirstYaml <- RaceFirst
  WholeContent = FALSE
  Keyed = TRUE
  Compared = {intro}
  Templated = TRUE
  Fills = TRUE
  MaxEdits = 0
  MaxRevisions = 0
  MaxFaults = 1
SPECIFICATION Spec
PROPERTY DryRunWritesNothing
SYMMETRY IdSymmetry
