CONSTANTS
  p1 = p1
  Procs = {p1}
  doc = doc
  sec = sec
  Refs = {doc, sec}
  Document = doc
  field = field
  intro = intro
  body = body
  FieldParts = {field}
  SectionParts = {intro}
  blank = blank
  plain = plain
  other = other
  raw = raw
  unkeyed = unkeyed
  Texts = {blank, plain, other, raw, unkeyed}
  Blank = blank
  Unkeyed = unkeyed
  Form <- FormDef
  i1 = i1
  i2 = i2
  i3 = i3
  Ids = {i1, i2, i3}
  None = None
  Into = None
  Yamls <- CreateYamls
  FirstYaml <- CreateFirst
  WholeContent = FALSE
  Keyed = FALSE
  Compared = {intro}
  Templated = TRUE
  Fills = TRUE
  MaxEdits = 1
  MaxRevisions = 1
  MaxFaults = 2
SPECIFICATION Spec
INVARIANTS
  TypeOK
  Tracked
  NoDuplicates
  Inductive
SYMMETRY IdSymmetry
