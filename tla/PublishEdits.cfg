CONSTANTS
  p = p
  p1 = p1
  p2 = p2
  i1 = i1
  i2 = i2
  page = page
  new = new
  doc = doc
  field = field
  intro = intro
  body = body
  blank = blank
  plain = plain
  other = other
  raw = raw
  unkeyed = unkeyed
  None = None
SPECIFICATION Spec
INVARIANT FileAndServiceAgree
PROPERTY SeenBeforeOverwritten
SYMMETRY Symmetry
