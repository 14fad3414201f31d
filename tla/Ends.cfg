CONSTANTS
  p = p
  q = q
  t1 = t1
  t2 = t2
  t3 = t3
  h1 = h1
  h2 = h2
  l1 = l1
  l2 = l2
  doc = doc
  intro = intro
  blank = blank
  plain = plain
  another = another
  raw = raw
  unkeyed = unkeyed
  None = None
SPECIFICATION FairSpec
PROPERTIES
  CommandsEnd
  EndsPublished
  EverySaveIsShown
CHECK_DEADLOCK FALSE
