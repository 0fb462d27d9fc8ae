SPECIFICATION Spec
CONSTANTS
  a = a
  b = b
  x = x
  y = y
  bad = bad
  s = s
  t = t
  Ids = {a, b}
  Indexes = {x, y, bad}
  Publishable = {x, y}
  Storages = {s, t}
  None = None
SYMMETRY Symmetry
INVARIANTS
  ServedIsCommitted
  ReceiptsTruthful
PROPERTIES
  FailureRestores
