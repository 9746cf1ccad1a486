CONSTANTS
  None = None  Root = Root
  x1 = x1  x2 = x2  x3 = x3  x4 = x4
  m = m  w = w  s = s  l = l  c = c
  Threads = {m, w}
  Short = {s}
  Long = {l}
  Cells = {c}
  Workers = {w}
  Exporters = {m}
  MaxDepth = 2
  Shallow = {w}
  Ids = {x1, x2, x3}
  Large = {x3}
SYMMETRY Symmetric
SPECIFICATION Spec
INVARIANTS NoDangling PermanentSurvives
PROPERTIES KeepsInterned SameCell
