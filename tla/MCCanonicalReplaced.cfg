CONSTANTS
  None = None  Root = Root
  x1 = x1  x2 = x2  x3 = x3  x4 = x4
  m = m  w = w  s = s  l = l  c = c
  Threads = {m, w}
  Short = {s}
  Long = {}
  Cells = {}
  Workers = {w}
  Exporters = {}
  MaxDepth = 1
  Shallow = {}
  Ids = {x1, x2, x3}
  Large = {}
SPECIFICATION Spec
PROPERTIES KeepsIdentity
