SPECIFICATION Spec
CONSTANTS
  p1 = p1
  p2 = p2
  c1 = c1
  c2 = c2
  u = u
  v = v
  w = w
  Producer = {p1}
  Consumer = {c1, c2}
  Value = {u, v, w}
  Source <- OneSource
  Node = {n1, n2, n3}
  Null = Null
  Nothing = Nothing
  ScanThreshold = 1
  CleanUp = TRUE
  DelayedStores = FALSE
  SpuriousCas = TRUE
SYMMETRY Interchangeable
INVARIANTS
  NoUseAfterFree
  MemoryAccounted
