SPECIFICATION Spec
CONSTANTS
  p1 = p1
  p2 = p2
  c1 = c1
  c2 = c2
  u = u
  v = v
  w = w
  Producer = {p1, p2}
  Consumer = {c1}
  Value = {u, v, w}
  Source <- TwoSources
  Node = {n1, n2, n3, n4}
  Null = Null
  Nothing = Nothing
  ScanThreshold = 1
  CleanUp = TRUE
  DelayedStores = FALSE
  SpuriousCas = FALSE
SYMMETRY Interchangeable
INVARIANTS
  NoUseAfterFree
