SPECIFICATION FairSpec
CONSTANTS
  p1 = p1
  p2 = p2
  c1 = c1
  c2 = c2
  u = u
  v = v
  w = w
  Producer = {p1, p2}
  Consumer = {c1}
  Value = {u, v}
  Source <- TwoSources2
  Node = {n1, n2, n3}
  Null = Null
  Nothing = Nothing
  ScanThreshold = 9
  CleanUp = FALSE
  DelayedStores = TRUE
  SpuriousCas = FALSE
INVARIANTS
  TailInChain
PROPERTIES
  ImplementsFifo
  EverythingLeaves
