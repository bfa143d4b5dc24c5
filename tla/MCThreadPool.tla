----------------------------- MODULE MCThreadPool -----------------------------
(* Instances of ThreadPool for TLC.                                        *)
EXTENDS ThreadPool

CONSTANTS c1, c2, a, b, c, d, e

\* One client submits a and d; the body of a submits b and c.
ForkParent == [t \in {a, b, c, d} |-> IF t \in {b, c} THEN a ELSE c1]

\* Two clients submit a root each, each root one child, and one child a grandchild.
TwoRootsParent ==
  [t \in {a, b, c, d, e} |->
     CASE t = a -> c1 [] t = b -> a [] t = c -> c2 [] t = d -> c [] t = e -> b]

\* The client submits a, whose body submits b.
OneChildParent == [t \in {a, b} |-> IF t = a THEN c1 ELSE a]
===============================================================================
