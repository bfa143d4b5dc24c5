----------------------------- MODULE MCDataLoader -----------------------------
(* Instances of DataLoader for TLC.                                        *)
EXTENDS DataLoader, FiniteSets

\* A sequential and a shuffled sampler.
TwoOrders == {[i \in 1 .. Size |-> i - 1], [i \in 1 .. Size |-> Size - i]}
\* Any items may be missing; at most one get_item() throws.
AnyMissing == SUBSET Index
AtMostOne == {f \in SUBSET Index : Cardinality(f) <= 1}
===============================================================================
