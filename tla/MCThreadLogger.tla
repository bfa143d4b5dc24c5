---------------------------- MODULE MCThreadLogger ----------------------------
(* Instances of ThreadLogger for TLC.                                      *)
EXTENDS ThreadLogger

CONSTANTS c1, c2, l1, l2

\* The last message is the second caller's.
Authors == [m \in Message |-> IF m = NMessages THEN c2 ELSE c1]
\* The first message is too quiet for level 1.
Severities == [m \in Message |-> IF m = 1 THEN 0 ELSE 1]
===============================================================================
