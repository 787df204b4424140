----------------------------- MODULE MCLocalPDP -----------------------------
(* Three decisions, the last one made with a newer bundle. *)
EXTENDS LocalPDP

CONSTANTS d1, d2, d3, a, b

TwoRevisions == [d \in {d1, d2, d3} |-> IF d = d3 THEN b ELSE a]
=============================================================================
