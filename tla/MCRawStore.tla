---------------------------- MODULE MCRawStore ----------------------------
(***************************************************************************)
(* RawStore for TLC: payloads d1 and d2 have the same length, d3 another.  *)
(***************************************************************************)
EXTENDS RawStore, TLC

CONSTANTS d1, d2, d3, c1, c2, s1

SizeOfData == [d \in Data |-> IF d = d3 THEN 2 ELSE 1]
Symmetry == Permutations(Clients) \cup Permutations({d1, d2})
=============================================================================
