-------------------------- MODULE MCRawMigration --------------------------
(***************************************************************************)
(* RawMigration for TLC: payloads d1 and d2 have the same length.          *)
(***************************************************************************)
EXTENDS RawMigration, TLC

CONSTANTS d1, d2, s1, w1, w2, c1, j1, j2, q1, q2, q3

SizeOfData == [d \in Data |-> 1]
Symmetry ==
  Permutations(Workers) \cup Permutations(Jobs) \cup Permutations(Requests) \cup Permutations(Data)
=============================================================================
