----------------------------- MODULE MCNodeApi ------------------------------
(***************************************************************************)
(* Small instances of NodeApi: three queries with two ids, or without, and  *)
(* more events than are kept.                                               *)
(***************************************************************************)
EXTENDS NodeApi

CONSTANTS r1, r2, r3, i1, i2, p1, none

MCSymmetry == Permutations(Requests) \cup Permutations(Ids)
=============================================================================
