--------------------------- MODULE MCGrantStream ---------------------------
(***************************************************************************)
(* GrantStream with interchangeable grants and grantees. No definition     *)
(* names one of them, and only safety is checked under this symmetry.      *)
(***************************************************************************)
EXTENDS GrantStream, TLC

Interchangeable == Permutations(Ids) \cup Permutations(Recipients)

=============================================================================
