----------------------------- MODULE MCKeyFiles -----------------------------
(***************************************************************************)
(* Instances of KeyFiles for TLC.                                          *)
(***************************************************************************)
EXTENDS KeyFiles, TLC

Symmetry == Permutations(Workers)

=============================================================================
