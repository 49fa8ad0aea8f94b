----------------------------- MODULE MCIdentity -----------------------------
(***************************************************************************)
(* Instances of Identity.tla for TLC.                                      *)
(***************************************************************************)
EXTENDS Identity, TLC

CONSTANTS p1, p2, i1, i2, i3

Symmetry == Permutations(Proc) \union Permutations(Ident)
=============================================================================
