---------------------------- MODULE MCStorefront ----------------------------
(* Values for model checking Storefront.                                   *)
EXTENDS Storefront, TLC

Symmetry == Permutations(Workers) \cup Permutations(LineIds)
=============================================================================
