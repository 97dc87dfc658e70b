------------------------------ MODULE MCCatalog ------------------------------
(* Values for model checking Catalog.                                      *)
EXTENDS Catalog, TLC

Symmetry == Permutations(Workers) \cup Permutations(Processes)
=============================================================================
