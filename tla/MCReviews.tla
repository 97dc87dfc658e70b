------------------------------ MODULE MCReviews ------------------------------
(* Values for model checking Reviews.                                      *)
EXTENDS Reviews, TLC

Symmetry == Permutations(Workers) \cup Permutations(Users)
=============================================================================
