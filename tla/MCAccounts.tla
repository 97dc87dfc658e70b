------------------------------ MODULE MCAccounts ------------------------------
(* Values for model checking Accounts.                                      *)
EXTENDS Accounts, TLC

Symmetry == Permutations(Workers) \cup Permutations(Addresses)
==============================================================================
