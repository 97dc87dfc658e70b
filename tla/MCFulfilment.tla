---------------------------- MODULE MCFulfilment ----------------------------
(* Values for model checking Fulfilment.                                   *)
EXTENDS Fulfilment, TLC

(* Every vendor has items in every order.                                  *)
AllVendors == [o \in Orders |-> Vendors]

Symmetry == Permutations(Workers) \cup Permutations(Riders)
=============================================================================
