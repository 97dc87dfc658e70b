----------------------------- MODULE MCCheckout -----------------------------
(* Values for model checking Checkout.                                     *)
EXTENDS Checkout, TLC

(* One plain line and one of a variant: each passes validation alone.      *)
TwoLines == {[p \in Products |-> [plain |-> 1, variant |-> 1, largest |-> 1]]}

Symmetry == Permutations(Workers) \cup Permutations(Orders)
=============================================================================
