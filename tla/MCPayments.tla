----------------------------- MODULE MCPayments -----------------------------
(* Values for model checking Payments.                                     *)
EXTENDS Payments, TLC

(* Bound: of a second order, a second attempt to pay and a crash, a        *)
(* behaviour has one.                                                      *)
OneComplication ==
    Cardinality({o \in Orders : order[o].status # "ABSENT"})
    + Cardinality({p \in Attempts : attempt[p].outcome # "none"}) + crashes <= 3

Symmetry ==
    Permutations(Orders) \cup Permutations(Workers) \cup
    Permutations(RzpOrders) \cup Permutations(Attempts)
=============================================================================
