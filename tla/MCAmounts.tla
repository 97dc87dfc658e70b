----------------------------- MODULE MCAmounts -----------------------------
(* Values for model checking Amounts: totals whose shares end in half a    *)
(* paisa, totals on both sides of the coupon's minimum, of its maximum and *)
(* of the free delivery, a variant that costs nothing, and a product       *)
(* priced below zero.                                                      *)
EXTENDS Amounts, TLC

CONSTANTS v1, v2

MCOffers ==
    {[vendor |-> v1, price |-> -5, variant |-> Null, quantity |-> 1],
     [vendor |-> v1, price |-> 45, variant |-> 0, quantity |-> 1],
     [vendor |-> v2, price |-> 333, variant |-> 49905, quantity |-> 1],
     [vendor |-> v2, price |-> 24997, variant |-> Null, quantity |-> 2],
     [vendor |-> v1, price |-> 104975, variant |-> Null, quantity |-> 2]}

(* prisma/seed.ts:139-151.                                                 *)
Welcome10 == [percentage |-> TRUE, value |-> 10, min |-> 50000, max |-> 20000]
MCCoupons == {Welcome10}

Symmetry == Permutations(Lines)
=============================================================================
