CONSTANTS
 l1 = l1
 l2 = l2
 l3 = l3
 v1 = v1
 v2 = v2
 Lines = {l1, l2, l3}
 Vendors = {v1, v2}
 Offers <- MCOffers
 Rates = {10, 15}
 Coupons <- MCCoupons
 REALTEST = REALTEST
 Null = Null
SPECIFICATION AmountsSpec
SYMMETRY Symmetry
INVARIANT PostingsAgree BooksBalance
CHECK_DEADLOCK FALSE
