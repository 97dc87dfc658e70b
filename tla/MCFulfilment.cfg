CONSTANTS
 o1 = o1
 r1 = r1
 r2 = r2
 v1 = v1
 v2 = v2
 w1 = w1
 w2 = w2
 Orders = {o1}
 Riders = {r1, r2}
 Vendors = {v1, v2}
 Workers = {w1, w2}
 None = None
 VendorsOf <- AllVendors
 MaxCalls = 4
 MaxCrashes = 1
 MaxUnnamed = 1
SPECIFICATION Spec
SYMMETRY Symmetry
INVARIANT TypeOK CreditsBacked PayoutsBacked Reconciled ShipBound StatusWitnessed
CHECK_DEADLOCK FALSE
