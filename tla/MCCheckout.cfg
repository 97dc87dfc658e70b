CONSTANTS
 p1 = p1
 u1 = u1
 o1 = o1
 o2 = o2
 o3 = o3
 w1 = w1
 w2 = w2
 Products = {p1}
 Users = {u1}
 Orders = {o1, o2, o3}
 Workers = {w1, w2}
 None = None
 Payloads <- TwoLines
 MaxQty = 1
 MaxStock = 1
 MaxChanges = 2
 MaxCrashes = 1
SPECIFICATION Spec
SYMMETRY Symmetry
INVARIANT TypeOK OversellBound StockAccounts SoldMatchesOrders CancelBound CouponCounted
CHECK_DEADLOCK FALSE
