CONSTANTS
 o1 = o1
 o2 = o2
 r1 = r1
 r2 = r2
 p1 = p1
 p2 = p2
 w1 = w1
 w2 = w2
 Orders = {o1, o2}
 RzpOrders = {r1, r2}
 Attempts = {p1, p2}
 Workers = {w1, w2}
 None = None
 MaxCalls = 3
 MaxSends = 2
 MaxCrashes = 1
SPECIFICATION Spec
SYMMETRY Symmetry
CONSTRAINT OneComplication
INVARIANT TypeOK MoneyIsReal RowsAgree CreditBound DispatchedIsPayable
PROPERTY KeepsPromise
CHECK_DEADLOCK FALSE
