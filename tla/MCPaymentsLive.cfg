CONSTANTS
 o1 = o1
 r1 = r1
 r2 = r2
 p1 = p1
 w1 = w1
 w2 = w2
 Orders = {o1}
 RzpOrders = {r1, r2}
 Attempts = {p1}
 Workers = {w1, w2}
 None = None
 MaxCalls = 3
 MaxSends = 2
 MaxCrashes = 1
SPECIFICATION FairSpec
PROPERTY  RefundShown
CHECK_DEADLOCK FALSE
