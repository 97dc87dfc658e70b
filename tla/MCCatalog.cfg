CONSTANTS
 v1 = v1
 c1 = c1
 p1 = p1
 n1 = n1
 n2 = n2
 w1 = w1
 w2 = w2
 Vendors = {v1}
 Categories = {c1}
 Products = {p1}
 Processes = {n1, n2}
 Workers = {w1, w2}
 None = None
 TTL = 2
 Latency = 1
SPECIFICATION Spec
SYMMETRY Symmetry
INVARIANT TypeOK FeaturedFresh ListedIsVetted ApprovedCanSell
CHECK_DEADLOCK FALSE
