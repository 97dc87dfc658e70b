CONSTANTS
 p1 = p1
 p2 = p2
 w1 = w1
 w2 = w2
 c1 = c1
 l1 = l1
 l2 = l2
 Processes = {p1, p2}
 Slots = {w1, w2}
 Clients = {c1}
 Viewers = {"customer", "admin", "rider"}
 Overrides = {"CONFIRMED"}
 Places = {l1, l2}
 Nothing = Nothing
 MaxCalls = 3
SPECIFICATION TrackingSpec
SYMMETRY Symmetry
CONSTRAINT RidersNeedLess
INVARIANT ScreenCurrent StoredFirst
CHECK_DEADLOCK FALSE
