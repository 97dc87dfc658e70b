CONSTANTS
 u1 = u1
 u2 = u2
 w1 = w1
 w2 = w2
 Users = {u1, u2}
 Workers = {w1, w2}
 None = None
 Ratings = {1, 5}
 MaxReviews = 2
SPECIFICATION Spec
SYMMETRY Symmetry
INVARIANT TypeOK AggregateExact ReviewBacked
CHECK_DEADLOCK FALSE
