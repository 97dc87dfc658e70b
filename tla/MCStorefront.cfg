CONSTANTS
 v1 = v1
 i1 = i1
 i2 = i2
 i3 = i3
 w1 = w1
 w2 = w2
 Variants = {v1}
 LineIds = {i1, i2, i3}
 Workers = {w1, w2}
 None = None
 MaxStock = 2
 MaxCalls = 5
SPECIFICATION Spec
SYMMETRY Symmetry
INVARIANT TypeOK LinesBounded OrderedBound UnitsAccounted WishParity
CHECK_DEADLOCK FALSE
