CONSTANTS
 a1 = a1
 a2 = a2
 a3 = a3
 w1 = w1
 w2 = w2
 Addresses = {a1, a2, a3}
 Workers = {w1, w2}
 None = None
 LastSecond = 2
 MaxOtps = 2
 MaxPasswords = 2
SPECIFICATION Spec
SYMMETRY Symmetry
INVARIANT TypeOK OtpUseBound SessionEndsWithPassword DefaultsBounded
CHECK_DEADLOCK FALSE
