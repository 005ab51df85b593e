CONSTANTS
    w1 = w1  w2 = w2  a = a  b = b  k1 = k1  k2 = k2  NoPolicy = NoPolicy
    i1 = i1  i2 = i2  None = None
SPECIFICATION Spec
PROPERTIES AuditProvable JournalsKept TrustAtHead
CHECK_DEADLOCK FALSE
