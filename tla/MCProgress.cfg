CONSTANTS
    t1 = t1  o1 = o1  o2 = o2  c1 = c1  NoView = NoView  tenant = tenant  a2a = a2a
    s1 = s1  s3 = s3  a1 = a1  p1 = p1  p2 = p2  k1 = k1  r1 = r1  r2 = r2
SPECIFICATION Spec
PROPERTIES ReplayedToTheEnd EveryWaitEnds
CHECK_DEADLOCK FALSE
