CONSTANTS
    t1 = t1  t2 = t2  t3 = t3  o1 = o1  o2 = o2  c1 = c1  c2 = c2  NoView = NoView
    s1 = s1  s2 = s2  s3 = s3  p1 = p1  p2 = p2  w1 = w1  w2 = w2  u1 = u1  u2 = u2
    q1 = q1  q2 = q2  q3 = q3  None = None  r1 = r1  r2 = r2  n1 = n1  n2 = n2
SPECIFICATION Spec
SYMMETRY Symmetry
PROPERTIES TaskHistoryKept AllocationsBounded AdmissionsBounded RequestsOnce
CHECK_DEADLOCK FALSE
