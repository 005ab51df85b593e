CONSTANTS
    w1 = w1  w2 = w2  w3 = w3  s1 = s1  s2 = s2  s3 = s3  t1 = t1  t2 = t2  o1 = o1  o2 = o2
    f1 = f1  f2 = f2  b1 = b1  q1 = q1  q3 = q3  d1 = d1  d2 = d2
    Workers = {w1, w2, w3}
    Submissions = {s1, s2, s3}
    Tasks = {t1, t2}
    Ops = {o1, o2}
    None = None
    TaskOf <- MCTaskOf
    OpOf <- MCOpOf
    SizeOf <- MCSizeOf
    Isolation <- MCIsolation
    Default <- MCDefault
    Capacities <- MCCapacities
    RetainedSum <- MCRetainedSum
    Handles = {f1, f2, b1, q1, q3}
    EffectIds = {o1, o2}
    Nil = Nil
    KindOf <- MCKindOf
    DescOf <- MCDescOf
    PrintOf <- MCPrintOf
    Ttl = 2
    Timeout = 1
    MaxNow = 3
    MaxEpoch = 2
    Owners = {w1, w2}
    Operations = {o1, o2}
    TTL = 2
    MaxClock = 3
    MaxRollbacks = 1
    Absent = Absent
SPECIFICATION SceneSpec
PROPERTIES FencesKept
CHECK_DEADLOCK FALSE
