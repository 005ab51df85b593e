CONSTANTS
    c0 = c0  c1 = c1  c2 = c2  p1 = p1  p2 = p2  p3 = p3  w1 = w1  w2 = w2  k1 = k1  pay = pay
    Calls = {c0, c1, c2, p1, p2, p3}
    Previews = {p3}
    Durable = {p2}
    Earlier = {c0}
    Workers = {w1, w2}
    WorkerOf <- MCWorkerOf
    KeyOf <- MCKeyOf
    CostOf <- MCCostOf
    CapOf <- MCCapOf
    ScopeOf <- MCScopeOf
    RouteOf <- MCRouteOf
    Keys = {k1}
    Caps = {pay}
    Rules <- MCRules
    Limits = {1}
    Rate = 2
    DefaultLimit = 2
    CostSum <- MCCostSum
    Sites <- MCSites
    None = None
    Capabilities = {"c1", "c2"}
    Args = {"a1"}
    MaxParts = 2
    MaxHops = 3
    Threads = {r1, r2}
    Kids = {j1, j2}
    TTL = 3
    MinRefresh = 2
    FetchTime = 1
    MaxClock = 4
SPECIFICATION SceneSpec
INVARIANT AckedLimitStands
CHECK_DEADLOCK FALSE
