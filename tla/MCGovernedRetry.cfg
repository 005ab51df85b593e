CONSTANTS
    c1 = c1  c2 = c2  c3 = c3
    a1 = a1  o1 = o1  o2 = o2  k1 = k1
    s1 = s1  s2 = s2
    NoOp = NoOp  NoCall = NoCall
    Calls = {c1, c2, c3}
    Agents = {a1}
    Ops = {o1}
    Caps = {k1}
    AgentOf <- RetryAgent
    OpOf <- RetryOp
    CapOf <- RetryCap
    CostOf <- RetryCost
    ScopeOf <- RetryScope
    CostSum <- MCCostSum
    Limits = {2, 3}
    Rates = {1, 2}
    RequireEvidence = TRUE
SPECIFICATION FairSpec
INVARIANTS
    TypeOK
    AtMostOneInvocation
    OutcomeFaithful
    GrantsSpentOnce
PROPERTIES
    SettledIsFinal
    AdmissionFollowsPolicy
    WorkersFinish
