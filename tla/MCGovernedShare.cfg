CONSTANTS
    c1 = c1  c2 = c2  c3 = c3
    a1 = a1  o1 = o1  o2 = o2  k1 = k1
    s1 = s1  s2 = s2
    NoOp = NoOp  NoCall = NoCall
    Calls = {c1, c2}
    Agents = {a1}
    Ops = {o1, o2}
    Caps = {k1}
    AgentOf <- ShareAgent
    OpOf <- ShareOp
    CapOf <- ShareCap
    CostOf <- ShareCost
    ScopeOf <- ShareScope
    CostSum <- MCCostSum
    Limits = {2, 3}
    Rates = {1, 2}
    RequireEvidence = FALSE
SPECIFICATION Spec
INVARIANTS
    HoldsMatchLedger
    BudgetConserved
    AuditTellsOutcome
PROPERTIES
    ImplementsEscrow
