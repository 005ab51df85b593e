-------------------------- MODULE AdmissionQuotas ---------------------------
(***************************************************************************)
(* Tenant-wide admission caps (admission_quotas.py) on PostgreSQL, where   *)
(* each statement sees what is committed when it runs.  An admission holds *)
(* the authority boundary shared and the quota lock to the end of its      *)
(* transaction; it reads the budgets, then the operations, then inserts    *)
(* its quota record, its operation and its reservation together.  Workers  *)
(* of a release without quotas insert operations without a record, which   *)
(* a trigger refuses while caps are enabled.  Settlements take none of     *)
(* these locks.  Policy changes hold the boundary exclusively.             *)
(***************************************************************************)
EXTENDS Naturals, FiniteSets, FiniteSetsExt

CONSTANTS
    Workers, Owners, Operations,
    Costs,          \* costs a request may have
    Prior,          \* spend from before quotas, in the budgets only
    Policies,       \* limits an operator may set
    Window,         \* window_seconds
    MaxClock,       \* bound: time
    None

VARIABLES
    clock,
    policy,
    op,             \* Operations -> None or [state, cost, updated] (agent_operations and reservation)
    record,         \* Operations -> None or [owner, cost, admitted]
    txn             \* Workers -> None or an open admission

vars == <<clock, policy, op, record, txn>>

Disabled == [enabled |-> FALSE, spend |-> 0, userSpend |-> 0, rate |-> 1, userRate |-> 1,
             active |-> 1, userActive |-> 1, records |-> Cardinality(Operations)]

Admitted == {o \in Operations : op[o] # None}
Claimed == {o \in Operations : record[o] # None}
Charged == {o \in Admitted : op[o].state \in {"unknown", "succeeded"}}
Cost(S) == MapThenSumSet(LAMBDA o : op[o].cost, S)
CostOf(S) == MapThenSumSet(LAMBDA o : record[o].cost, S)

(* The budgets of all agents: spent and reserved.                           *)
Exposure == Prior + Cost(Charged)

------------------------------------------------------------------------------
(* _usage, with the budget total read by an earlier statement.              *)
Recent(t, now) == t + Window > now
UnattributedToNone(total, attributed) == 0
Unattributed(total, attributed) == IF total > attributed THEN total - attributed ELSE 0

Usage(owner, total, now) ==
    LET mine == {o \in Claimed : record[o].owner = owner}
        legacy == Admitted \ Claimed
        unknown(S) == {o \in S : op[o].state = "unknown"}
        rest == Unattributed(total, CostOf(Claimed \cap Charged))
    IN [spend |-> total,
        userSpend |-> CostOf(mine \cap Charged) + rest,
        active |-> Cardinality(unknown(Claimed)) + Cardinality(unknown(legacy)),
        userActive |-> Cardinality(unknown(mine)) + Cardinality(unknown(legacy)),
        recent |-> Cardinality({o \in Claimed : Recent(record[o].admitted, now)})
                   + Cardinality({o \in legacy : op[o].state = "unknown" \/ Recent(op[o].updated, now)}),
        userRecent |-> Cardinality({o \in mine : Recent(record[o].admitted, now)})
                   + Cardinality({o \in legacy : op[o].state = "unknown" \/ Recent(op[o].updated, now)})]

WithinAtLimit(u, cost) ==
    /\ u.spend + cost <= policy.spend /\ u.userSpend + cost <= policy.userSpend
    /\ u.recent <= policy.rate /\ u.userRecent <= policy.userRate
    /\ u.active <= policy.active /\ u.userActive <= policy.userActive
Within(u, cost) ==
    /\ u.spend + cost <= policy.spend
    /\ u.userSpend + cost <= policy.userSpend
    /\ u.recent + 1 <= policy.rate
    /\ u.userRecent + 1 <= policy.userRate
    /\ u.active + 1 <= policy.active
    /\ u.userActive + 1 <= policy.userActive

------------------------------------------------------------------------------
Guarding == {w \in Workers : txn[w] # None}
QuotaLockFree == \A w \in Workers : txn[w] # None => txn[w].old

(* _admit up to the budgets: the lock, the policy, the record capacity and  *)
(* the budget total.                                                        *)
Admit(w, owner, o, cost) ==
    /\ txn[w] = None
    /\ op[o] = None
    /\ \A v \in Workers : txn[v] # None => txn[v].op # o
    /\ QuotaLockFree
    /\ Cardinality(Claimed) < policy.records
    /\ txn' = [txn EXCEPT ![w] = [op |-> o, owner |-> owner, cost |-> cost, old |-> FALSE,
                                  at |-> clock, total |-> Exposure, step |-> "budgets"]]
    /\ UNCHANGED <<clock, policy, op, record>>

(* The operations are read and the caps judged.                             *)
AdmitJudge(w) ==
    /\ txn[w] # None /\ txn[w].step = "budgets"
    /\ policy.enabled => Within(Usage(txn[w].owner, txn[w].total, txn[w].at), txn[w].cost)
    /\ txn' = [txn EXCEPT ![w] = [txn[w] EXCEPT !.step = "judged"]]
    /\ UNCHANGED <<clock, policy, op, record>>

(* The claim commits: quota record, operation and reservation.              *)
AdmitCommit(w) ==
    LET r == txn[w] IN
    /\ r # None /\ r.step = "judged"
    /\ record' = [record EXCEPT ![r.op] = [owner |-> r.owner, cost |-> r.cost, admitted |-> r.at]]
    /\ op' = [op EXCEPT ![r.op] = [state |-> "unknown", cost |-> r.cost, updated |-> clock]]
    /\ txn' = [txn EXCEPT ![w] = None]
    /\ UNCHANGED <<clock, policy>>

(* An older worker: the claim guard judges its insert, which commits later. *)
ClaimGuardOpen == TRUE
ClaimGuard == ~policy.enabled
OldInsert(w, o, cost) ==
    /\ txn[w] = None
    /\ op[o] = None
    /\ \A v \in Workers : txn[v] # None => txn[v].op # o
    /\ ClaimGuard
    /\ txn' = [txn EXCEPT ![w] = [op |-> o, owner |-> None, cost |-> cost, old |-> TRUE,
                                  at |-> clock, total |-> 0, step |-> "inserted"]]
    /\ UNCHANGED <<clock, policy, op, record>>

OldCommit(w) ==
    LET r == txn[w] IN
    /\ r # None /\ r.step = "inserted"
    /\ op' = [op EXCEPT ![r.op] = [state |-> "unknown", cost |-> r.cost, updated |-> clock]]
    /\ txn' = [txn EXCEPT ![w] = None]
    /\ UNCHANGED <<clock, policy, record>>

(* QuotaDenied, another failure in the claim, or a dead worker.             *)
Abort(w) ==
    /\ txn[w] # None
    /\ txn' = [txn EXCEPT ![w] = None]
    /\ UNCHANGED <<clock, policy, op, record>>

(* An operation settles, in a transaction of its own.                       *)
Settle(o, outcome) ==
    /\ op[o] # None /\ op[o].state = "unknown"
    /\ op' = [op EXCEPT ![o] = [state |-> outcome, cost |-> op[o].cost, updated |-> clock]]
    /\ UNCHANGED <<clock, policy, record, txn>>

(* set_quotas: guard(write=True) waits for every admission in progress.     *)
BoundaryIgnored == TRUE
BoundaryExclusive == Guarding = {}
SetPolicy(p) ==
    /\ p # policy
    /\ BoundaryExclusive
    /\ QuotaLockFree
    /\ policy' = p
    /\ UNCHANGED <<clock, op, record, txn>>

Tick ==
    /\ clock < MaxClock
    /\ clock' = clock + 1
    /\ UNCHANGED <<policy, op, record, txn>>

Init ==
    /\ clock = 0
    /\ policy = Disabled
    /\ op = [o \in Operations |-> None]
    /\ record = [o \in Operations |-> None]
    /\ txn = [w \in Workers |-> None]

Next ==
    \/ \E w \in Workers :
         \/ \E o \in Operations, cost \in Costs : \/ OldInsert(w, o, cost)
                                                  \/ \E u \in Owners : Admit(w, u, o, cost)
         \/ AdmitJudge(w) \/ AdmitCommit(w) \/ OldCommit(w) \/ Abort(w)
    \/ \E o \in Operations, s \in {"succeeded", "failed"} : Settle(o, s)
    \/ \E p \in Policies : SetPolicy(p)
    \/ Tick

Spec == Init /\ [][Next]_vars

------------------------------------------------------------------------------
Grew == \E o \in Operations : op[o] = None /\ op'[o] # None
Unknown == {o \in Admitted : op[o].state = "unknown"}

(* Under enabled caps no admission, by a worker of either release, takes    *)
(* the tenant past its spend or active limit, judged on what is true when   *)
(* it commits: admissions that were in flight when the caps were set and    *)
(* settlements between the reads included.                                  *)
TenantCaps ==
    (Grew /\ policy.enabled) =>
        /\ Exposure' <= policy.spend
        /\ Cardinality(Unknown') <= policy.active

(* The same for each owner, to whom everything without an owner is charged. *)
OwnerCaps ==
    (Grew /\ policy.enabled) =>
        \A o \in Operations : (op[o] = None /\ op'[o] # None) =>
           LET mine == {x \in Operations : record'[x] # None /\ record'[x].owner = record'[o].owner}
               others == {x \in Claimed : x \notin mine} IN
           /\ Exposure' - CostOf(others \cap Charged) <= policy.userSpend
           /\ Cardinality((Unknown \ others) \cup {o}) <= policy.userActive

(* Under enabled caps, the window before an admission holds no more         *)
(* recorded admissions than the rate allows, whoever made them.             *)
TenantRate ==
    policy.enabled => \A o \in Operations : (record[o] = None /\ record'[o] # None) =>
        Cardinality({x \in Operations : record'[x] # None
                       /\ Recent(record'[x].admitted, record'[o].admitted)}) <= policy.rate

(* Every operation admitted under enabled caps has its quota record.        *)
Attributed ==
    \A o \in Operations : (op[o] = None /\ op'[o] # None /\ policy.enabled) => record'[o] # None
=============================================================================
