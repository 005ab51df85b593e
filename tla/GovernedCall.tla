---------------------------- MODULE GovernedCall ----------------------------
(***************************************************************************)
(* One governed call, from admission to settlement, in the tenant          *)
(* composition: every participant (identities, budgets, approvals, audit,  *)
(* operation ledger) shares one durable SQL store, and an authority        *)
(* directory serializes admissions with policy and enrollment changes.     *)
(*                                                                         *)
(* A call is one execution of GovernanceGateway.route_call by one worker.  *)
(* Its worker steps interleave with other calls of the same or of another  *)
(* operation, with operators (approve, set_budget, mark_sensitive, ...),   *)
(* with the reconciler, with the destination, and with cancellation,       *)
(* timeouts, SQL failures and the death of the worker process.             *)
(*                                                                         *)
(* One action is one committed SQL transaction (or one authority-guarded   *)
(* read) of the code.  What is committed survives every crash; what a      *)
(* worker holds in memory (pc, needs) does not matter after its death.     *)
(***************************************************************************)
EXTENDS Naturals, FiniteSets

CONSTANTS
    Calls,            \* executions of route_call; also their reservation tokens
    Agents, Ops, Caps,\* agents, operation keys (agent_id, operation_id), capabilities
    AgentOf, OpOf, CapOf, CostOf,   \* what each call asks for
    ScopeOf,          \* request_scope: the fingerprint of the whole request
    CostSum,          \* CostSum[S]: the sum of CostOf over the set S of calls
    Limits, Rates,    \* the spend and rate limits an operator may set
    NoOp, NoCall,     \* a missing operation_id; no reservation
    RequireEvidence   \* production: reconciliation needs destination evidence

(* A call names an agent, an operation of that agent (or none), a          *)
(* capability and a natural cost.                                          *)
ASSUME CallsAssumption ==
    /\ IsFiniteSet(Calls)
    /\ NoOp \notin Ops /\ NoCall \notin Calls
    /\ AgentOf \in [Calls -> Agents]
    /\ OpOf \in [Calls -> Ops \cup {NoOp}]
    /\ CapOf \in [Calls -> Caps]
    /\ CostOf \in [Calls -> Nat]
    /\ Limits \subseteq Nat /\ Rates \subseteq Nat
    /\ RequireEvidence \in BOOLEAN

(* The operation key contains the agent, and the fingerprint digests the   *)
(* agent, the operation_id, the wire (hence the capability) and the cost.  *)
ASSUME ScopeAssumption ==
    \A c, d \in Calls :
        /\ (OpOf[c] = OpOf[d] /\ OpOf[c] # NoOp) => AgentOf[c] = AgentOf[d]
        /\ ScopeOf[c] = ScopeOf[d] =>
              OpOf[c] = OpOf[d] /\ CapOf[c] = CapOf[d] /\ CostOf[c] = CostOf[d]

(* CostSum is the sum of the costs of a set of calls.                      *)
ASSUME CostSumAssumption ==
    /\ CostSum \in [SUBSET Calls -> Nat]
    /\ CostSum[{}] = 0
    /\ \A S \in SUBSET Calls : \A c \in Calls \ S :
          CostSum[S \cup {c}] = CostSum[S] + CostOf[c]

VARIABLES
    pc,         \* pc[c]: where the worker of call c is in route_call
    cancelled,  \* calls whose caller went away before invocation
    needs,      \* calls whose decision, taken before the transaction, is approval_required
    active,     \* agents enrolled and not revoked
    sensitive,  \* sensitive_capabilities and rules that require approval
    blocked,    \* capabilities denied by a policy rule
    approval,   \* approval[c]: status of the approval row that call c requested
    limit, rate, spent, recent, reserved,    \* the budget state of each agent
    op,         \* agent_operations.state
    resv,       \* operation_reservations.token
    reconciled, \* operation_reconciliations.result
    audit,      \* the route_call and reconcile_operation audit entries
    sent,       \* calls whose request may have left for the destination
    dest        \* what the destination durably decided for each operation

policyVars == <<active, sensitive, blocked>>
budgetVars == <<limit, rate, spent, recent, reserved>>
ledgerVars == <<op, resv, reconciled>>
destVars   == <<sent, dest>>
vars == <<pc, cancelled, needs, policyVars, approval, budgetVars,
          ledgerVars, audit, destVars>>

Settled == {"succeeded", "failed"}

(* A worker inside the authority guard of _admit.                          *)
Guarded == {"hinted", "cleared", "authorized", "denying"}

(* A worker that still has a step to take.                                 *)
Live == Guarded \cup {"idle", "admitted", "invoking", "returned", "raised"}

Finished == {"denied", "conflict", "failed", "canceled", "done", "crashed"}

Init ==
    /\ pc = [c \in Calls |-> "idle"]
    /\ cancelled = {}
    /\ needs = {}
    /\ active = Agents
    /\ sensitive = {} /\ blocked = {}
    /\ approval = [c \in Calls |-> "none"]
    /\ limit \in [Agents -> Limits] /\ rate \in [Agents -> Rates]
    /\ spent = [a \in Agents |-> 0]
    /\ recent = [a \in Agents |-> {}]
    /\ reserved = [a \in Agents |-> {}]
    /\ op = [o \in Ops |-> "absent"]
    /\ resv = [o \in Ops |-> NoCall]
    /\ reconciled = [o \in Ops |-> "none"]
    /\ audit = {}
    /\ sent = {}
    /\ dest = [o \in Ops |-> "none"]

Goto(c, l) == pc' = [pc EXCEPT ![c] = l]

-----------------------------------------------------------------------------
(* Admission: _admit and _admit_guarded.                                   *)

(* Entering the guard, then the read-only hint on an existing operation.   *)
(* A revoked agent is refused by the guard and an existing operation by    *)
(* the hint, neither with an audit entry; a missing operation_id is an     *)
(* audited denial.                                                         *)
BeginAdmission(c) ==
    /\ pc[c] = "idle"
    /\ \/ AgentOf[c] \notin active /\ Goto(c, "failed")
       \/ /\ AgentOf[c] \in active
          /\ \/ OpOf[c] = NoOp /\ Goto(c, "denying")
             \/ OpOf[c] # NoOp /\ op[OpOf[c]] # "absent" /\ Goto(c, "conflict")
             \/ OpOf[c] # NoOp /\ op[OpOf[c]] = "absent" /\ Goto(c, "hinted")
    /\ UNCHANGED <<cancelled, needs, policyVars, approval, budgetVars,
                   ledgerVars, audit, destVars>>

(* ApprovalQueue.is_granted: an approved, unconsumed row of this scope.    *)
Granted(c) ==
    \E d \in Calls : approval[d] = "approved" /\ ScopeOf[d] = ScopeOf[c]

(* PolicyEngine.authorize up to the budget: approval, then rules.  A call  *)
(* without its grant inserts a pending approval row; the denial is audited *)
(* by a later commit.                                                      *)
AuthorizePolicy(c) ==
    LET required == CapOf[c] \in sensitive IN
    /\ pc[c] = "hinted"
    /\ \/ /\ required /\ ~Granted(c)
          /\ approval' = [approval EXCEPT ![c] = "pending"]
          /\ Goto(c, "denying") /\ UNCHANGED needs
       \/ /\ required => Granted(c)
          /\ CapOf[c] \in blocked
          /\ Goto(c, "denying") /\ UNCHANGED <<approval, needs>>
       \/ /\ required => Granted(c)
          /\ CapOf[c] \notin blocked
          /\ needs' = IF required THEN needs \cup {c} ELSE needs
          /\ Goto(c, "cleared") /\ UNCHANGED approval
    /\ UNCHANGED <<cancelled, policyVars, budgetVars, ledgerVars, audit, destVars>>

Exposure(a) == spent[a] + CostSum[reserved[a]]

(* The test shared by can_afford and reserve, after _prune has dropped the *)
(* calls that left the window and kept the set keep.                       *)
Affordable(c, keep) ==
    LET a == AgentOf[c] IN
    /\ Exposure(a) + CostOf[c] <= limit[a]
    /\ Cardinality(keep) + Cardinality(reserved[a]) < rate[a]

(* BudgetManager.can_afford, which persists the pruned window.             *)
AuthorizeBudget(c) ==
    /\ pc[c] = "cleared"
    /\ \E keep \in SUBSET recent[AgentOf[c]] :
          /\ recent' = [recent EXCEPT ![AgentOf[c]] = keep]
          /\ Goto(c, IF Affordable(c, keep) THEN "authorized" ELSE "denying")
    /\ UNCHANGED <<cancelled, needs, policyVars, approval, limit, rate, spent,
                   reserved, ledgerVars, audit, destVars>>

(* ApprovalQueue.consume: one approved row of the scope becomes consumed.  *)
Consume(c) ==
    \E d \in Calls :
        /\ approval[d] = "approved" /\ ScopeOf[d] = ScopeOf[c]
        /\ approval' = [approval EXCEPT ![d] = "consumed"]

(* Fault variant: the reservation trusts the earlier can_afford.           *)
AdmitUnchecked(c) ==
    LET a == AgentOf[c] IN
    /\ pc[c] = "authorized"
    /\ op[OpOf[c]] = "absent"
    /\ reserved' = [reserved EXCEPT ![a] = @ \cup {c}]
    /\ op' = [op EXCEPT ![OpOf[c]] = "unknown"]
    /\ resv' = [resv EXCEPT ![OpOf[c]] = c]
    /\ IF c \in needs THEN Consume(c) ELSE UNCHANGED approval
    /\ Goto(c, "admitted")
    /\ UNCHANGED <<cancelled, needs, policyVars, limit, rate, spent, recent,
                   reconciled, audit, destVars>>

(* Fault variant: the claim trusts the read-only hint.                     *)
AdmitReclaims(c) ==
    LET a == AgentOf[c] IN
    /\ pc[c] = "authorized"
    /\ Affordable(c, recent[a])
    /\ reserved' = [reserved EXCEPT ![a] = @ \cup {c}]
    /\ op' = [op EXCEPT ![OpOf[c]] = "unknown"]
    /\ resv' = [resv EXCEPT ![OpOf[c]] = c]
    /\ IF c \in needs THEN Consume(c) ELSE UNCHANGED approval
    /\ Goto(c, "admitted")
    /\ UNCHANGED <<cancelled, needs, policyVars, limit, rate, spent, recent,
                   reconciled, audit, destVars>>

(* The shared-store branch of _admit_transaction: claim, reserve, attach   *)
(* and consume commit together.                                            *)
AdmitTransaction(c) ==
    LET a == AgentOf[c] IN
    /\ pc[c] = "authorized"
    /\ op[OpOf[c]] = "absent"
    /\ \E keep \in SUBSET recent[a] :
          /\ Affordable(c, keep)
          /\ recent' = [recent EXCEPT ![a] = keep]
    /\ reserved' = [reserved EXCEPT ![a] = @ \cup {c}]
    /\ op' = [op EXCEPT ![OpOf[c]] = "unknown"]
    /\ resv' = [resv EXCEPT ![OpOf[c]] = c]
    /\ IF c \in needs THEN Consume(c) ELSE UNCHANGED approval
    /\ Goto(c, "admitted")
    /\ UNCHANGED <<cancelled, needs, policyVars, limit, rate, spent, reconciled,
                   audit, destVars>>

(* Fault variant: the grant is consumed outside the rolled back transaction. *)
RollbackKeepsConsume(c) ==
    /\ pc[c] = "authorized"
    /\ IF c \in needs /\ Granted(c) THEN Consume(c) ELSE UNCHANGED approval
    /\ Goto(c, IF op[OpOf[c]] # "absent" THEN "conflict" ELSE "denying")
    /\ UNCHANGED <<cancelled, needs, policyVars, budgetVars, ledgerVars, audit, destVars>>

(* The transaction rolls back: the claim already exists (conflict, no      *)
(* audit), or the quota, the budget or a consumed grant rejects it (the    *)
(* denial is audited afterwards).  Quota state is not part of this module: *)
(* its denial is possible whenever the claim is new.                       *)
AdmitRolledBack(c) ==
    /\ pc[c] = "authorized"
    /\ Goto(c, IF op[OpOf[c]] # "absent" THEN "conflict" ELSE "denying")
    /\ UNCHANGED <<cancelled, needs, policyVars, approval, budgetVars,
                   ledgerVars, audit, destVars>>

(* The denial's audit entry, appended after the rejected transaction.      *)
AuditDeny(c) ==
    /\ pc[c] = "denying"
    /\ audit' = audit \cup {<<"deny", c>>}
    /\ Goto(c, "denied")
    /\ UNCHANGED <<cancelled, needs, policyVars, approval, budgetVars,
                   ledgerVars, destVars>>

(* Any other exception on entering or inside the guard: a principal that   *)
(* expired or predates the agent's re-enrollment, a failed SQL statement.  *)
(* Its transaction, if one is open, rolls back.                            *)
AdmissionFails(c) ==
    /\ pc[c] \in Guarded \cup {"idle"}
    /\ Goto(c, "failed")
    /\ UNCHANGED <<cancelled, needs, policyVars, approval, budgetVars,
                   ledgerVars, audit, destVars>>

(* The caller disconnects or times out before the invocation.  Admission   *)
(* runs in a shielded thread and _complete waits for its end, so that a    *)
(* cancellation at any time of the admission takes effect here.            *)
Cancel(c) ==
    /\ pc[c] = "admitted"
    /\ cancelled' = cancelled \cup {c}
    /\ UNCHANGED <<pc, needs, policyVars, approval, budgetVars, ledgerVars,
                   audit, destVars>>

-----------------------------------------------------------------------------
(* Settlement: owned_settlement.py.                                        *)

(* Fault variant: settlement without lock_unknown_operation.               *)
OwnedUnlocked(o, t) == resv[o] = t /\ t # NoCall

(* lock_unknown_operation and the exact-token checks of                    *)
(* settle_owned_reservation, for the operation o and the token t.          *)
Owned(o, t) ==
    /\ op[o] = "unknown"
    /\ resv[o] = t /\ t # NoCall
    /\ t \in reserved[AgentOf[t]]

(* Fault variant: a release refunds a cost that was never charged.         *)
SettleRefunds(o, t, outcome) ==
    LET a == AgentOf[t] IN
    /\ Owned(o, t)
    /\ reserved' = [reserved EXCEPT ![a] = @ \ {t}]
    /\ spent' = [spent EXCEPT ![a] = IF outcome = "succeeded" THEN @ + CostOf[t] ELSE @ - CostOf[t]]
    /\ op' = [op EXCEPT ![o] = outcome]
    /\ UNCHANGED <<limit, rate, recent, resv>>

(* BudgetManager.commit or release of the token, then OperationLedger.finish. *)
SettleOwned(o, t, outcome) ==
    LET a == AgentOf[t] IN
    /\ Owned(o, t)
    /\ reserved' = [reserved EXCEPT ![a] = @ \ {t}]
    /\ IF outcome = "succeeded"
       THEN /\ spent' = [spent EXCEPT ![a] = @ + CostOf[t]]
            /\ recent' = [recent EXCEPT ![a] = @ \cup {t}]
       ELSE UNCHANGED <<spent, recent>>
    /\ op' = [op EXCEPT ![o] = outcome]
    /\ UNCHANGED <<limit, rate, resv>>

-----------------------------------------------------------------------------
(* After admission: the rest of route_call.                                *)

(* Fault variant: the abort fails the operation but keeps its token.       *)
AbortKeepsHold(c) ==
    /\ pc[c] = "admitted" /\ c \in cancelled
    /\ op[OpOf[c]] = "unknown"
    /\ op' = [op EXCEPT ![OpOf[c]] = "failed"]
    /\ audit' = audit \cup {<<"error", c>>}
    /\ Goto(c, "canceled")
    /\ UNCHANGED <<cancelled, needs, policyVars, approval, budgetVars, resv,
                   reconciled, destVars>>

(* _abort_admission: a canceled admission whose operation is still unknown *)
(* releases its token, fails the operation and audits the abort in one     *)
(* transaction.                                                            *)
AbortAdmission(c) ==
    /\ pc[c] = "admitted" /\ c \in cancelled
    /\ op[OpOf[c]] = "unknown"
    /\ reserved' = [reserved EXCEPT ![AgentOf[c]] = @ \ {c}]
    /\ op' = [op EXCEPT ![OpOf[c]] = "failed"]
    /\ audit' = audit \cup {<<"error", c>>}
    /\ Goto(c, "canceled")
    /\ UNCHANGED <<cancelled, needs, policyVars, approval, limit, rate, spent,
                   recent, resv, reconciled, destVars>>

(* The abort finds the operation settled by someone else, or its SQL       *)
(* fails: the exception is only logged and the operation stays as it is.   *)
AbortFails(c) ==
    /\ pc[c] = "admitted" /\ c \in cancelled
    /\ Goto(c, "canceled")
    /\ UNCHANGED <<cancelled, needs, policyVars, approval, budgetVars,
                   ledgerVars, audit, destVars>>

(* The invocation starts only after admission returned to a live caller.   *)
Invoke(c) ==
    /\ pc[c] = "admitted" /\ c \notin cancelled
    /\ sent' = sent \cup {c}
    /\ Goto(c, "invoking")
    /\ UNCHANGED <<cancelled, needs, policyVars, approval, budgetVars,
                   ledgerVars, audit, dest>>

(* The destination's answer reaches the worker.  An answer that reports a  *)
(* refusal (an MCP result with isError, a JSON-RPC error object) is a      *)
(* normal return of invoke_target too.                                     *)
InvokeReturns(c) ==
    /\ pc[c] = "invoking"
    /\ dest[OpOf[c]] # "none"
    /\ Goto(c, "returned")
    /\ UNCHANGED <<cancelled, needs, policyVars, approval, budgetVars,
                   ledgerVars, audit, destVars>>

(* Fault variant: no deadline, only the destination ends an invocation.    *)
InvokeUnbounded(c) ==
    /\ pc[c] = "invoking"
    /\ dest[OpOf[c]] # "none"
    /\ Goto(c, "raised")
    /\ UNCHANGED <<cancelled, needs, policyVars, approval, budgetVars,
                   ledgerVars, audit, destVars>>

(* The deadline of TenantSession.route, a cancellation or a transport      *)
(* error: the request may or may not have been applied.                    *)
InvokeRaises(c) ==
    /\ pc[c] = "invoking"
    /\ Goto(c, "raised")
    /\ UNCHANGED <<cancelled, needs, policyVars, approval, budgetVars,
                   ledgerVars, audit, destVars>>

(* Fault variant: a failed audit append does not undo the settlement.      *)
SettleUnaudited(c) ==
    /\ pc[c] = "returned"
    /\ SettleOwned(OpOf[c], c, "succeeded")
    /\ audit' \in {audit, audit \cup {<<"allow", c>>}}
    /\ Goto(c, "done")
    /\ UNCHANGED <<cancelled, needs, policyVars, approval, reconciled, destVars>>

(* _settle: commit the reservation, finish the operation and audit allow   *)
(* in one transaction.                                                     *)
Settle(c) ==
    /\ pc[c] = "returned"
    /\ SettleOwned(OpOf[c], c, "succeeded")
    /\ audit' = audit \cup {<<"allow", c>>}
    /\ Goto(c, "done")
    /\ UNCHANGED <<cancelled, needs, policyVars, approval, reconciled, destVars>>

(* _settle raises: reconciled meanwhile, or the transaction fails.         *)
SettleFails(c) ==
    /\ pc[c] = "returned"
    /\ Goto(c, "raised")
    /\ UNCHANGED <<cancelled, needs, policyVars, approval, budgetVars,
                   ledgerVars, audit, destVars>>

(* Fault variant: an exception of the invocation counts as a failure.      *)
FailureReleases(c) ==
    /\ pc[c] = "raised"
    /\ SettleOwned(OpOf[c], c, "failed")
    /\ audit' = audit \cup {<<"error", c>>}
    /\ Goto(c, "failed")
    /\ UNCHANGED <<cancelled, needs, policyVars, approval, reconciled, destVars>>

(* _invocation_failed with a ledger: the reservation is kept and the       *)
(* uncertainty audited (unless the append itself fails).                   *)
InvocationFailed(c) ==
    /\ pc[c] = "raised"
    /\ audit' \in {audit, audit \cup {<<"unknown", c>>}}
    /\ Goto(c, "failed")
    /\ UNCHANGED <<cancelled, needs, policyVars, approval, budgetVars,
                   ledgerVars, destVars>>

(* The worker process dies: its memory is gone and its guard released.     *)
Crash(c) ==
    /\ pc[c] \in Live \ {"idle"}
    /\ Goto(c, "crashed")
    /\ UNCHANGED <<cancelled, needs, policyVars, approval, budgetVars,
                   ledgerVars, audit, destVars>>

-----------------------------------------------------------------------------
(* The destination, as the receipts of reconciliation.py use it: it        *)
(* decides an operation at most once, applies only a request it was sent,  *)
(* and signs its decision.                                                 *)

DestinationApplies(c) ==
    /\ c \in sent /\ dest[OpOf[c]] = "none"
    /\ dest' = [dest EXCEPT ![OpOf[c]] = "applied"]
    /\ UNCHANGED <<pc, cancelled, needs, policyVars, approval, budgetVars,
                   ledgerVars, audit, sent>>

DestinationRefuses(o) ==
    /\ op[o] # "absent" /\ dest[o] = "none"
    /\ dest' = [dest EXCEPT ![o] = "refused"]
    /\ UNCHANGED <<pc, cancelled, needs, policyVars, approval, budgetVars,
                   ledgerVars, audit, sent>>

-----------------------------------------------------------------------------
(* Operators.                                                              *)

(* _verify_evidence: in production the receipt, the read-back and the      *)
(* signed review all state the destination's own decision.                 *)
Evidence(o, result) ==
    RequireEvidence => dest[o] = (IF result = "succeeded" THEN "applied" ELSE "refused")

(* Reconciler.record: settle an unknown operation, with its reservation,   *)
(* its reconciliation row and its audit entry, in one transaction.  Claim  *)
(* and reservation link commit together here, so the branch for an         *)
(* operation without a link never runs (HoldsMatchLedger).                 *)
Reconcile(o, result) ==
    /\ op[o] = "unknown" /\ reconciled[o] = "none"
    /\ Evidence(o, result)
    /\ SettleOwned(o, resv[o], result)
    /\ reconciled' = [reconciled EXCEPT ![o] = result]
    /\ audit' = audit \cup {<<result, o>>}
    /\ UNCHANGED <<pc, cancelled, needs, policyVars, approval, destVars>>

(* TenantSession.approve: only a pending row is decided.                   *)
Approve(c, status) ==
    /\ approval[c] = "pending"
    /\ approval' = [approval EXCEPT ![c] = status]
    /\ UNCHANGED <<pc, cancelled, needs, policyVars, budgetVars, ledgerVars,
                   audit, destVars>>

(* Fault variant: a limit may be set below the current exposure.           *)
SetBudgetUnchecked(a, l, r) ==
    /\ limit' = [limit EXCEPT ![a] = l]
    /\ rate' = [rate EXCEPT ![a] = r]
    /\ UNCHANGED <<pc, cancelled, needs, policyVars, approval, spent, recent,
                   reserved, ledgerVars, audit, destVars>>

(* TenantSession.set_budget: new limits, never below what is already spent *)
(* or held; spent, calls and reserved are left alone.                      *)
SetBudget(a, l, r) ==
    /\ l >= Exposure(a)
    /\ limit' = [limit EXCEPT ![a] = l]
    /\ rate' = [rate EXCEPT ![a] = r]
    /\ UNCHANGED <<pc, cancelled, needs, policyVars, approval, spent, recent,
                   reserved, ledgerVars, audit, destVars>>

(* Fault variant: policy changes take the authority lock shared.           *)
SharedAuthority == TRUE

(* Policy and enrollment changes hold the authority lock exclusively: no   *)
(* admission is inside its guard.                                          *)
ExclusiveAuthority == \A c \in Calls : pc[c] \notin Guarded

MarkSensitive(k) ==
    /\ ExclusiveAuthority
    /\ sensitive' = sensitive \cup {k}
    /\ UNCHANGED <<pc, cancelled, needs, active, blocked, approval, budgetVars,
                   ledgerVars, audit, destVars>>

AddPolicy(k) ==
    /\ ExclusiveAuthority
    /\ blocked' = blocked \cup {k}
    /\ UNCHANGED <<pc, cancelled, needs, active, sensitive, approval, budgetVars,
                   ledgerVars, audit, destVars>>

RevokeAgent(a) ==
    /\ ExclusiveAuthority
    /\ active' = active \ {a}
    /\ UNCHANGED <<pc, cancelled, needs, sensitive, blocked, approval, budgetVars,
                   ledgerVars, audit, destVars>>

EnrollAgent(a) ==
    /\ ExclusiveAuthority
    /\ active' = active \cup {a}
    /\ UNCHANGED <<pc, cancelled, needs, sensitive, blocked, approval, budgetVars,
                   ledgerVars, audit, destVars>>

-----------------------------------------------------------------------------
Worker(c) ==
    \/ BeginAdmission(c) \/ AuthorizePolicy(c) \/ AuthorizeBudget(c)
    \/ AdmitTransaction(c) \/ AdmitRolledBack(c) \/ AuditDeny(c)
    \/ AdmissionFails(c) \/ AbortAdmission(c) \/ AbortFails(c)
    \/ Invoke(c) \/ InvokeReturns(c) \/ InvokeRaises(c)
    \/ Settle(c) \/ SettleFails(c) \/ InvocationFailed(c)

Operator ==
    \/ \E o \in Ops, result \in Settled : Reconcile(o, result)
    \/ \E c \in Calls, status \in {"approved", "denied"} : Approve(c, status)
    \/ \E a \in Agents, l \in Limits, r \in Rates : SetBudget(a, l, r)
    \/ \E k \in Caps : MarkSensitive(k) \/ AddPolicy(k)
    \/ \E a \in Agents : RevokeAgent(a) \/ EnrollAgent(a)

Environment ==
    \/ \E c \in Calls : Cancel(c) \/ Crash(c) \/ DestinationApplies(c)
    \/ \E o \in Ops : DestinationRefuses(o)

Next == (\E c \in Calls : Worker(c)) \/ Operator \/ Environment

Spec == Init /\ [][Next]_vars

(* A worker thread that can take a step eventually does: admission and     *)
(* settlement run to their end in a thread, and the invocation is bounded  *)
(* by the deadline of TenantSession.route.                                 *)
FairSpec == Spec /\ \A c \in Calls : WF_vars(Worker(c))

-----------------------------------------------------------------------------
(* Properties.                                                             *)

(* Every variable keeps the shape its SQL column or Python value has.      *)
TypeOK ==
    /\ pc \in [Calls -> Live \cup Finished]
    /\ cancelled \subseteq Calls
    /\ needs \subseteq Calls
    /\ active \subseteq Agents /\ sensitive \subseteq Caps /\ blocked \subseteq Caps
    /\ approval \in [Calls -> {"none", "pending", "approved", "denied", "consumed"}]
    /\ limit \in [Agents -> Nat] /\ rate \in [Agents -> Nat] /\ spent \in [Agents -> Nat]
    /\ recent \in [Agents -> SUBSET Calls] /\ reserved \in [Agents -> SUBSET Calls]
    /\ op \in [Ops -> {"absent", "unknown"} \cup Settled]
    /\ resv \in [Ops -> Calls \cup {NoCall}]
    /\ reconciled \in [Ops -> {"none"} \cup Settled]
    /\ audit \subseteq ({"deny", "error", "unknown", "allow"} \X Calls) \cup (Settled \X Ops)
    /\ sent \subseteq Calls
    /\ dest \in [Ops -> {"none", "applied", "refused"}]

(* A budget token is held exactly as long as the operation it was attached *)
(* to is unknown: no crash, cancellation, rollback or race between _settle,*)
(* _abort_admission and the reconciler leaks a reservation or frees one    *)
(* early, so an unknown operation can always be reconciled.                *)
HoldsMatchLedger ==
    /\ \A a \in Agents : reserved[a] =
          {c \in Calls : /\ AgentOf[c] = a /\ OpOf[c] # NoOp
                         /\ op[OpOf[c]] = "unknown" /\ resv[OpOf[c]] = c}
    /\ \A o \in Ops : op[o] = "unknown" => resv[o] \in Calls /\ OpOf[resv[o]] = o

Committed(a) ==
    {c \in Calls : /\ AgentOf[c] = a /\ OpOf[c] # NoOp
                   /\ op[OpOf[c]] = "succeeded" /\ resv[OpOf[c]] = c}

(* The money of BudgetManager: what an agent has spent is the cost of its  *)
(* succeeded operations, each charged once, and spent plus held never      *)
(* exceeds the spend limit, even when an operator lowers it concurrently.  *)
BudgetConserved ==
    \A a \in Agents : spent[a] = CostSum[Committed(a)] /\ Exposure(a) <= limit[a]

(* The ledger's promise "no automatic replay": of all the calls that carry *)
(* one operation key, at most one is ever invoked.                         *)
AtMostOneInvocation ==
    \A c, d \in sent : OpOf[c] = OpOf[d] => c = d

(* With evidence required, the durable outcome never contradicts the       *)
(* destination: a failed operation was not applied, a succeeded one was    *)
(* answered.  Without it, this still holds of operations no operator       *)
(* reconciled.                                                             *)
OutcomeFaithful ==
    \A o \in Ops : (RequireEvidence \/ reconciled[o] = "none") =>
        /\ op[o] = "failed" => dest[o] # "applied"
        /\ op[o] = "succeeded" => dest[o] # "none"

(* An approval grant is spent by exactly one admitted operation of its     *)
(* scope: two consumed rows never serve one request, and a consumed row    *)
(* whose admission rolled back does not exist.                             *)
GrantsSpentOnce ==
    \A c \in Calls : approval[c] = "consumed" =>
        /\ OpOf[c] # NoOp /\ resv[OpOf[c]] \in Calls
        /\ ScopeOf[resv[OpOf[c]]] = ScopeOf[c]
        /\ resv[OpOf[c]] \in needs
        /\ \A d \in Calls : (approval[d] = "consumed" /\ ScopeOf[d] = ScopeOf[c]) => d = c

(* The audit entries that record how operation o was settled.              *)
SettlingEntries(o) ==
    {e \in audit : \/ e \in Settled \X {o}
                   \/ e[1] \in {"allow", "error"} /\ OpOf[e[2]] = o}

(* A settled operation has exactly one settling audit entry, it names the  *)
(* outcome and the settler (gateway or reviewer), and an unsettled one has *)
(* none: outcome and audit commit together.                                *)
AuditTellsOutcome ==
    \A o \in Ops : SettlingEntries(o) =
        IF op[o] \notin Settled THEN {}
        ELSE IF reconciled[o] # "none" THEN {<<op[o], o>>}
        ELSE IF op[o] = "succeeded" THEN {<<"allow", resv[o]>>}
        ELSE {<<"error", resv[o]>>}

(* The outcome of an operation, its reservation link and its               *)
(* reconciliation never change once written: a late settlement cannot      *)
(* overwrite a reconciliation, nor the reverse.                            *)
SettledIsFinal ==
    [][\A o \in Ops :
         /\ op[o] \in Settled => op'[o] = op[o]
         /\ op[o] # "absent" => op'[o] # "absent" /\ resv'[o] = resv[o]
         /\ op[o] \in Settled => reconciled'[o] = reconciled[o]]_vars

(* The decision taken before the admission transaction is still current    *)
(* when it commits: the agent is enrolled, no rule blocks the capability,  *)
(* and a sensitive capability consumes a grant of this very request.       *)
AdmissionFollowsPolicy ==
    [][\A c \in Calls : (pc[c] # "admitted" /\ pc'[c] = "admitted") =>
         /\ AgentOf[c] \in active /\ CapOf[c] \notin blocked
         /\ CapOf[c] \in sensitive =>
               \E d \in Calls : /\ ScopeOf[d] = ScopeOf[c]
                                /\ approval[d] = "approved" /\ approval'[d] = "consumed"]_vars

(* Every call ends: no worker waits forever in admission, invocation or    *)
(* settlement, whatever operators, other calls and the destination do.     *)
WorkersFinish == \A c \in Calls : <>(pc[c] \in Finished)

(* The escrow phase that each ledger state stands for.                     *)
Phase(state) ==
    CASE state = "absent" -> "none"
      [] state = "unknown" -> "held"
      [] state = "succeeded" -> "charged"
      [] state = "failed" -> "released"

Escrow == INSTANCE OperationEscrow WITH
    held <- reserved, holder <- resv, performed <- sent,
    phase <- [o \in Ops |-> Phase(op[o])]

(* The governed call implements the escrow: hold before performing, perform *)
(* once, charge or release once, never above the limit.                    *)
ImplementsEscrow == Escrow!Spec

=============================================================================
