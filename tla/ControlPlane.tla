---------------------------- MODULE ControlPlane ----------------------------
(***************************************************************************)
(* The legacy single-tenant control plane: operators manage one agent's    *)
(* identity, budget, approvals and policy rules over HTTP while workers    *)
(* route that agent's signed calls.  Nothing serializes the two sides:     *)
(* there is no authority guard, only the store's own atomicity, and the    *)
(* three stores differ in it.                                              *)
(*                                                                         *)
(*   memory    one process; each store method is atomic, admission is not  *)
(*   sqlite    every mutation runs inside BEGIN IMMEDIATE                  *)
(*   postgres  mutate_budget reads and later writes the budget row under   *)
(*             an advisory lock that upsert_budget does not take           *)
(*                                                                         *)
(* Budgets of different agents are independent, so one agent is enough.    *)
(***************************************************************************)
EXTENDS Integers, FiniteSets

CONSTANTS
    Calls,         \* requests to /control/route, also their reservation tokens
    Previews,      \* the calls that are requests to /control/authorize instead
    Durable,       \* the calls with an operation_id
    Earlier,       \* calls already denied for want of an approval
    Workers, WorkerOf, KeyOf, CostOf, CapOf, ScopeOf, RouteOf,
    Keys,          \* public keys an operator may register for the agent
    Caps,          \* capabilities
    Rules,         \* policy rules an operator may add
    Limits,        \* spend limits an operator may set
    Rate,          \* the rate limit
    DefaultLimit,  \* the spend limit of Budget()
    CostSum,       \* CostSum[S]: what the calls of S cost together
    Sites,         \* deployments: [backend, calls, workers, rules]
    None

ASSUME SitesAssumption ==
    Sites \subseteq [backend : {"memory", "sqlite", "postgres"}, calls : SUBSET Calls,
                    workers : SUBSET Workers, rules : SUBSET Rules]

(* _checked_cost refuses a negative cost; nothing refuses a negative limit. *)
ASSUME BudgetAssumption ==
    /\ IsFiniteSet(Calls) /\ CostOf \in [Calls -> Nat]
    /\ Limits \subseteq Int /\ DefaultLimit \in Int /\ Rate \in Int
    /\ None \notin Limits
    /\ None \notin [limit : Int, spent : Nat, recent : SUBSET Calls, reserved : SUBSET Calls]

(* CostSum is the sum of CostOf.                                           *)
ASSUME CostSumAssumption ==
    /\ CostSum \in [SUBSET Calls -> Nat] /\ CostSum[{}] = 0
    /\ \A S \in SUBSET Calls : \A c \in Calls \ S :
          CostSum[S \cup {c}] = CostSum[S] + CostOf[c]

VARIABLES
    site,       \* the deployment this is
    pc,         \* where the worker of a call is
    needs,      \* calls whose decision has approval_required
    seen,       \* seen[c]: the budget row mutate_budget has read, until it writes
    ident,      \* the agent's row: [key, revoked]
    cache,      \* cache[w]: what IdentityRegistry of worker w remembers
    revoking,   \* the key a revocation has read, before it writes
    late,       \* calls received since the last acknowledged revocation
    sensitive, rules,
    approval,   \* approval[c]: status of the approval row that call c inserted
    budget,     \* the budgets row, or None
    acked,      \* the limit of the last acknowledged PUT, or None
    op,         \* agent_operations.state of each durable call
    effects,    \* calls whose request may have reached the destination
    audit       \* route_call audit entries

identVars == <<ident, cache, revoking, late>>
policyVars == <<sensitive, rules>>
budgetVars == <<budget, seen, acked>>
vars == <<site, pc, needs, identVars, policyVars, approval, budgetVars, op, effects, audit>>

Finished == {"refused", "previewed", "denied", "failed", "unknown", "done", "crashed"}

(* Calls this deployment denied for want of an approval before it began.   *)
Awaiting == Earlier \cap site.calls

Init ==
    /\ site \in Sites
    /\ pc = [c \in Calls |-> IF c \in Awaiting THEN "denied" ELSE "idle"]
    /\ needs = {}
    /\ seen = [c \in Calls |-> None]
    /\ ident = [key |-> CHOOSE k \in Keys : TRUE, revoked |-> FALSE]
    /\ cache = [w \in Workers |-> ident]
    /\ revoking = None
    /\ late = {}
    /\ sensitive = {CapOf[c] : c \in Awaiting} /\ rules = {}
    /\ approval = [c \in Calls |-> IF c \in Awaiting THEN "pending" ELSE "none"]
    /\ budget = None
    /\ acked = None
    /\ op = [c \in Durable |-> "absent"]
    /\ effects = {} /\ audit = {<<c, "deny">> : c \in Awaiting}

Goto(c, l) == pc' = [pc EXCEPT ![c] = l]
Record(c, d) == audit' = audit \cup {<<c, d>>}

-----------------------------------------------------------------------------
(* Budget rows.  A token is the call that owns it.                         *)

Fresh(l) == [limit |-> l, spent |-> 0, recent |-> {}, reserved |-> {}]

(* _seed: an absent row becomes the defaults.                              *)
Seed(b) == IF b = None THEN Fresh(DefaultLimit) ELSE b

AffordsUnreserved(b, c) ==
    b.spent + CostOf[c] <= b.limit /\ Cardinality(b.recent) < Rate

(* Room for the call's cost beside what is spent and reserved, and in the  *)
(* rate window.                                                            *)
Affords(b, c) ==
    /\ b.spent + CostSum[b.reserved] + CostOf[c] <= b.limit
    /\ Cardinality(b.recent) + Cardinality(b.reserved) < Rate

Reserved(b, c)  == [b EXCEPT !.reserved = @ \cup {c}]
Committed(b, c) == [b EXCEPT !.reserved = @ \ {c}, !.spent = @ + CostOf[c],
                             !.recent = @ \cup {c}]
Released(b, c)  == [b EXCEPT !.reserved = @ \ {c}]

(* SQLite mutates inside BEGIN IMMEDIATE, memory under the store lock.     *)
Atomic == site.backend # "postgres"

(* The steps of a call whose next act is a budget mutation.  A durable     *)
(* call that raised keeps its reservation.                                 *)
Mutating(c) ==
    \/ pc[c] \in {"ruled", "allowed", "aborting", "returned"}
    \/ pc[c] = "raised" /\ c \notin Durable

ReadRow(c) ==
    /\ ~Atomic /\ Mutating(c) /\ seen[c] = None
    /\ seen' = [seen EXCEPT ![c] = Seed(budget)]
    /\ UNCHANGED <<pc, needs, identVars, policyVars, approval, budget, acked, op,
                   effects, audit>>

LockUnheld(c) == ReadRow(c)

(* PostgreSQL mutate_budget takes the advisory lock of the agent's budget, *)
(* then reads the row without locking it.                                  *)
Lock(c) == (\A d \in Calls : seen[d] = None) /\ ReadRow(c)

(* What the mutator sees, and the UPSERT that ends the mutation.           *)
CanMutate(c) == Atomic \/ seen[c] # None
View(c) == IF Atomic THEN Seed(budget) ELSE seen[c]
Write(c, b) == budget' = b /\ seen' = [seen EXCEPT ![c] = None] /\ UNCHANGED acked
Rollback(c) == seen' = [seen EXCEPT ![c] = None] /\ UNCHANGED <<budget, acked>>

-----------------------------------------------------------------------------
(* Authentication and policy.                                              *)

(* RequestAuthenticator: an active row whose key made the signature.       *)
Authentic(row, c) == ~row.revoked /\ row.key = KeyOf[c]

(* is_registered, and verify_signature for a call that carries its proof.  *)
Registered(row, c) == IF c \in Previews THEN ~row.revoked ELSE Authentic(row, c)

AuthenticateCached(c) ==
    /\ pc[c] = "idle"
    /\ Goto(c, IF Authentic(cache[WorkerOf[c]], c) THEN "authed" ELSE "refused")
    /\ late' = IF ident.revoked THEN late \cup {c} ELSE late
    /\ UNCHANGED <<needs, ident, cache, revoking, policyVars, approval, budgetVars,
                   op, effects, audit>>

(* governed_route authenticates from the store's row, never the cache.     *)
Authenticate(c) ==
    /\ pc[c] = "idle"
    /\ Goto(c, IF Authentic(ident, c) THEN "authed" ELSE "refused")
    /\ late' = IF ident.revoked THEN late \cup {c} ELSE late
    /\ UNCHANGED <<needs, ident, cache, revoking, policyVars, approval, budgetVars,
                   op, effects, audit>>

(* _current_identity_policy: the row is read again.                        *)
CheckIdentity(c) ==
    /\ pc[c] = "authed"
    /\ Goto(c, IF Registered(ident, c) THEN "checked" ELSE "denying")
    /\ UNCHANGED <<needs, identVars, policyVars, approval, budgetVars, op, effects, audit>>

(* The kinds of rule the store can hold.                                   *)
RuleKinds == {"max_cost", "approval_above_cost", "deny_capabilities",
              "allow_only_capabilities", "business_hours", "deny_route"}

(* Rule.evaluate, for the rules that deny.  Whether it is business hours   *)
(* is the environment's choice; a preview names no route.                  *)
Denies(r, c, hours) ==
    CASE r.kind = "max_cost" -> CostOf[c] > r.max
      [] r.kind = "deny_capabilities" -> CapOf[c] \in r.caps
      [] r.kind = "allow_only_capabilities" -> CapOf[c] \notin r.caps
      [] r.kind = "business_hours" -> ~hours
      [] r.kind = "deny_route" -> c \notin Previews /\ RouteOf[c] = r.route
      [] OTHER -> FALSE

AsksApproval(r, c) == r.kind = "approval_above_cost" /\ CostOf[c] > r.max

(* PolicySet.evaluate: any denial wins, a demand for approval is sticky.   *)
Denied(c, hours) == \E r \in rules : Denies(r, c, hours)
Asked(c) == \E r \in rules : AsksApproval(r, c)

(* is_granted: an approved row of the same request.  A preview carries no  *)
(* request scope, and rows are only inserted with one.                     *)
Granting(c) == {d \in Calls : approval[d] = "approved" /\ ScopeOf[d] = ScopeOf[c]}
Granted(c) == c \notin Previews /\ Granting(c) # {}

(* ApprovalQueue.request; /control/authorize files none.                   *)
RequestApproval(c) ==
    approval' = IF c \in Previews THEN approval ELSE [approval EXCEPT ![c] = "pending"]

(* PolicyEngine.authorize up to the budget, and the approval request of a  *)
(* routed call that lacks its grant.                                       *)
Authorize(c, hours) ==
    LET required == CapOf[c] \in sensitive
        refuses == \/ required /\ ~Granted(c)
                   \/ Asked(c) /\ ~Denied(c, hours) /\ ~Granted(c)
    IN
    /\ pc[c] = "checked"
    /\ \/ /\ refuses
          /\ RequestApproval(c)
          /\ Goto(c, "denying") /\ UNCHANGED needs
       \/ /\ ~refuses /\ Denied(c, hours)
          /\ Goto(c, "denying") /\ UNCHANGED <<approval, needs>>
       \/ /\ ~refuses /\ ~Denied(c, hours)
          /\ needs' = IF required \/ Asked(c) THEN needs \cup {c} ELSE needs
          /\ Goto(c, "ruled") /\ UNCHANGED approval
    /\ UNCHANGED <<identVars, policyVars, budgetVars, op, effects, audit>>

(* BudgetManager.can_afford is a mutation: it stores the seeded row.       *)
CanAfford(c) ==
    /\ pc[c] = "ruled" /\ CanMutate(c)
    /\ Write(c, View(c))
    /\ Goto(c, IF ~Affords(View(c), c) THEN "denying"
               ELSE IF c \in Previews THEN "previewed" ELSE "allowed")
    /\ UNCHANGED <<needs, identVars, policyVars, approval, op, effects, audit>>

(* A denied route is audited; a preview only answers.                      *)
Deny(c) ==
    /\ pc[c] = "denying"
    /\ IF c \in Previews THEN Goto(c, "previewed") /\ UNCHANGED audit
                         ELSE Goto(c, "denied") /\ Record(c, "deny")
    /\ UNCHANGED <<needs, identVars, policyVars, approval, budgetVars, op, effects>>

-----------------------------------------------------------------------------
(* Admission, invocation and settlement.                                   *)

(* The operation's row, if the call has one.                               *)
Finish(c, state) == op' = [d \in Durable |-> IF d = c THEN state ELSE op[d]]

(* The store moves an approved row to consumed.                            *)
Spend(d) == approval' = [approval EXCEPT ![d] = "consumed"]

ConsumeTwice(c) ==
    \/ c \notin needs /\ UNCHANGED approval
    \/ c \in needs /\ Granting(c) # {} /\ UNCHANGED approval

(* The grant is consumed by ApprovalQueue.consume, or none was needed.     *)
Consume(c) ==
    \/ c \notin needs /\ UNCHANGED approval
    \/ c \in needs /\ \E d \in Granting(c) : Spend(d)

(* With a shared SQL store the claim, the reservation and the grant commit *)
(* together or not at all.                                                 *)
AdmitSql(c) ==
    /\ site.backend # "memory" /\ pc[c] = "allowed" /\ CanMutate(c)
    /\ \/ /\ Affords(View(c), c)
          /\ Consume(c)
          /\ Write(c, Reserved(View(c), c))
          /\ Finish(c, "unknown")
          /\ Goto(c, "admitted")
       \/ /\ ~Affords(View(c), c) \/ (c \in needs /\ Granting(c) = {})
          /\ Rollback(c)
          /\ Goto(c, "denying") /\ UNCHANGED <<approval, op>>
    /\ UNCHANGED <<needs, identVars, policyVars, effects, audit>>

(* In memory the reservation is visible before the grant is consumed.      *)
Reserve(c) ==
    /\ site.backend = "memory" /\ pc[c] = "allowed"
    /\ IF Affords(View(c), c)
       THEN Write(c, Reserved(View(c), c)) /\ Goto(c, "reserved")
       ELSE Rollback(c) /\ Goto(c, "denying")
    /\ UNCHANGED <<needs, identVars, policyVars, approval, op, effects, audit>>

ConsumeMemoryNoRelease(c) ==
    /\ pc[c] = "reserved"
    /\ \/ Consume(c) /\ Goto(c, "admitted") /\ UNCHANGED budgetVars
       \/ /\ c \in needs /\ Granting(c) = {}
          /\ Goto(c, "denying") /\ UNCHANGED <<approval, budgetVars>>
    /\ UNCHANGED <<needs, identVars, policyVars, op, effects, audit>>

(* A grant lost to another call gives the reservation back.                *)
ConsumeMemory(c) ==
    /\ pc[c] = "reserved"
    /\ \/ Consume(c) /\ Goto(c, "admitted") /\ UNCHANGED budgetVars
       \/ /\ c \in needs /\ Granting(c) = {}
          /\ Write(c, Released(View(c), c))
          /\ Goto(c, "denying") /\ UNCHANGED approval
    /\ UNCHANGED <<needs, identVars, policyVars, op, effects, audit>>

(* The caller goes away before the invocation.                             *)
Cancel(c) ==
    /\ pc[c] = "admitted" /\ Goto(c, "aborting")
    /\ UNCHANGED <<needs, identVars, policyVars, approval, budgetVars, op, effects, audit>>

(* _abort_admission.                                                       *)
Abort(c) ==
    /\ pc[c] = "aborting" /\ CanMutate(c)
    /\ Write(c, Released(View(c), c)) /\ Finish(c, "failed") /\ Record(c, "error")
    /\ Goto(c, "failed")
    /\ UNCHANGED <<needs, identVars, policyVars, approval, effects>>

(* The target answers, or the invocation raises with or without effect.    *)
Invoke(c) ==
    /\ pc[c] = "admitted"
    /\ \/ Goto(c, "returned") /\ effects' = effects \cup {c}
       \/ Goto(c, "raised") /\ effects' \in {effects, effects \cup {c}}
    /\ UNCHANGED <<needs, identVars, policyVars, approval, budgetVars, op, audit>>

SettleSilently(c) ==
    /\ pc[c] = "returned" /\ CanMutate(c)
    /\ \/ /\ c \in View(c).reserved
          /\ Write(c, Committed(View(c), c)) /\ Finish(c, "succeeded") /\ Record(c, "allow")
          /\ Goto(c, "done")
       \/ /\ c \notin View(c).reserved
          /\ Rollback(c) /\ Goto(c, "failed") /\ UNCHANGED <<op, audit>>
    /\ UNCHANGED <<needs, identVars, policyVars, approval, effects>>

(* _settle: charges the reservation, or raises because it is gone.         *)
Settle(c) ==
    /\ pc[c] = "returned" /\ CanMutate(c)
    /\ \/ /\ c \in View(c).reserved
          /\ Write(c, Committed(View(c), c)) /\ Finish(c, "succeeded") /\ Record(c, "allow")
          /\ Goto(c, "done")
       \/ /\ c \notin View(c).reserved
          /\ Rollback(c) /\ Goto(c, "raised") /\ UNCHANGED <<op, audit>>
    /\ UNCHANGED <<needs, identVars, policyVars, approval, effects>>

(* _invocation_failed: without an operation the budget is released and the *)
(* error recorded by a later commit; with one the outcome is unknown.      *)
InvocationFailed(c) ==
    /\ pc[c] = "raised"
    /\ \/ /\ c \in Durable
          /\ Record(c, "unknown") /\ Goto(c, "unknown") /\ UNCHANGED budgetVars
       \/ /\ c \notin Durable /\ CanMutate(c)
          /\ Write(c, Released(View(c), c)) /\ Goto(c, "erring") /\ UNCHANGED audit
    /\ UNCHANGED <<needs, identVars, policyVars, approval, op, effects>>

AuditError(c) ==
    /\ pc[c] = "erring" /\ Record(c, "error") /\ Goto(c, "failed")
    /\ UNCHANGED <<needs, identVars, policyVars, approval, budgetVars, op, effects>>

(* The worker process dies; its open transaction is rolled back.           *)
Crash(c) ==
    /\ site.backend # "memory" /\ pc[c] \notin Finished \cup {"idle"}
    /\ Rollback(c) /\ Goto(c, "crashed")
    /\ UNCHANGED <<needs, identVars, policyVars, approval, op, effects, audit>>

(* The rate window passes a committed call.                                *)
Expire(c) ==
    /\ budget # None /\ seen = [d \in Calls |-> None] /\ c \in budget.recent
    /\ budget' = [budget EXCEPT !.recent = @ \ {c}]
    /\ UNCHANGED <<pc, needs, identVars, policyVars, approval, seen, acked, op, effects, audit>>

-----------------------------------------------------------------------------
(* Operators.                                                              *)

UpsertIdentity(k, gone) == ident' = [key |-> k, revoked |-> gone]

(* What the registry object of the serving worker remembers.               *)
Remember(w) == cache' = [cache EXCEPT ![w] = ident']

Register(w, k) ==
    /\ UpsertIdentity(k, FALSE) /\ Remember(w)
    /\ UNCHANGED <<pc, needs, revoking, late, policyVars, approval, budgetVars, op, effects, audit>>

(* IdentityRegistry.revoke reads the key and writes it back revoked.       *)
RevokeRead(w) ==
    /\ revoking = None
    /\ revoking' = [worker |-> w, key |-> ident.key]
    /\ UNCHANGED <<pc, needs, ident, cache, late, policyVars, approval, budgetVars, op,
                   effects, audit>>

RevokeWrite ==
    /\ revoking # None
    /\ UpsertIdentity(revoking.key, TRUE) /\ Remember(revoking.worker)
    /\ revoking' = None
    /\ UNCHANGED <<pc, needs, late, policyVars, approval, budgetVars, op, effects, audit>>

(* upsert_budget: one statement, under no advisory lock.                   *)
UpsertBudget(b) == budget' = b

SetBudgetInserting(l) ==
    /\ IF budget = None THEN UpsertBudget(Fresh(l)) ELSE UNCHANGED budget
    /\ acked' = l
    /\ UNCHANGED <<pc, needs, identVars, policyVars, approval, seen, op, effects, audit>>

(* PUT /control/budgets replaces the whole row, reservations included.     *)
SetBudget(l) ==
    /\ UpsertBudget(Fresh(l))
    /\ acked' = l
    /\ UNCHANGED <<pc, needs, identVars, policyVars, approval, seen, op, effects, audit>>

MarkSensitive(cap) ==
    /\ sensitive' = sensitive \cup {cap}
    /\ UNCHANGED <<pc, needs, identVars, rules, approval, budgetVars, op, effects, audit>>

AddRule(r) ==
    /\ r.kind \in RuleKinds
    /\ rules' = rules \cup {r}
    /\ UNCHANGED <<pc, needs, identVars, sensitive, approval, budgetVars, op, effects, audit>>

(* update_approval_status moves a pending row only.                        *)
Decide(c, status) ==
    /\ approval[c] = "pending"
    /\ approval' = [approval EXCEPT ![c] = status]
    /\ UNCHANGED <<pc, needs, identVars, policyVars, budgetVars, op, effects, audit>>

Approve(c) == Decide(c, "approved")
DenyApproval(c) == Decide(c, "denied")

WorkerStep(c) ==
    \/ Lock(c) \/ Authenticate(c) \/ CheckIdentity(c)
    \/ \E hours \in BOOLEAN : Authorize(c, hours)
    \/ CanAfford(c) \/ Deny(c) \/ AdmitSql(c) \/ Reserve(c) \/ ConsumeMemory(c)
    \/ Cancel(c) \/ Abort(c) \/ Invoke(c) \/ Settle(c) \/ InvocationFailed(c)
    \/ AuditError(c) \/ Crash(c) \/ Expire(c)

OperatorStep ==
    \/ \E w \in site.workers : RevokeRead(w) \/ \E k \in Keys : Register(w, k)
    \/ RevokeWrite
    \/ \E l \in Limits : SetBudget(l)
    \/ \E cap \in Caps : MarkSensitive(cap)
    \/ \E r \in site.rules : AddRule(r)
    \/ \E c \in Calls : Approve(c) \/ DenyApproval(c)

Next == UNCHANGED site /\ ((\E c \in site.calls : WorkerStep(c)) \/ OperatorStep)

Spec == Init /\ [][Next]_vars

-----------------------------------------------------------------------------
(* Properties.                                                             *)

Rows == [limit : Limits \cup {DefaultLimit}, spent : Nat, recent : SUBSET Calls,
         reserved : SUBSET Calls]

(* Spend plus reservations, and calls, stay within the row's limits; one   *)
(* below zero admits nothing.                                              *)
Within(b) ==
    LET exposure == b.spent + CostSum[b.reserved]
        counted == Cardinality(b.recent) + Cardinality(b.reserved)
    IN  (exposure = 0 \/ exposure <= b.limit) /\ (counted = 0 \/ counted <= Rate)

(* The stored budget never holds more spend plus reservations, or more     *)
(* calls, than its own limits, whatever PUT, crash or mutate_budget it     *)
(* interleaves with (budget.py reserve/commit/release).                    *)
WithinBudget == budget # None => budget \in Rows /\ Within(budget)

(* Until an operator replaces the budget, the row accounts for every call: *)
(* the token of each call between admission and settlement is reserved and *)
(* what is spent is the cost of the settled ones.  No mutation of another  *)
(* worker is lost (store.py mutate_budget).                                *)
NoChargeLost ==
    acked = None /\ budget # None =>
        /\ \A c \in Calls : pc[c] \in {"reserved", "admitted", "aborting", "returned"}
                            => c \in budget.reserved
        /\ budget.spent = CostSum[{c \in Calls : pc[c] = "done"}]

(* A routed call that reached the destination and whose worker did not die *)
(* ends with an audit entry saying so: "allow" when it was charged,        *)
(* "unknown" or "error" when the invocation or the settlement raised, a    *)
(* budget replaced under it included (gateway.py route_call).              *)
EffectsRecorded ==
    \A c \in effects : pc[c] \in Finished \ {"crashed"} =>
        \E d \in {"allow", "unknown", "error"} : <<c, d>> \in audit

(* Effects that needed approval never outnumber the consumed grants of the *)
(* same request (approvals.py consume, racing workers, both admissions).   *)
GrantPerEffect ==
    \A c \in Calls :
        Cardinality({d \in effects \cap needs : ScopeOf[d] = ScopeOf[c]})
            <= Cardinality({d \in Calls : ScopeOf[d] = ScopeOf[c] /\ approval[d] = "consumed"})

(* A call received after a revocation was acknowledged has no effect, on   *)
(* whichever worker it arrives, even if the agent is registered again      *)
(* before the worker is done (identity.py is_registered reads the store).  *)
RevokedRefused == effects \cap late = {}

(* A call without an operation that ended gives its reservation back,      *)
(* unless its worker died (gateway.py _admit_transaction, _settle,         *)
(* _invocation_failed, _abort_admission).                                  *)
NothingLeaks ==
    \A c \in Calls \ Durable :
        pc[c] \in Finished \ {"crashed"} /\ budget # None => c \notin budget.reserved

(* The limit in force is the one the operator was last told is set         *)
(* (control_plane.py set_budget; "budgets ... are multi-worker safe").     *)
AckedLimitStands == acked # None => budget # None /\ budget.limit = acked

(* gateway.py, budget.py, approvals.py and store.py, while an operator     *)
(* replaces the budget: the stored budget stays within its limits, no      *)
(* worker's charge is lost, a call that ends gives its reservation back,   *)
(* every effect of a worker that did not die is in the audit, and where a  *)
(* mutation is atomic the limit an operator was told of is in force.       *)
ChargesKept ==
    /\ WithinBudget /\ NoChargeLost /\ EffectsRecorded /\ NothingLeaks
    /\ Atomic => AckedLimitStands

(* approvals.py and identity.py: approved effects never outnumber the      *)
(* grants consumed for the same request, and a call received after a       *)
(* revocation was acknowledged has no effect.                              *)
EffectsAuthorized == GrantPerEffect /\ RevokedRefused

====
