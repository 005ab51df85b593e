--------------------------- MODULE QueuedDispatch ---------------------------
(***************************************************************************)
(* A queued task, from the accepted intent to its verified result.         *)
(*                                                                         *)
(* submit_task retains an immutable intent; _admit_queued_intent admits it *)
(* once (operation claim, reservation, grant, lifecycle event and link in  *)
(* one transaction); dispatch_once acquires the destination's fence,       *)
(* commits the one attempt and only then calls the destination; recover    *)
(* and an operator's review read the destination back and settle.  Workers *)
(* are kernel processes on one PostgreSQL tenant store: they interleave    *)
(* between transactions, and may die between any two.  The destination is  *)
(* the fenced SQLite target.                                               *)
(*                                                                         *)
(* Time is a counter: the original authorization, the dispatch guard, the  *)
(* fence and the attempt all expire.  Budget limits and admission quotas   *)
(* are not part of this module: they only refuse an admission.             *)
(***************************************************************************)
EXTENDS Naturals

CONSTANTS
    Tasks,        \* queued tasks; each has one operation and one fence scope
    Workers,      \* kernel processes, each with its one dispatch slot
    NoWorker, NoTask, NoAttempt,
    OwnerStates,  \* the states the embedding service itself moves a task to
    AuthLife,     \* how long a signed request authorizes (stamp + 300)
    GuardLife,    \* the lifetime of a dispatch guard's principal
    CallTimeout,  \* call_timeout_seconds of the destination
    MaxTime,      \* bound: the last instant of the clock
    MaxSeq        \* bound: lifecycle transitions made by the embedding service

ASSUME OwnerAssumption == OwnerStates \subseteq
    {"working", "input-required", "auth-required", "completed", "failed", "canceled", "rejected"}

ASSUME WorkersAssumption == NoWorker \notin Workers /\ NoTask \notin Tasks

ASSUME TimeAssumption ==
    /\ AuthLife \in Nat /\ GuardLife \in Nat /\ CallTimeout \in Nat
    /\ MaxTime \in Nat /\ MaxSeq \in Nat

(* The signed authorization of one attempt: who, under which fence epoch,  *)
(* and until when.                                                         *)
Attempts == [by : Workers, epoch : Nat, expires : Nat]

ASSUME AttemptAssumption == NoAttempt \notin Attempts

VARIABLES
    now,        \* the clock
    revoked,    \* "agent": the accepted binding is no longer current;
                \* "operator": the reviewing session is not
    rule,       \* what policy says of the capability: allow, approve or deny
    deadline,   \* the intent's authorization_expires_at; 0: no intent
    ample,      \* intents whose result allowance holds the queued evidence
    floor,      \* intents whose approval was required at submission
    grant,      \* the approval row of the task's action scope
    status, seq,\* the task_lifecycle snapshot
    op,         \* the agent_operations row; "direct": claimed by another call
    hold,       \* the reservation of the operation's token
    link,       \* "none", "free" or "approved": the admission link
    decision,   \* task_execution_decisions_v1
    attempt,    \* the authorization inside an attempt decision
    result,     \* task_execution_results_v1: who settled
    cancelRequest, \* task_execution_controls_v1
    fence,      \* ab_destination_fences at the destination
    effect,     \* ab_queued_effects_v2 at the destination
    pc, job, lease, auth  \* a worker: where it is, on which task, with what

policyVars == <<revoked, rule>>
intentVars == <<deadline, ample, floor>>
lifeVars   == <<status, seq>>
ledgerVars == <<op, hold, link>>
execVars   == <<decision, attempt, result, cancelRequest>>
destVars   == <<fence, effect>>
workerVars == <<pc, job, lease, auth>>
vars == <<now, policyVars, intentVars, grant, lifeVars, ledgerVars, execVars,
          destVars, workerVars>>

Terminal == {"completed", "failed", "canceled", "rejected"}
Paused == {"input-required", "auth-required"}
States == {"submitted", "working"} \cup Paused \cup Terminal

(* _TRANSITIONS of the task lifecycle.                                     *)
Legal(a, b) ==
    \/ a = "submitted" /\ b \in States \ {"submitted", "completed"}
    \/ a = "working" /\ b \in States \ {"submitted", "working"}
    \/ a = "input-required" /\ b \in {"working", "canceled", "failed"}
    \/ a = "auth-required" /\ b \in {"working", "canceled", "rejected", "failed"}

(* A worker inside _guard_admitted, holding the authority lock shared.     *)
Guarded == {"guarded", "fenced", "attempted"}

(* A worker that holds the dispatch slot of its kernel.                    *)
Dispatching == Guarded \cup {"starting", "recovering", "observed"}

NoLease == [epoch |-> 0, expires |-> 0, valid |-> 0]

Init ==
    /\ now = 1
    /\ revoked = {} /\ rule = "allow"
    /\ deadline = [t \in Tasks |-> 0]
    /\ ample = {} /\ floor = {}
    /\ grant = [t \in Tasks |-> "none"]
    /\ status = [t \in Tasks |-> "none"] /\ seq = [t \in Tasks |-> 0]
    /\ op = [t \in Tasks |-> "none"]
    /\ hold = [t \in Tasks |-> "none"]
    /\ link = [t \in Tasks |-> "none"]
    /\ decision = [t \in Tasks |-> "none"]
    /\ attempt = [t \in Tasks |-> NoAttempt]
    /\ result = [t \in Tasks |-> "none"]
    /\ cancelRequest = {}
    /\ fence = [t \in Tasks |-> [owner |-> NoWorker, epoch |-> 0, expires |-> 0]]
    /\ effect = [t \in Tasks |-> NoAttempt]
    /\ pc = [w \in Workers |-> "idle"]
    /\ job = [w \in Workers |-> NoTask]
    /\ lease = [w \in Workers |-> NoLease]
    /\ auth = [w \in Workers |-> NoAttempt]

Min2(a, b) == IF a <= b THEN a ELSE b

Goto(w, l) == pc' = [pc EXCEPT ![w] = l]

(* The worker returns or dies: its memory and its guard are gone.          *)
Leave(w) ==
    /\ Goto(w, "idle")
    /\ job' = [job EXCEPT ![w] = NoTask]
    /\ lease' = [lease EXCEPT ![w] = NoLease]
    /\ auth' = [auth EXCEPT ![w] = NoAttempt]

-----------------------------------------------------------------------------
(* The intent and its admission.                                           *)

(* TaskIntentStore._accept: neither the task nor its operation exists.     *)
NewIdentity(t) == deadline[t] = 0 /\ status[t] = "none" /\ op[t] = "none"

(* submit_task: a new identity, allowed by the rules, becomes an immutable *)
(* intent and a submitted task.  Its result allowance is what the capacity *)
(* policy gives at that moment.                                            *)
Accept(t, big) ==
    /\ "agent" \notin revoked /\ rule # "deny"
    /\ NewIdentity(t)
    /\ deadline' = [deadline EXCEPT ![t] = now + AuthLife]
    /\ ample' = IF big THEN ample \cup {t} ELSE ample
    /\ floor' = IF rule = "approve" THEN floor \cup {t} ELSE floor
    /\ status' = [status EXCEPT ![t] = "submitted"]
    /\ UNCHANGED <<now, policyVars, grant, seq, ledgerVars, execVars, destVars, workerVars>>

(* _derive: the current enrollment still yields the accepted binding, and  *)
(* the original authorization has not expired.                             *)
Derivable(t) == "agent" \notin revoked /\ now < deadline[t]

(* _load_for_execution: the task is as it was accepted.                    *)
AsAccepted(t) == status[t] = "submitted" /\ seq[t] = 0

(* _prepare and the checks _assert_prepared repeats inside the admission   *)
(* transaction: an unchanged submitted task, and rules that allow it.      *)
Prepared(t) ==
    /\ Derivable(t) /\ AsAccepted(t) /\ rule # "deny"

(* _queued_policy: approval is required now, or was at submission.         *)
NeedsGrant(t) == rule = "approve" \/ t \in floor

(* _link: the task starts working and the admission link is inserted.      *)
LinkAdmission(t) ==
    /\ status' = [status EXCEPT ![t] = "working"]
    /\ seq' = [seq EXCEPT ![t] = 1]
    /\ link' = [link EXCEPT ![t] = IF NeedsGrant(t) THEN "approved" ELSE "free"]

(* _admit_transaction of a prepared intent: claim, reserve, consume the    *)
(* grant and link, in one transaction.                                     *)
Admit(t) ==
    /\ Prepared(t) /\ op[t] = "none"
    /\ NeedsGrant(t) => grant[t] = "approved"
    /\ op' = [op EXCEPT ![t] = "unknown"]
    /\ hold' = [hold EXCEPT ![t] = "held"]
    /\ grant' = IF NeedsGrant(t) THEN [grant EXCEPT ![t] = "consumed"] ELSE grant
    /\ LinkAdmission(t)
    /\ UNCHANGED <<now, policyVars, intentVars, execVars, destVars, workerVars>>

(* The rejected admission rolled back; a missing grant is requested in a   *)
(* transaction of its own.  Rows of one scope are interchangeable for      *)
(* is_granted and consume, so that one status stands for them.             *)
AdmitRejected(t) ==
    /\ Prepared(t) /\ op[t] = "none"
    /\ NeedsGrant(t) /\ grant[t] # "approved"
    /\ grant' = [grant EXCEPT ![t] = "pending"]
    /\ UNCHANGED <<now, policyVars, intentVars, lifeVars, ledgerVars, execVars,
                   destVars, workerVars>>

-----------------------------------------------------------------------------
(* Integrity and authority checks of queued_task_dispatch.                 *)

(* _linked_history: the intent, its link, the admission event and the      *)
(* operation agree.  All four are immutable once linked.                   *)
Linked(t) == link[t] # "none"

(* insert_decision: one immutable decision of a linked task.               *)
Undecided(t) == Linked(t) /\ decision[t] = "none"

(* The triggers of the result table: an attempt, without a result yet.     *)
Unresolved(t) == Linked(t) /\ decision[t] = "attempt" /\ result[t] = "none"

(* lock_unknown_operation and settle_owned_reservation: an unknown         *)
(* operation that still owns its reservation.                              *)
Owned(t) == op[t] = "unknown" /\ hold[t] = "held"

(* _load_admitted: the task as admission left it, its operation unknown,   *)
(* its exact reservation held, and its grant consumed if one was needed.   *)
LoadAdmitted(t) ==
    /\ Linked(t)
    /\ status[t] = "working" /\ seq[t] = 1
    /\ Owned(t)
    /\ link[t] = "approved" => grant[t] = "consumed"

(* Fault variant: an approval required since the admission is ignored.     *)
DispatchPolicyStale(t) == rule # "deny"

(* current_dispatch_policy: no rule denies, and an approval that is        *)
(* required now was obtained by the admission.                             *)
DispatchPolicy(t) == rule # "deny" /\ (rule = "approve" => link[t] = "approved")

(* _assert_queued_lifetime: the authority is derived again, within the     *)
(* lifetime of the guard's principal.                                      *)
Alive(w, t) == Derivable(t) /\ now < lease[w].valid

(* _current: lifetime, loader and policy, checked again at every stage.    *)
Current(w, t) == Alive(w, t) /\ LoadAdmitted(t) /\ DispatchPolicy(t)

-----------------------------------------------------------------------------
(* dispatch_once, step by step.                                            *)

(* The unguarded prefix: exact linkage, no decision yet, the slot is free. *)
Start(w, t) ==
    /\ pc[w] = "idle" /\ Undecided(t)
    /\ Goto(w, "starting") /\ job' = [job EXCEPT ![w] = t]
    /\ UNCHANGED <<now, policyVars, intentVars, grant, lifeVars, ledgerVars,
                   execVars, destVars, lease, auth>>

(* _guard_admitted takes the authority lock shared and derives a principal *)
(* with a bounded lifetime.                                                *)
Guard(w) ==
    LET t == job[w] IN
    /\ pc[w] = "starting" /\ Derivable(t) /\ LoadAdmitted(t)
    /\ lease' = [lease EXCEPT ![w] =
          [epoch |-> 0, expires |-> 0, valid |-> Min2(now + GuardLife, deadline[t])]]
    /\ Goto(w, "guarded")
    /\ UNCHANGED <<now, policyVars, intentVars, grant, lifeVars, ledgerVars,
                   execVars, destVars, job, auth>>

(* A task that has not ended moves to the terminal state s.                *)
EndTask(t, s) ==
    IF status[t] \in Terminal THEN UNCHANGED lifeVars
    ELSE /\ status' = [status EXCEPT ![t] = s]
         /\ seq' = [seq EXCEPT ![t] = @ + 1]

(* _close: without any decision, record "closed", release the reservation  *)
(* and end the task if it has not ended.                                   *)
Close(t, end) ==
    /\ Undecided(t) /\ Owned(t)
    /\ decision' = [decision EXCEPT ![t] = "closed"]
    /\ op' = [op EXCEPT ![t] = "failed"]
    /\ hold' = [hold EXCEPT ![t] = "released"]
    /\ EndTask(t, end)

(* An allowance too small for the evidence closes the task before dispatch. *)
CloseSmall(w) ==
    LET t == job[w] IN
    /\ pc[w] = "guarded" /\ t \notin ample
    /\ Current(w, t)
    /\ Close(t, "rejected")
    /\ Leave(w)
    /\ UNCHANGED <<now, policyVars, intentVars, grant, link, attempt, result,
                   cancelRequest, destVars>>

(* FencedSqliteTarget.acquire: only an expired or absent fence is taken,   *)
(* with the next epoch; its ttl is the call timeout, rounded up, plus one. *)
AcquireFence(w) ==
    LET t == job[w]
        e == fence[t].epoch + 1
        x == now + CallTimeout + 1 IN
    /\ pc[w] = "guarded" /\ Current(w, t) /\ t \in ample
    /\ fence[t].expires <= now
    /\ fence' = [fence EXCEPT ![t] = [owner |-> w, epoch |-> e, expires |-> x]]
    /\ lease' = [lease EXCEPT ![w] = [epoch |-> e, expires |-> x, valid |-> lease[w].valid]]
    /\ Goto(w, "fenced")
    /\ UNCHANGED <<now, policyVars, intentVars, grant, lifeVars, ledgerVars,
                   execVars, effect, job, auth>>

(* SqliteFenceDenied: a competing worker owns the fence; return the status. *)
FenceDenied(w) ==
    /\ pc[w] = "guarded" /\ Current(w, job[w]) /\ job[w] \in ample
    /\ fence[job[w]].expires > now
    /\ Leave(w)
    /\ UNCHANGED <<now, policyVars, intentVars, grant, lifeVars, ledgerVars,
                   execVars, destVars>>

(* The deadline of the attempt: the earliest of every lifetime it has.     *)
AttemptDeadline(w) ==
    Min2(Min2(deadline[job[w]], lease[w].valid), Min2(lease[w].expires, now + CallTimeout))

(* Fault variant: the unsigned lease is recorded for the authorization.    *)
Unsigned(w) == lease[w]

(* adapter.authorize: the signed authorization of this attempt.            *)
Authorization(w) ==
    [by |-> w, epoch |-> lease[w].epoch, expires |-> AttemptDeadline(w)]

(* Fault variant: the destination is called before the attempt commits.    *)
CommitAttemptLate(w) ==
    LET t == job[w]
        a == Authorization(w) IN
    /\ pc[w] = "fenced"
    /\ Current(w, t) /\ Undecided(t)
    /\ now < a.expires
    /\ auth' = [auth EXCEPT ![w] = a]
    /\ Goto(w, "attempted")
    /\ UNCHANGED <<now, policyVars, intentVars, grant, lifeVars, ledgerVars,
                   execVars, destVars, job, lease>>

(* Under the operation, budget and lifecycle locks every check is repeated *)
(* and the one immutable attempt commits, before the destination is called. *)
CommitAttempt(w) ==
    LET t == job[w]
        a == Authorization(w) IN
    /\ pc[w] = "fenced"
    /\ Current(w, t) /\ Undecided(t)
    /\ now < a.expires
    /\ decision' = [decision EXCEPT ![t] = "attempt"]
    /\ attempt' = [attempt EXCEPT ![t] = a]
    /\ auth' = [auth EXCEPT ![w] = a]
    /\ Goto(w, "attempted")
    /\ UNCHANGED <<now, policyVars, intentVars, grant, lifeVars, ledgerVars,
                   result, cancelRequest, destVars, job, lease>>

(* A check fails, or anything else raises, before an attempt is committed: *)
(* an existing decision is recovered, otherwise the exception propagates.  *)
DispatchRefused(w) ==
    /\ pc[w] \in {"starting", "guarded", "fenced"}
    /\ \/ Leave(w)
       \/ /\ decision[job[w]] # "none"
          /\ Goto(w, "recovering")
          /\ UNCHANGED <<job, lease, auth>>
    /\ UNCHANGED <<now, policyVars, intentVars, grant, lifeVars, ledgerVars,
                   execVars, destVars>>

(* The checks of commit_queued, sampled after the signature and under the  *)
(* lock of the insert: the attempt's own fence, not expired, a live        *)
(* authorization that ends no later, and no effect of the operation yet.   *)
FenceAdmits(t, a) ==
    /\ fence[t].owner = a.by /\ fence[t].epoch = a.epoch
    /\ now < fence[t].expires /\ a.expires <= fence[t].expires
    /\ now < a.expires
    /\ effect[t] = NoAttempt

(* adapter.commit takes effect.  Whether the acknowledgement arrives makes *)
(* no difference: the worker goes on to read the destination back.         *)
DestinationCommits(w) ==
    LET t == job[w] IN
    /\ pc[w] = "attempted"
    /\ FenceAdmits(t, auth[w])
    /\ effect' = [effect EXCEPT ![t] = auth[w]]
    /\ Goto(w, "recovering")
    /\ UNCHANGED <<now, policyVars, intentVars, grant, lifeVars, ledgerVars,
                   execVars, fence, job, lease, auth>>

(* Fault variant: only the destination's own refusal ends the call.        *)
DestinationHangs(w) ==
    /\ pc[w] = "attempted" /\ effect[job[w]] # NoAttempt
    /\ Goto(w, "recovering")
    /\ UNCHANGED <<now, policyVars, intentVars, grant, lifeVars, ledgerVars,
                   execVars, destVars, job, lease, auth>>

(* The call is refused, expires or fails: every exception is swallowed.    *)
DestinationRefuses(w) ==
    /\ pc[w] = "attempted"
    /\ Goto(w, "recovering")
    /\ UNCHANGED <<now, policyVars, intentVars, grant, lifeVars, ledgerVars,
                   execVars, destVars, job, lease, auth>>

-----------------------------------------------------------------------------
(* Readback and settlement.                                                *)

(* recover: only an attempt without a result is read back.                 *)
Recover(w, t) ==
    /\ pc[w] = "idle" /\ Unresolved(t)
    /\ Goto(w, "recovering") /\ job' = [job EXCEPT ![w] = t]
    /\ UNCHANGED <<now, policyVars, intentVars, grant, lifeVars, ledgerVars,
                   execVars, destVars, lease, auth>>

(* Fault variant: an attempt without a record at the destination settles.  *)
ObservableAbsent(t) == decision[t] = "attempt"

(* observe_queued: the committed record must carry this authorization.     *)
Observable(t) == decision[t] = "attempt" /\ effect[t] # NoAttempt /\ effect[t] = attempt[t]

Observe(w) ==
    /\ pc[w] = "recovering" /\ Observable(job[w])
    /\ Goto(w, "observed")
    /\ UNCHANGED <<now, policyVars, intentVars, grant, lifeVars, ledgerVars,
                   execVars, destVars, job, lease, auth>>

(* Missing or untrusted evidence, or a settlement that raised, leaves the  *)
(* task as it is: recover returns the status.                              *)
RecoverEnds(w) ==
    /\ pc[w] \in {"recovering", "observed", "reviewing"}
    /\ Leave(w)
    /\ UNCHANGED <<now, policyVars, intentVars, grant, lifeVars, ledgerVars,
                   execVars, destVars>>

(* The conditions under which _finish_verified commits: the exact attempt, *)
(* no result, the owned reservation, and a task that may complete.         *)
Settleable(t) ==
    /\ Unresolved(t) /\ Owned(t)
    /\ status[t] \in Terminal \cup {"working"}

(* Fault variant: the result completes a task that has already ended.      *)
FinishReopens(t, by) ==
    /\ Settleable(t)
    /\ result' = [result EXCEPT ![t] = by]
    /\ op' = [op EXCEPT ![t] = "succeeded"]
    /\ hold' = [hold EXCEPT ![t] = "charged"]
    /\ status' = [status EXCEPT ![t] = "completed"]
    /\ seq' = [seq EXCEPT ![t] = @ + 1]
    /\ UNCHANGED <<now, policyVars, intentVars, grant, link, decision, attempt,
                   cancelRequest, destVars>>

(* _finish_verified: result, charge, outcome and completion together; a    *)
(* task that already ended keeps its status.                               *)
FinishVerified(t, by) ==
    /\ Settleable(t)
    /\ result' = [result EXCEPT ![t] = by]
    /\ op' = [op EXCEPT ![t] = "succeeded"]
    /\ hold' = [hold EXCEPT ![t] = "charged"]
    /\ EndTask(t, "completed")
    /\ UNCHANGED <<now, policyVars, intentVars, grant, link, decision, attempt,
                   cancelRequest, destVars>>

Finish(w) ==
    /\ pc[w] = "observed"
    /\ FinishVerified(job[w], "readback")
    /\ Leave(w)

(* _prepare_queued_reconciliation: an operator session obtains the sealed  *)
(* readback of an attempted task.                                          *)
PrepareReview(w, t) ==
    /\ pc[w] = "idle" /\ "operator" \notin revoked
    /\ Linked(t) /\ Observable(t)
    /\ Goto(w, "reviewing") /\ job' = [job EXCEPT ![w] = t]
    /\ UNCHANGED <<now, policyVars, intentVars, grant, lifeVars, ledgerVars,
                   execVars, destVars, lease, auth>>

(* Fault variant: the session is trusted since the review was prepared.    *)
ReconcileUnguarded(w) ==
    /\ pc[w] = "reviewing"
    /\ FinishVerified(job[w], "review")
    /\ Leave(w)

(* Reconciliation.record_task inside settlement_atomic: the operator is    *)
(* current under a lock held through the commit.                           *)
Reconcile(w) ==
    /\ pc[w] = "reviewing" /\ "operator" \notin revoked
    /\ FinishVerified(job[w], "review")
    /\ Leave(w)

(* Fault variant: cancellation trusts the decision read before the locks.  *)
CancelAttempted(t) ==
    /\ Linked(t) /\ result[t] = "none" /\ decision[t] # "closed" /\ op[t] = "unknown"
    /\ decision' = [decision EXCEPT ![t] = "closed"]
    /\ op' = [op EXCEPT ![t] = "failed"]
    /\ hold' = [hold EXCEPT ![t] = "released"]
    /\ EndTask(t, "canceled")
    /\ UNCHANGED <<now, policyVars, intentVars, grant, link, attempt, result,
                   cancelRequest, destVars, workerVars>>

(* Fault variant: canceling an attempt gives its money back.               *)
CancelRefunds(t) ==
    /\ Linked(t) /\ result[t] = "none" /\ op[t] = "unknown"
    /\ \/ Close(t, "canceled") /\ UNCHANGED cancelRequest
       \/ /\ decision[t] = "attempt"
          /\ cancelRequest' = cancelRequest \cup {t}
          /\ hold' = [hold EXCEPT ![t] = "released"]
          /\ UNCHANGED <<op, decision, lifeVars>>
    /\ UNCHANGED <<now, policyVars, intentVars, grant, link, attempt, result,
                   destVars, workerVars>>

(* cancel: without a decision the task is closed; an attempt only gets a   *)
(* recorded request, because its effect may have happened.                 *)
CancelQueued(t) ==
    /\ Linked(t) /\ result[t] = "none" /\ op[t] = "unknown"
    /\ \/ Close(t, "canceled") /\ UNCHANGED cancelRequest
       \/ /\ decision[t] = "attempt"
          /\ cancelRequest' = cancelRequest \cup {t}
          /\ UNCHANGED <<op, hold, decision, lifeVars>>
    /\ UNCHANGED <<now, policyVars, intentVars, grant, link, attempt, result,
                   destVars, workerVars>>

-----------------------------------------------------------------------------
(* The environment.                                                        *)

Tick ==
    /\ now < MaxTime
    /\ now' = now + 1
    /\ UNCHANGED <<policyVars, intentVars, grant, lifeVars, ledgerVars,
                   execVars, destVars, workerVars>>

(* A worker process dies; its transaction rolls back, its locks are freed. *)
Crash(w) ==
    /\ pc[w] # "idle"
    /\ Leave(w)
    /\ UNCHANGED <<now, policyVars, intentVars, grant, lifeVars, ledgerVars,
                   execVars, destVars>>

(* Fault variant: enrollment changes do not wait for dispatch guards.      *)
AuthorityShared == TRUE

(* Enrollment and policy writes hold the authority lock exclusively.       *)
AuthorityIdle == \A w \in Workers : pc[w] \notin Guarded

(* A revoked binding never becomes current again: enrolling the agent      *)
(* again gives it another revision.                                        *)
Revoke(who) ==
    /\ AuthorityIdle
    /\ revoked' = revoked \cup {who}
    /\ UNCHANGED <<now, rule, intentVars, grant, lifeVars, ledgerVars,
                   execVars, destVars, workerVars>>

SetRule(r) ==
    /\ AuthorityIdle
    /\ rule' = r
    /\ UNCHANGED <<now, revoked, intentVars, grant, lifeVars, ledgerVars,
                   execVars, destVars, workerVars>>

(* TenantSession.approve on a pending row.                                 *)
Approve(t, granted) ==
    /\ grant[t] = "pending"
    /\ grant' = [grant EXCEPT ![t] = IF granted THEN "approved" ELSE "denied"]
    /\ UNCHANGED <<now, policyVars, intentVars, lifeVars, ledgerVars, execVars,
                   destVars, workerVars>>

(* A synchronous call claims the same operation identity.                  *)
DirectClaim(t) ==
    /\ op[t] = "none"
    /\ op' = [op EXCEPT ![t] = "direct"]
    /\ UNCHANGED <<now, policyVars, intentVars, grant, lifeVars, hold, link,
                   execVars, destVars, workerVars>>

(* The embedding service moves the task itself with                        *)
(* DurableTaskLifecycle.transition or cancel.                              *)
Move(t, s) ==
    /\ Legal(status[t], s)
    /\ seq[t] < MaxSeq
    /\ status' = [status EXCEPT ![t] = s]
    /\ seq' = [seq EXCEPT ![t] = @ + 1]
    /\ UNCHANGED <<now, policyVars, intentVars, grant, ledgerVars, execVars,
                   destVars, workerVars>>

-----------------------------------------------------------------------------
(* The steps a running worker takes by itself.                             *)
Step(w) ==
    \/ Guard(w) \/ CloseSmall(w) \/ AcquireFence(w) \/ FenceDenied(w)
    \/ CommitAttempt(w) \/ DispatchRefused(w)
    \/ DestinationCommits(w) \/ DestinationRefuses(w)
    \/ Observe(w) \/ Finish(w) \/ RecoverEnds(w)

Requests ==
    \/ \E t \in Tasks, big \in BOOLEAN : Accept(t, big)
    \/ \E t \in Tasks : Admit(t) \/ AdmitRejected(t) \/ CancelQueued(t)
    \/ \E w \in Workers, t \in Tasks : Start(w, t) \/ Recover(w, t) \/ PrepareReview(w, t)
    \/ \E w \in Workers : Reconcile(w)

Environment ==
    \/ Tick
    \/ \E who \in {"agent", "operator"} : Revoke(who)
    \/ \E w \in Workers : Crash(w)
    \/ \E r \in {"allow", "approve", "deny"} : SetRule(r)
    \/ \E t \in Tasks, granted \in BOOLEAN : Approve(t, granted)
    \/ \E t \in Tasks : DirectClaim(t)
    \/ \E t \in Tasks, s \in OwnerStates : Move(t, s)

Next == (\E w \in Workers : Step(w)) \/ Requests \/ Environment

Spec == Init /\ [][Next]_vars

(* A dispatching thread runs to its end: SQL waits are bounded by the busy *)
(* and call timeouts, and every exception is handled or propagates.        *)
FairSpec == Spec /\ \A w \in Workers : WF_vars(Step(w))

-----------------------------------------------------------------------------
(* Properties.                                                             *)

TypeOK ==
    /\ now \in Nat
    /\ revoked \subseteq {"agent", "operator"}
    /\ rule \in {"allow", "approve", "deny"}
    /\ deadline \in [Tasks -> Nat]
    /\ ample \subseteq Tasks /\ floor \subseteq Tasks
    /\ grant \in [Tasks -> {"none", "pending", "approved", "denied", "consumed"}]
    /\ status \in [Tasks -> States \cup {"none"}]
    /\ seq \in [Tasks -> Nat]
    /\ op \in [Tasks -> {"none", "direct", "unknown", "succeeded", "failed"}]
    /\ hold \in [Tasks -> {"none", "held", "charged", "released"}]
    /\ link \in [Tasks -> {"none", "free", "approved"}]
    /\ decision \in [Tasks -> {"none", "attempt", "closed"}]
    /\ attempt \in [Tasks -> Attempts \cup {NoAttempt}]
    /\ result \in [Tasks -> {"none", "readback", "review"}]
    /\ cancelRequest \subseteq Tasks
    /\ fence \in [Tasks -> [owner : Workers \cup {NoWorker}, epoch : Nat, expires : Nat]]
    /\ effect \in [Tasks -> Attempts \cup {NoAttempt}]
    /\ pc \in [Workers -> Dispatching \cup {"idle", "reviewing"}]
    /\ job \in [Workers -> Tasks \cup {NoTask}]
    /\ lease \in [Workers -> [epoch : Nat, expires : Nat, valid : Nat]]
    /\ auth \in [Workers -> Attempts \cup {NoAttempt}]

(* Durable before call: an effect at the destination is always that of the *)
(* one attempt committed before it, so a task that was closed, canceled or *)
(* rejected before dispatch never has one, and recovery always recognizes  *)
(* the record it finds.                                                    *)
EffectIsTheAttempt ==
    \A t \in Tasks : effect[t] # NoAttempt =>
        decision[t] = "attempt" /\ effect[t] = attempt[t]

(* Money follows evidence: an operation succeeded, is charged and has a    *)
(* result exactly when the effect was read back; it failed and was         *)
(* refunded exactly when it was closed; otherwise the hold stays, however  *)
(* often cancellation is requested.                                        *)
MoneyFollowsEvidence ==
    \A t \in Tasks :
        /\ (result[t] # "none") <=> (hold[t] = "charged")
        /\ (hold[t] = "charged") <=> (op[t] = "succeeded")
        /\ (decision[t] = "closed") <=> (hold[t] = "released")
        /\ (hold[t] = "released") <=> (op[t] = "failed")
        /\ hold[t] = "held" <=> op[t] = "unknown"
        /\ hold[t] = "charged" => effect[t] # NoAttempt
        /\ hold[t] = "released" => effect[t] = NoAttempt

(* No effect is stranded: whatever cancellations, crashes and expiries     *)
(* came in between, an effect without a result can still be settled from   *)
(* readback, unless the embedding service has paused the task.             *)
EffectSettleable ==
    \A t \in Tasks :
        (effect[t] # NoAttempt /\ result[t] = "none" /\ status[t] \notin Paused)
            => Settleable(t) /\ Observable(t)

(* The task's public status agrees with its execution: a closed or settled *)
(* task has ended, and once ended its status never changes, so that the    *)
(* late result of a canceled task is recorded without reopening it.        *)
EndedTaskStaysEnded ==
    [][\A t \in Tasks :
         /\ (result'[t] # "none" \/ decision'[t] = "closed") => status'[t] \in Terminal
         /\ status[t] \in Terminal => status'[t] = status[t] /\ seq'[t] = seq[t]]_vars

(* An effect happens only under a live authorization: the agent is still   *)
(* enrolled as accepted, the signed request has not expired, and the       *)
(* committing worker still owns the newest epoch of the fence.             *)
EffectUnderAuthority ==
    [][\A t \in Tasks : effect'[t] # effect[t] =>
         /\ effect[t] = NoAttempt
         /\ "agent" \notin revoked /\ now < deadline[t]
         /\ effect'[t].epoch = fence[t].epoch /\ now < fence[t].expires]_vars

(* The attempt is decided once, under the policy of that moment: no rule   *)
(* denies it, and if approval is required a grant was consumed for it; a   *)
(* decision and a result never change.                                     *)
DecisionUnderPolicy ==
    [][\A t \in Tasks :
         /\ (decision[t] # "attempt" /\ decision'[t] = "attempt") =>
               /\ rule # "deny"
               /\ NeedsGrant(t) => grant[t] = "consumed"
         /\ decision[t] # "none" => decision'[t] = decision[t] /\ attempt'[t] = attempt[t]
         /\ result[t] # "none" => result'[t] = result[t]]_vars

(* A reviewed settlement is committed only by a current operator.          *)
ReviewUnderAuthority ==
    [][\A t \in Tasks : (result[t] # "review" /\ result'[t] = "review") => "operator" \notin revoked]_vars

(* The dispatch slot of a kernel is always given back.                     *)
SlotReleased == \A w \in Workers : (pc[w] \in Dispatching) ~> (pc[w] = "idle")

OneShot == INSTANCE OneShotTask WITH done <- {t \in Tasks : effect[t] # NoAttempt}

(* Queued dispatch implements the one-shot task.                           *)
ImplementsOneShot == OneShot!Spec

=============================================================================
