------------------------ MODULE QueuedDispatchProofs ------------------------
(***************************************************************************)
(* The theorems about QueuedDispatch, for any tasks, workers and bounds.   *)
(* The inductive invariant comes first: types, and how workers, the        *)
(* admission link, the execution records, the money and the destination    *)
(* stand to each other.                                                    *)
(***************************************************************************)
EXTENDS QueuedDispatch, TLAPS

(* A worker's task is linked; under its guard the agent stays enrolled;    *)
(* past the commit it holds the recorded attempt; what was observed is     *)
(* there to stay.                                                          *)
WorkerInv ==
    \A w \in Workers :
        /\ pc[w] # "idle" => job[w] \in Tasks /\ Linked(job[w])
        /\ pc[w] \in Guarded => "agent" \notin revoked
        /\ pc[w] = "attempted" =>
              /\ auth[w] # NoAttempt
              /\ decision[job[w]] = "attempt" /\ attempt[job[w]] = auth[w]
        /\ pc[w] \in {"observed", "reviewing"} => Observable(job[w])

(* A link comes with a hold and a started task, carries the approval it    *)
(* needed, and precedes every decision; an attempt expires with its        *)
(* intent; what is closed or resolved has ended.                           *)
TaskInv ==
    \A t \in Tasks :
        /\ Linked(t) <=> hold[t] # "none"
        /\ Linked(t) => deadline[t] > 0 /\ status[t] \in States \ {"submitted"}
        /\ decision[t] # "none" => Linked(t)
        /\ decision[t] = "attempt" <=> attempt[t] # NoAttempt
        /\ decision[t] = "attempt" => attempt[t].expires <= deadline[t]
        /\ link[t] = "approved" => grant[t] = "consumed"
        /\ link[t] = "free" => t \notin floor
        /\ (result[t] # "none" \/ decision[t] = "closed") => status[t] \in Terminal

(* The inductive invariant.                                                *)
IInv == TypeOK /\ WorkerInv /\ TaskInv /\ MoneyFollowsEvidence /\ EffectIsTheAttempt

USE DEF policyVars, intentVars, lifeVars, ledgerVars, execVars, destVars, workerVars,
        Goto, Guarded, Dispatching, Terminal, Paused, States, Attempts, NoLease,
        Linked, Undecided, Unresolved, Owned, Observable, Min2

-----------------------------------------------------------------------------
(* The initial state satisfies the invariant.                              *)
LEMMA InvInit == Init => IInv
<1>. SUFFICES ASSUME Init PROVE IInv
  OBVIOUS
<1>1. TypeOK
  BY Zenon DEF Init, TypeOK
<1>2. WorkerInv /\ TaskInv
  BY AttemptAssumption, Zenon DEF Init, WorkerInv, TaskInv
<1>3. MoneyFollowsEvidence /\ EffectIsTheAttempt
  BY Zenon DEF Init, MoneyFollowsEvidence, EffectIsTheAttempt
<1>. QED
  BY <1>1, <1>2, <1>3, Zenon DEF IInv

(* Ending a task leaves its lifecycle well typed.                          *)
LEMMA EndTaskType ==
    ASSUME TypeOK, NEW t \in Tasks, NEW s \in Terminal, EndTask(t, s)
    PROVE  status' \in [Tasks -> States \cup {"none"}] /\ seq' \in [Tasks -> Nat]
<1>1. CASE status[t] \in Terminal
  BY <1>1 DEF EndTask, TypeOK
<1>2. CASE status[t] \notin Terminal
  <2>1. status' \in [Tasks -> States \cup {"none"}]
    BY SMTT(60), <1>2 DEF EndTask, TypeOK
  <2>2. seq' \in [Tasks -> Nat]
    BY <1>2 DEF EndTask, TypeOK
  <2>. QED
    BY <2>1, <2>2, Zenon
<1>. QED
  BY <1>1, <1>2, Zenon

(* Every step keeps the types.                                             *)
LEMMA TypeStep == TypeOK /\ WorkerInv /\ [Next]_vars => TypeOK'
<1>. SUFFICES ASSUME TypeOK, WorkerInv, [Next]_vars PROVE TypeOK'
  OBVIOUS
<1>. USE TimeAssumption, OwnerAssumption
<1>1. ASSUME NEW w \in Workers, Guard(w) PROVE TypeOK'
  BY <1>1 DEF Guard, TypeOK, WorkerInv
<1>2. ASSUME NEW w \in Workers, CloseSmall(w) PROVE TypeOK'
  <2>1. job[w] \in Tasks
    BY <1>2, Zenon DEF CloseSmall, WorkerInv
  <2>2. status' \in [Tasks -> States \cup {"none"}] /\ seq' \in [Tasks -> Nat]
    BY <1>2, <2>1, EndTaskType, Zenon DEF CloseSmall, Close
  <2>. QED
    BY <1>2, <2>1, <2>2, Zenon DEF CloseSmall, Close, Leave, TypeOK
<1>3. ASSUME NEW w \in Workers, AcquireFence(w) PROVE TypeOK'
  BY <1>3 DEF AcquireFence, TypeOK, WorkerInv
<1>4. ASSUME NEW w \in Workers, FenceDenied(w) PROVE TypeOK'
  BY <1>4, Zenon DEF FenceDenied, Leave, TypeOK, WorkerInv
<1>5. ASSUME NEW w \in Workers, CommitAttempt(w) PROVE TypeOK'
  BY SMTT(60), <1>5 DEF CommitAttempt, Authorization, AttemptDeadline, TypeOK, WorkerInv
<1>6. ASSUME NEW w \in Workers, DispatchRefused(w) PROVE TypeOK'
  <2>1. CASE Leave(w)
    BY <1>6, <2>1, Zenon DEF DispatchRefused, Leave, TypeOK
  <2>2. CASE Goto(w, "recovering") /\ UNCHANGED <<job, lease, auth>>
    BY <1>6, <2>2, Zenon DEF DispatchRefused, TypeOK
  <2>. QED
    BY <1>6, <2>1, <2>2, Zenon DEF DispatchRefused
<1>7. ASSUME NEW w \in Workers, DestinationCommits(w) PROVE TypeOK'
  BY <1>7, Zenon DEF DestinationCommits, TypeOK, WorkerInv
<1>8. ASSUME NEW w \in Workers, DestinationRefuses(w) PROVE TypeOK'
  BY <1>8, Zenon DEF DestinationRefuses, TypeOK, WorkerInv
<1>9. ASSUME NEW w \in Workers, Observe(w) PROVE TypeOK'
  BY <1>9, Zenon DEF Observe, TypeOK, WorkerInv
<1>10. ASSUME NEW w \in Workers, Finish(w) PROVE TypeOK'
  <2>1. job[w] \in Tasks
    BY <1>10, Zenon DEF Finish, WorkerInv
  <2>2. status' \in [Tasks -> States \cup {"none"}] /\ seq' \in [Tasks -> Nat]
    BY <1>10, <2>1, EndTaskType, Zenon DEF Finish, FinishVerified
  <2>3. /\ op' \in [Tasks -> {"none", "direct", "unknown", "succeeded", "failed"}]
        /\ hold' \in [Tasks -> {"none", "held", "charged", "released"}]
    BY <1>10, <2>1, Zenon DEF Finish, FinishVerified, TypeOK
  <2>4. result' \in [Tasks -> {"none", "readback", "review"}]
    BY <1>10, <2>1, Zenon DEF Finish, FinishVerified, TypeOK
  <2>. QED
    BY <1>10, <2>2, <2>3, <2>4, Zenon DEF Finish, FinishVerified, Leave, TypeOK
<1>11. ASSUME NEW w \in Workers, RecoverEnds(w) PROVE TypeOK'
  BY <1>11, Zenon DEF RecoverEnds, Leave, TypeOK, WorkerInv
<1>12. ASSUME NEW t \in Tasks, NEW big \in BOOLEAN, Accept(t, big) PROVE TypeOK'
  BY SMTT(60), <1>12 DEF Accept, TypeOK, WorkerInv
<1>13. ASSUME NEW t \in Tasks, Admit(t) PROVE TypeOK'
  BY <1>13, Zenon DEF Admit, LinkAdmission, TypeOK, WorkerInv
<1>14. ASSUME NEW t \in Tasks, AdmitRejected(t) PROVE TypeOK'
  BY <1>14, Zenon DEF AdmitRejected, TypeOK, WorkerInv
<1>15. ASSUME NEW t \in Tasks, CancelQueued(t) PROVE TypeOK'
  <2>1. CASE Close(t, "canceled") /\ UNCHANGED cancelRequest
    <3>1. status' \in [Tasks -> States \cup {"none"}] /\ seq' \in [Tasks -> Nat]
      BY <2>1, EndTaskType, Zenon DEF Close
    <3>2. /\ op' \in [Tasks -> {"none", "direct", "unknown", "succeeded", "failed"}]
          /\ hold' \in [Tasks -> {"none", "held", "charged", "released"}]
          /\ decision' \in [Tasks -> {"none", "attempt", "closed"}]
      BY <2>1, Zenon DEF Close, TypeOK
    <3>. QED
      BY <1>15, <2>1, <3>1, <3>2, Zenon DEF CancelQueued, TypeOK
  <2>2. CASE /\ cancelRequest' = cancelRequest \cup {t}
             /\ UNCHANGED <<op, hold, decision, lifeVars>>
    BY SMTT(60), <1>15, <2>2 DEF CancelQueued, TypeOK
  <2>. QED
    BY <1>15, <2>1, <2>2, Zenon DEF CancelQueued
<1>16. ASSUME NEW w \in Workers, NEW t \in Tasks, Start(w, t) PROVE TypeOK'
  BY <1>16, Zenon DEF Start, TypeOK, WorkerInv
<1>17. ASSUME NEW w \in Workers, NEW t \in Tasks, Recover(w, t) PROVE TypeOK'
  BY <1>17, Zenon DEF Recover, TypeOK, WorkerInv
<1>18. ASSUME NEW w \in Workers, NEW t \in Tasks, PrepareReview(w, t) PROVE TypeOK'
  BY <1>18, Zenon DEF PrepareReview, TypeOK, WorkerInv
<1>19. ASSUME NEW w \in Workers, Reconcile(w) PROVE TypeOK'
  <2>1. job[w] \in Tasks
    BY <1>19, Zenon DEF Reconcile, WorkerInv
  <2>2. status' \in [Tasks -> States \cup {"none"}] /\ seq' \in [Tasks -> Nat]
    BY <1>19, <2>1, EndTaskType, Zenon DEF Reconcile, FinishVerified
  <2>3. /\ op' \in [Tasks -> {"none", "direct", "unknown", "succeeded", "failed"}]
        /\ hold' \in [Tasks -> {"none", "held", "charged", "released"}]
    BY <1>19, <2>1, Zenon DEF Reconcile, FinishVerified, TypeOK
  <2>4. result' \in [Tasks -> {"none", "readback", "review"}]
    BY <1>19, <2>1, Zenon DEF Reconcile, FinishVerified, TypeOK
  <2>. QED
    BY <1>19, <2>2, <2>3, <2>4, Zenon DEF Reconcile, FinishVerified, Leave, TypeOK
<1>20. ASSUME Tick PROVE TypeOK'
  BY SMTT(60), <1>20 DEF Tick, TypeOK, WorkerInv
<1>21. ASSUME NEW who \in {"agent", "operator"}, Revoke(who) PROVE TypeOK'
  BY <1>21, Zenon DEF Revoke, TypeOK, WorkerInv
<1>22. ASSUME NEW w \in Workers, Crash(w) PROVE TypeOK'
  BY <1>22, Zenon DEF Crash, Leave, TypeOK, WorkerInv
<1>23. ASSUME NEW r \in {"allow", "approve", "deny"}, SetRule(r) PROVE TypeOK'
  BY <1>23, Zenon DEF SetRule, TypeOK, WorkerInv
<1>24. ASSUME NEW t \in Tasks, NEW granted \in BOOLEAN, Approve(t, granted) PROVE TypeOK'
  BY <1>24, Zenon DEF Approve, TypeOK, WorkerInv
<1>25. ASSUME NEW t \in Tasks, DirectClaim(t) PROVE TypeOK'
  BY <1>25, Zenon DEF DirectClaim, TypeOK, WorkerInv
<1>26. ASSUME NEW t \in Tasks, NEW s \in OwnerStates, Move(t, s) PROVE TypeOK'
  BY SMTT(60), <1>26 DEF Move, TypeOK, WorkerInv
<1>27. CASE UNCHANGED vars
  BY <1>27, Zenon DEF vars, TypeOK, WorkerInv
<1>28. ASSUME NEW w \in Workers, Step(w) PROVE TypeOK'
  BY <1>28, <1>1, <1>2, <1>3, <1>4, <1>5, <1>6, <1>7, <1>8, <1>9, <1>10, <1>11, Zenon DEF Step
<1>29. ASSUME Requests PROVE TypeOK'
  BY <1>29, <1>12, <1>13, <1>14, <1>15, <1>16, <1>17, <1>18, <1>19, Zenon DEF Requests
<1>30. ASSUME Environment PROVE TypeOK'
  BY <1>30, <1>20, <1>21, <1>22, <1>23, <1>24, <1>25, <1>26, Zenon DEF Environment
<1>. QED
  BY <1>27, <1>28, <1>29, <1>30, Zenon DEF Next

(* Every step keeps what links, decisions and grants say of a task.        *)
LEMMA TaskStep == TypeOK /\ WorkerInv /\ TaskInv /\ MoneyFollowsEvidence /\ [Next]_vars => TaskInv'
<1>. SUFFICES ASSUME TypeOK, WorkerInv, TaskInv, MoneyFollowsEvidence, [Next]_vars PROVE TaskInv'
  OBVIOUS
<1>. USE TimeAssumption, AttemptAssumption
<1>1. ASSUME NEW w \in Workers, Guard(w) PROVE TaskInv'
  BY SMTT(60), <1>1 DEF Guard, Derivable, LoadAdmitted, TypeOK, WorkerInv, TaskInv, MoneyFollowsEvidence
<1>2. ASSUME NEW w \in Workers, CloseSmall(w) PROVE TaskInv'
  BY SMTT(60), <1>2 DEF CloseSmall, Close, EndTask, Leave, TypeOK, WorkerInv, TaskInv, MoneyFollowsEvidence
<1>3. ASSUME NEW w \in Workers, AcquireFence(w) PROVE TaskInv'
  BY <1>3, Zenon DEF AcquireFence, TypeOK, WorkerInv, TaskInv, MoneyFollowsEvidence
<1>4. ASSUME NEW w \in Workers, FenceDenied(w) PROVE TaskInv'
  BY <1>4 DEF FenceDenied, Leave, TypeOK, WorkerInv, TaskInv, MoneyFollowsEvidence
<1>5. ASSUME NEW w \in Workers, CommitAttempt(w) PROVE TaskInv'
  BY SMTT(60), <1>5 DEF CommitAttempt, Authorization, AttemptDeadline, Current, Alive, Derivable, LoadAdmitted, TypeOK, WorkerInv, TaskInv, MoneyFollowsEvidence
<1>6. ASSUME NEW w \in Workers, DispatchRefused(w) PROVE TaskInv'
  BY <1>6, Zenon DEF DispatchRefused, Leave, TypeOK, WorkerInv, TaskInv, MoneyFollowsEvidence
<1>7. ASSUME NEW w \in Workers, DestinationCommits(w) PROVE TaskInv'
  BY <1>7, Zenon DEF DestinationCommits, TypeOK, WorkerInv, TaskInv, MoneyFollowsEvidence
<1>8. ASSUME NEW w \in Workers, DestinationRefuses(w) PROVE TaskInv'
  BY <1>8, Zenon DEF DestinationRefuses, TypeOK, WorkerInv, TaskInv, MoneyFollowsEvidence
<1>9. ASSUME NEW w \in Workers, Observe(w) PROVE TaskInv'
  BY <1>9, Zenon DEF Observe, TypeOK, WorkerInv, TaskInv, MoneyFollowsEvidence
<1>10. ASSUME NEW w \in Workers, Finish(w) PROVE TaskInv'
  BY SMTT(60), <1>10 DEF Finish, FinishVerified, Settleable, EndTask, Leave, TypeOK, WorkerInv, TaskInv, MoneyFollowsEvidence
<1>11. ASSUME NEW w \in Workers, RecoverEnds(w) PROVE TaskInv'
  BY <1>11, Zenon DEF RecoverEnds, Leave, TypeOK, WorkerInv, TaskInv, MoneyFollowsEvidence
<1>12. ASSUME NEW t \in Tasks, NEW big \in BOOLEAN, Accept(t, big) PROVE TaskInv'
  BY SMTT(60), <1>12 DEF Accept, NewIdentity, TypeOK, WorkerInv, TaskInv, MoneyFollowsEvidence
<1>13. ASSUME NEW t \in Tasks, Admit(t) PROVE TaskInv'
  BY SMTT(60), <1>13 DEF Admit, LinkAdmission, Prepared, Derivable, AsAccepted, NeedsGrant, TypeOK, WorkerInv, TaskInv, MoneyFollowsEvidence
<1>14. ASSUME NEW t \in Tasks, AdmitRejected(t) PROVE TaskInv'
  BY SMTT(60), <1>14 DEF AdmitRejected, Prepared, AsAccepted, TypeOK, WorkerInv, TaskInv, MoneyFollowsEvidence
<1>15. ASSUME NEW t \in Tasks, CancelQueued(t) PROVE TaskInv'
  BY SMTT(60), <1>15 DEF CancelQueued, Close, EndTask, TypeOK, WorkerInv, TaskInv, MoneyFollowsEvidence
<1>16. ASSUME NEW w \in Workers, NEW t \in Tasks, Start(w, t) PROVE TaskInv'
  BY <1>16, Zenon DEF Start, TypeOK, WorkerInv, TaskInv, MoneyFollowsEvidence
<1>17. ASSUME NEW w \in Workers, NEW t \in Tasks, Recover(w, t) PROVE TaskInv'
  BY <1>17, Zenon DEF Recover, TypeOK, WorkerInv, TaskInv, MoneyFollowsEvidence
<1>18. ASSUME NEW w \in Workers, NEW t \in Tasks, PrepareReview(w, t) PROVE TaskInv'
  BY <1>18, Zenon DEF PrepareReview, TypeOK, WorkerInv, TaskInv, MoneyFollowsEvidence
<1>19. ASSUME NEW w \in Workers, Reconcile(w) PROVE TaskInv'
  BY SMTT(60), <1>19 DEF Reconcile, FinishVerified, Settleable, EndTask, Leave, TypeOK, WorkerInv, TaskInv, MoneyFollowsEvidence
<1>20. ASSUME Tick PROVE TaskInv'
  BY <1>20, Zenon DEF Tick, TypeOK, WorkerInv, TaskInv, MoneyFollowsEvidence
<1>21. ASSUME NEW who \in {"agent", "operator"}, Revoke(who) PROVE TaskInv'
  BY <1>21, Zenon DEF Revoke, TypeOK, WorkerInv, TaskInv, MoneyFollowsEvidence
<1>22. ASSUME NEW w \in Workers, Crash(w) PROVE TaskInv'
  BY <1>22, Zenon DEF Crash, Leave, TypeOK, WorkerInv, TaskInv, MoneyFollowsEvidence
<1>23. ASSUME NEW r \in {"allow", "approve", "deny"}, SetRule(r) PROVE TaskInv'
  BY <1>23, Zenon DEF SetRule, TypeOK, WorkerInv, TaskInv, MoneyFollowsEvidence
<1>24. ASSUME NEW t \in Tasks, NEW granted \in BOOLEAN, Approve(t, granted) PROVE TaskInv'
  BY SMTT(60), <1>24 DEF Approve, TypeOK, WorkerInv, TaskInv, MoneyFollowsEvidence
<1>25. ASSUME NEW t \in Tasks, DirectClaim(t) PROVE TaskInv'
  BY <1>25, Zenon DEF DirectClaim, TypeOK, WorkerInv, TaskInv, MoneyFollowsEvidence
<1>26. ASSUME NEW t \in Tasks, NEW s \in OwnerStates, Move(t, s) PROVE TaskInv'
  BY SMTT(60), <1>26 DEF Move, Legal, TypeOK, WorkerInv, TaskInv, MoneyFollowsEvidence
<1>27. CASE UNCHANGED vars
  BY <1>27, Zenon DEF vars, TypeOK, WorkerInv, TaskInv, MoneyFollowsEvidence
<1>28. ASSUME NEW w \in Workers, Step(w) PROVE TaskInv'
  BY <1>28, <1>1, <1>2, <1>3, <1>4, <1>5, <1>6, <1>7, <1>8, <1>9, <1>10, <1>11, Zenon DEF Step
<1>29. ASSUME Requests PROVE TaskInv'
  BY <1>29, <1>12, <1>13, <1>14, <1>15, <1>16, <1>17, <1>18, <1>19, Zenon DEF Requests
<1>30. ASSUME Environment PROVE TaskInv'
  BY <1>30, <1>20, <1>21, <1>22, <1>23, <1>24, <1>25, <1>26, Zenon DEF Environment
<1>. QED
  BY <1>27, <1>28, <1>29, <1>30, Zenon DEF Next

(* Every step keeps what workers rely on, those of other workers included. *)
LEMMA WorkerStep == TypeOK /\ WorkerInv /\ TaskInv /\ [Next]_vars => WorkerInv'
<1>. SUFFICES ASSUME TypeOK, WorkerInv, TaskInv, [Next]_vars PROVE WorkerInv'
  OBVIOUS
<1>. USE TimeAssumption, AttemptAssumption
<1>1. ASSUME NEW w \in Workers, Guard(w) PROVE WorkerInv'
  BY SMTT(60), <1>1 DEF Guard, Derivable, LoadAdmitted, TypeOK, WorkerInv, TaskInv
<1>2. ASSUME NEW w \in Workers, CloseSmall(w) PROVE WorkerInv'
  BY SMTT(60), <1>2 DEF CloseSmall, Close, EndTask, Leave, TypeOK, WorkerInv, TaskInv
<1>3. ASSUME NEW w \in Workers, AcquireFence(w) PROVE WorkerInv'
  BY SMTT(60), <1>3 DEF AcquireFence, TypeOK, WorkerInv, TaskInv
<1>4. ASSUME NEW w \in Workers, FenceDenied(w) PROVE WorkerInv'
  BY SMTT(60), <1>4 DEF FenceDenied, Leave, TypeOK, WorkerInv, TaskInv
<1>5. ASSUME NEW w \in Workers, CommitAttempt(w) PROVE WorkerInv'
  <2>1. job[w] \in Tasks /\ Authorization(w) \in Attempts
    BY SMTT(60), <1>5 DEF CommitAttempt, Authorization, AttemptDeadline, TypeOK, WorkerInv
  <2>2. Authorization(w) # NoAttempt
    BY <2>1, Zenon
  <2>. QED
    BY SMTT(60), <1>5, <2>1, <2>2 DEF CommitAttempt, TypeOK, WorkerInv, TaskInv
<1>6. ASSUME NEW w \in Workers, DispatchRefused(w) PROVE WorkerInv'
  BY SMTT(60), <1>6 DEF DispatchRefused, Leave, TypeOK, WorkerInv, TaskInv
<1>7. ASSUME NEW w \in Workers, DestinationCommits(w) PROVE WorkerInv'
  BY SMTT(60), <1>7 DEF DestinationCommits, FenceAdmits, TypeOK, WorkerInv, TaskInv
<1>8. ASSUME NEW w \in Workers, DestinationRefuses(w) PROVE WorkerInv'
  BY SMTT(60), <1>8 DEF DestinationRefuses, TypeOK, WorkerInv, TaskInv
<1>9. ASSUME NEW w \in Workers, Observe(w) PROVE WorkerInv'
  BY SMTT(60), <1>9 DEF Observe, TypeOK, WorkerInv, TaskInv
<1>10. ASSUME NEW w \in Workers, Finish(w) PROVE WorkerInv'
  BY SMTT(60), <1>10 DEF Finish, FinishVerified, Settleable, EndTask, Leave, TypeOK, WorkerInv, TaskInv
<1>11. ASSUME NEW w \in Workers, RecoverEnds(w) PROVE WorkerInv'
  BY SMTT(60), <1>11 DEF RecoverEnds, Leave, TypeOK, WorkerInv, TaskInv
<1>12. ASSUME NEW t \in Tasks, NEW big \in BOOLEAN, Accept(t, big) PROVE WorkerInv'
  BY SMTT(60), <1>12 DEF Accept, NewIdentity, TypeOK, WorkerInv, TaskInv
<1>13. ASSUME NEW t \in Tasks, Admit(t) PROVE WorkerInv'
  BY SMTT(60), <1>13 DEF Admit, LinkAdmission, Prepared, Derivable, AsAccepted, NeedsGrant, TypeOK, WorkerInv, TaskInv
<1>14. ASSUME NEW t \in Tasks, AdmitRejected(t) PROVE WorkerInv'
  BY SMTT(60), <1>14 DEF AdmitRejected, Prepared, AsAccepted, TypeOK, WorkerInv, TaskInv
<1>15. ASSUME NEW t \in Tasks, CancelQueued(t) PROVE WorkerInv'
  BY SMTT(60), <1>15 DEF CancelQueued, Close, EndTask, TypeOK, WorkerInv, TaskInv
<1>16. ASSUME NEW w \in Workers, NEW t \in Tasks, Start(w, t) PROVE WorkerInv'
  BY SMTT(60), <1>16 DEF Start, TypeOK, WorkerInv, TaskInv
<1>17. ASSUME NEW w \in Workers, NEW t \in Tasks, Recover(w, t) PROVE WorkerInv'
  BY SMTT(60), <1>17 DEF Recover, TypeOK, WorkerInv, TaskInv
<1>18. ASSUME NEW w \in Workers, NEW t \in Tasks, PrepareReview(w, t) PROVE WorkerInv'
  BY SMTT(60), <1>18 DEF PrepareReview, TypeOK, WorkerInv, TaskInv
<1>19. ASSUME NEW w \in Workers, Reconcile(w) PROVE WorkerInv'
  BY SMTT(60), <1>19 DEF Reconcile, FinishVerified, Settleable, EndTask, Leave, TypeOK, WorkerInv, TaskInv
<1>20. ASSUME Tick PROVE WorkerInv'
  BY <1>20, Zenon DEF Tick, TypeOK, WorkerInv, TaskInv
<1>21. ASSUME NEW who \in {"agent", "operator"}, Revoke(who) PROVE WorkerInv'
  BY <1>21 DEF Revoke, AuthorityIdle, TypeOK, WorkerInv, TaskInv
<1>22. ASSUME NEW w \in Workers, Crash(w) PROVE WorkerInv'
  BY SMTT(60), <1>22 DEF Crash, Leave, TypeOK, WorkerInv, TaskInv
<1>23. ASSUME NEW r \in {"allow", "approve", "deny"}, SetRule(r) PROVE WorkerInv'
  BY <1>23, Zenon DEF SetRule, AuthorityIdle, TypeOK, WorkerInv, TaskInv
<1>24. ASSUME NEW t \in Tasks, NEW granted \in BOOLEAN, Approve(t, granted) PROVE WorkerInv'
  BY SMTT(60), <1>24 DEF Approve, TypeOK, WorkerInv, TaskInv
<1>25. ASSUME NEW t \in Tasks, DirectClaim(t) PROVE WorkerInv'
  BY <1>25, Zenon DEF DirectClaim, TypeOK, WorkerInv, TaskInv
<1>26. ASSUME NEW t \in Tasks, NEW s \in OwnerStates, Move(t, s) PROVE WorkerInv'
  BY SMTT(60), <1>26 DEF Move, Legal, TypeOK, WorkerInv, TaskInv
<1>27. CASE UNCHANGED vars
  BY <1>27, Zenon DEF vars, TypeOK, WorkerInv, TaskInv
<1>28. ASSUME NEW w \in Workers, Step(w) PROVE WorkerInv'
  BY <1>28, <1>1, <1>2, <1>3, <1>4, <1>5, <1>6, <1>7, <1>8, <1>9, <1>10, <1>11, Zenon DEF Step
<1>29. ASSUME Requests PROVE WorkerInv'
  BY <1>29, <1>12, <1>13, <1>14, <1>15, <1>16, <1>17, <1>18, <1>19, Zenon DEF Requests
<1>30. ASSUME Environment PROVE WorkerInv'
  BY <1>30, <1>20, <1>21, <1>22, <1>23, <1>24, <1>25, <1>26, Zenon DEF Environment
<1>. QED
  BY <1>27, <1>28, <1>29, <1>30, Zenon DEF Next

-----------------------------------------------------------------------------
(* Every step keeps money and evidence together.                           *)
LEMMA MoneyStep == TypeOK /\ WorkerInv /\ TaskInv /\ MoneyFollowsEvidence /\ EffectIsTheAttempt /\ [Next]_vars => MoneyFollowsEvidence'
<1>. SUFFICES ASSUME TypeOK, WorkerInv, TaskInv, MoneyFollowsEvidence, EffectIsTheAttempt, [Next]_vars PROVE MoneyFollowsEvidence'
  OBVIOUS
<1>1. ASSUME NEW w \in Workers, Guard(w) PROVE MoneyFollowsEvidence'
  BY <1>1 DEF Guard, Derivable, LoadAdmitted, TypeOK, WorkerInv, TaskInv, MoneyFollowsEvidence, EffectIsTheAttempt
<1>2. ASSUME NEW w \in Workers, CloseSmall(w) PROVE MoneyFollowsEvidence'
  BY <1>2 DEF CloseSmall, Close, EndTask, Leave, TypeOK, WorkerInv, TaskInv, MoneyFollowsEvidence, EffectIsTheAttempt
<1>3. ASSUME NEW w \in Workers, AcquireFence(w) PROVE MoneyFollowsEvidence'
  BY <1>3, Zenon DEF AcquireFence, TypeOK, WorkerInv, TaskInv, MoneyFollowsEvidence, EffectIsTheAttempt
<1>4. ASSUME NEW w \in Workers, FenceDenied(w) PROVE MoneyFollowsEvidence'
  BY <1>4, Zenon DEF FenceDenied, Leave, TypeOK, WorkerInv, TaskInv, MoneyFollowsEvidence, EffectIsTheAttempt
<1>5. ASSUME NEW w \in Workers, CommitAttempt(w) PROVE MoneyFollowsEvidence'
  BY <1>5 DEF CommitAttempt, Authorization, Current, Alive, Derivable, LoadAdmitted, TypeOK, WorkerInv, TaskInv, MoneyFollowsEvidence, EffectIsTheAttempt
<1>6. ASSUME NEW w \in Workers, DispatchRefused(w) PROVE MoneyFollowsEvidence'
  BY <1>6, Zenon DEF DispatchRefused, Leave, TypeOK, WorkerInv, TaskInv, MoneyFollowsEvidence, EffectIsTheAttempt
<1>7. ASSUME NEW w \in Workers, DestinationCommits(w) PROVE MoneyFollowsEvidence'
  BY <1>7 DEF DestinationCommits, FenceAdmits, TypeOK, WorkerInv, TaskInv, MoneyFollowsEvidence, EffectIsTheAttempt
<1>8. ASSUME NEW w \in Workers, DestinationRefuses(w) PROVE MoneyFollowsEvidence'
  BY <1>8, Zenon DEF DestinationRefuses, TypeOK, WorkerInv, TaskInv, MoneyFollowsEvidence, EffectIsTheAttempt
<1>9. ASSUME NEW w \in Workers, Observe(w) PROVE MoneyFollowsEvidence'
  BY <1>9, Zenon DEF Observe, TypeOK, WorkerInv, TaskInv, MoneyFollowsEvidence, EffectIsTheAttempt
<1>10. ASSUME NEW w \in Workers, Finish(w) PROVE MoneyFollowsEvidence'
  BY SMTT(60), <1>10 DEF Finish, FinishVerified, Settleable, EndTask, Leave, TypeOK, WorkerInv, TaskInv, MoneyFollowsEvidence, EffectIsTheAttempt
<1>11. ASSUME NEW w \in Workers, RecoverEnds(w) PROVE MoneyFollowsEvidence'
  BY <1>11, Zenon DEF RecoverEnds, Leave, TypeOK, WorkerInv, TaskInv, MoneyFollowsEvidence, EffectIsTheAttempt
<1>12. ASSUME NEW t \in Tasks, NEW big \in BOOLEAN, Accept(t, big) PROVE MoneyFollowsEvidence'
  BY <1>12, Zenon DEF Accept, NewIdentity, TypeOK, WorkerInv, TaskInv, MoneyFollowsEvidence, EffectIsTheAttempt
<1>13. ASSUME NEW t \in Tasks, Admit(t) PROVE MoneyFollowsEvidence'
  BY <1>13 DEF Admit, LinkAdmission, Prepared, Derivable, AsAccepted, NeedsGrant, TypeOK, WorkerInv, TaskInv, MoneyFollowsEvidence, EffectIsTheAttempt
<1>14. ASSUME NEW t \in Tasks, AdmitRejected(t) PROVE MoneyFollowsEvidence'
  BY SMTT(60), <1>14 DEF AdmitRejected, Prepared, AsAccepted, TypeOK, WorkerInv, TaskInv, MoneyFollowsEvidence, EffectIsTheAttempt
<1>15. ASSUME NEW t \in Tasks, CancelQueued(t) PROVE MoneyFollowsEvidence'
  BY <1>15 DEF CancelQueued, Close, EndTask, TypeOK, WorkerInv, TaskInv, MoneyFollowsEvidence, EffectIsTheAttempt
<1>16. ASSUME NEW w \in Workers, NEW t \in Tasks, Start(w, t) PROVE MoneyFollowsEvidence'
  BY <1>16 DEF Start, TypeOK, WorkerInv, TaskInv, MoneyFollowsEvidence, EffectIsTheAttempt
<1>17. ASSUME NEW w \in Workers, NEW t \in Tasks, Recover(w, t) PROVE MoneyFollowsEvidence'
  BY <1>17 DEF Recover, TypeOK, WorkerInv, TaskInv, MoneyFollowsEvidence, EffectIsTheAttempt
<1>18. ASSUME NEW w \in Workers, NEW t \in Tasks, PrepareReview(w, t) PROVE MoneyFollowsEvidence'
  BY SMTT(60), <1>18 DEF PrepareReview, TypeOK, WorkerInv, TaskInv, MoneyFollowsEvidence, EffectIsTheAttempt
<1>19. ASSUME NEW w \in Workers, Reconcile(w) PROVE MoneyFollowsEvidence'
  BY SMTT(60), <1>19 DEF Reconcile, FinishVerified, Settleable, EndTask, Leave, TypeOK, WorkerInv, TaskInv, MoneyFollowsEvidence, EffectIsTheAttempt
<1>20. ASSUME Tick PROVE MoneyFollowsEvidence'
  BY <1>20, Zenon DEF Tick, TypeOK, WorkerInv, TaskInv, MoneyFollowsEvidence, EffectIsTheAttempt
<1>21. ASSUME NEW who \in {"agent", "operator"}, Revoke(who) PROVE MoneyFollowsEvidence'
  BY <1>21, Zenon DEF Revoke, TypeOK, WorkerInv, TaskInv, MoneyFollowsEvidence, EffectIsTheAttempt
<1>22. ASSUME NEW w \in Workers, Crash(w) PROVE MoneyFollowsEvidence'
  BY <1>22, Zenon DEF Crash, Leave, TypeOK, WorkerInv, TaskInv, MoneyFollowsEvidence, EffectIsTheAttempt
<1>23. ASSUME NEW r \in {"allow", "approve", "deny"}, SetRule(r) PROVE MoneyFollowsEvidence'
  BY <1>23, Zenon DEF SetRule, TypeOK, WorkerInv, TaskInv, MoneyFollowsEvidence, EffectIsTheAttempt
<1>24. ASSUME NEW t \in Tasks, NEW granted \in BOOLEAN, Approve(t, granted) PROVE MoneyFollowsEvidence'
  BY <1>24, Zenon DEF Approve, TypeOK, WorkerInv, TaskInv, MoneyFollowsEvidence, EffectIsTheAttempt
<1>25. ASSUME NEW t \in Tasks, DirectClaim(t) PROVE MoneyFollowsEvidence'
  BY SMTT(60), <1>25 DEF DirectClaim, TypeOK, WorkerInv, TaskInv, MoneyFollowsEvidence, EffectIsTheAttempt
<1>26. ASSUME NEW t \in Tasks, NEW s \in OwnerStates, Move(t, s) PROVE MoneyFollowsEvidence'
  BY <1>26, Zenon DEF Move, TypeOK, WorkerInv, TaskInv, MoneyFollowsEvidence, EffectIsTheAttempt
<1>27. CASE UNCHANGED vars
  BY <1>27, Zenon DEF vars, TypeOK, WorkerInv, TaskInv, MoneyFollowsEvidence, EffectIsTheAttempt
<1>28. ASSUME NEW w \in Workers, Step(w) PROVE MoneyFollowsEvidence'
  BY <1>28, <1>1, <1>2, <1>3, <1>4, <1>5, <1>6, <1>7, <1>8, <1>9, <1>10, <1>11, Zenon DEF Step
<1>29. ASSUME Requests PROVE MoneyFollowsEvidence'
  BY <1>29, <1>12, <1>13, <1>14, <1>15, <1>16, <1>17, <1>18, <1>19, Zenon DEF Requests
<1>30. ASSUME Environment PROVE MoneyFollowsEvidence'
  BY <1>30, <1>20, <1>21, <1>22, <1>23, <1>24, <1>25, <1>26, Zenon DEF Environment
<1>. QED
  BY <1>27, <1>28, <1>29, <1>30, Zenon DEF Next

(* Every step keeps the effect that of the recorded attempt.               *)
LEMMA EffectStep == TypeOK /\ WorkerInv /\ EffectIsTheAttempt /\ [Next]_vars => EffectIsTheAttempt'
<1>. SUFFICES ASSUME TypeOK, WorkerInv, EffectIsTheAttempt, [Next]_vars PROVE EffectIsTheAttempt'
  OBVIOUS
<1>1. ASSUME NEW w \in Workers, Guard(w) PROVE EffectIsTheAttempt'
  BY <1>1, Zenon DEF Guard, Derivable, LoadAdmitted, TypeOK, WorkerInv, EffectIsTheAttempt
<1>2. ASSUME NEW w \in Workers, CloseSmall(w) PROVE EffectIsTheAttempt'
  BY SMTT(60), <1>2 DEF CloseSmall, Close, EndTask, Leave, TypeOK, WorkerInv, EffectIsTheAttempt
<1>3. ASSUME NEW w \in Workers, AcquireFence(w) PROVE EffectIsTheAttempt'
  BY <1>3, Zenon DEF AcquireFence, TypeOK, WorkerInv, EffectIsTheAttempt
<1>4. ASSUME NEW w \in Workers, FenceDenied(w) PROVE EffectIsTheAttempt'
  BY <1>4, Zenon DEF FenceDenied, Leave, TypeOK, WorkerInv, EffectIsTheAttempt
<1>5. ASSUME NEW w \in Workers, CommitAttempt(w) PROVE EffectIsTheAttempt'
  BY SMTT(60), <1>5 DEF CommitAttempt, Authorization, Current, Alive, Derivable, LoadAdmitted, TypeOK, WorkerInv, EffectIsTheAttempt
<1>6. ASSUME NEW w \in Workers, DispatchRefused(w) PROVE EffectIsTheAttempt'
  BY <1>6, Zenon DEF DispatchRefused, Leave, TypeOK, WorkerInv, EffectIsTheAttempt
<1>7. ASSUME NEW w \in Workers, DestinationCommits(w) PROVE EffectIsTheAttempt'
  BY <1>7 DEF DestinationCommits, FenceAdmits, TypeOK, WorkerInv, EffectIsTheAttempt
<1>8. ASSUME NEW w \in Workers, DestinationRefuses(w) PROVE EffectIsTheAttempt'
  BY <1>8, Zenon DEF DestinationRefuses, TypeOK, WorkerInv, EffectIsTheAttempt
<1>9. ASSUME NEW w \in Workers, Observe(w) PROVE EffectIsTheAttempt'
  BY <1>9, Zenon DEF Observe, TypeOK, WorkerInv, EffectIsTheAttempt
<1>10. ASSUME NEW w \in Workers, Finish(w) PROVE EffectIsTheAttempt'
  BY <1>10, Zenon DEF Finish, FinishVerified, Settleable, EndTask, Leave, TypeOK, WorkerInv, EffectIsTheAttempt
<1>11. ASSUME NEW w \in Workers, RecoverEnds(w) PROVE EffectIsTheAttempt'
  BY <1>11, Zenon DEF RecoverEnds, Leave, TypeOK, WorkerInv, EffectIsTheAttempt
<1>12. ASSUME NEW t \in Tasks, NEW big \in BOOLEAN, Accept(t, big) PROVE EffectIsTheAttempt'
  BY <1>12, Zenon DEF Accept, NewIdentity, TypeOK, WorkerInv, EffectIsTheAttempt
<1>13. ASSUME NEW t \in Tasks, Admit(t) PROVE EffectIsTheAttempt'
  BY <1>13, Zenon DEF Admit, LinkAdmission, Prepared, Derivable, AsAccepted, NeedsGrant, TypeOK, WorkerInv, EffectIsTheAttempt
<1>14. ASSUME NEW t \in Tasks, AdmitRejected(t) PROVE EffectIsTheAttempt'
  BY <1>14, Zenon DEF AdmitRejected, Prepared, AsAccepted, TypeOK, WorkerInv, EffectIsTheAttempt
<1>15. ASSUME NEW t \in Tasks, CancelQueued(t) PROVE EffectIsTheAttempt'
  BY SMTT(60), <1>15 DEF CancelQueued, Close, EndTask, TypeOK, WorkerInv, EffectIsTheAttempt
<1>16. ASSUME NEW w \in Workers, NEW t \in Tasks, Start(w, t) PROVE EffectIsTheAttempt'
  BY <1>16, Zenon DEF Start, TypeOK, WorkerInv, EffectIsTheAttempt
<1>17. ASSUME NEW w \in Workers, NEW t \in Tasks, Recover(w, t) PROVE EffectIsTheAttempt'
  BY <1>17, Zenon DEF Recover, TypeOK, WorkerInv, EffectIsTheAttempt
<1>18. ASSUME NEW w \in Workers, NEW t \in Tasks, PrepareReview(w, t) PROVE EffectIsTheAttempt'
  BY <1>18, Zenon DEF PrepareReview, TypeOK, WorkerInv, EffectIsTheAttempt
<1>19. ASSUME NEW w \in Workers, Reconcile(w) PROVE EffectIsTheAttempt'
  BY <1>19, Zenon DEF Reconcile, FinishVerified, Settleable, EndTask, Leave, TypeOK, WorkerInv, EffectIsTheAttempt
<1>20. ASSUME Tick PROVE EffectIsTheAttempt'
  BY <1>20, Zenon DEF Tick, TypeOK, WorkerInv, EffectIsTheAttempt
<1>21. ASSUME NEW who \in {"agent", "operator"}, Revoke(who) PROVE EffectIsTheAttempt'
  BY <1>21, Zenon DEF Revoke, TypeOK, WorkerInv, EffectIsTheAttempt
<1>22. ASSUME NEW w \in Workers, Crash(w) PROVE EffectIsTheAttempt'
  BY <1>22, Zenon DEF Crash, Leave, TypeOK, WorkerInv, EffectIsTheAttempt
<1>23. ASSUME NEW r \in {"allow", "approve", "deny"}, SetRule(r) PROVE EffectIsTheAttempt'
  BY <1>23, Zenon DEF SetRule, TypeOK, WorkerInv, EffectIsTheAttempt
<1>24. ASSUME NEW t \in Tasks, NEW granted \in BOOLEAN, Approve(t, granted) PROVE EffectIsTheAttempt'
  BY <1>24, Zenon DEF Approve, TypeOK, WorkerInv, EffectIsTheAttempt
<1>25. ASSUME NEW t \in Tasks, DirectClaim(t) PROVE EffectIsTheAttempt'
  BY <1>25, Zenon DEF DirectClaim, TypeOK, WorkerInv, EffectIsTheAttempt
<1>26. ASSUME NEW t \in Tasks, NEW s \in OwnerStates, Move(t, s) PROVE EffectIsTheAttempt'
  BY <1>26, Zenon DEF Move, TypeOK, WorkerInv, EffectIsTheAttempt
<1>27. CASE UNCHANGED vars
  BY <1>27, Zenon DEF vars, TypeOK, WorkerInv, EffectIsTheAttempt
<1>28. ASSUME NEW w \in Workers, Step(w) PROVE EffectIsTheAttempt'
  BY <1>28, <1>1, <1>2, <1>3, <1>4, <1>5, <1>6, <1>7, <1>8, <1>9, <1>10, <1>11, Zenon DEF Step
<1>29. ASSUME Requests PROVE EffectIsTheAttempt'
  BY <1>29, <1>12, <1>13, <1>14, <1>15, <1>16, <1>17, <1>18, <1>19, Zenon DEF Requests
<1>30. ASSUME Environment PROVE EffectIsTheAttempt'
  BY <1>30, <1>20, <1>21, <1>22, <1>23, <1>24, <1>25, <1>26, Zenon DEF Environment
<1>. QED
  BY <1>27, <1>28, <1>29, <1>30, Zenon DEF Next

(* The invariant is inductive.                                             *)
THEOREM Inductive == Spec => []IInv
<1>1. IInv /\ [Next]_vars => IInv'
  BY TypeStep, TaskStep, WorkerStep, MoneyStep, EffectStep, Zenon DEF IInv
<1>. QED
  BY <1>1, InvInit, PTL DEF Spec

(* Every reachable state of queued dispatch is well typed.                 *)
THEOREM TypeCorrect == Spec => []TypeOK
<1>1. IInv => TypeOK
  BY Zenon DEF IInv
<1>. QED
  BY <1>1, Inductive, PTL

(* dispatch_once is durable before its call: an effect is always that of   *)
(* the one committed attempt.                                              *)
THEOREM EffectCorrect == Spec => []EffectIsTheAttempt
<1>1. IInv => EffectIsTheAttempt
  BY Zenon DEF IInv
<1>. QED
  BY <1>1, Inductive, PTL

(* _close and _finish_verified move money only with a closed decision or   *)
(* with the evidence of an effect.                                         *)
THEOREM MoneyCorrect == Spec => []MoneyFollowsEvidence
<1>1. IInv => MoneyFollowsEvidence
  BY Zenon DEF IInv
<1>. QED
  BY <1>1, Inductive, PTL

(* recover can settle every effect of a task that is not paused, whatever  *)
(* happened since the attempt.                                             *)
THEOREM SettleableCorrect == Spec => []EffectSettleable
<1>1. ASSUME IInv PROVE EffectSettleable
  <2>1. SUFFICES ASSUME NEW t \in Tasks, effect[t] # NoAttempt, result[t] = "none",
                        status[t] \notin Paused
                 PROVE  Settleable(t) /\ Observable(t)
    BY Zenon DEF EffectSettleable
  <2>2. decision[t] = "attempt" /\ effect[t] = attempt[t] /\ Linked(t)
    BY <1>1, <2>1, Zenon DEF IInv, EffectIsTheAttempt, TaskInv
  <2>3. hold[t] = "held" /\ op[t] = "unknown"
    BY <1>1, <2>1, <2>2, Zenon DEF IInv, MoneyFollowsEvidence, TaskInv, TypeOK
  <2>4. status[t] \in Terminal \cup {"working"}
    BY <1>1, <2>1, <2>2, Zenon DEF IInv, TaskInv
  <2>. QED
    BY <2>1, <2>2, <2>3, <2>4, Zenon DEF Settleable
<1>. QED
  BY <1>1, Inductive, PTL

-----------------------------------------------------------------------------
(* Money, decisions, results and effects change in seven actions only.     *)
LEMMA ExecFrame ==
    ASSUME [Next]_vars
    PROVE  \/ UNCHANGED <<hold, decision, attempt, result, effect>>
           \/ \E t \in Tasks : Admit(t) \/ CancelQueued(t)
           \/ \E w \in Workers : CloseSmall(w) \/ CommitAttempt(w) \/ DestinationCommits(w)
                                 \/ Finish(w) \/ Reconcile(w)
<1>. DEFINE Frame == UNCHANGED <<hold, decision, attempt, result, effect>>
<1>1. ASSUME NEW w \in Workers, Step(w),
             ~(CloseSmall(w) \/ CommitAttempt(w) \/ DestinationCommits(w) \/ Finish(w))
      PROVE  Frame
  BY <1>1, Zenon DEF Step, Guard, AcquireFence, FenceDenied, DispatchRefused, DestinationRefuses,
              Observe, RecoverEnds
<1>2. ASSUME Requests, ~(\E t \in Tasks : Admit(t) \/ CancelQueued(t)),
             ~(\E w \in Workers : Reconcile(w))
      PROVE  Frame
  BY <1>2, Zenon DEF Requests, Accept, AdmitRejected, Start, Recover, PrepareReview
<1>3. ASSUME Environment PROVE Frame
  BY <1>3, Zenon DEF Environment, Tick, Revoke, Crash, SetRule, Approve, DirectClaim, Move
<1>4. CASE UNCHANGED vars
  BY <1>4, Zenon DEF vars
<1>. QED
  BY <1>1, <1>2, <1>3, <1>4, Zenon DEF Next

(* commit_queued performs an effect only for an agent still enrolled,      *)
(* before the signed request and the newest fence expire.                  *)
THEOREM AuthorityCorrect == Spec => EffectUnderAuthority
<1>. DEFINE Lawful == \A t \in Tasks : effect'[t] # effect[t] =>
         /\ effect[t] = NoAttempt
         /\ "agent" \notin revoked /\ now < deadline[t]
         /\ effect'[t].epoch = fence[t].epoch /\ now < fence[t].expires
<1>1. ASSUME IInv, [Next]_vars PROVE Lawful
  <2>1. CASE \E w \in Workers : DestinationCommits(w)
    <3>1. PICK w \in Workers : DestinationCommits(w)
      BY <2>1, Zenon
    <3>2. job[w] \in Tasks /\ "agent" \notin revoked /\ auth[w] = attempt[job[w]]
      BY <1>1, <3>1, Zenon DEF IInv, WorkerInv, DestinationCommits
    <3>3. auth[w].expires <= deadline[job[w]] /\ auth[w].expires \in Nat
      BY SMTT(60), <1>1, <3>1, <3>2 DEF IInv, WorkerInv, TaskInv, TypeOK, DestinationCommits
    <3>4. now < deadline[job[w]]
      BY SMTT(60), <1>1, <3>1, <3>2, <3>3 DEF IInv, TypeOK, DestinationCommits, FenceAdmits
    <3>. QED
      BY SMTT(60), <1>1, <3>1, <3>2, <3>4 DEF IInv, TypeOK, DestinationCommits, FenceAdmits
  <2>2. CASE UNCHANGED effect
    BY <2>2, Zenon
  <2>. QED
    BY <1>1, <2>1, <2>2, ExecFrame, Zenon DEF Admit, CancelQueued, CloseSmall, CommitAttempt, Finish,
       Reconcile, FinishVerified
<1>2. IInv /\ [Next]_vars => [Lawful]_vars
  BY <1>1, Zenon
<1>. QED
  BY <1>2, Inductive, PTL DEF Spec, EffectUnderAuthority

(* The attempt transaction decides once, under the current policy, and     *)
(* neither a decision nor a result is ever changed.                        *)
THEOREM PolicyCorrect == Spec => DecisionUnderPolicy
<1>. DEFINE Fresh(t) == (decision[t] # "attempt" /\ decision'[t] = "attempt") =>
               /\ rule # "deny"
               /\ NeedsGrant(t) => grant[t] = "consumed"
            Fixed(t) == /\ decision[t] # "none" => decision'[t] = decision[t] /\ attempt'[t] = attempt[t]
                        /\ result[t] # "none" => result'[t] = result[t]
<1>1. ASSUME IInv, [Next]_vars, NEW t \in Tasks PROVE Fresh(t) /\ Fixed(t)
  <2>1. ASSUME NEW w \in Workers, CommitAttempt(w) PROVE Fresh(t) /\ Fixed(t)
    <3>1. job[w] \in Tasks /\ DispatchPolicy(job[w]) /\ decision[job[w]] = "none" /\ Linked(job[w])
      BY <1>1, <2>1, Zenon DEF IInv, WorkerInv, CommitAttempt, Current
    <3>2. NeedsGrant(job[w]) => grant[job[w]] = "consumed"
      BY <1>1, <3>1 DEF IInv, TaskInv, TypeOK, NeedsGrant, DispatchPolicy
    <3>3. decision' = [decision EXCEPT ![job[w]] = "attempt"] /\ result' = result
          /\ attempt' = [attempt EXCEPT ![job[w]] = Authorization(w)]
      BY <2>1, Zenon DEF CommitAttempt
    <3>. QED
      BY SMTT(60), <1>1, <3>1, <3>2, <3>3 DEF IInv, TypeOK, DispatchPolicy
  <2>2. ASSUME NEW w \in Workers, CloseSmall(w) PROVE Fresh(t) /\ Fixed(t)
    BY SMTT(60), <1>1, <2>2 DEF CloseSmall, Close, IInv, TypeOK
  <2>3. ASSUME NEW u \in Tasks, CancelQueued(u) PROVE Fresh(t) /\ Fixed(t)
    BY SMTT(60), <1>1, <2>3 DEF CancelQueued, Close, IInv, TypeOK
  <2>4. ASSUME NEW w \in Workers, Finish(w) \/ Reconcile(w) PROVE Fresh(t) /\ Fixed(t)
    BY SMTT(60), <1>1, <2>4 DEF Finish, Reconcile, FinishVerified, Settleable, IInv, TypeOK
  <2>5. CASE UNCHANGED <<decision, attempt, result>>
    BY <2>5, Zenon
  <2>. QED
    BY <1>1, <2>1, <2>2, <2>3, <2>4, <2>5, ExecFrame, Zenon DEF Admit, DestinationCommits
<1>2. IInv /\ [Next]_vars => [\A t \in Tasks : Fresh(t) /\ Fixed(t)]_vars
  BY <1>1, Zenon
<1>3. [\A t \in Tasks : Fresh(t) /\ Fixed(t)]_vars => [\A t \in Tasks :
         /\ (decision[t] # "attempt" /\ decision'[t] = "attempt") =>
               /\ rule # "deny"
               /\ NeedsGrant(t) => grant[t] = "consumed"
         /\ decision[t] # "none" => decision'[t] = decision[t] /\ attempt'[t] = attempt[t]
         /\ result[t] # "none" => result'[t] = result[t]]_vars
  BY Zenon
<1>. HIDE DEF Fresh, Fixed
<1>. QED
  BY <1>2, <1>3, Inductive, PTL DEF Spec, DecisionUnderPolicy

(* settlement_atomic records a review only for a current operator.         *)
THEOREM ReviewCorrect == Spec => ReviewUnderAuthority
<1>. DEFINE Lawful == \A t \in Tasks : (result[t] # "review" /\ result'[t] = "review")
                          => "operator" \notin revoked
<1>1. ASSUME IInv, [Next]_vars PROVE Lawful
  <2>1. ASSUME NEW w \in Workers, Reconcile(w) PROVE Lawful
    BY <2>1, Zenon DEF Reconcile
  <2>2. ASSUME NEW w \in Workers, Finish(w) PROVE Lawful
    BY SMTT(60), <1>1, <2>2 DEF Finish, FinishVerified, IInv, TypeOK
  <2>3. CASE UNCHANGED result
    BY <2>3, Zenon
  <2>. QED
    BY <1>1, <2>1, <2>2, <2>3, ExecFrame, Zenon DEF Admit, CancelQueued, CloseSmall, CommitAttempt, DestinationCommits
<1>2. IInv /\ [Next]_vars => [Lawful]_vars
  BY <1>1, Zenon
<1>. QED
  BY <1>2, Inductive, PTL DEF Spec, ReviewUnderAuthority

(* The lifecycle of a task changes in seven actions only.                  *)
LEMMA LifeFrame ==
    ASSUME [Next]_vars
    PROVE  \/ UNCHANGED <<status, seq>>
           \/ \E t \in Tasks : Admit(t) \/ CancelQueued(t)
           \/ \E t \in Tasks, big \in BOOLEAN : Accept(t, big)
           \/ \E t \in Tasks, s \in OwnerStates : Move(t, s)
           \/ \E w \in Workers : CloseSmall(w) \/ Finish(w) \/ Reconcile(w)
<1>. DEFINE Frame == UNCHANGED <<status, seq>>
<1>1. ASSUME NEW w \in Workers, Step(w), ~(CloseSmall(w) \/ Finish(w)) PROVE Frame
  BY <1>1, Zenon DEF Step, Guard, AcquireFence, FenceDenied, CommitAttempt, DispatchRefused,
              DestinationCommits, DestinationRefuses, Observe, RecoverEnds
<1>2. ASSUME Requests, ~(\E t \in Tasks : Admit(t) \/ CancelQueued(t)),
             ~(\E w \in Workers : Reconcile(w)),
             ~(\E t \in Tasks, big \in BOOLEAN : Accept(t, big))
      PROVE  Frame
  BY <1>2, Zenon DEF Requests, AdmitRejected, Start, Recover, PrepareReview
<1>3. ASSUME Environment, ~(\E t \in Tasks, s \in OwnerStates : Move(t, s)) PROVE Frame
  BY <1>3, Zenon DEF Environment, Tick, Revoke, Crash, SetRule, Approve, DirectClaim
<1>4. CASE UNCHANGED vars
  BY <1>4, Zenon DEF vars
<1>. QED
  BY <1>1, <1>2, <1>3, <1>4, Zenon DEF Next

(* A settled or closed task has ended, and what has ended stays as it is:  *)
(* _finish_verified records a late result without reopening the task.      *)
THEOREM EndedCorrect == Spec => EndedTaskStaysEnded
<1>. DEFINE Kept(t) == status[t] \in Terminal => status'[t] = status[t] /\ seq'[t] = seq[t]
            Ended(t) == (result'[t] # "none" \/ decision'[t] = "closed") => status'[t] \in Terminal
<1>1. ASSUME IInv, [Next]_vars, NEW t \in Tasks PROVE Kept(t)
  <2>1. ASSUME NEW u \in Tasks, Admit(u) PROVE Kept(t)
    BY SMTT(60), <1>1, <2>1 DEF Admit, LinkAdmission, Prepared, AsAccepted, IInv, TypeOK
  <2>2. ASSUME NEW u \in Tasks, CancelQueued(u) PROVE Kept(t)
    BY SMTT(60), <1>1, <2>2 DEF CancelQueued, Close, EndTask, IInv, TypeOK
  <2>3. ASSUME NEW u \in Tasks, NEW big \in BOOLEAN, Accept(u, big) PROVE Kept(t)
    BY SMTT(60), <1>1, <2>3 DEF Accept, NewIdentity, IInv, TypeOK
  <2>4. ASSUME NEW u \in Tasks, NEW s \in OwnerStates, Move(u, s) PROVE Kept(t)
    BY SMTT(60), <1>1, <2>4 DEF Move, Legal, IInv, TypeOK
  <2>5. ASSUME NEW w \in Workers, CloseSmall(w) PROVE Kept(t)
    BY SMTT(60), <1>1, <2>5 DEF CloseSmall, Close, EndTask, IInv, TypeOK
  <2>6. ASSUME NEW w \in Workers, Finish(w) \/ Reconcile(w) PROVE Kept(t)
    BY SMTT(60), <1>1, <2>6 DEF Finish, Reconcile, FinishVerified, EndTask, IInv, TypeOK
  <2>. QED
    BY <1>1, <2>1, <2>2, <2>3, <2>4, <2>5, <2>6, LifeFrame, Zenon
<1>2. ASSUME IInv, [Next]_vars, NEW t \in Tasks PROVE Ended(t)
  BY <1>2, TaskStep, Zenon DEF IInv, TaskInv
<1>3. IInv /\ [Next]_vars => [\A t \in Tasks :
         /\ (result'[t] # "none" \/ decision'[t] = "closed") => status'[t] \in Terminal
         /\ status[t] \in Terminal => status'[t] = status[t] /\ seq'[t] = seq[t]]_vars
  BY <1>1, <1>2, Zenon
<1>. HIDE DEF Kept, Ended, Terminal
<1>. QED
  BY <1>3, Inductive, PTL DEF Spec, EndedTaskStaysEnded

-----------------------------------------------------------------------------
(* Queued dispatch starts where the one-shot task starts.                  *)
LEMMA OneShotInit == Init => OneShot!Init
  BY DEF Init, OneShot!Init

(* Closing a queued task is the one step Close of the one-shot task.       *)
LEMMA OneShotClose ==
    ASSUME NEW t \in Tasks, NEW end, Close(t, end), UNCHANGED effect
    PROVE  OneShot!Next
<1>1. OneShot!Close(t)
  BY Zenon DEF Close, OneShot!Close
<1>. QED
  BY <1>1, Zenon DEF OneShot!Next

(* Settling a queued task with evidence is the one step Charge.            *)
LEMMA OneShotCharge ==
    ASSUME NEW t \in Tasks, NEW by, FinishVerified(t, by), effect[t] # NoAttempt
    PROVE  OneShot!Next
<1>1. OneShot!Charge(t)
  BY Zenon DEF FinishVerified, Settleable, OneShot!Charge
<1>. QED
  BY <1>1, Zenon DEF OneShot!Next

(* Every step of queued dispatch is a step of the one-shot task or leaves  *)
(* it unchanged.                                                           *)
LEMMA OneShotStep == IInv /\ [Next]_vars => [OneShot!Next]_(OneShot!vars)
<1>. SUFFICES ASSUME IInv, [Next]_vars PROVE [OneShot!Next]_(OneShot!vars)
  OBVIOUS
<1>1. ASSUME NEW t \in Tasks, Admit(t) PROVE OneShot!Next
  <2>1. hold[t] = "none"
    BY <1>1, Zenon DEF Admit, Prepared, AsAccepted, IInv, TaskInv, TypeOK
  <2>2. OneShot!Hold(t)
    BY <1>1, <2>1, Zenon DEF Admit, OneShot!Hold
  <2>. QED
    BY <2>2, Zenon DEF OneShot!Next
<1>2. ASSUME NEW t \in Tasks, CancelQueued(t) PROVE [OneShot!Next]_(OneShot!vars)
  <2>1. CASE Close(t, "canceled")
    BY <1>2, <2>1, OneShotClose, Zenon DEF CancelQueued
  <2>2. CASE UNCHANGED <<hold, decision, effect>>
    BY <2>2, Zenon DEF OneShot!vars
  <2>. QED
    BY <1>2, <2>1, <2>2, Zenon DEF CancelQueued
<1>3. ASSUME NEW w \in Workers, CloseSmall(w) PROVE OneShot!Next
  BY <1>3, OneShotClose, Zenon DEF CloseSmall, IInv, WorkerInv
<1>4. ASSUME NEW w \in Workers, CommitAttempt(w) PROVE OneShot!Next
  <2>1. PICK t \in Tasks : t = job[w]
    BY <1>4, Zenon DEF CommitAttempt, IInv, WorkerInv
  <2>2. OneShot!Attempt(t)
    BY <1>4, <2>1, Zenon DEF CommitAttempt, Current, LoadAdmitted, OneShot!Attempt
  <2>. QED
    BY <2>1, <2>2, Zenon DEF OneShot!Next
<1>5. ASSUME NEW w \in Workers, DestinationCommits(w) PROVE OneShot!Next
  <2>1. PICK t \in Tasks : t = job[w] /\ decision[t] = "attempt" /\ auth[w] # NoAttempt
    BY <1>5, Zenon DEF DestinationCommits, IInv, WorkerInv
  <2>2. OneShot!Perform(t)
    BY SMTT(60), <1>5, <2>1 DEF DestinationCommits, FenceAdmits, IInv, TypeOK, OneShot!Perform
  <2>. QED
    BY <2>1, <2>2, Zenon DEF OneShot!Next
<1>6. ASSUME NEW w \in Workers, Finish(w) \/ Reconcile(w) PROVE OneShot!Next
  <2>1. job[w] \in Tasks /\ effect[job[w]] # NoAttempt
    BY <1>6, Zenon DEF Finish, Reconcile, IInv, WorkerInv
  <2>2. FinishVerified(job[w], "readback") \/ FinishVerified(job[w], "review")
    BY <1>6, Zenon DEF Finish, Reconcile
  <2>3. CASE FinishVerified(job[w], "readback")
    BY <2>1, <2>3, OneShotCharge, Zenon
  <2>4. CASE FinishVerified(job[w], "review")
    BY <2>1, <2>4, OneShotCharge, Zenon
  <2>. QED
    BY <2>2, <2>3, <2>4, Zenon
<1>7. CASE UNCHANGED <<hold, decision, attempt, result, effect>>
  BY <1>7, Zenon DEF OneShot!vars
<1>. QED
  BY <1>1, <1>2, <1>3, <1>4, <1>5, <1>6, <1>7, ExecFrame, Zenon

(* Queued dispatch implements the one-shot task: one decision, at most one *)
(* effect, and money that follows them.                                    *)
THEOREM OneShotCorrect == Spec => ImplementsOneShot
  BY OneShotInit, OneShotStep, Inductive, PTL DEF Spec, ImplementsOneShot, OneShot!Spec

=============================================================================
