# AgentBridge in TLA+

AgentBridge puts a governance gateway between agents and the tools they call.
A call is admitted (identity, policy, approval, budget, idempotency claim),
invoked at a destination over some protocol, and settled; what cannot be settled
automatically is reconciled by a reviewer with evidence.  A call may also be
submitted as a task and executed later by a worker.  This directory models the
parts of the program whose correctness depends on concurrency, failure and
order, checks them with TLC on small instances, and proves the main results with
TLAPS for every instance.

## The system and its parts

| Part | Source (under `src/src/`) | Module |
|---|---|---|
| Governance gateway (`route_call`) | `governance/gateway.py` | `GovernedCall` (tenants), `ControlPlane` (single tenant) |
| Budgets, approvals, policy | `governance/budget.py`, `approvals.py`, `policy*.py`, `durable_policy.py` | `GovernedCall`, `ControlPlane` |
| Operation ledger, settlement, reconciliation | `governance/operation_ledger.py`, `owned_settlement.py`, `reconciliation.py` | `GovernedCall` |
| Control plane, identities | `api/control_plane.py`, `governance/identity.py`, `store.py` | `ControlPlane` |
| Tenant kernel | `governance/tenant_kernel.py` | `GovernedCall`, `QueuedDispatch`, `TaskIntents`, `TenantMigration` |
| Authority directory | `governance/authority.py` | `AuthorityDirectory` |
| Replay protection | `governance/durable_replay.py`, `request_auth.py` | `RequestReplay` |
| Admission quotas | `governance/admission_quotas.py` | `AdmissionQuotas` |
| Queued intents, admission links | `governance/task_intents.py`, `task_admission.py` | `TaskIntents` |
| Queued dispatch, recovery, review | `governance/queued_task_dispatch.py`, `task_execution_store.py`, `queued_manual_settlement.py` | `QueuedDispatch` |
| SQLite destinations, read-back | `governance/fenced_sqlite_destination.py`, `sandbox_readback.py` | `DestinationFile` |
| PostgreSQL fencing | `governance/pg_fencing.py`, `fenced_postgres_destination.py`, `schema_migrations.py` | `PgFence` |
| Task lifecycle and its readers | `protocols/durable_task_lifecycle.py`, `serve/tenant_task_stream.py`, `serve/a2a_status.py` | `TaskLifecycle`, `TaskStreams` |
| Stream leases | `governance/durable_stream_leases.py` | `StreamLease` |
| Audit log, checkpoints, witness | `governance/audit*.py`, `witness_journal.py`, `store.py` | `AuditChain` |
| Bounded journals | `governance/checkpoint_capacity.py`, `signing_journal_capacity.py`, `evidence_journal_capacity.py` | `RetainedJournals` |
| Signing trust | `governance/signing_trust_journal.py`, `observer_key_registry.py` | `SigningTrust` |
| Tenant migration | `governance/tenant_migration.py`, `tenant_store.py` | `TenantMigration` |
| Protocol adapters and translation | `protocols/` | `ProtocolHub` |
| Operator keys, rate limiter | `api/auth_oidc.py`, `api/ratelimit.py` | `OperatorKeys`, `RateLimit` |
| Egress, HTTP layer, clients, tools, telemetry | `proxy/`, `serve/`, `engine/`, `observability/` | not modelled |

The components and their status, with reasons, are in `PROJECT.json`; so are the
hazards each property is aimed at, and the source lines of every definition.

## How the parts interact

A synchronous call runs in one worker.  `_admit` enters the authority guard (a
shared lock that policy and enrollment writers take exclusively), reads a hint
on the operation, evaluates policy and budget, and then, in one SQL transaction,
claims the operation, reserves the cost and consumes the grant.  The worker
leaves the guard, invokes the destination, and `_settle` charges or keeps the
reservation and records the outcome and its audit entry in one transaction.  A
failed or canceled call leaves an operation `unknown` with its reservation held;
`Reconciler.record` settles it later.

A queued task separates these steps.  `submit_task` retains an immutable intent.
`_admit_queued_intent` performs the same admission transaction and links it to
the task.  `dispatch_once` takes the authority guard, acquires a fence at the
destination, commits the one immutable attempt, and only then calls the
destination.  Whether the call is answered or not, `recover` reads the
destination back and `_finish_verified` settles from what was read; an operator
may do the same with a signed review; `cancel` closes a task that has no attempt
and otherwise only records the request.

Around these two paths stand the parts that decide who may call (authority,
nonces, quotas, operator keys), that carry calls and answers (adapters, streams,
the task history), and that keep what must be believed later (audit, journals,
signing keys, tenant stores).  They meet the paths above at one transaction or
one answer each, and are modelled by themselves, with the locks and tables that
their own actors share.

## Modules

### `GovernedCall` - a synchronous call

| State | Code |
|---|---|
| `pc`, `needs`, `cancelled` | the worker's position and memory in `route_call` |
| `active`, `sensitive`, `blocked` | enrollments, `sensitive_capabilities`, policy rules |
| `approval` | the `approvals` row a call requested |
| `limit`, `rate`, `spent`, `recent`, `reserved` | the budget record of an agent |
| `op`, `resv`, `reconciled` | `agent_operations`, `operation_reservations`, `operation_reconciliations` |
| `audit` | the `route_call` and `reconcile_operation` entries |
| `sent`, `dest` | what left for the destination, and what it durably decided (external) |

One action is one committed transaction or one guarded read.  `BeginAdmission`,
`AuthorizePolicy`, `AuthorizeBudget`, `AdmitTransaction`, `AdmitRolledBack`,
`AuditDeny` and `AdmissionFails` are admission; `Cancel`, `AbortAdmission` and
`AbortFails` the departure of the caller; `Invoke`, `InvokeReturns`,
`InvokeRaises`, `Settle`, `SettleFails` and `InvocationFailed` the rest of
`route_call`; `Crash` the death of the worker at any point.  Operators approve,
set budgets, mark capabilities sensitive, add rules, enroll and revoke; the
reconciler settles with or without evidence.

Abstractions.  A capability is sensitive or blocked, whatever rule made it so.  A
quota denial is possible at every new claim.  Administrative audit entries are
left out.  The SQLite guard is exclusive in the code and shared in the model,
which allows more interleavings.  The destination decides each operation once,
as its receipts say.  An error answer of a tool is a normal return.

### `OperationEscrow` - what `GovernedCall` promises

Per agent a limit, money charged and money held; per operation a phase.  A hold
is taken only within the limit, and is charged or given back exactly once.

### `QueuedDispatch` - a queued task

| State | Code |
|---|---|
| `deadline`, `ample`, `floor` | the intent: `authorization_expires_at`, result allowance, approval required at submission |
| `grant` | the approval rows of the queued action scope |
| `status`, `seq` | `task_lifecycle_snapshots` |
| `op`, `hold`, `link` | operation, reservation, `task_operation_links_v1` |
| `decision`, `attempt`, `result`, `cancelRequest` | the three tables of `TaskExecutionStore` |
| `fence`, `effect` | `ab_destination_fences`, `ab_queued_effects_v2` at the destination |
| `revoked`, `rule`, `now` | authority, policy and the clock |
| `pc`, `job`, `lease`, `auth` | a worker inside `dispatch_once`, `recover` or a review |

`Accept`, `Admit` and `AdmitRejected` lead to the link.  `Start`, `Guard`,
`CloseSmall`, `AcquireFence`, `FenceDenied`, `CommitAttempt`, `DispatchRefused`,
`DestinationCommits` and `DestinationRefuses` are `dispatch_once` from top to
bottom.  `Recover`, `Observe`, `Finish` and `RecoverEnds` are `recover`;
`PrepareReview` and `Reconcile` the operator's path; `CancelQueued` is `cancel`.
The environment moves the clock, kills workers, revokes, changes rules, decides
approvals, claims the operation id by a direct call, and moves the task through
its lifecycle as an embedding service may.

Abstractions.  An attempt is its worker, fence epoch and expiry: the random
attempt id is unique, and so is an epoch of a fence.  Bytes, digests and
signatures are left out: a record at the destination is that of an attempt or is
not.  Workers and destination read one clock.  Approval rows of one scope are
interchangeable, so that one status stands for them.  Budget limits, quotas,
capacity and configuration checks can only refuse; a refusal that changes nothing
is no step of the model.  A revoked binding stays revoked, because enrolling
again changes its revision.

### `OneShotTask` - what `QueuedDispatch` promises

Per task a hold, a decision and whether it was done.  Exactly one of attempt and
close is decided; only an attempt is performed, at most once; the hold is
charged only after that, and released only with the close.

### `TaskLifecycle`, `TaskStreams` - a task's history and its readers

`state`, `events` and `bytes` are the snapshot and event rows, `historyCap` and
`eventCap` the two policy rows, `view` what an embedding client read before its
update.  `Create`, `Transition` and the four capacity operations are transactions
under one advisory lock, with the count and byte reserve an unfinished task holds
for its remaining events.  `TaskStreams` adds readers: `cursor` and `page` of the
server, `wire` and `got` of the client, one step per poll, send, snapshot read and
loss of the connection.  The three servers (`watch`, tenant stream, A2A observer)
differ in when they consider a history over; sizes are units.

### `StreamLease` - slots and fleet allocations

`total`, `perOwner`, `holding` and `calls` are `_Streams` of each process and the
release closures still to run; `rows`, `expires` and `deadline` the shared
`stream_leases_v1`.  A client may leave while SQL is running, cleanup may fail, a
process may die with its slots, and authority may be revoked; expiry is by
database time.

### `AuthorityDirectory`, `RequestReplay`, `AdmissionQuotas` - who may call

`AuthorityDirectory` keeps platform, tenant, member, agent and delegation rows
with their revisions; `sessions` are principals that carry the revisions they
were minted from, `guarding` those inside a guard.  Every enrollment operation is
an action under the exclusive lock.  `RequestReplay` models the three nonce
mechanisms with the clock read before the lock; all workers read one clock.
`AdmissionQuotas` splits an admission where PostgreSQL takes a new snapshot:
budgets, operations, and the three inserts; releases without quotas insert beside
it, settlements run in between, and the window moves.

### `TaskIntents` - retained intents and admission links

`tables`, `policy`, `intents`, `linkTables`, `linkShape` and `links` are the two
schemas and their rows, `tx`, `taskLock` and `opLock` the open transactions and
advisory locks.  Transactions are split where they wait for a lock.  Connections
may run at READ COMMITTED or REPEATABLE READ; a restore may bring back part of
the tables while no worker runs.  A restore that loses all tables, and the
reviewed recovery from one, are outside the contract of the code and the model.
A synchronous call may take the operation of an accepted intent: the code allows
it, the intent is then never admitted and keeps its capacity.

### `DestinationFile`, `PgFence` - destinations

`DestinationFile` is one SQLite file (`objects`, `bound`, `fence`, `v1`, `v2`)
that fenced, sandbox and queued processes open in any order; `writer` is the
holder of its write lock, which a signing callback may keep for a long time.  A
v1 commit may land after its lease ran out, because signing was slow; no successor
can exist then, since `acquire` needs the same lock, and `EpochOrder` says so.
`PgFence` has the lease row, the open transactions and the two statements of a
fenced commit, with the migration that creates and drops the table.

### `AuditChain`, `RetainedJournals`, `SigningTrust` - what is believed later

A hash is the sequence of bodies it commits to.  `AuditChain` has the log with its
limits and counters, holds, retained evidence, the truncation job of each worker
in its three steps, signed and registered checkpoints, exports and the witness
journal; the database may be restored to an earlier state.  `RetainedJournals`
describes each schema object of the three bounded journals as exact, altered or
absent; objects are lost one at a time, TEMP objects shadow tables, and older
releases write without knowing of limits.  `SigningTrust` has stored envelopes
(each the whole chain it commits to), the minimum revisions a process remembers,
and settlements that hold the shared lock from key resolution to commit.
Controllers sign what they like; publication must refuse what is not a lawful
successor.  Digests are injective.  In the scene `rotation`
controllers sign one envelope per revision, in `conflict` two.

### `ControlPlane` - the single-tenant gateway

The handlers of the control plane and `route_call` without an authority guard,
over the in-memory, SQLite and PostgreSQL stores; one agent, because budgets and
approvals of agents are independent.  `seen` is the row `mutate_budget` has read
and not yet written (PostgreSQL only), `revoking` the identity a revocation has
read, `acked` the last limit an operator was told is stored; `site` is the
deployment: which store, calls, workers and rules it has.  The checks that can
only refuse (operator authentication, roles, capability allowlists, target
resolution) are left out; nonces are in `RequestReplay`.  The worker's identity
cache is kept because the code keeps it, although lookups read the store.

### `TenantMigration` - stores and their assignment

`db` has marker, binding and tables of each namespace, `handle` the open tenant
stores, `archive` the backup.  Freeze, backup, restore check, activation and
rollback are actions; old releases, tenant processes and copies of the archive
run between them.  Rows stand for any stored content, and writers only add them.
The check of a writer's scope and its write are one transaction in the code and
one step here; the owner check of the authority store is abstracted.

### `ProtocolHub`, `OperatorKeys`, `RateLimit`

`ProtocolHub` has the decoders and encoders of six protocols as far as decoders
tell requests apart, and relays a call or a reply hop by hop until it is routed.
The wording of `best_text` and the error flag of a reply are left out.
`OperatorKeys` has the key cache, its lock and the provider; that a fetch ends
within `FetchTime` is an assumption, because the timeout in the code is per socket
operation.  `RateLimit` reads the clock before the lock, as the code does.

## Runs

Six runs instantiate several components at once.  Their modules (`MCProgress`,
`MCLimits`, `MCTenancy`, `MCControl`, `MCJournals`, `MCDispatch`) choose in the
initial state a *scene*, one instance of one component; only that component
moves, and the variables of the others are off (or, in `MCControl` and
`MCDispatch`, which extend the modules the theorems are about, rest in their
initial state).  In `control` the scene of the control plane begins at one of
three sites, one per store.  Each behaviour of the run is thus a behaviour of one component, and every
property says for each scene what it requires there.  This checks the components
side by side; it does not compose them, which is sound because they share no
variable.  The compositions that do interact are `GovernedCall`,
`QueuedDispatch`, `ControlPlane` and `TaskStreams` themselves.

| Run | Instance | Properties |
|---|---|---|
| `retry` | two attempts at one operation and a call without an operation id; evidence required | `TypeOK`, `AtMostOneInvocation`, `OutcomeFaithful`, `GrantsSpentOnce`, `SettledIsFinal`, `AdmissionFollowsPolicy`, `WorkersFinish` |
| `share` | two operations of one agent and one budget; review without evidence | `HoldsMatchLedger`, `BudgetConserved`, `AuditTellsOutcome`, `ImplementsEscrow` |
| `queued_race` | one task, two kernel processes | `EffectIsTheAttempt`, `EffectUnderAuthority`, `DecisionUnderPolicy`, `ImplementsOneShot` |
| `queued_recovery` | one task, one kernel process, an embedding service that pauses, resumes and fails it | `TypeOK`, `EffectSettleable`, `MoneyFollowsEvidence`, `EndedTaskStaysEnded`, `ReviewUnderAuthority`, `SlotReleased` |
| `progress` | two readers of a task; three streams in two processes; two threads that need a key | `ReplayedToTheEnd`, `EveryWaitEnds` |
| `limits` | tasks at capacity, two updating clients, streams of two owners in two processes, observers that release more than once, two workers at a quota, one rate-limited client, two nonces | `TaskHistoryKept`, `AllocationsBounded`, `AdmissionsBounded`, `RequestsOnce` |
| `tenancy` | a delegation and its grantor, administrators of two tenants, namespaces being assigned | `AuthorityCurrent`, `MigrationKeepsHistory` |
| `control` | three calls over each store, chains of three hubs, two key lookups | `ChargesKept`, `EffectsAuthorized`, `IntentKept`, `ReplyTextKept`, `KeysCurrent` |
| `journals` | two workers that append and truncate, a witness and a restore, a log in memory, every journal with three damages, key rotations read by two processes | `AuditProvable`, `JournalsKept`, `TrustAtHead` |
| `dispatch` | three workers over partly restored intents, five processes on one file, two leaders | `IntentHistory`, `EffectHistory`, `FenceHistory` |
| `control_lost_put` | the control plane over PostgreSQL | `AckedLimitStands`, violated |
| `fence_dropped` | the fence scene of `dispatch` | `FencesKept`, violated |

The first four show that a retry never invokes twice, that a recorded outcome
agrees with the destination, that one grant admits one call and that an admission
obeys the policy in force when it commits; that spent plus held money never
exceeds the limit in force and no hold is lost or taken twice; that cancellation,
dispatch by two processes, recovery and review of one task cannot produce two
effects, an effect without its attempt, or one under expired or revoked authority;
and that nothing after an effect makes it impossible to settle, except that a
paused task has to be resumed first (from `input-required` or `auth-required`
there is no transition to `completed`, so `_finish_verified` rolls back and
`recover` returns with the operation still unknown).

`progress` shows that a reader that stops by itself has sent the last event, and
that readers, slots and key lookups do not wait for ever.  `limits` shows that a
saturated task can still end, that fleet limits hold over all processes although
leases expire and clients leave half-way, that caps hold although settlements and
older releases run beside an admission, and that a nonce works at most once while
it is fresh.  `tenancy` shows that no principal is usable after a row it rests on
changed, that an administrator always remains, and that history is assigned once,
with a backup, and never discarded.  `control` shows what the single-tenant
gateway keeps without an authority guard, and that what policy decided on is what
the agent is given.  `journals` shows that checkpoints keep verifying through
retention, that the witness is never made to contradict itself, that limits
survive the loss of single objects, and that a rolled back key history is never
used.  `dispatch` is described with its theorems.

Every property has fault variants of some definition (`PROJECT.json`, `mutants`),
one for most of its conjuncts, under which TLC finds it violated.

### Disagreements between code and documentation

The two violation runs:

- `control_lost_put`.  `PostgresStore.mutate_budget` reads the budget row without
  locking it, under an advisory lock that `upsert_budget` does not take.  A PUT of
  a budget that commits in between is acknowledged and then overwritten, although
  `control_plane.py` logs that with a durable store "audit chain, budgets, AND
  approvals are multi-worker safe".  Where a mutation is
  atomic, in memory and over SQLite, the same property holds and is proved
  (`ChargesKept`).
- `fence_dropped`.  `FencingMigration.rollback` counts the leases and drops the
  table in two statements; a lease granted in between is dropped and epochs begin
  again at 1, although "Rollback never silently drops existing operator data".
  This is why `EffectsInOrder` speaks of the time before a rollback.

Others met while modelling, which the properties above are worded to exclude:

- `watch` (SDK iterator) reads an empty page and then the snapshot, and may return
  without the event that ended the task; the two HTTP streams compare the sequence
  as well, and only they are instantiated in `progress`.
- A v1 target that opens an empty file while a queued process initialises it can
  add its table to the queued file, which is then refused by
  `_qualify_queued_destination`; no effect is lost or mixed (`OneContract`).
- `InMemoryStore.truncate_audit_before` may remove the whole log, after which the
  chain restarts and earlier checkpoints no longer verify; the SQL stores refuse
  it.  The in-memory scene therefore checks the chain, not checkpoints.
- `claim_nonce` computes its cutoff before it waits for the lock, so a claim that
  runs late can be accepted a second time, always after the nonce's own window.
- `PUT /control/budgets` stores a fresh record, so an operation whose outcome is
  unknown loses its reservation.
- A text-only call is encoded for protocols without text as a call with an empty
  name, and the AGNTCY encoder drops the text form its docstring promises.
- A fixed window whose opening thread waited for the lock is dated back: three
  windows' worth of requests can fall into one window's length, not two.

### Bounds, and why they are enough

- `Calls` of two or three: a retry needs two calls of one operation, a shared
  budget two operations; costs 1 and 2 against limits 2 and 3 make the budget
  bind for one, both or neither; rates 1 and 2 do the same for the rate.
- One queued task: tasks share nothing in the model but policy and clock.  Two
  workers: every conflict in `dispatch_once` is between two holders of the task,
  and a third would be refused by the same fence.
- `AuthLife` 3, `GuardLife` 2 or 3, `CallTimeout` 1 (a fence lives 2) and
  `MaxTime` 4: a fence expires and changes hands while the first holder is still
  running, and attempt, guard and request each expire first in some behaviour.
- `MaxSeq` 2 or 3 lets the embedding service act before and after admission, and
  in `queued_recovery` pause and resume.
- In the scenes, two or three actors compete for small limits, so that each
  limit is reached and one more is asked for.  Leases (life 2, 3 ticks), rate
  windows (2 of 6), nonces (window 2, 10 ticks) and cached keys (life 3, 4 ticks)
  run out while something still uses them.  Quotas have one tick, which moves the
  window past everything admitted before it.  In `progress` time only has to let
  a lease run out once.
- Pages hold two of three events, so that a history ends in the middle of a page;
  a chain has three hubs; a database is restored once; three objects of a journal
  are lost or altered.  The scene `delegation` begins after the enrollment that
  five writes reach, so that its two writes are changes to it.
- Symmetry is used in `queued_race` (workers), `limits` (operations) and
  `tenancy` (tables, tenants of the stores, archives), whose definitions treat
  the members alike; none of them checks liveness.

### Fairness

`WorkersFinish`, `SlotReleased` and `EveryWaitEnds` assume fairness of a thread's
own steps, and of nothing else.  A thread in `route_call` or `dispatch_once` keeps
running, and the code bounds every wait in it: `TenantSession.route` puts a
deadline on the invocation, SQL and destination waits have timeouts, and each
exception is handled or ends the call.  A reader's server polls and its client
reconnects; a stream's threads finish, its response timeout fires and its
`finally` clauses run.  A thread that waits for the key cache gets the lock if it
is free again and again (strong fairness), and a fetch ends by its timeout.  No
fairness is assumed of clients, operators, reviewers, destinations or clocks.

## Theorems

| Theorem | States |
|---|---|
| `TypeCorrect`, `HoldsCorrect`, `BudgetCorrect`, `InvokedOnce`, `OutcomeCorrect`, `GrantsCorrect`, `AuditCorrect` | the invariants of `GovernedCall` |
| `SettledFinal`, `AdmissionCorrect` | its action properties |
| `EscrowCorrect` | `GovernedCall` implements `OperationEscrow` |
| `EffectCorrect`, `MoneyCorrect`, `SettleableCorrect` | the invariants of `QueuedDispatch` |
| `AuthorityCorrect`, `PolicyCorrect`, `EndedCorrect`, `ReviewCorrect` | its action properties |
| `OneShotCorrect` | `QueuedDispatch` implements `OneShotTask` |
| `CapacityCovers`, `IdentitiesUsedOnce`, `LinksAreAdmissions`, `HistoryServedWhole`, `CancellationsStand`; together `IntentHistoryKept` | `TaskIntents` |
| `AttestationsStand`, `ContractSafe`, `QueuedEffectsSafe`, `EpochsOrdered`; together `EffectHistoryKept` | `DestinationFile` |
| `FenceTypeCorrect`, `EffectsHoldTheLease`, `LeasesStayExpired`, `EffectsOrdered`; together `FenceHistoryKept` | `PgFence` |
| `ChargesAlwaysKept`, `EffectsAlwaysAuthorized` | `ControlPlane` over all three stores |
| `IntentPreserved` | `ProtocolHub` |
| `KeysStayCurrent` | `OperatorKeys` |

Each is in the module named after its component with `Proofs` appended;
`DestinationProofs` has both destinations.  They hold for every finite set of
calls and of submissions, any sets of tasks, workers, processes, leaders,
operations, threads and keys, any messages and chains of hubs, and any costs,
limits and lifetimes that the assumptions below admit.  `Inductive` and
`TypeCorrect` of `QueuedDispatch` are proved as well.

Assumptions, all evaluated by TLC in the runs.  `CallsAssumption`,
`TimeAssumption`, `BudgetAssumption`, `SitesAssumption`, `CapacitiesAssumption`
and `KeysAssumption` type the constants (the budget's leaves a limit free to be
negative, as the code does).  `ScopeAssumption` says that an operation key
contains its agent and that equal fingerprints mean equal requests.  The two
`CostSumAssumption`s and `RetainedSumAssumption` characterize a sum by adding one
call or one row: the sum itself would be a recursion, and the runs give it by
`MapThenSumSet`.  `WorkersAssumption`, `AttemptAssumption` and `OwnerAssumption`
keep the markers for "none" apart and restrict an embedding service to lifecycle
states other than the initial one.  `IntentsAssumption`, `DestinationAssumption`,
`FenceAssumption` and `HubAssumption` type the constants of their modules and keep
markers apart.

**`GovernedCall`.**  `BudgetConserved` is not inductive: that a settlement charges
a cost that is really held needs to know which call owns which operation.
`WorkerInv` says what a worker at each position owns and has checked, `LedgerInv`
that an operation exists exactly when a call past admission claimed it, and
`DestInv` how each outcome stands with the destination.  `IInv` joins these with
the types and the safety invariants.  `GovernedCallStructure` proves step by step
that types, structure, holds and budget are kept; `GovernedCallProofs` the rest of
`IInv`, the invariants, the action properties and the refinement.

**`QueuedDispatch`.**  That an effect is the recorded attempt's depends on what a
worker holds between the commit and the call: `WorkerInv` says that a worker past
the commit holds exactly the recorded attempt, that a guarded worker's agent is
enrolled, and that what was observed is still there.  `TaskInv` ties link, hold,
decision, grant and status together, and bounds an attempt by its intent's
deadline.  `IInv` adds `MoneyFollowsEvidence` and `EffectIsTheAttempt`.
Two frame lemmas list the seven actions in which money, decisions and effects can
change and the seven in which a lifecycle can; the action properties and the
refinement consider only these.

**`TaskIntents`.**  That two retained intents never share an identity depends on
what an acceptance saw after it got the lock: `TxServed`, `TxFresh` and `TxClaims`
say that only READ COMMITTED workers serve, that the rows a holder of the lock has
read are the current ones, and that an admission holds the lock of an operation
nobody has claimed.  `WholeOrDamaged` says that the history is whole or
one of the schemas shows the damage, so that no constructor serves the rest.  That
the policy covers what is retained needs `LimitsFresh` besides (the policy that a
holder of the lock has read is the one in force) and `EmptyAtFirst` (nothing is
retained before the tables exist).

**`DestinationFile`.**  `LockHeld` says that a process that is signing holds the
write lock, so that nothing changes what it checked; `V1Opened` and `QueuedOpened`
what the schema looks like once a process of that kind got past its constructor;
`FenceNewest` that no fenced effect has a larger epoch than the fence row, and
that a process signing one holds the row's epoch.  `EffectInWindow` is inductive
with these.  `DInv` adds that every attestation is that of a row of the file and
that what a fenced process signs is not written yet.

**`PgFence`.**  `OneLock` says that the row lock has one holder and the row
exists, `Covered` that a commit past its check is still the one the row names.
`EffectsInOrder` needs in addition `RowNewest`: until a rollback begins, no effect
is newer than the row; and the type invariant `LeaseBounded`.

**`ControlPlane`.**  Over PostgreSQL a budget is read in one step and written in
another, so an invariant of the stored row alone is not inductive.  `BudgetInv`
says of the row a mutation has read what it says of the stored one (within its
limits, tokens only of calls under way), that at most one call has read and not
written, and that, until an operator replaces the budget, the row read is still
the row stored, holds a token of every call that will be charged and has spent
exactly the cost of the calls that are done.  Where mutations are atomic nothing
is read ahead, and the acknowledged limit is the stored one.  `FlowInv` counts,
per request, the calls that had an effect or are about to have one under a grant,
against the grants consumed; it also says how far a call with an effect has got,
what the audit says of it once it is over, and that a call received after a
revocation is refused.  Every step moves one call, so both invariants are proved
through lemmas about what one move does to a row, to a set of tokens and to the
two counts.

**`ProtocolHub`.**  The heart is a lemma per protocol: what a hub writes for a
call, its decoder reads back as the same action, and as no action if there was
none.  `HubInv` says that the message under way carries the action the first hub
decoded, and id and text as far as the protocols passed so far carry them, after
any number of hops; that a client's message of any number of parts is decoded to
something well formed, or refused, is proved apart.  First and last parts are
chosen by position, which needs that positions have a least element.

**`OperatorKeys`.**  `EntriesBacked` says that a cached key belongs to the last
set fetched and had been published no earlier than one fetch before its
entry was stamped; `OneFetch` that the lock has one holder and when its fetch
began; `AttemptStamped` that no fetch is later than the attempt recorded last.

Only model-checked: the liveness properties (`WorkersFinish`, `SlotReleased`,
`EveryWaitEnds`), because fairness is out of the prover's reach; `ReplyTextKept`,
because the text of a reply is a fold over any number of blocks, of which only an
induction could say what it is; `ReplayedToTheEnd`, whose reader merges
sequences; `TaskHistoryKept`, `AdmissionsBounded`, `AuditProvable`, `JournalsKept`
and `TrustAtHead`, which rest on sums over sets or on chains of hashes defined by
recursion; and `AllocationsBounded`, `RequestsOnce`, `AuthorityCurrent` and
`MigrationKeepsHistory`, which have no proof yet.

## Not modelled

- The egress controls (`proxy/`): checks on the names, addresses and bytes of one
  connection, in one coroutine without shared state.
- The first translation engine: renaming of fields in nested JSON, which depends
  on data that a model abstracts.
- The tenant HTTP layer, the MCP gateway and the clients: they parse, resolve
  configuration and call the kernel.
- Cryptography, wire formats, schema creation, retries of transactions that were
  rolled back (`retry_transient`), command lines, configuration and telemetry.

`PROJECT.json` lists every part with its status and the reason, the hazards each
property is aimed at, and the source lines of every definition.
