---------------------------- MODULE TaskIntents ----------------------------
(***************************************************************************)
(* The retained queued-intent store (TaskIntentStore), its operator-set    *)
(* capacity, and the immutable admission links (TaskAdmissionStore) of one *)
(* tenant on PostgreSQL.  Each worker process owns one connection and runs *)
(* one transaction at a time.  Acceptance and capacity changes hold the    *)
(* lifecycle advisory lock 911006; an admission holds the operation's lock *)
(* first and 911006 only for the link; a synchronous call takes the        *)
(* operation's lock alone.  Transactions are split where they wait for a   *)
(* lock, so what was read before the wait can be stale after it.  The      *)
(* tables may be restored incompletely while no worker runs.               *)
(***************************************************************************)
EXTENDS Integers, FiniteSets

CONSTANTS
    Workers, Submissions, Tasks, Ops, None,
    TaskOf, OpOf,    \* the (owner, task) and (agent, operation) submitted
    SizeOf,          \* the encoded bytes of the retained record
    Isolation,       \* the isolation level each worker's connection runs at
    Default,         \* IntentLimits()
    Capacities,      \* what operators may set the policy to
    RetainedSum      \* RetainedSum[rows]: the bytes of the rows' records and allowances

(* The result allowances a policy may set aside, and the contents the      *)
(* intent table can have.                                                  *)
Allowances == {c.resultBytes : c \in Capacities}
RowSets == [Submissions -> Allowances \cup {None}]

ASSUME IntentsAssumption ==
    /\ TaskOf \in [Submissions -> Tasks] /\ OpOf \in [Submissions -> Ops]
    /\ SizeOf \in [Submissions -> Nat \ {0}]
    /\ Isolation \in [Workers -> {"read committed", "repeatable read"}]
    /\ Default \in Capacities
    /\ None \notin Workers \cup Submissions /\ "direct" \notin Submissions

(* IntentLimits holds natural numbers.                                     *)
ASSUME CapacitiesAssumption ==
    /\ IsFiniteSet(Submissions)
    /\ \A c \in Capacities :
          c.intentBytes \in Nat /\ c.resultBytes \in Nat /\ c.items \in Nat /\ c.bytes \in Nat
    /\ None \notin Capacities /\ None \notin Allowances

(* RetainedSum is the sum of SizeOf[i] + rows[i] over the rows retained.   *)
ASSUME RetainedSumAssumption ==
    /\ RetainedSum \in [RowSets -> Nat]
    /\ RetainedSum[[i \in Submissions |-> None]] = 0
    /\ \A rows \in RowSets, i \in Submissions, a \in Allowances :
          rows[i] = None =>
              RetainedSum[[rows EXCEPT ![i] = a]] = RetainedSum[rows] + SizeOf[i] + a

VARIABLES
    tables,      \* which of the three intent tables exist
    policy,      \* the policy row
    intents,     \* the rows of task_intents_v1: the result allowance, or None
    linkTables,  \* which of the two link tables exist
    linkShape,   \* whether they have the columns, keys and digest of version 1
    links,       \* the submissions with a row in task_operation_links_v1
    task,        \* the current lifecycle state
    op,          \* who claimed the operation: a submission, "direct", or None
    up,          \* workers whose stores opened
    tx,          \* the transaction each worker has open
    taskLock,    \* the holder of 911006
    opLock       \* the holder of each operation's advisory lock

schemaVars == <<tables, policy, linkTables, linkShape>>
rowVars == <<intents, links, task, op>>
txVars == <<tx, taskLock, opLock>>
vars == <<schemaVars, rowVars, up, txVars>>

IntentTables == {"task_intents_v1", "task_intent_policy_v1", "task_intent_meta_v1"}
LinkTables == {"task_operation_links_v1", "task_operation_links_meta_v1"}

Idle == [kind |-> "idle"]
Accepted(rows) == {i \in Submissions : rows[i] # None}
Retained(rows) == RetainedSum[rows]

Init ==
    /\ tables = {} /\ policy = None /\ intents = [i \in Submissions |-> None]
    /\ linkTables = {} /\ linkShape = "v1" /\ links = {}
    /\ task = [t \in Tasks |-> "none"] /\ op = [o \in Ops |-> None]
    /\ up = {} /\ tx = [w \in Workers |-> Idle]
    /\ taskLock = None /\ opLock = [o \in Ops |-> None]

-----------------------------------------------------------------------------
(* Opening the two stores.                                                 *)

(* Fault variant: any isolation level is served.                           *)
AnyIsolation(w) == TRUE

(* The isolation check of _transaction, of the insert trigger and of       *)
(* TaskAdmissionStore._mode.                                               *)
ReadCommitted(w) == Isolation[w] = "read committed"

(* Fault variant: the persisted policy is not read back.                   *)
OpenIntentsUnread ==
    /\ tables \in {{}, IntentTables}
    /\ tables' = IntentTables
    /\ policy' = IF tables = {} THEN Default ELSE policy

(* TaskIntentStore.__init__: all three tables or none; a new schema starts *)
(* with the default policy; _policy refuses a missing row.                 *)
OpenIntents ==
    /\ tables \in {{}, IntentTables}
    /\ tables' = IntentTables
    /\ policy' = IF tables = {} THEN Default ELSE policy
    /\ policy' # None

(* TaskAdmissionStore._qualify: columns, keys and the version's digest.    *)
Qualified == linkShape = "v1"

(* Fault variant: CREATE TABLE IF NOT EXISTS without the check that both   *)
(* or neither table exists.                                                *)
OpenMissingLinks == linkTables' = LinkTables /\ Qualified

(* TaskAdmissionStore.__init__.                                            *)
OpenLinks ==
    /\ linkTables \in {{}, LinkTables}
    /\ linkTables' = LinkTables
    /\ Qualified

(* A worker starts (TenantKernel.__init__): the constructors run one after *)
(* the other, each in its transaction.  The worker serves once both have   *)
(* returned; a refusal by the second, or a crash before it, leaves what    *)
(* the first one created.                                                  *)
Open(w) ==
    /\ w \notin up /\ ReadCommitted(w)
    /\ taskLock = None
    /\ OpenIntents
    /\ \/ OpenLinks /\ up' = up \cup {w}
       \/ UNCHANGED <<linkTables, up>>
    /\ UNCHANGED <<linkShape, rowVars, txVars>>

(* A restore performed with every worker stopped brings back only some of  *)
(* the tables of one store, or the link tables in another shape, or the    *)
(* policy table without its row.                                           *)
Restore ==
    /\ up = {} /\ tables = IntentTables /\ linkTables = LinkTables /\ linkShape = "v1"
    /\ \/ \E kept \in (SUBSET IntentTables) \ {{}, IntentTables} :
             /\ tables' = kept
             /\ policy' = IF "task_intent_policy_v1" \in kept THEN policy ELSE None
             /\ intents' = IF "task_intents_v1" \in kept THEN intents
                           ELSE [i \in Submissions |-> None]
             /\ UNCHANGED <<linkTables, linkShape, links>>
       \/ \E kept \in LinkTables :
             /\ linkTables' = {kept}
             /\ links' = IF kept = "task_operation_links_v1" THEN links ELSE {}
             /\ UNCHANGED <<tables, policy, intents, linkShape>>
       \/ /\ linkShape' = "other" /\ links' = {}
          /\ UNCHANGED <<tables, policy, intents, linkTables>>
       \/ /\ policy' = None
          /\ UNCHANGED <<tables, intents, linkTables, linkShape, links>>
    /\ UNCHANGED <<task, op, up, txVars>>

(* A worker process dies: its transaction rolls back, its locks are gone.  *)
Crash(w) ==
    /\ w \in up
    /\ up' = up \ {w}
    /\ tx' = [tx EXCEPT ![w] = Idle]
    /\ taskLock' = IF taskLock = w THEN None ELSE taskLock
    /\ opLock' = [o \in Ops |-> IF opLock[o] = w THEN None ELSE opLock[o]]
    /\ UNCHANGED <<schemaVars, rowVars>>

-----------------------------------------------------------------------------
(* Transactions under 911006.                                              *)

(* The snapshot a repeatable-read transaction would keep from its first    *)
(* statement on, which is the one that waits for the lock.                 *)
Begin(w, request) ==
    /\ w \in up /\ tx[w] = Idle
    /\ ReadCommitted(w)
    /\ tx' = [tx EXCEPT ![w] = [kind |-> request.kind, on |-> request.on, lock |-> "waiting",
                                rows |-> intents, limits |-> policy]]
    /\ UNCHANGED <<schemaVars, rowVars, up, taskLock, opLock>>

BeginAccept(w) == \E i \in Submissions : Begin(w, [kind |-> "accept", on |-> i])
BeginSetCapacity(w) == \E c \in Capacities : Begin(w, [kind |-> "capacity", on |-> c])

(* pg_advisory_xact_lock(911006) in _transaction.                          *)
TakeTaskLock(w) == taskLock = None /\ taskLock' = w

(* The lock is taken; at READ COMMITTED the statements after it see what   *)
(* is committed now.                                                       *)
Locked(w) ==
    /\ tx[w].kind \in {"accept", "capacity"} /\ tx[w].lock = "waiting"
    /\ TakeTaskLock(w)
    /\ LET fresh == Isolation[w] = "read committed" IN
       tx' = [tx EXCEPT ![w] =
                [kind |-> @.kind, on |-> @.on, lock |-> "held",
                 rows |-> IF fresh THEN intents ELSE @.rows,
                 limits |-> IF fresh THEN policy ELSE @.limits]]
    /\ UNCHANGED <<schemaVars, rowVars, up, opLock>>

(* The end of a transaction that held 911006.                              *)
Release(w) ==
    /\ tx' = [tx EXCEPT ![w] = Idle]
    /\ taskLock' = IF taskLock = w THEN None ELSE taskLock
    /\ UNCHANGED <<schemaVars, up, opLock>>

(* Fault variant: only the task's identity is looked up.                   *)
ConflictByTask(i, rows) ==
    \/ \E j \in Accepted(rows) : TaskOf[j] = TaskOf[i]
    \/ task[TaskOf[i]] # "none"

(* The three lookups of _accept.                                           *)
Conflict(i, rows) ==
    \/ \E j \in Accepted(rows) : TaskOf[j] = TaskOf[i] \/ OpOf[j] = OpOf[i]
    \/ task[TaskOf[i]] # "none"
    \/ op[OpOf[i]] # None

(* The capacity test of _accept, made again by the insert trigger.         *)
Fits(i, rows, limits) ==
    /\ SizeOf[i] <= limits.intentBytes
    /\ Cardinality(Accepted(rows)) < limits.items
    /\ Retained(rows) + SizeOf[i] + limits.resultBytes <= limits.bytes

(* submit_task's transaction: the row, the submitted task and the audit    *)
(* event, or a refusal that leaves nothing.                                *)
Accept(w) ==
    /\ tx[w].kind = "accept" /\ tx[w].lock = "held"
    /\ LET i == tx[w].on IN
       IF Conflict(i, tx[w].rows) \/ ~Fits(i, tx[w].rows, tx[w].limits)
       THEN UNCHANGED rowVars
       ELSE /\ intents' = [intents EXCEPT ![i] = tx[w].limits.resultBytes]
            /\ task' = [task EXCEPT ![TaskOf[i]] = "submitted"]
            /\ UNCHANGED <<links, op>>
    /\ Release(w)

(* "capacity cannot discard retained intent history or result allowances". *)
Covers(limits, rows) ==
    /\ Cardinality(Accepted(rows)) <= limits.items
    /\ Retained(rows) <= limits.bytes

(* set_capacity, and the audit event in the same transaction.              *)
SetCapacity(w) ==
    /\ tx[w].kind = "capacity" /\ tx[w].lock = "held"
    /\ policy' = IF Covers(tx[w].on, tx[w].rows) THEN tx[w].on ELSE policy
    /\ tx' = [tx EXCEPT ![w] = Idle]
    /\ taskLock' = IF taskLock = w THEN None ELSE taskLock
    /\ UNCHANGED <<tables, linkTables, linkShape, rowVars, up, opLock>>

(* The owner cancels a task that was not admitted yet.                     *)
CancelTask(w, t) ==
    /\ w \in up /\ tx[w] = Idle /\ taskLock = None
    /\ task[t] = "submitted"
    /\ task' = [task EXCEPT ![t] = "canceled"]
    /\ UNCHANGED <<schemaVars, intents, links, op, up, txVars>>

-----------------------------------------------------------------------------
(* Admission of a retained intent, and synchronous calls.                  *)

(* Fault variant: a claim replaces whatever holds the operation.           *)
ClaimableAlways(o) == opLock[o] = None

(* OperationLedger.claim: the operation's lock, and no row yet.            *)
Claimable(o) == opLock[o] = None /\ op[o] = None

(* The admission transaction up to the link: the preparation is valid, the *)
(* operation is claimed (quota, budget and approval with it), uncommitted. *)
BeginAdmit(w, i) ==
    /\ w \in up /\ tx[w] = Idle /\ ReadCommitted(w)
    /\ intents[i] # None /\ task[TaskOf[i]] = "submitted"
    /\ Claimable(OpOf[i])
    /\ opLock' = [opLock EXCEPT ![OpOf[i]] = w]
    /\ tx' = [tx EXCEPT ![w] = [kind |-> "admit", on |-> i]]
    /\ UNCHANGED <<schemaVars, rowVars, up, taskLock>>

(* The insert trigger of task_operation_links_v1: the row joins the        *)
(* retained intent, the operation this transaction claimed with its        *)
(* reservation token, and the task's first event, still current.           *)
LinkGuard(i) ==
    /\ intents[i] # None
    /\ op'[OpOf[i]] = i
    /\ task'[TaskOf[i]] = "working"

(* The claim, the transition and TaskAdmissionStore._insert, committed     *)
(* together.                                                               *)
LinkRows(i) ==
    /\ op' = [op EXCEPT ![OpOf[i]] = i]
    /\ task' = [task EXCEPT ![TaskOf[i]] = "working"]
    /\ links' = links \cup {i}
    /\ LinkGuard(i)
    /\ UNCHANGED intents

(* Fault variant: the preparation made before the wait for 911006 is       *)
(* trusted.                                                                *)
StillPreparedUnread(i) == TRUE

(* _assert_prepared and the transition's expected_sequence=0, both after   *)
(* the wait for 911006: the intent is retained and its task has not moved. *)
StillPrepared(i) == intents[i] # None /\ task[TaskOf[i]] = "submitted"

(* The rest of the admission: 911006, the re-check, the link, the commit;  *)
(* a refusal rolls the claim back.                                         *)
Admit(w) ==
    /\ tx[w].kind = "admit" /\ taskLock = None
    /\ LET i == tx[w].on IN
       /\ IF StillPrepared(i) THEN LinkRows(i) ELSE UNCHANGED rowVars
       /\ opLock' = [opLock EXCEPT ![OpOf[i]] = None]
    /\ tx' = [tx EXCEPT ![w] = Idle]
    /\ UNCHANGED <<schemaVars, up, taskLock>>

(* A synchronous call claims the same operation key; it does not look at   *)
(* the retained intents.                                                   *)
DirectClaim(w, o) ==
    /\ w \in up /\ tx[w] = Idle /\ Claimable(o)
    /\ op' = [op EXCEPT ![o] = "direct"]
    /\ UNCHANGED <<schemaVars, intents, links, task, up, txVars>>

-----------------------------------------------------------------------------
Next ==
    \/ Restore
    \/ \E w \in Workers :
          \/ Open(w) \/ Crash(w)
          \/ BeginAccept(w) \/ BeginSetCapacity(w)
          \/ Locked(w) \/ Accept(w) \/ SetCapacity(w)
          \/ \E t \in Tasks : CancelTask(w, t)
          \/ \E i \in Submissions : BeginAdmit(w, i)
          \/ Admit(w)
          \/ \E o \in Ops : DirectClaim(w, o)

Spec == Init /\ [][Next]_vars

-----------------------------------------------------------------------------
(* Every variable has the shape the tables, locks and processes give it,   *)
(* and a worker serves only over complete schemas with a policy row.       *)
TypeOK ==
    /\ tables \subseteq IntentTables /\ policy \in Capacities \cup {None}
    /\ intents \in RowSets
    /\ linkTables \subseteq LinkTables /\ linkShape \in {"v1", "other"}
    /\ links \subseteq Submissions
    /\ task \in [Tasks -> {"none", "submitted", "working", "canceled"}]
    /\ op \in [Ops -> Submissions \cup {"direct", None}]
    /\ up \subseteq Workers /\ taskLock \in Workers \cup {None}
    /\ opLock \in [Ops -> Workers \cup {None}]
    /\ up # {} => tables = IntentTables /\ policy # None /\ linkTables = LinkTables

(* The policy in force always covers what is retained, records and result  *)
(* allowances together, although workers accept and operators change the   *)
(* capacity at the same time and the schema may be restored in part        *)
(* (_accept, set_capacity and TaskIntentStore.__init__).                   *)
CapacityKept ==
    policy # None =>
        /\ Cardinality(Accepted(intents)) <= policy.items
        /\ Retained(intents) <= policy.bytes

(* No two retained intents share a task or an operation identity: neither  *)
(* a canceled task nor a racing worker frees one for reuse (_accept, "no   *)
(* replacement").                                                          *)
OneIntentPerIdentity ==
    \A i, j \in Accepted(intents) : i # j => TaskOf[i] # TaskOf[j] /\ OpOf[i] # OpOf[j]

(* A link stands for exactly one admission: its operation is held by its   *)
(* own intent, never by a synchronous call that took the key in the        *)
(* meantime, and its task is at work (_link, OperationLedger.claim and the *)
(* link trigger).                                                          *)
LinkIsTheAdmission ==
    \A i \in links : op[OpOf[i]] = i /\ task[TaskOf[i]] = "working"

(* Whenever a worker serves, an operation claimed by a queued intent has   *)
(* its link and its retained intent: a partly restored schema is refused   *)
(* instead of being completed with empty tables (both constructors).       *)
ServedHistoryWhole ==
    up # {} => \A o \in Ops :
        op[o] \in Submissions => op[o] \in links /\ intents[op[o]] # None

(* A cancellation that commits while an admission waits for 911006 wins:   *)
(* the task never comes back from canceled (_assert_prepared under the     *)
(* lock, and the transition's expected_sequence=0, in _link).              *)
CancellationStands ==
    [][\A t \in Tasks : task[t] = "canceled" => task'[t] = "canceled"]_vars

(* What the two stores promise about queued work, at every instant and in  *)
(* every step: the policy covers what is retained, identities are used     *)
(* once, links are admissions, a worker serves a whole history, and        *)
(* cancellations stand.                                                    *)
IntentHistory ==
    /\ [](TypeOK /\ CapacityKept)
    /\ [](OneIntentPerIdentity /\ LinkIsTheAdmission /\ ServedHistoryWhole)
    /\ CancellationStands
=============================================================================
