-------------------------- MODULE RetainedJournals --------------------------
(***************************************************************************)
(* The three bounded, append-only journals of the governance database:     *)
(* signed audit checkpoints (audit_trust.py, checkpoint_capacity.py),      *)
(* signing-key revisions (signing_journal_capacity.py) and settlement      *)
(* evidence (reconciliation.py, evidence_journal_capacity.py), each on     *)
(* SQLite and on PostgreSQL.                                               *)
(*                                                                         *)
(* A journal is a history table, a one-row policy table with the limits,   *)
(* the triggers on both and, on PostgreSQL, the routines the triggers      *)
(* call.  What the catalogue checks compare column by column is here one   *)
(* word per object: "exact", "altered" or "absent".  Every operation is    *)
(* one database transaction: SQLite's write lock, advisory lock 911001 or  *)
(* the row lock of signing_trust_lock_v1 serialises the writers of one     *)
(* journal, and PostgreSQL writers require READ COMMITTED, so the usage a  *)
(* trigger counts is current.                                              *)
(*                                                                         *)
(* The environment can lose or alter one object at a time (a selective     *)
(* restore), give a session a TEMP object with a reserved name, and write  *)
(* with an older release that knows nothing of capacity.  Only checkpoint  *)
(* workers are assumed to be stopped while objects are restored; the other *)
(* two journals verify their installation again on every write.            *)
(***************************************************************************)
EXTENDS Naturals, FiniteSets, Functions

CONSTANTS
    Workers,        \* managed sessions of the current release
    Keys,           \* primary keys of the history table
    Sizes,          \* entry sizes in bytes
    Choices,        \* limits an operator may ask for, valid or not
    Default,        \* the limits of DEFAULTS
    MaxDamage,      \* bound: objects lost or altered in a behaviour
    NoPolicy        \* no policy row

VARIABLES
    kind,           \* which journal
    backend,        \* which database
    obj,            \* condition of every schema object
    limits,         \* the policy row, or NoPolicy
    rows,           \* the history: size of each entry, 0 where there is none
    opened,         \* workers whose constructor succeeded
    shadowed,       \* workers whose session has a TEMP object of a reserved name
    pledge,         \* history variable: the limits an operator set last, kept
                    \* as long as any capacity object survives
    acked,          \* history variable: keys acknowledged to a managed writer
                    \* since the guards of the history were last damaged
    damage          \* objects damaged so far

vars == <<kind, backend, obj, limits, rows, opened, shadowed, pledge, acked, damage>>

Triggers == {"policyTriggers", "historyTriggers"}
Tables == {"policy", "history"}
Parts(k, b) == Tables \cup Triggers
                 \cup (IF b = "postgres" THEN {"routines"} ELSE {})
                 \cup (IF k = "signing" /\ b = "postgres" THEN {"lock"} ELSE {})

Exact(S) == \A o \in S : obj[o] = "exact"
Present(S) == \E o \in S \cap DOMAIN obj : obj[o] # "absent"
\* A table after CREATE TABLE IF NOT EXISTS: only an existing one can differ.
Creatable(S) == \A o \in S : obj[o] # "altered"
\* What capacity enforcement itself consists of; the history may be older.
Capacity == {"policy", "routines"} \cup Triggers

Used(r) == {k \in Keys : r[k] # 0}
Bytes(r) == FoldFunction(+, 0, r)
Effective == IF limits = NoPolicy THEN Default ELSE limits
\* The bounds every insert trigger checks after the row is in the table.
Within(r, l) == Cardinality(Used(r)) <= l.records /\ Bytes(r) <= l.bytes
Bounded(l) == 1 <= l.records /\ 1 <= l.bytes /\ 1 <= l.entry /\ l.entry <= l.bytes

------------------------------------------------------------------------------
(* Limits an operator can construct at all: the __post_init__ of the three  *)
(* limit classes, each with its own ceilings (outside the instance).        *)
CheckpointLimitsUnrelated(l) == 1 <= l.records /\ 1 <= l.bytes /\ 1 <= l.entry
CheckpointLimits(l) == Bounded(l)
SigningJournalLimits(l) == Bounded(l)
EvidenceLimits(l) == Bounded(l)

(* Session namespaces: a reserved name must not resolve to a TEMP object.   *)
CheckpointNamespaceUnchecked(w) == TRUE
CheckpointSqliteNamespace(w) == w \notin shadowed
CheckpointPostgresNamespace(w) == w \notin shadowed
SigningSqliteNamespace(w) == w \notin shadowed
SigningPostgresNamespace(w) == w \notin shadowed
EvidenceSqliteNamespace(w) == w \notin shadowed
EvidencePostgresNamespace(w) == w \notin shadowed
CheckpointNamespace(w) ==
    IF backend = "sqlite" THEN CheckpointSqliteNamespace(w) ELSE CheckpointPostgresNamespace(w)
SigningNamespace(w) ==
    IF backend = "sqlite" THEN SigningSqliteNamespace(w) ELSE SigningPostgresNamespace(w)
EvidenceNamespace(w) ==
    IF backend = "sqlite" THEN EvidenceSqliteNamespace(w) ELSE EvidencePostgresNamespace(w)

------------------------------------------------------------------------------
(* Checkpoints: may the constructor open this database, and what does an    *)
(* offline qualification say of it?                                         *)
CheckpointSqliteMetadata == Creatable(Tables)
\* Every trigger must exist exactly as soon as the policy table or one trigger did.
CheckpointSqliteRebuild ==
    CheckpointSqliteMetadata /\ (obj["policy"] # "absent" => Exact(Triggers))
CheckpointInstallSqlite ==
    /\ CheckpointSqliteMetadata
    /\ Present({"policy"} \cup Triggers) => Exact(Triggers)

CheckpointPostgresShape == Creatable(Tables)
CheckpointQualifiedRoutines == Exact({"routines"})
CheckpointPostgresInstalled == CheckpointQualifiedRoutines /\ Exact(Triggers)
CheckpointInstallPostgres ==
    /\ CheckpointPostgresShape
    /\ Present(Capacity) => CheckpointPostgresInstalled

CheckpointVerifySnapshot ==
    IF backend = "sqlite" THEN Exact(Tables \cup Triggers)
    ELSE Exact(Tables) /\ CheckpointPostgresInstalled
CheckpointVerifyIfInstalled ==
    IF Present({"policy"}) THEN IF CheckpointVerifySnapshot THEN "ok" ELSE "denied"
    ELSE IF backend = "sqlite" /\ Present(Triggers) THEN "denied"
    ELSE "none"

(* Signing revisions. *)
SigningPrepareSqlite == Present({"policy"}) => Present({"history"})
SigningMetadata == Creatable(Tables)
SigningTriggers == Exact(Triggers)
SigningInstallSqlite ==
    /\ SigningPrepareSqlite /\ SigningMetadata
    /\ Present({"policy"} \cup Triggers) => SigningTriggers

SigningPreparePostgres ==
    Present({"policy"}) => Present({"history"}) /\ Present({"lock"})
SigningPostgresShape(o) == obj[o] # "altered"
SigningPostgresMetadata == \A o \in Tables \cup {"lock"} : SigningPostgresShape(o)
SigningQualifiedRoutines == Exact({"routines"})
SigningPostgresObjects == Present(Triggers \cup {"routines"})
SigningPostgresInstalled == SigningQualifiedRoutines /\ Exact(Triggers)
SigningInstallPostgres ==
    /\ SigningPreparePostgres /\ SigningPostgresMetadata
    /\ (Present({"policy"}) \/ SigningPostgresObjects) => SigningPostgresInstalled

SigningVerifyIfInstalled ==
    IF ~Present({"policy"})
    THEN IF SigningPostgresObjects THEN "denied" ELSE "none"
    ELSE IF /\ Exact(Tables)
            /\ IF backend = "sqlite" THEN SigningTriggers
               ELSE Exact({"lock"}) /\ SigningPostgresInstalled
         THEN "ok" ELSE "denied"

(* Settlement evidence: nothing is created before everything is checked.    *)
EvidenceSqliteShape(o) == obj[o] # "altered"
EvidenceSqliteMetadata(S) == \A o \in S : EvidenceSqliteShape(o)
EvidenceSqliteInstalled == Exact(Triggers)
EvidenceSqlitePresence == Present(Triggers)
EvidenceInstallSqlite ==
    IF Present({"policy"}) THEN EvidenceSqliteMetadata(Tables) /\ EvidenceSqliteInstalled
    ELSE EvidenceSqliteMetadata({"history"}) /\ ~EvidenceSqlitePresence

EvidencePostgresShape(o) == obj[o] # "altered"
EvidencePostgresMetadata(S) == \A o \in S : EvidencePostgresShape(o)
EvidenceQualifiedRoutines == Exact({"routines"})
EvidencePostgresPresence == Present(Triggers \cup {"routines"})
EvidencePostgresInstalled == EvidenceQualifiedRoutines /\ Exact(Triggers)
EvidenceInstallPostgres ==
    IF Present({"policy"}) THEN EvidencePostgresMetadata(Tables) /\ EvidencePostgresInstalled
    ELSE EvidencePostgresMetadata({"history"}) /\ ~EvidencePostgresPresence

EvidenceVerifySnapshot ==
    /\ Exact(Tables)
    /\ IF backend = "sqlite" THEN EvidenceSqliteInstalled ELSE EvidencePostgresInstalled
EvidenceVerifyDangling ==
    IF Present({"policy"}) THEN IF EvidenceVerifySnapshot THEN "ok" ELSE "denied"
    ELSE "none"
EvidenceVerifyIfInstalled ==
    IF Present({"policy"}) THEN IF EvidenceVerifySnapshot THEN "ok" ELSE "denied"
    ELSE IF IF backend = "sqlite" THEN EvidenceSqlitePresence ELSE EvidencePostgresPresence
         THEN "denied"
    ELSE "none"

------------------------------------------------------------------------------
(* Constructors: install or verify, in one transaction.  Success leaves     *)
(* every object exact; a policy row is kept, and none is written.           *)
Opening(w) ==
    /\ w \notin opened
    /\ obj' = [o \in DOMAIN obj |-> "exact"]
    /\ opened' = opened \cup {w}
    /\ UNCHANGED <<kind, backend, limits, rows, shadowed, pledge, acked, damage>>

OpenCheckpoints(w) ==
    /\ kind = "checkpoint"
    /\ CheckpointNamespace(w)
    /\ IF backend = "sqlite" THEN CheckpointInstallSqlite ELSE CheckpointInstallPostgres
    /\ Opening(w)

OpenSigning(w) ==
    /\ kind = "signing"
    /\ SigningNamespace(w)
    /\ IF backend = "sqlite" THEN SigningInstallSqlite ELSE SigningInstallPostgres
    /\ Opening(w)

OpenEvidence(w) ==
    /\ kind = "evidence"
    /\ EvidenceNamespace(w)
    /\ IF backend = "sqlite" THEN EvidenceInstallSqlite ELSE EvidenceInstallPostgres
    /\ Opening(w)

------------------------------------------------------------------------------
(* The triggers on the history, as conditions on a write that sets key k of *)
(* the history to new[k] (0 deletes): no row is replaced, changed or        *)
(* removed, and the result fits the limits.                                 *)
CheckpointSqliteUnsummed(k, new, l) ==
    rows[k] = 0 /\ Cardinality(Used(new)) <= l.records /\ new[k] <= l.entry
CheckpointSqliteStatements(k, new, l) ==
    rows[k] = 0 /\ Within(new, l) /\ new[k] <= l.entry
CheckpointPostgresFunctions(k, new, l) ==
    rows[k] = 0 /\ Within(new, l) /\ new[k] <= l.entry
SigningStatements(k, new, l) ==
    rows[k] = 0 /\ Within(new, l) /\ new[k] <= l.entry
SigningPostgresFunctions(k, new, l) ==
    obj["lock"] = "exact" /\ rows[k] = 0 /\ Within(new, l) /\ new[k] <= l.entry
\* Evidence bounds the largest entry retained, not only the new one.
EvidenceSqliteStatements(k, new, l) ==
    rows[k] = 0 /\ Within(new, l) /\ \A i \in Keys : new[i] <= l.entry
EvidencePostgresFunctions(k, new, l) ==
    rows[k] = 0 /\ Within(new, l) /\ \A i \in Keys : new[i] <= l.entry

Admits(k, new, l) ==
    CASE kind = "checkpoint" /\ backend = "sqlite" -> CheckpointSqliteStatements(k, new, l)
      [] kind = "checkpoint" /\ backend = "postgres" -> CheckpointPostgresFunctions(k, new, l)
      [] kind = "signing" /\ backend = "sqlite" -> SigningStatements(k, new, l)
      [] kind = "signing" /\ backend = "postgres" -> SigningPostgresFunctions(k, new, l)
      [] kind = "evidence" /\ backend = "sqlite" -> EvidenceSqliteStatements(k, new, l)
      [] kind = "evidence" /\ backend = "postgres" -> EvidencePostgresFunctions(k, new, l)

Guarded == Exact({"historyTriggers", "routines"} \cap DOMAIN obj)

(* One statement on the history.  With its triggers in place it must be     *)
(* admitted, and the limits materialise when there is no policy row; with   *)
(* them lost or altered nothing is promised.                                *)
Statement(k, s) ==
    LET new == [rows EXCEPT ![k] = s] IN
    /\ Present({"history"})
    /\ Guarded => Present({"policy"}) /\ Admits(k, new, Effective)
    /\ rows' = new
    /\ limits' = IF Guarded THEN Effective ELSE limits

\* An unqualified INSERT in a shadowed session goes to the TEMP table.
Inserted(w, k, s) ==
    IF w \in shadowed THEN UNCHANGED <<rows, limits>>
    ELSE rows[k] = 0 /\ Statement(k, s)

Acknowledged(k) ==
    /\ acked' = acked \cup {k}
    /\ UNCHANGED <<kind, backend, obj, opened, shadowed, pledge, damage>>

(* save_checkpoint checks the session and leaves the rest to the triggers.  *)
SaveCheckpoint(w, k, s) ==
    /\ kind = "checkpoint" /\ w \in opened
    /\ CheckpointNamespace(w)
    /\ Inserted(w, k, s)
    /\ Acknowledged(k)

(* admit: verify the installation, then refuse early what would not fit.    *)
SigningAdmit(s) ==
    /\ SigningVerifyIfInstalled = "ok"
    /\ s <= Effective.entry
    /\ Cardinality(Used(rows)) + 1 <= Effective.records
    /\ Bytes(rows) + s <= Effective.bytes

PublishRevision(w, k, s) ==
    /\ kind = "signing" /\ w \in opened
    /\ SigningNamespace(w)
    /\ SigningAdmit(s)
    /\ Inserted(w, k, s)
    /\ Acknowledged(k)

(* A settlement verifies the installation before it appends its bundle.     *)
AppendEvidence(w, k, s) ==
    /\ kind = "evidence" /\ w \in opened
    /\ EvidenceNamespace(w)
    /\ EvidenceVerifySnapshot
    /\ Inserted(w, k, s)
    /\ Acknowledged(k)

(* A worker of an older release inserts, replaces, updates or deletes with  *)
(* nothing but the triggers in its way.                                     *)
OlderWrite(k, s) ==
    /\ s # rows[k]
    /\ Statement(k, s)
    /\ UNCHANGED <<kind, backend, obj, opened, shadowed, pledge, acked, damage>>

------------------------------------------------------------------------------
(* policy(): read the limits, writing the defaults when there are none, and *)
(* set new ones.  Nothing is pruned; the caller's audit callback runs in    *)
(* the same transaction, so its failure leaves no step.                     *)
CheckpointPolicy(w) ==
    kind = "checkpoint" /\ CheckpointNamespace(w) /\ Present({"policy"})
\* lock_postgres_writer: the coordination row must be there.
SigningLockWriter == backend = "postgres" => Exact({"lock"})
SigningPolicy(w) ==
    kind = "signing" /\ SigningNamespace(w) /\ SigningLockWriter /\ SigningVerifyIfInstalled = "ok"
EvidencePolicy(w) ==
    kind = "evidence" /\ EvidenceNamespace(w) /\ EvidenceVerifySnapshot

Configure(w, l) ==
    /\ w \in opened
    /\ limits' = l
    /\ UNCHANGED <<kind, backend, obj, rows, opened, shadowed, acked, damage>>

ReadCapacity(w) ==
    /\ CheckpointPolicy(w) \/ SigningPolicy(w) \/ EvidencePolicy(w)
    /\ limits = NoPolicy
    /\ Configure(w, Default)
    /\ UNCHANGED pledge

SetCapacity(w, l) ==
    /\ \/ CheckpointLimits(l) /\ CheckpointPolicy(w)
       \/ SigningJournalLimits(l) /\ SigningPolicy(w)
       \/ EvidenceLimits(l) /\ EvidencePolicy(w)
    /\ Configure(w, l)
    /\ pledge' = l

------------------------------------------------------------------------------
(* The environment. *)
Shadow(w) ==
    /\ shadowed' = shadowed \cup {w}
    /\ UNCHANGED <<kind, backend, obj, limits, rows, opened, pledge, acked, damage>>

\* A dropped table takes its triggers along, a dropped routine every trigger
\* that calls it.
Dropped(o) ==
    {o} \cup (CASE o = "policy" -> {"policyTriggers"}
                [] o = "history" -> {"historyTriggers"}
                [] o = "routines" -> Triggers
                [] OTHER -> {})

Damage(o, v) ==
    LET after == [p \in DOMAIN obj |-> IF v = "absent" /\ p \in Dropped(o) THEN "absent"
                                       ELSE IF p = o THEN v ELSE obj[p]] IN
    /\ damage < MaxDamage
    /\ Present({o}) /\ obj[o] # v
    /\ obj' = after
    /\ damage' = damage + 1
    /\ limits' = IF after["policy"] = "absent" THEN NoPolicy ELSE limits
    /\ rows' = IF after["history"] = "absent" THEN [k \in Keys |-> 0] ELSE rows
    /\ pledge' = IF \A p \in Capacity \cap DOMAIN obj : after[p] = "absent" THEN NoPolicy ELSE pledge
    /\ acked' = IF o \in {"policy", "lock"} THEN acked ELSE {}
    /\ opened' = IF kind = "checkpoint" THEN {} ELSE opened
    /\ UNCHANGED <<kind, backend, shadowed>>

------------------------------------------------------------------------------
(* A database that is empty, or holds the history an older release wrote.   *)
Init ==
    /\ kind \in {"checkpoint", "signing", "evidence"}
    /\ backend \in {"sqlite", "postgres"}
    /\ \E old \in SUBSET ({"history", "lock"} \cap Parts(kind, backend)) :
         /\ obj = [o \in Parts(kind, backend) |-> IF o \in old THEN "exact" ELSE "absent"]
         /\ rows \in [Keys -> Sizes \cup {0}]
         /\ "history" \notin old => rows = [k \in Keys |-> 0]
    /\ limits = NoPolicy /\ pledge = NoPolicy
    /\ opened = {} /\ shadowed = {} /\ acked = {} /\ damage = 0

Next ==
    \/ \E w \in Workers : \/ OpenCheckpoints(w) \/ OpenSigning(w) \/ OpenEvidence(w)
                          \/ ReadCapacity(w) \/ Shadow(w)
                          \/ \E l \in Choices : SetCapacity(w, l)
                          \/ \E k \in Keys, s \in Sizes :
                               \/ SaveCheckpoint(w, k, s)
                               \/ PublishRevision(w, k, s)
                               \/ AppendEvidence(w, k, s)
    \/ \E k \in Keys, s \in Sizes \cup {0} : OlderWrite(k, s)
    \/ \E o \in DOMAIN obj, v \in {"absent", "altered"} : Damage(o, v)

Spec == Init /\ [][Next]_vars

------------------------------------------------------------------------------
(* Types; the policy row always satisfies the relation between its limits   *)
(* that the limit classes and the table's CHECK constraint state.           *)
TypeOK ==
    /\ obj \in [Parts(kind, backend) -> {"exact", "altered", "absent"}]
    /\ limits # NoPolicy => Bounded(limits)
    /\ rows \in [Keys -> Sizes \cup {0}]
    /\ opened \subseteq Workers /\ shadowed \subseteq Workers /\ acked \subseteq Keys
    /\ damage \in 0..MaxDamage

(* Losing objects one by one never resets a journal: as long as any piece   *)
(* of capacity enforcement has survived since an operator last set limits,  *)
(* whatever a managed writer appends fits those limits, however many        *)
(* restarts and re-installations lie between.                               *)
PledgeKept ==
    \A k \in acked' \ acked :
        pledge # NoPolicy => Within(rows', pledge) /\ rows'[k] <= pledge.entry

(* Where the history's guards and the policy table stand, even an older     *)
(* writer can only add, and only within the limits in force: existing rows  *)
(* stay as they are, over-full histories stop growing.                      *)
GrowthBounded ==
    (Guarded /\ obj' = obj /\ rows' # rows)
        => /\ \A k \in Used(rows) : rows'[k] = rows[k]
           /\ Within(rows', limits')

(* What was acknowledged to a managed writer is in the durable history,     *)
(* until somebody damages the history or its guards: neither a TEMP object  *)
(* in the session nor an older writer can make it vanish.                   *)
AckedRetained == acked \subseteq Used(rows)

InstallOf ==
    CASE kind = "checkpoint" /\ backend = "sqlite" -> CheckpointInstallSqlite
      [] kind = "checkpoint" /\ backend = "postgres" -> CheckpointInstallPostgres
      [] kind = "signing" /\ backend = "sqlite" -> SigningInstallSqlite
      [] kind = "signing" /\ backend = "postgres" -> SigningInstallPostgres
      [] kind = "evidence" /\ backend = "sqlite" -> EvidenceInstallSqlite
      [] kind = "evidence" /\ backend = "postgres" -> EvidenceInstallPostgres
VerdictOf ==
    CASE kind = "checkpoint" -> CheckpointVerifyIfInstalled
      [] kind = "signing" -> SigningVerifyIfInstalled
      [] kind = "evidence" -> EvidenceVerifyIfInstalled

(* The offline qualification of a restored database and the constructor     *)
(* that opens it later agree: what verify_if_installed accepts opens, what  *)
(* it refuses does not open, and what it calls untouched opens only if no   *)
(* capacity object is left, so that nothing is rebuilt from a remnant.  The *)
(* checkpoint verifier leaves stray PostgreSQL routines to the migration's  *)
(* routine allowlist.                                                       *)
QualificationAgrees ==
    /\ VerdictOf = "ok" => InstallOf
    /\ VerdictOf = "denied" => ~InstallOf
    /\ VerdictOf = "none" /\ Present(Capacity) => ~InstallOf /\ kind = "checkpoint"
=============================================================================
