----------------------------- MODULE AuditChain -----------------------------
(***************************************************************************)
(* The audit log: a hash chain that several workers append to through one  *)
(* store, retained capacity counted by triggers, retention that legal      *)
(* holds and retained evidence block, checkpoints signed over the head,    *)
(* and the journal of an independent witness.                              *)
(*                                                                         *)
(* A hash is collision free: that of an entry is the sequence of bodies    *)
(* from genesis to it.                                                     *)
(***************************************************************************)
EXTENDS Naturals, Sequences, FiniteSets, SequencesExt

CONSTANTS
    Workers,
    Backend,            \* "memory", "sqlite" or "postgres"
    Bodies, SizeOf,     \* entry contents and their stored bytes
    Legacy,             \* logs written before capacity was introduced
    Default, Limits,    \* AuditLimits: [records, bytes, entry]
    Evidence,           \* what retention_guard looks for
    MaxSeq, MaxSigned, MaxJournal, MaxRestores   \* bounds

AuditAssumption ==
    /\ Backend \in {"memory", "sqlite", "postgres"}
    /\ SizeOf \in [Bodies -> Nat \ {0}]
    /\ Evidence \subseteq {"operation", "task", "reservation"}
    /\ \A l \in Limits \cup {Default} : l.records \in Nat /\ l.bytes \in Nat /\ l.entry \in Nat

VARIABLES
    log,                \* the audit table, by sequence
    limits, used,       \* audit_capacity_policy_v1, once the row exists
    hold,               \* audit_holds has an enabled row
    localHold,          \* AuditLog._legal_hold of each worker
    evidence,           \* retained rows that protect the audit
    job,                \* truncate_before of each worker
    signed,             \* checkpoints that have been signed
    registry,           \* audit_checkpoints
    exported,           \* records a worker last exported in full
    journal,            \* the witness journal
    restores

logVars == <<log, limits, used>>
trustVars == <<hold, localHold, evidence>>
paperVars == <<signed, registry, exported, journal, restores>>
vars == <<logVars, trustVars, job, paperVars>>

NoLimits == [records |-> 0, bytes |-> 0, entry |-> 0]
NoJob == [stage |-> "idle", seq |-> 0]

-----------------------------------------------------------------------------
(* Entries, verification and accounting.                                   *)

GENESIS == <<>>

Entry(seq, prev, b) == [seq |-> seq, prev |-> prev, hash |-> Append(prev, b)]

(* Fault variant: the sequence is the number of rows.                      *)
FollowingByCount(records, b) ==
    Entry(Len(records), IF records = <<>> THEN GENESIS ELSE records[Len(records)].hash, b)

(* append_audit_chained takes sequence and link from the durable head.     *)
Following(records, b) ==
    IF records = <<>> THEN Entry(0, GENESIS, b)
    ELSE LET last == records[Len(records)] IN Entry(last.seq + 1, last.hash, b)

(* verify_chain: contiguous, linked, and every hash recomputes.            *)
VerifyChain(records, require_genesis) ==
    /\ require_genesis /\ records # <<>> => records[1].seq = 0 /\ records[1].prev = GENESIS
    /\ \A i \in 2..Len(records) : /\ records[i].seq = records[i-1].seq + 1
                                  /\ records[i].prev = records[i-1].hash
    /\ \A i \in 1..Len(records) : \E b \in Bodies : records[i].hash = Append(records[i].prev, b)

StartsAtGenesis(records) == records # <<>> => records[1].seq = 0

(* verify_evidence_bundle, for a checkpoint of the trusted signer.         *)
VerifyEvidenceBundle(records, cp) ==
    /\ VerifyChain(records, StartsAtGenesis(records))
    /\ \/ records = <<>> /\ cp = [seq |-> 0, head |-> GENESIS]
       \/ /\ records # <<>> /\ records[1].seq = cp.seq /\ records[1].prev = cp.head
       \/ /\ records # <<>> /\ records[1].seq < cp.seq
          /\ \E i \in 1..Len(records) : records[i].seq = cp.seq - 1 /\ records[i].hash = cp.head

Bytes(records) == FoldSeq(LAMBDA e, n : n + SizeOf[e.hash[Len(e.hash)]], 0, records)

Actual(records) == [records |-> Len(records), bytes |-> Bytes(records)]

Fits(l, n, e) ==
    /\ n.records <= l.records /\ n.bytes <= l.bytes
    /\ SizeOf[e.hash[Len(e.hash)]] <= l.entry

(* The insert triggers: the first write after the upgrade counts the old   *)
(* rows; the new row is then added to the counters, and must fit.          *)
Insert(l, e) ==
    LET had == IF limits = NoLimits THEN Actual(log) ELSE used
        now == [records |-> had.records + 1, bytes |-> had.bytes + SizeOf[e.hash[Len(e.hash)]]] IN
    /\ IF Backend = "memory"
       THEN UNCHANGED <<limits, used>>
       ELSE Fits(l, now, e) /\ limits' = l /\ used' = now
    /\ log' = Append(log, e)

Current == IF limits = NoLimits THEN Default ELSE limits

Init ==
    /\ log \in Legacy
    /\ limits = NoLimits /\ used = [records |-> 0, bytes |-> 0]
    /\ hold = FALSE /\ localHold = [w \in Workers |-> FALSE] /\ evidence = {}
    /\ job = [w \in Workers |-> NoJob]
    /\ signed = {} /\ registry = {} /\ exported = [w \in Workers |-> <<>>]
    /\ journal = <<>> /\ restores = 0

-----------------------------------------------------------------------------
(* Locks.  A truncation holds the advisory lock of the holds from its      *)
(* first step and SHARE locks on the evidence tables from its second; on   *)
(* SQLite its write transaction keeps every other writer out.              *)

Truncating == \E w \in Workers : job[w].stage # "idle"

HoldsFree == ~Truncating

TablesFree ==
    IF Backend = "sqlite" THEN ~Truncating ELSE \A w \in Workers : job[w].stage # "guarded"

AuditFree == Backend # "sqlite" \/ ~Truncating

-----------------------------------------------------------------------------
(* AuditLog.record.                                                        *)
Record(w, b) ==
    /\ AuditFree
    /\ log # <<>> => log[Len(log)].seq < MaxSeq
    /\ Insert(Current, Following(log, b))
    /\ UNCHANGED <<trustVars, job, paperVars>>

(* policy: the operator changes the limits; with a callback, the change is *)
(* recorded in the same transaction or not made.                           *)
SetCapacity(l) ==
    /\ Backend # "memory" /\ AuditFree
    /\ limits' = l
    /\ used' = IF limits = NoLimits THEN Actual(log) ELSE used
    /\ UNCHANGED <<log, trustVars, job, paperVars>>

SetCapacityAudited(l, b) ==
    /\ Backend # "memory" /\ AuditFree
    /\ log # <<>> => log[Len(log)].seq < MaxSeq
    /\ Insert(l, Following(log, b))
    /\ UNCHANGED <<trustVars, job, paperVars>>

-----------------------------------------------------------------------------
(* Legal holds, evidence and retention.                                    *)

(* Fault variant: changing a hold does not take the lock of truncations.   *)
SetHoldUnlocked(on) ==
    /\ Backend # "memory"
    /\ hold' = on
    /\ UNCHANGED <<logVars, localHold, evidence, job, paperVars>>

(* AuditTrustStore.set_hold.                                               *)
SetHold(on) ==
    /\ Backend # "memory" /\ HoldsFree
    /\ hold' = on
    /\ UNCHANGED <<logVars, localHold, evidence, job, paperVars>>

(* AuditLog.set_legal_hold; the worker's lock covers its truncation.       *)
SetLegalHold(w, on) ==
    /\ job[w] = NoJob
    /\ localHold' = [localHold EXCEPT ![w] = on]
    /\ UNCHANGED <<logVars, hold, evidence, job, paperVars>>

(* Other transactions write the rows that protect the audit.  Operations   *)
(* are retained after settlement, tasks end and reservations are settled.  *)
WriteEvidence(e) ==
    /\ Backend # "memory" /\ TablesFree
    /\ evidence' = IF e \in evidence /\ e # "operation" THEN evidence \ {e} ELSE evidence \cup {e}
    /\ UNCHANGED <<logVars, hold, localHold, job, paperVars>>

Done(w) == job' = [job EXCEPT ![w] = NoJob]

(* truncate_before refuses under the worker's own hold.                    *)
MayTruncate(w) == ~localHold[w]

(* truncate_before on the in-memory store.                                 *)
TruncateMemory(w, s) ==
    /\ Backend = "memory" /\ MayTruncate(w)
    /\ log' = SelectSeq(log, LAMBDA e : e.seq >= s)
    /\ UNCHANGED <<limits, used, trustVars, job, paperVars>>

(* On SQL: with the lock of the holds, no hold is enabled;                 *)
TruncateStart(w, s) ==
    /\ Backend # "memory" /\ ~Truncating
    /\ MayTruncate(w) /\ ~hold
    /\ job' = [job EXCEPT ![w] = [stage |-> "holds", seq |-> s]]
    /\ UNCHANGED <<logVars, trustVars, paperVars>>

(* with the evidence tables locked, retention_guard finds none;            *)
TruncateGuard(w) ==
    /\ job[w].stage = "holds"
    /\ job' = [job EXCEPT ![w] = IF evidence = {} THEN [@ EXCEPT !.stage = "guarded"] ELSE NoJob]
    /\ UNCHANGED <<logVars, trustVars, paperVars>>

(* Fault variant: the head may go as well.                                 *)
DeletableAll(s) == TRUE

(* The current head is preserved, so an append cannot restart at genesis.  *)
Deletable(s) == log # <<>> => s <= log[Len(log)].seq

(* Fault variant: deleted rows stay in the counters.                       *)
DiscountNothing(kept) == used

(* The DELETE trigger discounts every row that goes.                       *)
Discount(kept) ==
    IF limits = NoLimits THEN used
    ELSE [records |-> used.records - (Len(log) - Len(kept)),
          bytes |-> used.bytes - (Bytes(log) - Bytes(kept))]

(* and with the audit lock, the rows go.                                   *)
Delete(w) ==
    LET kept == SelectSeq(log, LAMBDA e : e.seq >= job[w].seq) IN
    /\ job[w].stage = "guarded"
    /\ IF Deletable(job[w].seq)
       THEN log' = kept /\ used' = Discount(kept)
       ELSE UNCHANGED <<log, used>>
    /\ Done(w)
    /\ UNCHANGED <<limits, trustVars, paperVars>>

(* A worker dies: its transaction is rolled back, its own hold is gone.    *)
Crash(w) ==
    /\ job[w] # NoJob \/ localHold[w]
    /\ Done(w)
    /\ localHold' = [localHold EXCEPT ![w] = FALSE]
    /\ UNCHANGED <<logVars, hold, evidence, paperVars>>

-----------------------------------------------------------------------------
(* Checkpoints and the witness.                                            *)

(* AuditLog.checkpoint signs the position after the head, and its hash.    *)
Checkpoint ==
    LET cp == IF log = <<>> THEN [seq |-> 0, head |-> GENESIS]
              ELSE [seq |-> log[Len(log)].seq + 1, head |-> log[Len(log)].hash] IN
    /\ Cardinality(signed) < MaxSigned /\ cp \notin signed
    /\ signed' = signed \cup {cp}
    /\ UNCHANGED <<logVars, trustVars, job, registry, exported, journal, restores>>

(* verify_checkpoint accepts the positions the trusted key has signed.     *)
Authentic == signed

(* verify_anchored_audit and save_checkpoint: full history from genesis,   *)
(* and the signed head is the one at its position.                         *)
Anchored(records, cp) ==
    /\ VerifyChain(records, TRUE)
    /\ cp.seq <= Len(records)
    /\ cp.head = IF cp.seq = 0 THEN GENESIS ELSE records[cp.seq].hash

(* Fault variant: the registry keeps the sequence of the head entry.       *)
SaveCheckpointShifted(cp) ==
    /\ Backend # "memory" /\ AuditFree
    /\ Anchored(log, cp) /\ cp.seq > 0
    /\ registry' = registry \cup {[cp EXCEPT !.seq = @ - 1]}
    /\ UNCHANGED <<logVars, trustVars, job, signed, exported, journal, restores>>

(* save_checkpoint: the registry only grows, one row per position.  Its    *)
(* capacity, which may refuse the row, is RetainedJournals' subject.       *)
SaveCheckpoint(cp) ==
    /\ Backend # "memory" /\ AuditFree
    /\ Anchored(log, cp)
    /\ \A old \in registry : old.seq # cp.seq
    /\ registry' = registry \cup {cp}
    /\ UNCHANGED <<logVars, trustVars, job, signed, exported, journal, restores>>

(* Records are exported once and may be presented to the witness late.     *)
Export(w) ==
    /\ Len(journal) < MaxJournal
    /\ exported' = [exported EXCEPT ![w] = log]
    /\ UNCHANGED <<logVars, trustVars, job, signed, registry, journal, restores>>

(* Fault variant: any anchored checkpoint that is newer is accepted.       *)
ExtendsNewer(records, cp) == journal # <<>> => cp.seq > journal[Len(journal)].seq

(* WitnessJournal.accept: not behind the journal's head, and the complete  *)
(* history supplied retains it.                                            *)
Extends(records, cp) ==
    journal # <<>> =>
        LET prior == journal[Len(journal)] IN
        /\ cp.seq > prior.seq
        /\ prior.seq <= Len(records)
        /\ prior.head = IF prior.seq = 0 THEN GENESIS ELSE records[prior.seq].hash

Accept(w, cp) ==
    /\ Len(journal) < MaxJournal
    /\ Anchored(exported[w], cp) /\ Extends(exported[w], cp)
    /\ journal' = Append(journal, cp)
    /\ UNCHANGED <<logVars, trustVars, job, signed, registry, exported, restores>>

(* The application's database is restored from an older complete backup.   *)
Restore(n) ==
    /\ restores < MaxRestores /\ ~Truncating
    /\ StartsAtGenesis(log) /\ n < Len(log)
    /\ restores' = restores + 1
    /\ log' = SubSeq(log, 1, n)
    /\ used' = IF limits = NoLimits THEN used ELSE Actual(SubSeq(log, 1, n))
    /\ registry' = {cp \in registry : cp.seq <= n}
    /\ UNCHANGED <<limits, trustVars, job, signed, exported, journal>>

Write ==
    \/ \E w \in Workers, b \in Bodies : Record(w, b)
    \/ \E l \in Limits : SetCapacity(l) \/ \E b \in Bodies : SetCapacityAudited(l, b)

Retain ==
    \/ \E on \in BOOLEAN : SetHold(on) \/ \E w \in Workers : SetLegalHold(w, on)
    \/ \E e \in Evidence : WriteEvidence(e)
    \/ \E w \in Workers, s \in 1..(MaxSeq + 1) : TruncateMemory(w, s) \/ TruncateStart(w, s)
    \/ \E w \in Workers : TruncateGuard(w) \/ Delete(w) \/ Crash(w)

Attest ==
    \/ Checkpoint
    \/ \E cp \in Authentic : SaveCheckpoint(cp) \/ \E w \in Workers : Accept(w, cp)
    \/ \E w \in Workers : Export(w)
    \/ \E n \in 0..MaxSeq : Restore(n)

Next == Write \/ Retain \/ Attest

Spec == Init /\ [][Next]_vars

-----------------------------------------------------------------------------
Hashes == UNION {[1..n -> Bodies] : n \in 0..(MaxSeq + 1)}
Position == [seq : 0..(MaxSeq + 1), head : Hashes]

TypeOK ==
    /\ \A i \in 1..Len(log) : log[i] \in [seq : 0..MaxSeq, prev : Hashes, hash : Hashes]
    /\ limits \in Limits \cup {Default, NoLimits} /\ used \in [records : Nat, bytes : Nat]
    /\ hold \in BOOLEAN /\ localHold \in [Workers -> BOOLEAN] /\ evidence \subseteq Evidence
    /\ job \in [Workers -> [stage : {"idle", "holds", "guarded"}, seq : 0..(MaxSeq + 1)]]
    /\ signed \subseteq Position /\ registry \subseteq signed
    /\ \A i \in 1..Len(journal) : journal[i] \in signed

(* The chain never forks or breaks, whoever appends and however much of it *)
(* retention has removed: verify_durable holds at every restart.           *)
ChainIntact == VerifyChain(log, StartsAtGenesis(log))

(* "anyone holding a checkpoint for seq=N can verify the chain was intact  *)
(* at N, and the live chain verifies from N forward": no later append or   *)
(* retention invalidates a checkpoint that the live log still reaches.     *)
CheckpointsVerify ==
    \A cp \in signed :
        (log = <<>> \/ log[1].seq <= cp.seq) => VerifyEvidenceBundle(log, cp)

(* The counters the triggers keep are the stored rows and bytes, through   *)
(* the lazy upgrade, policy changes and retention: verify_retained_usage   *)
(* never refuses a restart.                                                *)
UsageExact == limits # NoLimits => used = Actual(log)

(* Audit is removed only while no hold is enabled and no operation,        *)
(* unfinished task or reservation protects it: neither can appear between  *)
(* the check and the deletion.                                             *)
RetentionGuarded ==
    (log # <<>> /\ log' # <<>> /\ log'[1].seq > log[1].seq) => ~hold /\ evidence = {}

(* The witnessed heads form one history, although the application's        *)
(* database may be rolled back and grow again differently, and exports be  *)
(* presented late.                                                         *)
JournalMonotone ==
    \A i, j \in 1..Len(journal) : i < j =>
        journal[i].seq < journal[j].seq /\ IsPrefix(journal[i].head, journal[j].head)

=============================================================================
