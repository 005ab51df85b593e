------------------------------ MODULE PgFence -------------------------------
(***************************************************************************)
(* Leader leases with a fencing epoch (pg_fencing.py), the destination     *)
(* that commits effects under them (fenced_postgres_destination.py) and    *)
(* the migration that creates and removes their table                      *)
(* (schema_migrations.py), for one scope.                                  *)
(*                                                                         *)
(* acquire is one statement, judged once it owns the row.  renew and       *)
(* commit are transactions that wait for the row lock and read the clock   *)
(* after they have it; time passes while they wait and before they commit. *)
(* DROP TABLE waits for every transaction that has touched the table.      *)
(***************************************************************************)
EXTENDS Naturals, FiniteSets

CONSTANTS
    Owners,         \* processes that lead
    Operations,     \* operation ids; the destination keeps one effect each
    TTL,            \* lease length
    MaxClock,       \* bound: time
    MaxRollbacks,   \* bound: rollbacks begun
    Absent

ASSUME FenceAssumption ==
    /\ TTL \in Nat /\ MaxClock \in Nat /\ MaxRollbacks \in Nat
    /\ Absent \notin [owner : Owners, epoch : Nat, expires : Nat]
    /\ Absent \notin [owner : Owners, epoch : Nat]
    /\ Absent \notin [created : BOOLEAN]
    /\ Absent \notin Operations

VARIABLES
    clock,
    exists,         \* the agentbridge_fences table is there
    fenceRow,          \* its row, or Absent
    migration,      \* row of agentbridge_schema_migrations, or Absent
    rollback,       \* the rollback transaction: "no", "counted"
    token,          \* owner -> epoch it believes it holds, or Absent
    txn,            \* owner -> open transaction, or Absent
    effects,        \* operation -> [owner, epoch], or Absent
    rollbacks,
    latest          \* history variable: largest epoch of a committed effect

fenceVars == <<clock, exists, fenceRow, migration, rollback, token, txn, effects, rollbacks, latest>>

table == <<exists, fenceRow, migration, rollback, rollbacks>>

(* The row lock of renew and commit, from verification to the end of the    *)
(* transaction.                                                             *)
LockedToCheck == \E o \in Owners : txn[o] # Absent /\ txn[o].step = "locked"
RowLocked == \E o \in Owners : txn[o] # Absent /\ txn[o].step # "waiting"
IdleTxn(o) == txn[o] = Absent

------------------------------------------------------------------------------
(* initialize: CREATE TABLE IF NOT EXISTS.                                  *)
Initialize ==
    /\ ~exists
    /\ exists' = TRUE
    /\ UNCHANGED <<clock, fenceRow, migration, rollback, token, txn, effects, rollbacks, latest>>

(* acquire: INSERT ... ON CONFLICT DO UPDATE ... WHERE expires has passed.  *)
EpochAfter(row) == IF row = Absent THEN 1 ELSE row.epoch + 1
AcquireFence(o) ==
    /\ exists
    /\ IdleTxn(o)
    /\ ~RowLocked
    /\ fenceRow # Absent => fenceRow.expires <= clock
    /\ fenceRow' = [owner |-> o, epoch |-> EpochAfter(fenceRow), expires |-> clock + TTL]
    /\ token' = [token EXCEPT ![o] = EpochAfter(fenceRow)]
    /\ UNCHANGED <<clock, exists, migration, rollback, txn, effects, rollbacks, latest>>

(* renew and commit begin by waiting for the row; a missing row or table    *)
(* ends them.                                                               *)
BeginFenced(o, kind, op) ==
    /\ exists /\ fenceRow # Absent
    /\ IdleTxn(o)
    /\ token[o] # Absent
    /\ txn' = [txn EXCEPT ![o] = [kind |-> kind, step |-> "waiting", epoch |-> token[o], op |-> op, at |-> clock]]
    /\ UNCHANGED <<clock, table, token, effects, latest>>

RowUnlocked == TRUE
RowFree == ~RowLocked
LockRow(o) ==
    /\ ~IdleTxn(o) /\ txn[o].step = "waiting"
    /\ RowFree
    /\ exists /\ fenceRow # Absent
    /\ txn' = [txn EXCEPT ![o] = [txn[o] EXCEPT !.step = "locked"]]
    /\ UNCHANGED <<clock, table, token, effects, latest>>

(* The clock is read after the lock.                                        *)
LiveOnArrival(o) == fenceRow.expires > txn[o].at
Live(o) == fenceRow.expires > clock
HoldsFence(o) == fenceRow.owner = o /\ fenceRow.epoch = txn[o].epoch /\ Live(o)

Renew(o) ==
    /\ ~IdleTxn(o) /\ txn[o].kind = "renew" /\ txn[o].step = "locked"
    /\ HoldsFence(o)
    /\ fenceRow' = [fenceRow EXCEPT !.expires = clock + TTL]
    /\ txn' = [txn EXCEPT ![o] = Absent]
    /\ UNCHANGED <<clock, exists, migration, rollback, token, effects, rollbacks, latest>>

CommitChecks(o) ==
    /\ ~IdleTxn(o) /\ txn[o].kind = "commit" /\ txn[o].step = "locked"
    /\ HoldsFence(o)
    /\ effects[txn[o].op] = Absent
    /\ txn' = [txn EXCEPT ![o] = [txn[o] EXCEPT !.step = "inserted"]]
    /\ UNCHANGED <<clock, table, token, effects, latest>>

CommitLands(o) ==
    /\ ~IdleTxn(o) /\ txn[o].step = "inserted"
    /\ effects' = [effects EXCEPT ![txn[o].op] = [owner |-> o, epoch |-> txn[o].epoch]]
    /\ latest' = IF txn[o].epoch > latest THEN txn[o].epoch ELSE latest
    /\ txn' = [txn EXCEPT ![o] = Absent]
    /\ UNCHANGED <<clock, table, token>>

(* A refusal, a lock or statement timeout, or the death of the process: the *)
(* transaction is rolled back.                                              *)
GiveUp(o) ==
    /\ ~IdleTxn(o)
    /\ txn' = [txn EXCEPT ![o] = Absent]
    /\ token' \in {token, [token EXCEPT ![o] = Absent]}
    /\ UNCHANGED <<clock, table, effects, latest>>

------------------------------------------------------------------------------
(* FencingMigration, one transaction at a time under its advisory lock.     *)
MigrateApply ==
    /\ rollback = "no"
    /\ migration = Absent
    /\ migration' = [created |-> ~exists]
    /\ exists' = TRUE
    /\ UNCHANGED <<clock, fenceRow, rollback, token, txn, effects, rollbacks, latest>>

(* rollback counts the rows, and only then does DROP TABLE lock the table.  *)
MigrateCount ==
    /\ rollback = "no" /\ rollbacks < MaxRollbacks
    /\ migration # Absent
    /\ migration.created => exists /\ fenceRow = Absent
    /\ rollback' = "counted"
    /\ rollbacks' = rollbacks + 1
    /\ UNCHANGED <<clock, exists, fenceRow, migration, token, txn, effects, latest>>

MigrateDrop ==
    /\ rollback = "counted"
    /\ migration.created => ~RowLocked
    /\ exists' = (exists /\ ~migration.created)
    /\ fenceRow' = IF migration.created THEN Absent ELSE fenceRow
    /\ migration' = Absent
    /\ rollback' = "no"
    /\ UNCHANGED <<clock, token, txn, effects, rollbacks, latest>>

FenceTick ==
    /\ clock < MaxClock
    /\ clock' = clock + 1
    /\ UNCHANGED <<table, token, txn, effects, latest>>

FenceInit ==
    /\ clock = 0
    /\ exists = FALSE /\ fenceRow = Absent /\ migration = Absent /\ rollback = "no"
    /\ token = [o \in Owners |-> Absent]
    /\ txn = [o \in Owners |-> Absent]
    /\ effects = [op \in Operations |-> Absent]
    /\ rollbacks = 0 /\ latest = 0

Lead(o) ==
    \/ AcquireFence(o) \/ LockRow(o) \/ Renew(o) \/ CommitChecks(o) \/ CommitLands(o) \/ GiveUp(o)
    \/ BeginFenced(o, "renew", Absent)
    \/ \E op \in Operations : BeginFenced(o, "commit", op)

FenceNext == Initialize \/ MigrateApply \/ MigrateCount \/ MigrateDrop \/ (\E o \in Owners : Lead(o)) \/ FenceTick

FenceSpec == FenceInit /\ [][FenceNext]_fenceVars

------------------------------------------------------------------------------
(* Types; a lease never outlasts its length. *)
FenceTypeOK ==
    /\ clock \in 0..MaxClock /\ latest \in Nat
    /\ exists \in BOOLEAN /\ rollback \in {"no", "counted"}
    /\ fenceRow # Absent => exists /\ fenceRow.owner \in Owners /\ fenceRow.expires <= clock + TTL
    /\ Cardinality({o \in Owners : ~IdleTxn(o) /\ txn[o].step # "waiting"}) <= 1

(* An effect becomes visible only while the row still names its leader and  *)
(* epoch, however long the transaction took: no newer leader exists yet.    *)
EffectHeldLease ==
    [][\A op \in Operations : effects'[op] # effects[op] =>
         /\ effects[op] = Absent
         /\ fenceRow # Absent /\ effects'[op] = [owner |-> fenceRow.owner, epoch |-> fenceRow.epoch]]_fenceVars

(* Until a rollback of the migration begins, effects land in the order of   *)
(* the epochs: once an effect of an epoch is there, no effect of an earlier *)
(* leader is added.                                                         *)
EffectsInOrder ==
    [][rollbacks = 0 =>
         \A op \in Operations : effects'[op] # effects[op] => effects'[op].epoch >= latest]_fenceVars

(* A lease that ran out is never extended; it is only taken again, with a   *)
(* larger epoch.                                                            *)
NoRevival ==
    [][(fenceRow # Absent /\ fenceRow' # Absent /\ fenceRow.expires <= clock /\ fenceRow' # fenceRow)
         => fenceRow'.epoch > fenceRow.epoch]_fenceVars

(* What the fence promises: one holder of the row's lock, effects only      *)
(* under the lease the row names, in the order of the epochs, and no lease  *)
(* comes back after it ran out.                                             *)
FenceHistory == []FenceTypeOK /\ EffectHeldLease /\ EffectsInOrder /\ NoRevival

(* schema_migrations.py: "Rollback never silently drops existing operator   *)
(* data"; a granted lease is never dropped with its table.                  *)
FencesKept == [][fenceRow # Absent => fenceRow' # Absent]_fenceVars
=============================================================================
