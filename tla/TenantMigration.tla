-------------------------- MODULE TenantMigration ---------------------------
(***************************************************************************)
(* Binding SQL namespaces to tenants (tenant_store.py) and the offline     *)
(* assignment of a historical namespace (tenant_migration.py): freeze,     *)
(* back up, restore elsewhere, verify, activate, or roll back.             *)
(*                                                                         *)
(* A namespace is a SQLite file or a PostgreSQL schema.  Each migration    *)
(* phase is one transaction that excludes all writers of its namespace and *)
(* holds the authority boundary exclusively, which tenant sessions hold    *)
(* shared.  Old releases may still be writing, tenant processes may open   *)
(* and seal their stores at any time, backups are taken at any time and    *)
(* may restore incompletely.  A row stands for stored content of any kind, *)
(* sequence values and table definitions included; writers only add rows.  *)
(***************************************************************************)
EXTENDS Naturals, FiniteSets

CONSTANTS
    Spaces,         \* namespaces
    Sources,        \* namespaces that hold a legacy database at the start
    Tables,         \* tables; some are created lazily
    LegacyRows,     \* rows that releases without tenants write
    Tenants,        \* tenants; a tenant's row is named by the tenant
    Handles,        \* tenant stores open in some process
    Archives,       \* contents the backup archive file may have
    MaxIds,         \* bound: store and migration identities
    None

VARIABLES
    db,             \* Spaces -> [marker, binding, tab]
    handle,         \* Handles -> None or an open tenant store
    guarding,       \* handles inside an authority guard
    archive,        \* content of the archive file
    ids             \* identities handed out

vars == <<db, handle, guarding, archive, ids>>

Absent == [there |-> FALSE, rows |-> {}, freeze |-> FALSE, guard |-> FALSE]
Present(n) == {t \in Tables : db[n].tab[t].there}
Rows(n) == UNION {db[n].tab[t].rows : t \in Tables}
Untouched(n) == db[n].marker = None /\ db[n].binding = None /\ Present(n) = {}

------------------------------------------------------------------------------
(* _snapshot and _supported_schema: everything stored, and no reserved      *)
(* triggers in a namespace without a marker.                                *)
Snapshot(n, tables) == [t \in tables |-> db[n].tab[t].rows]
SupportedSchema(n) ==
    db[n].marker = None => \A t \in Tables : ~db[n].tab[t].freeze /\ ~db[n].tab[t].guard

(* _record: the marker is this namespace's own.                             *)
Record(n) == db[n].marker # None /\ db[n].marker.space = n

(* _transaction under guard(write=True): no tenant session is running.      *)
AuthorityIgnored == TRUE
AuthorityExclusive == guarding = {}

FreezeExisting(n) ==
    [t \in Tables |-> IF t \in Present(n) THEN [db[n].tab[t] EXCEPT !.freeze = db[n].tab[t].rows # {}]
                      ELSE Absent]
FreezeTriggers(n) ==
    [t \in Tables |-> IF t \in Present(n) THEN [db[n].tab[t] EXCEPT !.freeze = TRUE] ELSE Absent]

Freeze(n, x) ==
    /\ AuthorityExclusive
    /\ db[n].binding = None /\ db[n].marker = None
    /\ SupportedSchema(n)
    /\ ids < MaxIds
    /\ ids' = ids + 1
    /\ db' = [db EXCEPT ![n] =
         [marker |-> [id |-> ids + 1, tenant |-> x, phase |-> "frozen", digest |-> None, space |-> n,
                      manifest |-> Snapshot(n, Present(n))],
          binding |-> None, tab |-> FreezeTriggers(n)]]
    /\ UNCHANGED <<handle, guarding, archive>>

(* _backup_record and _verified.                                            *)
BackupRecord(c, record) ==
    /\ db[c].marker # None /\ db[c].binding = None
    /\ db[c].marker = [record EXCEPT !.phase = "frozen", !.digest = None]
VerifiedInPlace(n, c) ==
    LET record == db[n].marker IN
    /\ record.manifest = Snapshot(n, Present(n))
    /\ c = n \/ BackupRecord(c, record)
    /\ Snapshot(c, Present(c)) = record.manifest
    /\ record.digest \in {None, archive}
Verified(n, c) ==
    LET record == db[n].marker IN
    /\ record.manifest = Snapshot(n, Present(n))
    /\ c # n
    /\ BackupRecord(c, record)
    /\ Snapshot(c, Present(c)) = record.manifest
    /\ record.digest \in {None, archive}

VerifyBackup(n, c) ==
    /\ AuthorityExclusive
    /\ Record(n)
    /\ db[n].marker.phase \in {"frozen", "backup_verified"}
    /\ Verified(n, c)
    /\ db' = [db EXCEPT ![n] = [db[n] EXCEPT !.marker =
                [db[n].marker EXCEPT !.phase = "backup_verified", !.digest = archive]]]
    /\ UNCHANGED <<handle, guarding, archive, ids>>

(* _drop_guards and the shared tenant guards.                               *)
DropGuards(tab) == [t \in Tables |-> [tab[t] EXCEPT !.freeze = FALSE, !.guard = FALSE]]
InstallGuards(tab) ==
    [t \in Tables |-> [tab[t] EXCEPT !.freeze = FALSE, !.guard = tab[t].there]]

Activate(n, c) ==
    /\ AuthorityExclusive
    /\ Record(n)
    /\ db[n].marker.phase = "backup_verified"
    /\ Verified(n, c)
    /\ ids < MaxIds
    /\ ids' = ids + 1
    /\ db' = [db EXCEPT ![n] =
         [marker |-> [db[n].marker EXCEPT !.phase = "active"],
          binding |-> [tenant |-> db[n].marker.tenant, id |-> ids + 1],
          tab |-> InstallGuards(db[n].tab)]]
    /\ UNCHANGED <<handle, guarding, archive>>

ExtraAny(n) == TRUE
ExtraEmpty(n) ==
    \A t \in Present(n) \ DOMAIN db[n].marker.manifest : db[n].tab[t].rows = {}
Rollback(n) ==
    LET kept == DOMAIN db[n].marker.manifest IN
    /\ AuthorityExclusive
    /\ Record(n)
    /\ kept \subseteq Present(n) /\ Snapshot(n, kept) = db[n].marker.manifest
    /\ ExtraEmpty(n)
    /\ db' = [db EXCEPT ![n] =
         [marker |-> None, binding |-> None,
          tab |-> [t \in Tables |-> IF t \in kept THEN DropGuards(db[n].tab)[t] ELSE Absent]]]
    /\ UNCHANGED <<handle, guarding, archive, ids>>

------------------------------------------------------------------------------
(* Opening a tenant store: _initialize_scope, then seal_writes.             *)
NoMarker(n) == db[n].marker = None
NoUnassignedRows(n) == Rows(n) = {} /\ db[n].marker = None
InitializeScope(h, n, x) ==
    /\ handle[h] = None
    /\ IF db[n].binding = None
       THEN /\ NoUnassignedRows(n)
            /\ ids < MaxIds
            /\ ids' = ids + 1
            /\ db' = [db EXCEPT ![n] = [db[n] EXCEPT !.binding = [tenant |-> x, id |-> ids + 1]]]
            /\ handle' = [handle EXCEPT ![h] = [space |-> n, tenant |-> x, id |-> ids + 1, step |-> "bound"]]
       ELSE /\ db[n].binding.tenant = x
            /\ handle' = [handle EXCEPT ![h] =
                 [space |-> n, tenant |-> x, id |-> db[n].binding.id, step |-> "bound"]]
            /\ UNCHANGED <<db, ids>>
    /\ UNCHANGED <<guarding, archive>>

AssertScope(h) ==
    db[handle[h].space].binding = [tenant |-> handle[h].tenant, id |-> handle[h].id]

(* TenantStoreRegistry.resolve, for a principal of the handle's tenant.     *)
Resolve(h) == AssertScope(h)

(* seal_writes checks the scope before its write transaction begins.        *)
SealCheck(h) ==
    /\ handle[h] # None /\ handle[h].step \in {"bound", "sealed"}
    /\ AssertScope(h)
    /\ handle' = [handle EXCEPT ![h] = [handle[h] EXCEPT !.step = "sealing"]]
    /\ UNCHANGED <<db, guarding, archive, ids>>

SealInstall(h) ==
    LET n == handle[h].space IN
    /\ handle[h] # None /\ handle[h].step = "sealing"
    /\ db' = [db EXCEPT ![n] = [db[n] EXCEPT !.tab =
                [t \in Tables |-> [db[n].tab[t] EXCEPT !.guard = db[n].tab[t].there]]]]
    /\ handle' = [handle EXCEPT ![h] = [handle[h] EXCEPT !.step = "sealed"]]
    /\ UNCHANGED <<guarding, archive, ids>>

(* A session method: the authority guard, resolve with assert_scope, the    *)
(* write, which the triggers judge, and the end of the guard.               *)
SessionBegin(h) ==
    /\ handle[h] # None /\ handle[h].step = "sealed" /\ h \notin guarding
    /\ Resolve(h)
    /\ guarding' = guarding \cup {h}
    /\ UNCHANGED <<db, handle, archive, ids>>

TenantMayWrite(n, t, x) ==
    /\ db[n].tab[t].there /\ ~db[n].tab[t].freeze
    /\ db[n].tab[t].guard => db[n].binding # None /\ db[n].binding.tenant = x

SessionWrite(h, t) ==
    LET n == handle[h].space IN
    /\ h \in guarding
    /\ TenantMayWrite(n, t, handle[h].tenant)
    /\ db' = [db EXCEPT ![n] = [db[n] EXCEPT !.tab = [db[n].tab EXCEPT ![t] =
                [db[n].tab[t] EXCEPT !.rows = @ \cup {handle[h].tenant}]]]]
    /\ UNCHANGED <<handle, guarding, archive, ids>>

SessionEnd(h) ==
    /\ h \in guarding
    /\ guarding' = guarding \ {h}
    /\ UNCHANGED <<db, handle, archive, ids>>

(* A process that holds a tenant store ends, at any point.                  *)
Close(h) ==
    /\ handle[h] # None
    /\ handle' = [handle EXCEPT ![h] = None]
    /\ guarding' = guarding \ {h}
    /\ UNCHANGED <<db, archive, ids>>

------------------------------------------------------------------------------
(* Old releases, and what the operator does outside the tool.               *)
CreateTable(n, t) ==
    /\ n \in Sources \/ ~Untouched(n)
    /\ ~db[n].tab[t].there
    /\ db' = [db EXCEPT ![n] = [db[n] EXCEPT !.tab = [db[n].tab EXCEPT ![t] = [Absent EXCEPT !.there = TRUE]]]]
    /\ UNCHANGED <<handle, guarding, archive, ids>>

LegacyWrite(n, t, r) ==
    /\ db[n].tab[t].there /\ ~db[n].tab[t].freeze /\ ~db[n].tab[t].guard
    /\ db' = [db EXCEPT ![n] = [db[n] EXCEPT !.tab = [db[n].tab EXCEPT ![t] =
                [db[n].tab[t] EXCEPT !.rows = @ \cup {r}]]]]
    /\ UNCHANGED <<handle, guarding, archive, ids>>

\* A backup of n restored into c, in which the rows in lost are missing.
Restore(n, c, lost) ==
    /\ c \notin Sources /\ Untouched(c) /\ ~Untouched(n)
    /\ lost \subseteq Rows(n)
    /\ db' = [db EXCEPT ![c] = [db[n] EXCEPT !.tab =
                [t \in Tables |-> [db[n].tab[t] EXCEPT !.rows = @ \ lost]]]]
    /\ UNCHANGED <<handle, guarding, archive, ids>>

ReplaceArchive(a) ==
    /\ a # archive
    /\ archive' = a
    /\ UNCHANGED <<db, handle, guarding, ids>>

------------------------------------------------------------------------------
Init ==
    /\ db = [n \in Spaces |-> [marker |-> None, binding |-> None, tab |-> [t \in Tables |-> Absent]]]
    /\ handle = [h \in Handles |-> None]
    /\ guarding = {}
    /\ archive \in Archives
    /\ ids = 0

Migrate ==
    \E n \in Spaces :
      \/ \E x \in Tenants : Freeze(n, x)
      \/ \E c \in Spaces : VerifyBackup(n, c) \/ Activate(n, c)
      \/ Rollback(n)

Store(h) ==
    \/ \E n \in Spaces, x \in Tenants : InitializeScope(h, n, x)
    \/ SealCheck(h) \/ SealInstall(h) \/ SessionBegin(h) \/ SessionEnd(h) \/ Close(h)
    \/ \E t \in Tables : SessionWrite(h, t)

Outside ==
    \/ \E n \in Spaces, t \in Tables : \/ CreateTable(n, t)
                                       \/ \E r \in LegacyRows : LegacyWrite(n, t, r)
    \/ \E n, c \in Spaces : \E lost \in SUBSET Rows(n) : Restore(n, c, lost)
    \/ \E a \in Archives : ReplaceArchive(a)

Next == Migrate \/ (\E h \in Handles : Store(h)) \/ Outside

Spec == Init /\ [][Next]_vars

------------------------------------------------------------------------------
(* History is intact: from freeze on, through activation, tenant writes and *)
(* restarts, old releases add nothing to the tables that were there, and    *)
(* until activation those tables hold exactly the recorded rows.            *)
HistoryIntact ==
    \A n \in Spaces : Record(n) =>
      \A t \in DOMAIN db[n].marker.manifest : LET rows == db[n].tab[t].rows IN
        /\ rows \cap LegacyRows \subseteq db[n].marker.manifest[t]
        /\ db[n].marker.phase # "active" => rows = db[n].marker.manifest[t]

(* A namespace holds rows of no tenant but the one it is bound to, and none *)
(* while it is unbound: not after a rollback that a tenant process did not  *)
(* notice, nor in a namespace that a second tenant opens.                   *)
OneTenant ==
    \A n \in Spaces : Rows(n) \cap Tenants \subseteq
      IF db[n].binding = None THEN {} ELSE {db[n].binding.tenant}

(* A namespace that held rows of an old release is never bound to a tenant  *)
(* except through an activated migration of its own or a copy of one.       *)
HistoryAssignedOnce ==
    \A n \in Spaces : (db[n].binding = None /\ db'[n].binding # None /\ Rows(n) # {}) =>
        /\ db'[n].marker # None /\ db'[n].marker.phase = "active"
        /\ db'[n].marker.tenant = db'[n].binding.tenant

(* No migration phase discards a row, whatever tables appeared meanwhile.   *)
NothingDiscarded ==
    \A n \in Spaces, t \in Tables : db[n].tab[t].rows \subseteq db'[n].tab[t].rows

(* When a namespace is activated, another namespace holds every one of its  *)
(* rows, so that there is something to recover from.                        *)
ActivatedWithBackup ==
    \A n \in Spaces :
        (db[n].marker # None /\ db[n].marker.phase # "active"
           /\ db'[n].marker # None /\ db'[n].marker.phase = "active") =>
        \E c \in Spaces \ {n} : \A t \in Tables : db[n].tab[t].rows \subseteq db[c].tab[t].rows
=============================================================================
