-------------------------- MODULE DestinationFile --------------------------
(***************************************************************************)
(* The SQLite demonstration destination: one database file that processes  *)
(* open as a v1 fenced target, as a v1 sandbox target, or as the queued    *)
(* destination of one descriptor.  The file's write lock (BEGIN IMMEDIATE) *)
(* serializes writers; opening a v1 target is three separate statements; a *)
(* signing callback runs inside the fenced transactions and may take time. *)
(* One fence scope; receipts and signatures are abstracted to the fields   *)
(* they bind.                                                              *)
(***************************************************************************)
EXTENDS Integers

CONSTANTS
    Handles, EffectIds, Nil,
    KindOf,          \* "fenced", "sandbox" or "queued"
    DescOf,          \* the descriptor a queued process is configured with
    PrintOf,         \* the fingerprint a process sends for an operation
    Ttl,             \* seconds a fence lease lasts
    Timeout,         \* the descriptor's call_timeout_seconds
    MaxNow, MaxEpoch \* bounds on the clock and on lease acquisitions

ASSUME DestinationAssumption ==
    /\ \A h \in Handles : KindOf[h] \in {"fenced", "sandbox", "queued"}
    /\ Timeout \in Nat \ {0} /\ Ttl \in Nat \ {0} /\ MaxNow \in Nat /\ MaxEpoch \in Nat
    /\ Nil \notin Handles \cup [owner : Handles, epoch : Nat, expires : Int]

VARIABLES
    now,      \* the file host's SQL clock
    objects,  \* the schema objects of the file
    bound,    \* the descriptor in ab_queued_destination_binding_v2
    fence,    \* the row of ab_destination_fences
    v1, v2,   \* the rows of sandbox_effects and ab_queued_effects_v2
    writer,   \* the process inside BEGIN IMMEDIATE
    stage,    \* how far each process is
    call,     \* the call it is making
    lease,    \* the epoch it was given
    proofs    \* readback statements the observer signed

destinationVars == <<now, objects, bound, fence, v1, v2, writer, stage, call, lease, proofs>>
fileVars == <<objects, bound, fence, v1, v2>>

(* The queued schema is created in one transaction; its tables other than  *)
(* the fence table, and its triggers, count as one object.                 *)
QueuedObjects == {"ab_destination_fences", "ab_queued"}

DestinationInit ==
    /\ now = 0 /\ objects = {} /\ bound = Nil /\ fence = Nil
    /\ v1 = [o \in EffectIds |-> Nil] /\ v2 = [o \in EffectIds |-> Nil]
    /\ writer = Nil
    /\ stage = [h \in Handles |-> "closed"] /\ call = [h \in Handles |-> Nil]
    /\ lease = [h \in Handles |-> 0] /\ proofs = {}

Tick ==
    /\ now < MaxNow
    /\ now' = now + 1
    /\ UNCHANGED <<fileVars, writer, stage, call, lease, proofs>>

To(h, s) == stage' = [stage EXCEPT ![h] = s]

-----------------------------------------------------------------------------
(* Opening and closing.                                                    *)

(* "queued-only destination file rejects ..." of both v1 targets.          *)
NotQueued == "ab_queued" \notin objects

(* The v1 constructors' check, outside any transaction.                    *)
OpenV1(h) ==
    /\ KindOf[h] # "queued" /\ stage[h] = "closed"
    /\ NotQueued
    /\ To(h, IF KindOf[h] = "fenced" THEN "checked" ELSE "fences")
    /\ UNCHANGED <<now, fileVars, writer, call, lease, proofs>>

(* _initialize_v1, its two CREATE TABLE IF NOT EXISTS statements.          *)
CreateFences(h) ==
    /\ stage[h] = "checked" /\ writer = Nil
    /\ objects' = objects \cup {"ab_destination_fences"}
    /\ To(h, "fences")
    /\ UNCHANGED <<now, bound, fence, v1, v2, writer, call, lease, proofs>>

(* The second statement; the only one of SandboxTarget.__init__.           *)
CreateEffects(h) ==
    /\ stage[h] = "fences" /\ writer = Nil
    /\ objects' = objects \cup {"sandbox_effects"}
    /\ To(h, "open")
    /\ UNCHANGED <<now, bound, fence, v1, v2, writer, call, lease, proofs>>

(* Fault variant: the persisted descriptor is not compared.                *)
QualifiedShape(d, objs, b) == objs = QueuedObjects

(* _qualify_queued_destination: exactly the declared objects, bound to     *)
(* this descriptor.                                                        *)
QualifiedFile(d, objs, b) == objs = QueuedObjects /\ b = d

(* Fault variant: a v1 file is upgraded in place.                          *)
OpenQueuedUpgrade(h) ==
    /\ KindOf[h] = "queued" /\ stage[h] = "closed" /\ writer = Nil
    /\ objects' = objects \cup QueuedObjects
    /\ bound' = IF bound = Nil THEN DescOf[h] ELSE bound
    /\ To(h, "open")
    /\ UNCHANGED <<now, fence, v1, v2, writer, call, lease, proofs>>

(* _initialize_queued, one transaction: an empty file gets the schema and  *)
(* the binding, anything else must already qualify.                        *)
OpenQueued(h) ==
    /\ KindOf[h] = "queued" /\ stage[h] = "closed" /\ writer = Nil
    /\ objects' = IF objects = {} THEN QueuedObjects ELSE objects
    /\ bound' = IF objects = {} THEN DescOf[h] ELSE bound
    /\ QualifiedFile(DescOf[h], objects', bound')
    /\ To(h, "open")
    /\ UNCHANGED <<now, fence, v1, v2, writer, call, lease, proofs>>

(* The adapter closes the file after every call and remembers the lease.   *)
Close(h) ==
    /\ stage[h] = "open"
    /\ To(h, "closed")
    /\ UNCHANGED <<now, fileVars, writer, call, lease, proofs>>

(* A process dies: an open transaction rolls back.                         *)
CrashHandle(h) ==
    /\ stage[h] # "closed"
    /\ To(h, "closed")
    /\ writer' = IF writer = h THEN Nil ELSE writer
    /\ call' = [call EXCEPT ![h] = Nil] /\ lease' = [lease EXCEPT ![h] = 0]
    /\ UNCHANGED <<now, fileVars, proofs>>

-----------------------------------------------------------------------------
(* The fence.                                                              *)

(* acquire: only over an absent or expired lease, with the next epoch.     *)
Acquire(h) ==
    /\ KindOf[h] # "sandbox" /\ stage[h] = "open" /\ writer = Nil
    /\ fence # Nil => fence.expires <= now
    /\ LET epoch == IF fence = Nil THEN 1 ELSE fence.epoch + 1 IN
       /\ epoch <= MaxEpoch
       /\ fence' = [owner |-> h, epoch |-> epoch, expires |-> now + Ttl]
       /\ lease' = [lease EXCEPT ![h] = epoch]
    /\ UNCHANGED <<now, objects, bound, v1, v2, writer, stage, call, proofs>>

(* The row names this owner and this epoch, and has not expired.           *)
Holds(h, epoch) ==
    /\ fence # Nil
    /\ fence.owner = h /\ fence.epoch = epoch /\ fence.expires > now

-----------------------------------------------------------------------------
(* v1 commits.                                                             *)

(* commit of either v1 target up to its transaction: the check that the    *)
(* file is not queued-only happens before the lock; the sandbox target     *)
(* signs here.                                                             *)
CallV1(h, o) ==
    /\ KindOf[h] # "queued" /\ stage[h] = "open"
    /\ NotQueued
    /\ KindOf[h] = "fenced" => lease[h] >= 1
    /\ call' = [call EXCEPT ![h] = [op |-> o, epoch |-> lease[h]]]
    /\ To(h, "called")
    /\ UNCHANGED <<now, fileVars, writer, lease, proofs>>

EndCall(h) ==
    /\ call' = [call EXCEPT ![h] = Nil]
    /\ To(h, "open")

(* Fault variant: the fence was compared before the lock was waited for,   *)
(* and is not compared again.                                              *)
BeginV1Unfenced(h) ==
    /\ KindOf[h] = "fenced" /\ stage[h] = "called" /\ writer = Nil
    /\ IF v1[call[h].op] = Nil
       THEN writer' = h /\ To(h, "signing") /\ UNCHANGED call
       ELSE EndCall(h) /\ UNCHANGED writer
    /\ UNCHANGED <<now, fileVars, lease, proofs>>

(* Fault variant: the transaction begins without the write lock.           *)
BeginV1Unlocked(h) ==
    /\ KindOf[h] = "fenced" /\ stage[h] = "called" /\ writer = Nil
    /\ IF Holds(h, call[h].epoch) /\ v1[call[h].op] = Nil
       THEN To(h, "signing") /\ UNCHANGED call
       ELSE EndCall(h)
    /\ UNCHANGED <<now, fileVars, writer, lease, proofs>>

(* FencedSqliteTarget.commit: the lock, the fence, the duplicate check;    *)
(* then the signing callback runs with the lock held.                      *)
BeginV1(h) ==
    /\ KindOf[h] = "fenced" /\ stage[h] = "called" /\ writer = Nil
    /\ IF Holds(h, call[h].epoch) /\ v1[call[h].op] = Nil
       THEN writer' = h /\ To(h, "signing") /\ UNCHANGED call
       ELSE EndCall(h) /\ UNCHANGED writer
    /\ UNCHANGED <<now, fileVars, lease, proofs>>

(* The signing callback raises or returns no signature: ROLLBACK.          *)
SigningFails(h) ==
    /\ stage[h] = "signing"
    /\ writer' = Nil
    /\ EndCall(h)
    /\ UNCHANGED <<now, fileVars, lease, proofs>>

(* The row and COMMIT; the acknowledgement may be lost, which leaves the   *)
(* caller as if it had not been told.                                      *)
InsertV1(h) ==
    /\ KindOf[h] = "fenced" /\ stage[h] = "signing"
    /\ v1' = [v1 EXCEPT ![call[h].op] = [print |-> PrintOf[h], epoch |-> call[h].epoch]]
    /\ writer' = Nil
    /\ EndCall(h)
    /\ UNCHANGED <<now, objects, bound, fence, v2, lease, proofs>>

(* Fault variant: a second write replaces the first.                       *)
CommitSandboxAgain(h) ==
    /\ KindOf[h] = "sandbox" /\ stage[h] = "called" /\ writer = Nil
    /\ v1' = [v1 EXCEPT ![call[h].op] = [print |-> PrintOf[h], epoch |-> 0]]
    /\ EndCall(h)
    /\ UNCHANGED <<now, objects, bound, fence, v2, writer, lease, proofs>>

(* SandboxTarget.commit's transaction: no fence, no replay.                *)
CommitSandbox(h) ==
    /\ KindOf[h] = "sandbox" /\ stage[h] = "called" /\ writer = Nil
    /\ v1' = IF v1[call[h].op] # Nil THEN v1
             ELSE [v1 EXCEPT ![call[h].op] = [print |-> PrintOf[h], epoch |-> 0]]
    /\ EndCall(h)
    /\ UNCHANGED <<now, objects, bound, fence, v2, writer, lease, proofs>>

(* verify_destination_receipt: the stored receipt names the operation and  *)
(* the fingerprint asked for.                                              *)
ReceiptMatches(h, o) == v1[o].print = PrintOf[h]

(* SandboxReadOnlyObserver.observe, asked by a process for its own         *)
(* fingerprint: only a committed row with a matching receipt is attested;  *)
(* absence is "outcome unknown".                                           *)
Observe(h, o) ==
    /\ "sandbox_effects" \in objects
    /\ v1[o] # Nil /\ ReceiptMatches(h, o)
    /\ proofs' = proofs \cup {<<o, PrintOf[h]>>}
    /\ UNCHANGED <<now, fileVars, writer, stage, call, lease>>

-----------------------------------------------------------------------------
(* Queued commits.                                                         *)

(* The dispatcher authorizes one action under its lease: a window that     *)
(* ends with the call's timeout and never after the lease it was granted.  *)
Authorize(h, o) ==
    /\ KindOf[h] = "queued" /\ stage[h] = "open" /\ lease[h] >= 1
    /\ Holds(h, lease[h])
    /\ call' = [call EXCEPT ![h] =
          [op |-> o, epoch |-> lease[h], issued |-> now,
           expires |-> IF now + Timeout <= fence.expires THEN now + Timeout
                       ELSE fence.expires]]
    /\ To(h, "called")
    /\ UNCHANGED <<now, fileVars, writer, lease, proofs>>

(* The signed window and the fence, against the destination's clock.       *)
Admits(h) ==
    /\ call[h].issued <= now /\ now < call[h].expires
    /\ Holds(h, call[h].epoch)
    /\ call[h].expires <= fence.expires

(* commit_queued up to the signing callback: the schema is qualified again *)
(* and the clock is read after the wait for the lock.                      *)
BeginQueued(h) ==
    /\ KindOf[h] = "queued" /\ stage[h] = "called" /\ writer = Nil
    /\ IF QualifiedFile(DescOf[h], objects, bound) /\ Admits(h) /\ v2[call[h].op] = Nil
       THEN writer' = h /\ To(h, "signing") /\ UNCHANGED call
       ELSE EndCall(h) /\ UNCHANGED writer
    /\ UNCHANGED <<now, fileVars, lease, proofs>>

(* Fault variant: the clock is not read again after signing.               *)
AdmitsSigned(h) == TRUE

(* "expired or changed while signing": the same test, made again.          *)
StillAdmits(h) == Admits(h)

(* The rest of commit_queued.                                              *)
InsertQueued(h) ==
    /\ KindOf[h] = "queued" /\ stage[h] = "signing"
    /\ v2' = IF StillAdmits(h)
             THEN [v2 EXCEPT ![call[h].op] =
                     [desc |-> DescOf[h], epoch |-> call[h].epoch, at |-> now,
                      expires |-> call[h].expires]]
             ELSE v2
    /\ writer' = Nil
    /\ EndCall(h)
    /\ UNCHANGED <<now, objects, bound, fence, v1, lease, proofs>>

-----------------------------------------------------------------------------
DestinationNext ==
    \/ Tick
    \/ \E h \in Handles :
          \/ OpenV1(h) \/ CreateFences(h) \/ CreateEffects(h) \/ OpenQueued(h)
          \/ Close(h) \/ CrashHandle(h) \/ Acquire(h)
          \/ SigningFails(h) \/ BeginV1(h) \/ InsertV1(h) \/ CommitSandbox(h)
          \/ BeginQueued(h) \/ InsertQueued(h)
          \/ \E o \in EffectIds : CallV1(h, o) \/ Observe(h, o) \/ Authorize(h, o)

DestinationSpec == DestinationInit /\ [][DestinationNext]_destinationVars

-----------------------------------------------------------------------------
(* Every variable has its type, and only a process inside a transaction    *)
(* holds the file's write lock.                                            *)
DestinationTypeOK ==
    /\ now \in 0..MaxNow
    /\ objects \subseteq QueuedObjects \cup {"sandbox_effects"}
    /\ bound \in {DescOf[h] : h \in Handles} \cup {Nil}
    /\ \A h \in Handles :
          /\ stage[h] \in {"closed", "checked", "fences", "open", "called", "signing"}
          /\ lease[h] \in 0..MaxEpoch
          /\ stage[h] = "signing" <=> writer = h

(* A file carries effects of one contract only: no v1 effect is ever in a  *)
(* file with the queued schema, although both v1 targets test for it       *)
(* before they wait for the lock (FencedSqliteTarget.commit,               *)
(* SandboxTarget.commit, _initialize_queued).                              *)
OneContract == (\E o \in EffectIds : v1[o] # Nil) => NotQueued

(* Every queued effect was written by a process configured with the one    *)
(* descriptor the file is bound to (_qualify_queued_destination).          *)
EffectsOfTheBinding == \A o \in EffectIds : v2[o] # Nil => v2[o].desc = bound

(* A queued effect is inserted inside its signed window, however long the  *)
(* lock wait and the signing callback took (commit_queued).                *)
EffectInWindow == \A o \in EffectIds : v2[o] # Nil => v2[o].at < v2[o].expires

(* Fenced effects land in epoch order: once a later holder's effect is in  *)
(* the file, no earlier holder adds one (acquire and commit under one      *)
(* write lock).                                                            *)
EpochOrder ==
    [][\A o, p \in EffectIds :
          (v1[o] = Nil /\ v1'[o] # Nil /\ v1'[o].epoch # 0 /\ v1[p] # Nil)
              => v1[p].epoch <= v1'[o].epoch]_destinationVars

(* What the observer attests stays true: the operation's only effect has   *)
(* the attested fingerprint, also after retries that lost their            *)
(* acknowledgement (observe and the "no replay" test of both targets).     *)
ProofsStand == \A p \in proofs : v1[p[1]] # Nil /\ v1[p[1]].print = p[2]

(* What the file promises about effects, whoever opened it and however     *)
(* long locks and signatures took: one writer, one contract, one           *)
(* descriptor, the signed window, attestations that stand, and the order   *)
(* of the epochs.                                                          *)
EffectHistory ==
    /\ [](DestinationTypeOK /\ ProofsStand)
    /\ [](OneContract /\ EffectsOfTheBinding /\ EffectInWindow)
    /\ EpochOrder
=============================================================================
