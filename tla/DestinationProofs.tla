-------------------------- MODULE DestinationProofs --------------------------
(***************************************************************************)
(* The two destinations, for any number of processes, operations and       *)
(* descriptors and any lease lengths.  The SQLite file: one writer, one    *)
(* contract, one binding, signed windows, attestations that stand, epoch   *)
(* order.  The PostgreSQL fence: effects land only under the lease that    *)
(* the row still names, a lease that ran out is not revived, and while the *)
(* table is not rolled back effects land in the order of the epochs.       *)
(***************************************************************************)
EXTENDS DestinationFile, PgFence, FiniteSetTheorems, TLAPS

V1Calls == [op : EffectIds, epoch : Nat]
QueuedCalls == [op : EffectIds, epoch : Nat, issued : Int, expires : Int]
Fences == [owner : Handles, epoch : Nat, expires : Int]
V2Effects == [desc : {DescOf[h] : h \in Handles}, epoch : Nat, at : Int, expires : Int]
V1Effects == [print : {PrintOf[h] : h \in Handles}, epoch : Nat]
Stages == {"closed", "checked", "fences", "open", "called", "signing"}
Busy == {"called", "signing"}

(* The shape of the state the other conjuncts speak about.                 *)
Shape ==
    /\ now \in Int
    /\ stage \in [Handles -> Stages]
    /\ call \in [Handles -> {Nil} \cup V1Calls \cup QueuedCalls]
    /\ lease \in [Handles -> Nat]
    /\ fence \in {Nil} \cup Fences
    /\ v1 \in [EffectIds -> {Nil} \cup V1Effects]
    /\ v2 \in [EffectIds -> {Nil} \cup V2Effects]
    /\ \A h \in Handles : stage[h] \in Busy =>
          call[h] \in (IF KindOf[h] = "queued" THEN QueuedCalls ELSE V1Calls)
    /\ \A h \in Handles : KindOf[h] = "queued" => stage[h] \notin {"checked", "fences"}

(* A process signs exactly while it holds the write lock.                  *)
LockHeld == \A h \in Handles : stage[h] = "signing" => writer = h

(* A v1 process that is past opening has its effect table in the file, so  *)
(* the queued schema can no longer be created there.                       *)
V1Opened ==
    /\ \A h \in Handles :
          /\ KindOf[h] # "queued" /\ stage[h] = "open" => "sandbox_effects" \in objects
          /\ KindOf[h] # "queued" /\ stage[h] \in Busy =>
                "sandbox_effects" \in objects /\ NotQueued
    /\ \A o \in EffectIds : v1[o] # Nil => "sandbox_effects" \in objects /\ NotQueued

(* A queued process past opening, and every queued effect, has the bound   *)
(* descriptor, and the file has the queued schema.                            *)
QueuedOpened ==
    /\ \A h \in Handles : KindOf[h] = "queued" /\ stage[h] \in Busy \cup {"open"} =>
          DescOf[h] = bound /\ "ab_queued" \in objects
    /\ \A o \in EffectIds : v2[o] # Nil => v2[o].desc = bound /\ "ab_queued" \in objects

(* Nothing in the file is newer than the fence row, and a process that     *)
(* signs a fenced effect holds the row's epoch.                            *)
FenceNewest ==
    /\ \A o \in EffectIds : v1[o] # Nil /\ v1[o].epoch # 0 =>
          fence # Nil /\ v1[o].epoch <= fence.epoch
    /\ \A h \in Handles : KindOf[h] = "fenced" /\ stage[h] = "signing" =>
          fence # Nil /\ call[h].epoch = fence.epoch

IInv == Shape /\ LockHeld /\ V1Opened /\ QueuedOpened /\ FenceNewest /\ EffectInWindow

-----------------------------------------------------------------------------
(* The empty file satisfies the invariant.                                 *)
LEMMA InitIInv == DestinationInit => IInv
<1> SUFFICES ASSUME DestinationInit PROVE IInv
  OBVIOUS
<1>1. Shape
  BY DEF DestinationInit, Shape, Stages, Busy
<1>2. LockHeld /\ V1Opened /\ QueuedOpened /\ FenceNewest /\ EffectInWindow
  BY DEF DestinationInit, LockHeld, V1Opened, QueuedOpened, FenceNewest, EffectInWindow, Busy
<1> QED
  BY <1>1, <1>2 DEF IInv

(* Opening the file.                                                       *)
LEMMA OpenKeepsIInv ==
  ASSUME IInv,
         \/ \E h \in Handles : OpenV1(h)
         \/ \E h \in Handles : CreateFences(h)
         \/ \E h \in Handles : CreateEffects(h)
         \/ \E h \in Handles : OpenQueued(h)
  PROVE  IInv'
<1>1. ASSUME NEW h \in Handles, OpenV1(h) PROVE IInv'
  <2>1. Shape'
    BY <1>1 DEF IInv, Shape, Stages, Busy, OpenV1, To, fileVars
  <2>2. LockHeld'
    BY <1>1 DEF IInv, LockHeld, Shape, OpenV1, To, fileVars
  <2>3. V1Opened'
    BY <1>1 DEF IInv, V1Opened, Shape, NotQueued, Busy, OpenV1, To, fileVars
  <2>4. QueuedOpened'
    BY <1>1 DEF IInv, QueuedOpened, Shape, Busy, OpenV1, To, fileVars
  <2>5. FenceNewest'
    BY <1>1 DEF IInv, FenceNewest, Shape, Busy, OpenV1, To, fileVars
  <2>6. EffectInWindow'
    BY <1>1 DEF IInv, EffectInWindow, Shape, Busy, OpenV1, To, fileVars
  <2> QED
    BY <2>1, <2>2, <2>3, <2>4, <2>5, <2>6 DEF IInv
<1>2. ASSUME NEW h \in Handles, CreateFences(h) PROVE IInv'
  <2>1. Shape'
    BY <1>2 DEF IInv, Shape, Stages, Busy, CreateFences, To
  <2>2. LockHeld'
    BY <1>2 DEF IInv, LockHeld, Shape, CreateFences, To
  <2>3. V1Opened'
    BY <1>2 DEF IInv, V1Opened, Shape, NotQueued, Busy, CreateFences, To
  <2>4. QueuedOpened'
    BY <1>2 DEF IInv, QueuedOpened, Shape, Busy, CreateFences, To
  <2>5. FenceNewest'
    BY <1>2 DEF IInv, FenceNewest, Shape, Busy, CreateFences, To
  <2>6. EffectInWindow'
    BY <1>2 DEF IInv, EffectInWindow, Shape, Busy, CreateFences, To
  <2> QED
    BY <2>1, <2>2, <2>3, <2>4, <2>5, <2>6 DEF IInv
<1>3. ASSUME NEW h \in Handles, CreateEffects(h) PROVE IInv'
  <2>1. Shape'
    BY <1>3 DEF IInv, Shape, Stages, Busy, CreateEffects, To
  <2>2. LockHeld'
    BY <1>3 DEF IInv, LockHeld, Shape, CreateEffects, To
  <2>3. V1Opened'
    BY <1>3 DEF IInv, V1Opened, Shape, NotQueued, Busy, CreateEffects, To
  <2>4. QueuedOpened'
    BY <1>3 DEF IInv, QueuedOpened, Shape, Busy, CreateEffects, To
  <2>5. FenceNewest'
    BY <1>3 DEF IInv, FenceNewest, Shape, Busy, CreateEffects, To
  <2>6. EffectInWindow'
    BY <1>3 DEF IInv, EffectInWindow, Shape, Busy, CreateEffects, To
  <2> QED
    BY <2>1, <2>2, <2>3, <2>4, <2>5, <2>6 DEF IInv
<1>4. ASSUME NEW h \in Handles, OpenQueued(h) PROVE IInv'
  <2>1. Shape'
    BY <1>4 DEF IInv, Shape, Stages, Busy, OpenQueued, To, QualifiedFile, QueuedObjects
  <2>2. LockHeld'
    BY <1>4 DEF IInv, LockHeld, Shape, OpenQueued, To, QualifiedFile, QueuedObjects
  <2>3. V1Opened'
    BY <1>4 DEF IInv, V1Opened, Shape, NotQueued, Busy, OpenQueued, To, QualifiedFile, QueuedObjects
  <2>4. QueuedOpened'
    BY <1>4 DEF IInv, QueuedOpened, Shape, Busy, OpenQueued, To, QualifiedFile, QueuedObjects
  <2>5. FenceNewest'
    BY <1>4 DEF IInv, FenceNewest, Shape, Busy, OpenQueued, To, QualifiedFile, QueuedObjects
  <2>6. EffectInWindow'
    BY <1>4 DEF IInv, EffectInWindow, Shape, Busy, OpenQueued, To, QualifiedFile, QueuedObjects
  <2> QED
    BY <2>1, <2>2, <2>3, <2>4, <2>5, <2>6 DEF IInv
<1> QED
  BY <1>1, <1>2, <1>3, <1>4

(* The clock, closing, crashes, the fence and the observer.                *)
LEMMA FenceKeepsIInv ==
  ASSUME IInv,
         \/ Tick
         \/ \E h \in Handles : Close(h)
         \/ \E h \in Handles : CrashHandle(h)
         \/ \E h \in Handles : Acquire(h)
         \/ \E h \in Handles : SigningFails(h)
         \/ \E h \in Handles, o \in EffectIds : Observe(h, o)
  PROVE  IInv'
<1>1. CASE Tick
  <2>1. Shape'
    BY <1>1 DEF IInv, Shape, Stages, Busy, Tick, fileVars
  <2>2. LockHeld'
    BY <1>1 DEF IInv, LockHeld, Shape, Tick, fileVars
  <2>3. V1Opened'
    BY <1>1 DEF IInv, V1Opened, Shape, NotQueued, Busy, Tick, fileVars
  <2>4. QueuedOpened'
    BY <1>1 DEF IInv, QueuedOpened, Shape, Busy, Tick, fileVars
  <2>5. FenceNewest'
    BY <1>1 DEF IInv, FenceNewest, Shape, Busy, Tick, fileVars
  <2>6. EffectInWindow'
    BY <1>1 DEF IInv, EffectInWindow, Shape, Busy, Tick, fileVars
  <2> QED
    BY <2>1, <2>2, <2>3, <2>4, <2>5, <2>6 DEF IInv
<1>2. ASSUME NEW h \in Handles, Close(h) PROVE IInv'
  <2>1. Shape'
    BY <1>2 DEF IInv, Shape, Stages, Busy, Close, To, fileVars
  <2>2. LockHeld'
    BY <1>2 DEF IInv, LockHeld, Shape, Close, To, fileVars
  <2>3. V1Opened'
    BY <1>2 DEF IInv, V1Opened, Shape, NotQueued, Busy, Close, To, fileVars
  <2>4. QueuedOpened'
    BY <1>2 DEF IInv, QueuedOpened, Shape, Busy, Close, To, fileVars
  <2>5. FenceNewest'
    BY <1>2 DEF IInv, FenceNewest, Shape, Busy, Close, To, fileVars
  <2>6. EffectInWindow'
    BY <1>2 DEF IInv, EffectInWindow, Shape, Busy, Close, To, fileVars
  <2> QED
    BY <2>1, <2>2, <2>3, <2>4, <2>5, <2>6 DEF IInv
<1>3. ASSUME NEW h \in Handles, CrashHandle(h) PROVE IInv'
  <2>1. Shape'
    BY <1>3 DEF IInv, Shape, Stages, Busy, CrashHandle, To, fileVars
  <2>2. LockHeld'
    BY <1>3 DEF IInv, LockHeld, Shape, CrashHandle, To, fileVars
  <2>3. V1Opened'
    BY <1>3 DEF IInv, V1Opened, Shape, NotQueued, Busy, CrashHandle, To, fileVars
  <2>4. QueuedOpened'
    BY <1>3 DEF IInv, QueuedOpened, Shape, Busy, CrashHandle, To, fileVars
  <2>5. FenceNewest'
    BY <1>3 DEF IInv, FenceNewest, Shape, Busy, CrashHandle, To, fileVars
  <2>6. EffectInWindow'
    BY <1>3 DEF IInv, EffectInWindow, Shape, Busy, CrashHandle, To, fileVars
  <2> QED
    BY <2>1, <2>2, <2>3, <2>4, <2>5, <2>6 DEF IInv
<1>4. ASSUME NEW h \in Handles, Acquire(h) PROVE IInv'
  <2>1. Shape'
    BY <1>4, DestinationAssumption DEF IInv, Shape, Stages, Busy, Acquire, Fences
  <2>2. LockHeld'
    BY <1>4 DEF IInv, LockHeld, Shape, Acquire
  <2>3. V1Opened'
    BY <1>4 DEF IInv, V1Opened, Shape, NotQueued, Busy, Acquire
  <2>4. QueuedOpened'
    BY <1>4 DEF IInv, QueuedOpened, Shape, Busy, Acquire
  <2>5. FenceNewest'
    BY <1>4, DestinationAssumption DEF IInv, FenceNewest, Shape, Busy, Acquire, Fences, V1Effects, LockHeld
  <2>6. EffectInWindow'
    BY <1>4 DEF IInv, EffectInWindow, Shape, Busy, Acquire
  <2> QED
    BY <2>1, <2>2, <2>3, <2>4, <2>5, <2>6 DEF IInv
<1>5. ASSUME NEW h \in Handles, SigningFails(h) PROVE IInv'
  <2>1. Shape'
    BY <1>5 DEF IInv, Shape, Stages, Busy, SigningFails, EndCall, To, fileVars
  <2>2. LockHeld'
    BY <1>5 DEF IInv, LockHeld, Shape, SigningFails, EndCall, To, fileVars
  <2>3. V1Opened'
    BY <1>5 DEF IInv, V1Opened, Shape, NotQueued, Busy, SigningFails, EndCall, To, fileVars
  <2>4. QueuedOpened'
    BY <1>5 DEF IInv, QueuedOpened, Shape, Busy, SigningFails, EndCall, To, fileVars
  <2>5. FenceNewest'
    BY <1>5 DEF IInv, FenceNewest, Shape, Busy, SigningFails, EndCall, To, fileVars
  <2>6. EffectInWindow'
    BY <1>5 DEF IInv, EffectInWindow, Shape, Busy, SigningFails, EndCall, To, fileVars
  <2> QED
    BY <2>1, <2>2, <2>3, <2>4, <2>5, <2>6 DEF IInv
<1>6. ASSUME NEW h \in Handles, NEW o \in EffectIds, Observe(h, o) PROVE IInv'
  <2>1. Shape'
    BY <1>6 DEF IInv, Shape, Stages, Busy, Observe, fileVars
  <2>2. LockHeld'
    BY <1>6 DEF IInv, LockHeld, Shape, Observe, fileVars
  <2>3. V1Opened'
    BY <1>6 DEF IInv, V1Opened, Shape, NotQueued, Busy, Observe, fileVars
  <2>4. QueuedOpened'
    BY <1>6 DEF IInv, QueuedOpened, Shape, Busy, Observe, fileVars
  <2>5. FenceNewest'
    BY <1>6 DEF IInv, FenceNewest, Shape, Busy, Observe, fileVars
  <2>6. EffectInWindow'
    BY <1>6 DEF IInv, EffectInWindow, Shape, Busy, Observe, fileVars
  <2> QED
    BY <2>1, <2>2, <2>3, <2>4, <2>5, <2>6 DEF IInv
<1> QED
  BY <1>1, <1>2, <1>3, <1>4, <1>5, <1>6

(* The v1 commits.                                                         *)
LEMMA V1KeepsIInv ==
  ASSUME IInv,
         \/ \E h \in Handles, o \in EffectIds : CallV1(h, o)
         \/ \E h \in Handles : BeginV1(h)
         \/ \E h \in Handles : InsertV1(h)
         \/ \E h \in Handles : CommitSandbox(h)
  PROVE  IInv'
<1>1. ASSUME NEW h \in Handles, NEW o \in EffectIds, CallV1(h, o) PROVE IInv'
  <2>1. Shape'
    BY <1>1, Zenon DEF IInv, Shape, Stages, Busy, CallV1, To, fileVars, V1Calls
  <2>2. LockHeld'
    BY <1>1 DEF IInv, LockHeld, Shape, CallV1, To, fileVars
  <2>3. V1Opened'
    BY <1>1 DEF IInv, V1Opened, Shape, NotQueued, Busy, CallV1, To, fileVars
  <2>4. QueuedOpened'
    BY <1>1 DEF IInv, QueuedOpened, Shape, Busy, CallV1, To, fileVars
  <2>5. FenceNewest'
    BY <1>1 DEF IInv, FenceNewest, Shape, Busy, CallV1, To, fileVars
  <2>6. EffectInWindow'
    BY <1>1 DEF IInv, EffectInWindow, Shape, Busy, CallV1, To, fileVars
  <2> QED
    BY <2>1, <2>2, <2>3, <2>4, <2>5, <2>6 DEF IInv
<1>2. ASSUME NEW h \in Handles, BeginV1(h) PROVE IInv'
  <2>1. Shape'
    BY <1>2 DEF IInv, Shape, Stages, Busy, BeginV1, EndCall, To, Holds, fileVars
  <2>2. LockHeld'
    BY <1>2, DestinationAssumption DEF IInv, LockHeld, Shape, BeginV1, EndCall, To, Holds, fileVars
  <2>3. V1Opened'
    BY <1>2 DEF IInv, V1Opened, Shape, NotQueued, Busy, BeginV1, EndCall, To, Holds, fileVars
  <2>4. QueuedOpened'
    BY <1>2 DEF IInv, QueuedOpened, Shape, Busy, BeginV1, EndCall, To, Holds, fileVars
  <2>5. FenceNewest'
    BY <1>2 DEF IInv, FenceNewest, Shape, Busy, BeginV1, EndCall, To, Holds, fileVars
  <2>6. EffectInWindow'
    BY <1>2 DEF IInv, EffectInWindow, Shape, Busy, BeginV1, EndCall, To, Holds, fileVars
  <2> QED
    BY <2>1, <2>2, <2>3, <2>4, <2>5, <2>6 DEF IInv
<1>3. ASSUME NEW h \in Handles, InsertV1(h) PROVE IInv'
  <2>1. Shape'
    BY <1>3, Zenon DEF IInv, Shape, Stages, Busy, InsertV1, EndCall, To, V1Calls, V1Effects
  <2>2. LockHeld'
    BY <1>3 DEF IInv, LockHeld, Shape, InsertV1, EndCall, To
  <2>3. V1Opened'
    BY <1>3 DEF IInv, V1Opened, Shape, NotQueued, Busy, InsertV1, EndCall, To, V1Calls
  <2>4. QueuedOpened'
    BY <1>3 DEF IInv, QueuedOpened, Shape, Busy, InsertV1, EndCall, To
  <2>5. FenceNewest'
    BY <1>3 DEF IInv, FenceNewest, Shape, Busy, InsertV1, EndCall, To, V1Calls, Fences, LockHeld
  <2>6. EffectInWindow'
    BY <1>3 DEF IInv, EffectInWindow, Shape, Busy, InsertV1, EndCall, To
  <2> QED
    BY <2>1, <2>2, <2>3, <2>4, <2>5, <2>6 DEF IInv
<1>4. ASSUME NEW h \in Handles, CommitSandbox(h) PROVE IInv'
  <2>1. Shape'
    BY ZenonT(60), <1>4 DEF IInv, Shape, Stages, Busy, CommitSandbox, EndCall, To, V1Calls, V1Effects
  <2>2. LockHeld'
    BY <1>4 DEF IInv, LockHeld, Shape, CommitSandbox, EndCall, To
  <2>3. V1Opened'
    BY <1>4 DEF IInv, V1Opened, Shape, NotQueued, Busy, CommitSandbox, EndCall, To, V1Calls
  <2>4. QueuedOpened'
    BY <1>4 DEF IInv, QueuedOpened, Shape, Busy, CommitSandbox, EndCall, To
  <2>5. FenceNewest'
    BY <1>4 DEF IInv, FenceNewest, Shape, Busy, CommitSandbox, EndCall, To, V1Calls
  <2>6. EffectInWindow'
    BY <1>4 DEF IInv, EffectInWindow, Shape, Busy, CommitSandbox, EndCall, To
  <2> QED
    BY <2>1, <2>2, <2>3, <2>4, <2>5, <2>6 DEF IInv
<1> QED
  BY <1>1, <1>2, <1>3, <1>4

(* The queued commit.                                                      *)
LEMMA QueuedKeepsIInv ==
  ASSUME IInv,
         \/ \E h \in Handles, o \in EffectIds : Authorize(h, o)
         \/ \E h \in Handles : BeginQueued(h)
         \/ \E h \in Handles : InsertQueued(h)
  PROVE  IInv'
<1>1. ASSUME NEW h \in Handles, NEW o \in EffectIds, Authorize(h, o) PROVE IInv'
  <2>1. Shape'
    <3>1. call'[h] \in QueuedCalls /\ KindOf[h] = "queued"
      BY <1>1, DestinationAssumption DEF IInv, Shape, Authorize, Holds, Fences, QueuedCalls
    <3> QED
      BY <1>1, <3>1 DEF IInv, Shape, Stages, Busy, Authorize, To, fileVars
  <2>2. LockHeld'
    BY <1>1 DEF IInv, LockHeld, Shape, Authorize, To, fileVars
  <2>3. V1Opened'
    BY <1>1 DEF IInv, V1Opened, Shape, NotQueued, Busy, Authorize, To, fileVars
  <2>4. QueuedOpened'
    BY <1>1 DEF IInv, QueuedOpened, Shape, Busy, Authorize, To, fileVars
  <2>5. FenceNewest'
    BY <1>1 DEF IInv, FenceNewest, Shape, Busy, Authorize, To, fileVars
  <2>6. EffectInWindow'
    BY <1>1 DEF IInv, EffectInWindow, Shape, Busy, Authorize, To, fileVars
  <2> QED
    BY <2>1, <2>2, <2>3, <2>4, <2>5, <2>6 DEF IInv
<1>2. ASSUME NEW h \in Handles, BeginQueued(h) PROVE IInv'
  <2>1. Shape'
    BY <1>2 DEF IInv, Shape, Stages, Busy, BeginQueued, EndCall, To, fileVars
  <2>2. LockHeld'
    BY <1>2, DestinationAssumption DEF IInv, LockHeld, Shape, BeginQueued, EndCall, To, fileVars
  <2>3. V1Opened'
    BY <1>2 DEF IInv, V1Opened, Shape, NotQueued, Busy, BeginQueued, EndCall, To, fileVars
  <2>4. QueuedOpened'
    BY <1>2 DEF IInv, QueuedOpened, Shape, Busy, BeginQueued, EndCall, To, fileVars
  <2>5. FenceNewest'
    BY <1>2 DEF IInv, FenceNewest, Shape, Busy, BeginQueued, EndCall, To, fileVars
  <2>6. EffectInWindow'
    BY <1>2 DEF IInv, EffectInWindow, Shape, Busy, BeginQueued, EndCall, To, fileVars
  <2> QED
    BY <2>1, <2>2, <2>3, <2>4, <2>5, <2>6 DEF IInv
<1>3. ASSUME NEW h \in Handles, InsertQueued(h) PROVE IInv'
  <2>1. Shape'
    BY ZenonT(60), <1>3 DEF IInv, Shape, Stages, Busy, InsertQueued, EndCall, To, QueuedCalls, V2Effects
  <2>2. LockHeld'
    BY <1>3 DEF IInv, LockHeld, Shape, InsertQueued, EndCall, To
  <2>3. V1Opened'
    BY <1>3 DEF IInv, V1Opened, Shape, NotQueued, Busy, InsertQueued, EndCall, To
  <2>4. QueuedOpened'
    BY <1>3 DEF IInv, QueuedOpened, Shape, Busy, InsertQueued, EndCall, To, QueuedCalls
  <2>5. FenceNewest'
    BY <1>3 DEF IInv, FenceNewest, Shape, Busy, InsertQueued, EndCall, To
  <2>6. EffectInWindow'
    BY <1>3 DEF IInv, EffectInWindow, Shape, Busy, InsertQueued, EndCall, To, QueuedCalls, StillAdmits, Admits
  <2> QED
    BY <2>1, <2>2, <2>3, <2>4, <2>5, <2>6 DEF IInv
<1> QED
  BY <1>1, <1>2, <1>3

(* Every step keeps the invariant.                                         *)
LEMMA NextKeepsIInv == IInv /\ [DestinationNext]_destinationVars => IInv'
<1> SUFFICES ASSUME IInv, [DestinationNext]_destinationVars PROVE IInv'
  OBVIOUS
<1>1. CASE DestinationNext
  BY <1>1, OpenKeepsIInv, FenceKeepsIInv, V1KeepsIInv, QueuedKeepsIInv DEF DestinationNext
<1>2. CASE UNCHANGED destinationVars
  BY <1>2 DEF destinationVars, IInv, Shape, LockHeld, V1Opened, QueuedOpened, FenceNewest,
              EffectInWindow, Busy, NotQueued
<1> QED
  BY <1>1, <1>2

(* The invariant holds throughout.                                         *)
LEMMA Invariance == DestinationSpec => []IInv
<1>1. DestinationInit => IInv
  BY InitIInv
<1>2. IInv /\ [DestinationNext]_destinationVars => IInv'
  BY NextKeepsIInv
<1> QED
  BY <1>1, <1>2, PTL DEF DestinationSpec

-----------------------------------------------------------------------------
(* A file carries effects of one contract only, for any set of processes   *)
(* racing to open it (_initialize_v1, _initialize_queued, both commits).   *)
THEOREM ContractSafe == DestinationSpec => []OneContract
<1>1. IInv => OneContract
  BY DEF IInv, V1Opened, OneContract
<1> QED
  BY <1>1, Invariance, PTL

(* Every queued effect is one of the bound descriptor's and was inserted   *)
(* inside its signed window (commit_queued).                               *)
THEOREM QueuedEffectsSafe == DestinationSpec => [](EffectsOfTheBinding /\ EffectInWindow)
<1>1. IInv => EffectsOfTheBinding /\ EffectInWindow
  BY DEF IInv, QueuedOpened, EffectsOfTheBinding
<1> QED
  BY <1>1, Invariance, PTL

(* No step adds a fenced effect older than one already in the file         *)
(* (acquire and FencedSqliteTarget.commit).                                *)
THEOREM EpochsOrdered == DestinationSpec => EpochOrder
<1> DEFINE Ordered ==
      \A o, p \in EffectIds :
          (v1[o] = Nil /\ v1'[o] # Nil /\ v1'[o].epoch # 0 /\ v1[p] # Nil)
              => v1[p].epoch <= v1'[o].epoch
<1>1. IInv /\ [DestinationNext]_destinationVars => [Ordered]_destinationVars
  <2> SUFFICES ASSUME IInv, DestinationNext PROVE Ordered
    OBVIOUS
  <2> USE DEF IInv, Shape, FenceNewest
  <2>1. CASE UNCHANGED v1
    BY <2>1
  <2>2. ASSUME NEW h \in Handles, InsertV1(h) PROVE Ordered
    BY <2>2 DEF InsertV1, V1Calls, V1Effects, Fences, Busy
  <2>3. ASSUME NEW h \in Handles, CommitSandbox(h) PROVE Ordered
    BY <2>3 DEF CommitSandbox, V1Calls, V1Effects, Busy
  <2> QED
    BY <2>1, <2>2, <2>3, Zenon
    DEF DestinationNext, Tick, OpenV1, CreateFences, CreateEffects, OpenQueued, Close, CrashHandle,
        Acquire, SigningFails, BeginV1, BeginQueued, InsertQueued, CallV1, Observe,
        Authorize, fileVars
<1> QED
  BY <1>1, Invariance, PTL DEF DestinationSpec, EpochOrder

-----------------------------------------------------------------------------
(* Types and attestations: what the observer has signed is a row, and no   *)
(* row is under the pen of a fenced process that is signing.               *)
ProofsOfRows ==
    \A p \in proofs : p[1] \in EffectIds /\ v1[p[1]] # Nil /\ v1[p[1]].print = p[2]

Unwritten ==
    \A h \in Handles : KindOf[h] = "fenced" /\ stage[h] = "signing" => v1[call[h].op] = Nil

DInv == DestinationTypeOK /\ ProofsOfRows /\ Unwritten

(* The empty file has them.                                                *)
LEMMA InitDInv == DestinationInit => DInv
  BY DestinationAssumption
  DEF DestinationInit, DInv, DestinationTypeOK, ProofsOfRows, Unwritten, QueuedObjects

(* A row is written once: by a sandbox process inside its transaction, or  *)
(* by the fenced process that holds the write lock since it looked.        *)
LEMMA NextKeepsDInv == IInv /\ DInv /\ [DestinationNext]_destinationVars => DInv'
<1> SUFFICES ASSUME IInv, DInv, [DestinationNext]_destinationVars PROVE DInv'
  OBVIOUS
<1> USE DEF DInv
<1>1. CASE Tick
  <2>1. DestinationTypeOK'
    BY <1>1, DestinationAssumption DEF IInv, Shape, DestinationTypeOK, QueuedObjects, Tick, fileVars
  <2>2. ProofsOfRows' /\ Unwritten'
    BY <1>1, DestinationAssumption DEF IInv, Shape, LockHeld, DestinationTypeOK, ProofsOfRows, Unwritten, Busy, V1Calls, Tick, fileVars
  <2> QED
    BY <2>1, <2>2
<1>2. ASSUME NEW h \in Handles, OpenV1(h) PROVE DInv'
  <2>1. DestinationTypeOK'
    BY <1>2, DestinationAssumption DEF IInv, Shape, DestinationTypeOK, QueuedObjects, OpenV1, To, fileVars
  <2>2. ProofsOfRows' /\ Unwritten'
    BY <1>2, DestinationAssumption DEF IInv, Shape, LockHeld, DestinationTypeOK, ProofsOfRows, Unwritten, Busy, V1Calls, OpenV1, To, fileVars
  <2> QED
    BY <2>1, <2>2
<1>3. ASSUME NEW h \in Handles, CreateFences(h) PROVE DInv'
  <2>1. DestinationTypeOK'
    BY <1>3, DestinationAssumption DEF IInv, Shape, DestinationTypeOK, QueuedObjects, CreateFences, To
  <2>2. ProofsOfRows' /\ Unwritten'
    BY <1>3, DestinationAssumption DEF IInv, Shape, LockHeld, DestinationTypeOK, ProofsOfRows, Unwritten, Busy, V1Calls, CreateFences, To
  <2> QED
    BY <2>1, <2>2
<1>4. ASSUME NEW h \in Handles, CreateEffects(h) PROVE DInv'
  <2>1. DestinationTypeOK'
    BY <1>4, DestinationAssumption DEF IInv, Shape, DestinationTypeOK, QueuedObjects, CreateEffects, To
  <2>2. ProofsOfRows' /\ Unwritten'
    BY <1>4, DestinationAssumption DEF IInv, Shape, LockHeld, DestinationTypeOK, ProofsOfRows, Unwritten, Busy, V1Calls, CreateEffects, To
  <2> QED
    BY <2>1, <2>2
<1>5. ASSUME NEW h \in Handles, OpenQueued(h) PROVE DInv'
  <2>1. DestinationTypeOK'
    BY <1>5, DestinationAssumption DEF IInv, Shape, DestinationTypeOK, QueuedObjects, OpenQueued, To, QualifiedFile
  <2>2. ProofsOfRows' /\ Unwritten'
    BY <1>5, DestinationAssumption DEF IInv, Shape, LockHeld, DestinationTypeOK, ProofsOfRows, Unwritten, Busy, V1Calls, OpenQueued, To, QualifiedFile
  <2> QED
    BY <2>1, <2>2
<1>6. ASSUME NEW h \in Handles, Close(h) PROVE DInv'
  <2>1. DestinationTypeOK'
    BY <1>6, DestinationAssumption DEF IInv, Shape, DestinationTypeOK, QueuedObjects, Close, To, fileVars
  <2>2. ProofsOfRows' /\ Unwritten'
    BY <1>6, DestinationAssumption DEF IInv, Shape, LockHeld, DestinationTypeOK, ProofsOfRows, Unwritten, Busy, V1Calls, Close, To, fileVars
  <2> QED
    BY <2>1, <2>2
<1>7. ASSUME NEW h \in Handles, CrashHandle(h) PROVE DInv'
  <2>1. DestinationTypeOK'
    BY <1>7, DestinationAssumption DEF IInv, Shape, DestinationTypeOK, QueuedObjects, CrashHandle, To, fileVars
  <2>2. ProofsOfRows' /\ Unwritten'
    BY <1>7, DestinationAssumption DEF IInv, Shape, LockHeld, DestinationTypeOK, ProofsOfRows, Unwritten, Busy, V1Calls, CrashHandle, To, fileVars
  <2> QED
    BY <2>1, <2>2
<1>8. ASSUME NEW h \in Handles, Acquire(h) PROVE DInv'
  <2>1. DestinationTypeOK'
    BY <1>8, DestinationAssumption DEF IInv, Shape, Fences, DestinationTypeOK, QueuedObjects, Acquire
  <2>2. ProofsOfRows' /\ Unwritten'
    BY <1>8, DestinationAssumption DEF IInv, Shape, LockHeld, DestinationTypeOK, ProofsOfRows, Unwritten, Busy, V1Calls, Acquire
  <2> QED
    BY <2>1, <2>2
<1>9. ASSUME NEW h \in Handles, SigningFails(h) PROVE DInv'
  <2>1. DestinationTypeOK'
    BY <1>9, DestinationAssumption DEF IInv, Shape, DestinationTypeOK, QueuedObjects, SigningFails, EndCall, To, fileVars
  <2>2. ProofsOfRows' /\ Unwritten'
    BY <1>9, DestinationAssumption DEF IInv, Shape, LockHeld, DestinationTypeOK, ProofsOfRows, Unwritten, Busy, V1Calls, SigningFails, EndCall, To, fileVars
  <2> QED
    BY <2>1, <2>2
<1>10. ASSUME NEW h \in Handles, BeginV1(h) PROVE DInv'
  <2>1. DestinationTypeOK'
    BY <1>10, DestinationAssumption DEF IInv, Shape, DestinationTypeOK, QueuedObjects, BeginV1, EndCall, To, fileVars
  <2>2. ProofsOfRows' /\ Unwritten'
    BY <1>10, DestinationAssumption DEF IInv, Shape, LockHeld, DestinationTypeOK, ProofsOfRows, Unwritten, Busy, V1Calls, BeginV1, EndCall, To, fileVars
  <2> QED
    BY <2>1, <2>2
<1>11. ASSUME NEW h \in Handles, InsertV1(h) PROVE DInv'
  <2>1. DestinationTypeOK'
    BY <1>11, DestinationAssumption DEF IInv, Shape, DestinationTypeOK, QueuedObjects, InsertV1, EndCall, To
  <2>2. ProofsOfRows' /\ Unwritten'
    BY <1>11, DestinationAssumption DEF IInv, Shape, LockHeld, DestinationTypeOK, ProofsOfRows, Unwritten, Busy, V1Calls, InsertV1, EndCall, To
  <2> QED
    BY <2>1, <2>2
<1>12. ASSUME NEW h \in Handles, CommitSandbox(h) PROVE DInv'
  <2>1. DestinationTypeOK'
    BY <1>12, DestinationAssumption DEF IInv, Shape, DestinationTypeOK, QueuedObjects, CommitSandbox, EndCall, To
  <2>2. ProofsOfRows' /\ Unwritten'
    BY <1>12, DestinationAssumption DEF IInv, Shape, LockHeld, DestinationTypeOK, ProofsOfRows, Unwritten, Busy, V1Calls, CommitSandbox, EndCall, To
  <2> QED
    BY <2>1, <2>2
<1>13. ASSUME NEW h \in Handles, BeginQueued(h) PROVE DInv'
  <2>1. DestinationTypeOK'
    BY <1>13, DestinationAssumption DEF IInv, Shape, DestinationTypeOK, QueuedObjects, BeginQueued, EndCall, To, fileVars
  <2>2. ProofsOfRows' /\ Unwritten'
    BY <1>13, DestinationAssumption DEF IInv, Shape, LockHeld, DestinationTypeOK, ProofsOfRows, Unwritten, Busy, V1Calls, BeginQueued, EndCall, To, fileVars
  <2> QED
    BY <2>1, <2>2
<1>14. ASSUME NEW h \in Handles, InsertQueued(h) PROVE DInv'
  <2>1. DestinationTypeOK'
    BY <1>14, DestinationAssumption DEF IInv, Shape, DestinationTypeOK, QueuedObjects, InsertQueued, EndCall, To
  <2>2. ProofsOfRows' /\ Unwritten'
    BY <1>14, DestinationAssumption DEF IInv, Shape, LockHeld, DestinationTypeOK, ProofsOfRows, Unwritten, Busy, V1Calls, InsertQueued, EndCall, To
  <2> QED
    BY <2>1, <2>2
<1>15. ASSUME NEW h \in Handles, NEW o \in EffectIds, CallV1(h, o) PROVE DInv'
  <2>1. DestinationTypeOK'
    BY <1>15, DestinationAssumption DEF IInv, Shape, DestinationTypeOK, QueuedObjects, CallV1, To, fileVars
  <2>2. ProofsOfRows' /\ Unwritten'
    BY <1>15, DestinationAssumption DEF IInv, Shape, LockHeld, DestinationTypeOK, ProofsOfRows, Unwritten, Busy, V1Calls, CallV1, To, fileVars
  <2> QED
    BY <2>1, <2>2
<1>16. ASSUME NEW h \in Handles, NEW o \in EffectIds, Observe(h, o) PROVE DInv'
  <2>1. DestinationTypeOK'
    BY <1>16, DestinationAssumption DEF IInv, Shape, DestinationTypeOK, QueuedObjects, Observe, ReceiptMatches, fileVars
  <2>2. ProofsOfRows' /\ Unwritten'
    BY <1>16, DestinationAssumption DEF IInv, Shape, LockHeld, DestinationTypeOK, ProofsOfRows, Unwritten, Busy, V1Calls, Observe, ReceiptMatches, fileVars
  <2> QED
    BY <2>1, <2>2
<1>17. ASSUME NEW h \in Handles, NEW o \in EffectIds, Authorize(h, o) PROVE DInv'
  <2>1. DestinationTypeOK'
    BY <1>17, DestinationAssumption DEF IInv, Shape, DestinationTypeOK, QueuedObjects, Authorize, To, fileVars
  <2>2. ProofsOfRows' /\ Unwritten'
    BY <1>17, DestinationAssumption DEF IInv, Shape, LockHeld, DestinationTypeOK, ProofsOfRows, Unwritten, Busy, V1Calls, Authorize, To, fileVars
  <2> QED
    BY <2>1, <2>2
<1>18. CASE UNCHANGED destinationVars
  BY <1>18 DEF destinationVars, DestinationTypeOK, ProofsOfRows, Unwritten
<1> QED
  BY <1>1, <1>2, <1>3, <1>4, <1>5, <1>6, <1>7, <1>8, <1>9, <1>10, <1>11, <1>12, <1>13, <1>14, <1>15, <1>16, <1>17, <1>18 DEF DestinationNext

(* The file's write lock has one holder, and what the observer attests     *)
(* stays true, also after retries that lost their acknowledgement (observe *)
(* and the "no replay" test of both targets).                              *)
THEOREM AttestationsStand == DestinationSpec => [](DestinationTypeOK /\ ProofsStand)
<1>1. DestinationInit => DInv
  BY InitDInv
<1>2. IInv /\ DInv /\ [DestinationNext]_destinationVars => DInv'
  BY NextKeepsDInv
<1>3. DInv => DestinationTypeOK /\ ProofsStand
  BY DEF DInv, ProofsOfRows, ProofsStand
<1> QED
  BY <1>1, <1>2, <1>3, Invariance, PTL DEF DestinationSpec

(* All of it, for any set of processes, operations and clock bounds        *)
(* (FencedSqliteTarget, SandboxTarget and commit_queued).                  *)
THEOREM EffectHistoryKept == DestinationSpec => EffectHistory
  BY AttestationsStand, ContractSafe, QueuedEffectsSafe, EpochsOrdered, PTL DEF EffectHistory

-----------------------------------------------------------------------------
(* The PostgreSQL fence.                                                   *)

LeaseRows == [owner : Owners, epoch : Nat, expires : Nat]
LeaseEffects == [owner : Owners, epoch : Nat]
Renewals == [kind : {"renew"}, step : {"waiting", "locked"}, epoch : Nat, op : {Absent}, at : Nat]
Commits ==
    [kind : {"commit"}, step : {"waiting", "locked", "inserted"}, epoch : Nat,
     op : Operations, at : Nat]

(* What the columns and the transactions hold.                              *)
FenceShape ==
    /\ clock \in Nat /\ latest \in Nat
    /\ fenceRow \in LeaseRows \cup {Absent}
    /\ token \in [Owners -> Nat \cup {Absent}]
    /\ txn \in [Owners -> Renewals \cup Commits \cup {Absent}]
    /\ effects \in [Operations -> LeaseEffects \cup {Absent}]

(* A transaction that has the row lock.                                     *)
Past(o) == txn[o] # Absent /\ txn[o].step # "waiting"

(* The row that is locked exists, and its lock has one holder.              *)
OneLock ==
    \A o \in Owners : Past(o) => fenceRow # Absent /\ \A p \in Owners : Past(p) => o = p

(* A commit that has been checked: the row still names its leader and       *)
(* epoch, because the row is locked until it lands.                         *)
Covered ==
    \A o \in Owners : (txn[o] # Absent /\ txn[o].step = "inserted") =>
        /\ txn[o].op \in Operations /\ effects[txn[o].op] = Absent
        /\ fenceRow # Absent /\ fenceRow.owner = o /\ fenceRow.epoch = txn[o].epoch

FenceIInv == FenceShape /\ OneLock /\ Covered

(* Before the first rollback no epoch is forgotten: no effect is newer than *)
(* the row.                                                                 *)
RowNewest ==
    /\ rollbacks \in Nat
    /\ rollbacks = 0 =>
          /\ rollback = "no"
          /\ IF fenceRow = Absent THEN latest = 0 ELSE latest <= fenceRow.epoch

-----------------------------------------------------------------------------
(* Nothing is held at first.                                                *)
LEMMA FenceInitIInv == FenceInit => FenceIInv
  BY DEF FenceInit, FenceIInv, FenceShape, OneLock, Past, Covered

(* Every step keeps the invariant: what a checked commit relies on is       *)
(* changed only by acquire, renew and DROP TABLE, which need the row lock.  *)
LEMMA FenceNextKeeps == FenceIInv /\ [FenceNext]_fenceVars => FenceIInv'
<1> SUFFICES ASSUME FenceIInv, [FenceNext]_fenceVars PROVE FenceIInv'
  OBVIOUS
<1> USE FenceAssumption
<1>1. CASE Initialize
  <2>1. FenceShape'
    BY <1>1 DEF FenceIInv, FenceShape, LeaseRows, LeaseEffects, Renewals, Commits, Initialize
  <2>2. OneLock'
    BY <1>1 DEF FenceIInv, FenceShape, OneLock, Past, LeaseRows, Initialize
  <2>3. Covered'
    BY <1>1 DEF FenceIInv, FenceShape, Covered, OneLock, Past, Initialize
  <2> QED
    BY <2>1, <2>2, <2>3 DEF FenceIInv
<1>2. CASE MigrateApply
  <2>1. FenceShape'
    BY <1>2 DEF FenceIInv, FenceShape, LeaseRows, LeaseEffects, Renewals, Commits, MigrateApply
  <2>2. OneLock'
    BY <1>2 DEF FenceIInv, FenceShape, OneLock, Past, LeaseRows, MigrateApply
  <2>3. Covered'
    BY <1>2 DEF FenceIInv, FenceShape, Covered, OneLock, Past, MigrateApply
  <2> QED
    BY <2>1, <2>2, <2>3 DEF FenceIInv
<1>3. CASE MigrateCount
  <2>1. FenceShape'
    BY <1>3 DEF FenceIInv, FenceShape, LeaseRows, LeaseEffects, Renewals, Commits, MigrateCount
  <2>2. OneLock'
    BY <1>3 DEF FenceIInv, FenceShape, OneLock, Past, LeaseRows, MigrateCount
  <2>3. Covered'
    BY <1>3 DEF FenceIInv, FenceShape, Covered, OneLock, Past, MigrateCount
  <2> QED
    BY <2>1, <2>2, <2>3 DEF FenceIInv
<1>4. CASE MigrateDrop
  <2>1. FenceShape'
    BY <1>4 DEF FenceIInv, FenceShape, LeaseRows, LeaseEffects, Renewals, Commits, MigrateDrop, RowLocked
  <2>2. OneLock'
    BY <1>4 DEF FenceIInv, FenceShape, OneLock, Past, LeaseRows, MigrateDrop, RowLocked
  <2>3. Covered'
    BY <1>4 DEF FenceIInv, FenceShape, Covered, OneLock, Past, MigrateDrop, RowLocked
  <2> QED
    BY <2>1, <2>2, <2>3 DEF FenceIInv
<1>5. CASE FenceTick
  <2>1. FenceShape'
    BY <1>5 DEF FenceIInv, FenceShape, LeaseRows, LeaseEffects, Renewals, Commits, FenceTick, table
  <2>2. OneLock'
    BY <1>5 DEF FenceIInv, FenceShape, OneLock, Past, LeaseRows, FenceTick, table
  <2>3. Covered'
    BY <1>5 DEF FenceIInv, FenceShape, Covered, OneLock, Past, FenceTick, table
  <2> QED
    BY <2>1, <2>2, <2>3 DEF FenceIInv
<1>6. ASSUME NEW o \in Owners, AcquireFence(o) PROVE FenceIInv'
  <2>1. FenceShape'
    BY <1>6 DEF FenceIInv, FenceShape, LeaseRows, LeaseEffects, Renewals, Commits, AcquireFence, EpochAfter, RowLocked
  <2>2. OneLock'
    BY <1>6 DEF FenceIInv, FenceShape, OneLock, Past, LeaseRows, AcquireFence, EpochAfter, RowLocked
  <2>3. Covered'
    BY <1>6 DEF FenceIInv, FenceShape, Covered, OneLock, Past, AcquireFence, EpochAfter, RowLocked
  <2> QED
    BY <2>1, <2>2, <2>3 DEF FenceIInv
<1>7. ASSUME NEW o \in Owners, LockRow(o) PROVE FenceIInv'
  <2>1. FenceShape'
    BY <1>7 DEF FenceIInv, FenceShape, LeaseRows, LeaseEffects, Renewals, Commits, LockRow, RowFree, RowLocked, IdleTxn, table
  <2>2. OneLock'
    BY <1>7 DEF FenceIInv, FenceShape, OneLock, Past, LeaseRows, LockRow, RowFree, RowLocked, IdleTxn, table
  <2>3. Covered'
    BY <1>7 DEF FenceIInv, FenceShape, Covered, OneLock, Past, LockRow, RowFree, RowLocked, IdleTxn, table
  <2> QED
    BY <2>1, <2>2, <2>3 DEF FenceIInv
<1>8. ASSUME NEW o \in Owners, Renew(o) PROVE FenceIInv'
  <2>1. FenceShape'
    <3>1. fenceRow \in LeaseRows
      BY <1>8, FenceAssumption DEF FenceIInv, FenceShape, OneLock, Past, Renew, IdleTxn
    <3>2. fenceRow' \in LeaseRows
      BY <1>8, <3>1, FenceAssumption DEF FenceIInv, FenceShape, LeaseRows, Renew
    <3>3. txn' \in [Owners -> Renewals \cup Commits \cup {Absent}]
      BY <1>8 DEF FenceIInv, FenceShape, Renew
    <3> QED
      BY <1>8, <3>2, <3>3 DEF FenceIInv, FenceShape, Renew
  <2>2. OneLock'
    BY <1>8 DEF FenceIInv, FenceShape, OneLock, Past, LeaseRows, Renew, HoldsFence, IdleTxn
  <2>3. Covered'
    BY <1>8 DEF FenceIInv, FenceShape, Covered, OneLock, Past, Renew, HoldsFence, IdleTxn, LeaseRows
  <2> QED
    BY <2>1, <2>2, <2>3 DEF FenceIInv
<1>9. ASSUME NEW o \in Owners, CommitChecks(o) PROVE FenceIInv'
  <2>1. FenceShape'
    BY <1>9 DEF FenceIInv, FenceShape, LeaseRows, LeaseEffects, Renewals, Commits, CommitChecks, HoldsFence, IdleTxn, table
  <2>2. OneLock'
    BY <1>9 DEF FenceIInv, FenceShape, OneLock, Past, LeaseRows, CommitChecks, HoldsFence, IdleTxn, table
  <2>3. Covered'
    <3>1. fenceRow # Absent /\ fenceRow.owner = o /\ fenceRow.epoch = txn[o].epoch
      BY <1>9 DEF FenceIInv, OneLock, Past, CommitChecks, HoldsFence, IdleTxn
    <3>2. txn[o] \in Commits /\ effects[txn[o].op] = Absent
      BY <1>9 DEF FenceIInv, FenceShape, Renewals, CommitChecks, IdleTxn
    <3>3. txn'[o].op = txn[o].op /\ txn'[o].epoch = txn[o].epoch /\ txn[o].op \in Operations
      BY <1>9, <3>2 DEF FenceIInv, FenceShape, Commits, CommitChecks
    <3>4. \A p \in Owners : p # o => txn'[p] = txn[p]
      BY <1>9 DEF FenceIInv, FenceShape, CommitChecks
    <3>5. fenceRow' = fenceRow /\ effects' = effects
      BY <1>9 DEF CommitChecks, table
    <3> QED
      BY <3>1, <3>2, <3>3, <3>4, <3>5 DEF FenceIInv, Covered
  <2> QED
    BY <2>1, <2>2, <2>3 DEF FenceIInv
<1>10. ASSUME NEW o \in Owners, CommitLands(o) PROVE FenceIInv'
  <2>1. FenceShape'
    BY <1>10 DEF FenceIInv, FenceShape, LeaseRows, LeaseEffects, Renewals, Commits, CommitLands, IdleTxn, table
  <2>2. OneLock'
    BY <1>10 DEF FenceIInv, FenceShape, OneLock, Past, LeaseRows, CommitLands, IdleTxn, table
  <2>3. Covered'
    BY <1>10 DEF FenceIInv, FenceShape, Covered, OneLock, Past, CommitLands, IdleTxn, table
  <2> QED
    BY <2>1, <2>2, <2>3 DEF FenceIInv
<1>11. ASSUME NEW o \in Owners, GiveUp(o) PROVE FenceIInv'
  <2>1. FenceShape'
    BY <1>11 DEF FenceIInv, FenceShape, LeaseRows, LeaseEffects, Renewals, Commits, GiveUp, table
  <2>2. OneLock'
    BY <1>11 DEF FenceIInv, FenceShape, OneLock, Past, LeaseRows, GiveUp, table
  <2>3. Covered'
    BY <1>11 DEF FenceIInv, FenceShape, Covered, OneLock, Past, GiveUp, table
  <2> QED
    BY <2>1, <2>2, <2>3 DEF FenceIInv
<1>12. ASSUME NEW o \in Owners, BeginFenced(o, "renew", Absent) PROVE FenceIInv'
  <2>1. FenceShape'
    BY <1>12 DEF FenceIInv, FenceShape, LeaseRows, LeaseEffects, Renewals, Commits, BeginFenced, table
  <2>2. OneLock'
    BY <1>12 DEF FenceIInv, FenceShape, OneLock, Past, LeaseRows, BeginFenced, table
  <2>3. Covered'
    BY <1>12 DEF FenceIInv, FenceShape, Covered, OneLock, Past, BeginFenced, table
  <2> QED
    BY <2>1, <2>2, <2>3 DEF FenceIInv
<1>13. ASSUME NEW o \in Owners, NEW op \in Operations, BeginFenced(o, "commit", op) PROVE FenceIInv'
  <2>1. FenceShape'
    BY <1>13 DEF FenceIInv, FenceShape, LeaseRows, LeaseEffects, Renewals, Commits, BeginFenced, table
  <2>2. OneLock'
    BY <1>13 DEF FenceIInv, FenceShape, OneLock, Past, LeaseRows, BeginFenced, table
  <2>3. Covered'
    BY <1>13 DEF FenceIInv, FenceShape, Covered, OneLock, Past, BeginFenced, table
  <2> QED
    BY <2>1, <2>2, <2>3 DEF FenceIInv
<1>14. CASE UNCHANGED fenceVars
  BY <1>14 DEF FenceIInv, FenceShape, OneLock, Past, Covered, fenceVars
<1> QED
  BY <1>1, <1>2, <1>3, <1>4, <1>5, <1>6, <1>7, <1>8, <1>9, <1>10, <1>11, <1>12, <1>13, <1>14 DEF FenceNext, Lead

(* The invariant holds throughout.                                          *)
LEMMA FenceInvariance == FenceSpec => []FenceIInv
<1>1. FenceInit => FenceIInv
  BY FenceInitIInv
<1>2. FenceIInv /\ [FenceNext]_fenceVars => FenceIInv'
  BY FenceNextKeeps
<1> QED
  BY <1>1, <1>2, PTL DEF FenceSpec

-----------------------------------------------------------------------------
(* An effect becomes visible only while the row names its leader and  *)
(* epoch, however long its transaction took and whatever migrations run     *)
(* (commit in fenced_postgres_destination.py).                              *)
THEOREM EffectsHoldTheLease == FenceSpec => EffectHeldLease
<1> DEFINE Held == \A op \in Operations : effects'[op] # effects[op] =>
                      /\ effects[op] = Absent
                      /\ fenceRow # Absent /\ effects'[op] = [owner |-> fenceRow.owner, epoch |-> fenceRow.epoch]
<1>1. FenceIInv /\ [FenceNext]_fenceVars => [Held]_fenceVars
  <2> SUFFICES ASSUME FenceIInv, FenceNext PROVE Held
    OBVIOUS
  <2>1. CASE UNCHANGED effects
    BY <2>1
  <2>2. ASSUME NEW o \in Owners, CommitLands(o) PROVE Held
    BY <2>2 DEF FenceIInv, FenceShape, Covered, CommitLands, IdleTxn
  <2> QED
    BY <2>1, <2>2
    DEF FenceNext, Lead, Initialize, MigrateApply, MigrateCount, MigrateDrop, FenceTick, AcquireFence,
        LockRow, Renew, CommitChecks, GiveUp, BeginFenced
<1> QED
  BY <1>1, FenceInvariance, PTL DEF FenceSpec, EffectHeldLease

(* A lease that ran out is only taken again with a larger epoch, never      *)
(* extended (renew reads the clock under the row lock).                     *)
THEOREM LeasesStayExpired == FenceSpec => NoRevival
<1> DEFINE Kept == (fenceRow # Absent /\ fenceRow' # Absent /\ fenceRow.expires <= clock /\ fenceRow' # fenceRow)
                      => fenceRow'.epoch > fenceRow.epoch
<1>1. FenceIInv /\ [FenceNext]_fenceVars => [Kept]_fenceVars
  <2> SUFFICES ASSUME FenceIInv, FenceNext PROVE Kept
    OBVIOUS
  <2>1. CASE UNCHANGED fenceRow
    BY <2>1
  <2>2. ASSUME NEW o \in Owners, AcquireFence(o) PROVE Kept
    BY <2>2, FenceAssumption DEF FenceIInv, FenceShape, LeaseRows, AcquireFence, EpochAfter
  <2>3. ASSUME NEW o \in Owners, Renew(o) PROVE Kept
    BY <2>3 DEF FenceIInv, FenceShape, LeaseRows, Renew, HoldsFence, Live
  <2>4. CASE MigrateDrop
    BY <2>4 DEF MigrateDrop
  <2> QED
    BY <2>1, <2>2, <2>3, <2>4, Zenon
    DEF FenceNext, Lead, Initialize, MigrateApply, MigrateCount, FenceTick, table,
        LockRow, CommitChecks, CommitLands, GiveUp, BeginFenced
<1> QED
  BY <1>1, FenceInvariance, PTL DEF FenceSpec, NoRevival

(* Before the first rollback the row is never forgotten.                    *)
LEMMA RowStaysNewest == FenceSpec => []RowNewest
<1>1. FenceInit => RowNewest
  BY DEF FenceInit, RowNewest
<1>2. FenceIInv /\ RowNewest /\ [FenceNext]_fenceVars => RowNewest'
  <2> SUFFICES ASSUME FenceIInv, RowNewest, [FenceNext]_fenceVars PROVE RowNewest'
    OBVIOUS
  <2>1. CASE UNCHANGED <<fenceRow, latest, rollbacks, rollback>>
    BY <2>1 DEF RowNewest
  <2>2. ASSUME NEW o \in Owners, AcquireFence(o) PROVE RowNewest'
    BY <2>2, FenceAssumption DEF FenceIInv, FenceShape, LeaseRows, RowNewest, AcquireFence, EpochAfter
  <2>3. ASSUME NEW o \in Owners, Renew(o) PROVE RowNewest'
    <3>1. fenceRow \in LeaseRows /\ fenceRow # Absent
      BY <2>3, FenceAssumption DEF FenceIInv, FenceShape, OneLock, Past, Renew, IdleTxn
    <3>2. fenceRow' \in LeaseRows /\ fenceRow'.epoch = fenceRow.epoch
      BY <2>3, <3>1, FenceAssumption DEF FenceIInv, FenceShape, LeaseRows, Renew
    <3>3. fenceRow' # Absent
      BY <3>2, FenceAssumption DEF LeaseRows
    <3> QED
      BY <2>3, <3>1, <3>2, <3>3 DEF RowNewest, Renew
  <2>4. ASSUME NEW o \in Owners, CommitLands(o) PROVE RowNewest'
    BY <2>4 DEF FenceIInv, FenceShape, LeaseRows, Covered, RowNewest, CommitLands, IdleTxn, table
  <2>5. CASE MigrateCount
    BY <2>5 DEF RowNewest, MigrateCount
  <2>6. CASE MigrateDrop
    BY <2>6 DEF RowNewest, MigrateDrop
  <2> QED
    BY <2>1, <2>2, <2>3, <2>4, <2>5, <2>6
    DEF FenceNext, Lead, fenceVars, Initialize, MigrateApply, FenceTick, table,
        LockRow, CommitChecks, GiveUp, BeginFenced
<1> QED
  BY <1>1, <1>2, FenceInvariance, PTL DEF FenceSpec

(* Before the first rollback of the table, effects land in the order of the *)
(* epochs: a superseded leader adds nothing (acquire and commit).           *)
THEOREM EffectsOrdered == FenceSpec => EffectsInOrder
<1> DEFINE Ordered ==
      rollbacks = 0 =>
          \A op \in Operations : effects'[op] # effects[op] => effects'[op].epoch >= latest
<1>1. FenceIInv /\ RowNewest /\ [FenceNext]_fenceVars => [Ordered]_fenceVars
  <2> SUFFICES ASSUME FenceIInv, RowNewest, FenceNext PROVE Ordered
    OBVIOUS
  <2>1. CASE UNCHANGED effects
    BY <2>1
  <2>2. ASSUME NEW o \in Owners, CommitLands(o) PROVE Ordered
    BY <2>2 DEF FenceIInv, FenceShape, LeaseRows, Covered, RowNewest, CommitLands, IdleTxn
  <2> QED
    BY <2>1, <2>2
    DEF FenceNext, Lead, Initialize, MigrateApply, MigrateCount, MigrateDrop, FenceTick, AcquireFence,
        LockRow, Renew, CommitChecks, GiveUp, BeginFenced
<1> QED
  BY <1>1, FenceInvariance, RowStaysNewest, PTL DEF FenceSpec, EffectsInOrder

(* The columns' values, and no lease longer than its length.                *)
LeaseBounded ==
    /\ clock \in 0..MaxClock /\ exists \in BOOLEAN /\ rollback \in {"no", "counted"}
    /\ fenceRow # Absent => exists /\ fenceRow.owner \in Owners /\ fenceRow.expires <= clock + TTL

(* Every step keeps them.                                                   *)
LEMMA LeaseStaysBounded ==
    FenceIInv /\ LeaseBounded /\ [FenceNext]_fenceVars => LeaseBounded'
<1> SUFFICES ASSUME FenceIInv, LeaseBounded, [FenceNext]_fenceVars PROVE LeaseBounded'
  OBVIOUS
<1> USE FenceAssumption DEF LeaseBounded
<1>1. CASE Initialize
  BY <1>1 DEF FenceIInv, FenceShape, LeaseRows, Initialize
<1>2. CASE MigrateApply
  BY <1>2 DEF FenceIInv, FenceShape, LeaseRows, MigrateApply
<1>3. CASE MigrateCount
  BY <1>3 DEF FenceIInv, FenceShape, LeaseRows, MigrateCount
<1>4. CASE MigrateDrop
  BY <1>4 DEF FenceIInv, FenceShape, LeaseRows, MigrateDrop
<1>5. CASE FenceTick
  BY <1>5 DEF FenceIInv, FenceShape, LeaseRows, FenceTick, table
<1>6. ASSUME NEW o \in Owners, AcquireFence(o) PROVE LeaseBounded'
  BY <1>6 DEF FenceIInv, FenceShape, LeaseRows, AcquireFence, EpochAfter
<1>7. ASSUME NEW o \in Owners, LockRow(o) PROVE LeaseBounded'
  BY <1>7 DEF FenceIInv, FenceShape, LeaseRows, LockRow, table
<1>8. ASSUME NEW o \in Owners, Renew(o) PROVE LeaseBounded'
  BY <1>8 DEF FenceIInv, FenceShape, LeaseRows, OneLock, Past, Renew, HoldsFence, IdleTxn
<1>9. ASSUME NEW o \in Owners, CommitChecks(o) PROVE LeaseBounded'
  BY <1>9 DEF FenceIInv, FenceShape, LeaseRows, CommitChecks, table
<1>10. ASSUME NEW o \in Owners, CommitLands(o) PROVE LeaseBounded'
  BY <1>10 DEF FenceIInv, FenceShape, LeaseRows, CommitLands, table
<1>11. ASSUME NEW o \in Owners, GiveUp(o) PROVE LeaseBounded'
  BY <1>11 DEF FenceIInv, FenceShape, LeaseRows, GiveUp, table
<1>12. ASSUME NEW o \in Owners, BeginFenced(o, "renew", Absent) PROVE LeaseBounded'
  BY <1>12 DEF FenceIInv, FenceShape, LeaseRows, BeginFenced, table
<1>13. ASSUME NEW o \in Owners, NEW op \in Operations, BeginFenced(o, "commit", op) PROVE LeaseBounded'
  BY <1>13 DEF FenceIInv, FenceShape, LeaseRows, BeginFenced, table
<1>14. CASE UNCHANGED fenceVars
  BY <1>14 DEF fenceVars
<1> QED
  BY <1>1, <1>2, <1>3, <1>4, <1>5, <1>6, <1>7, <1>8, <1>9, <1>10, <1>11, <1>12, <1>13, <1>14, Zenon DEF FenceNext, Lead

(* The row's lock has at most one holder, and no lease reaches further than *)
(* its length from now (acquire, renew and commit).                         *)
THEOREM FenceTypeCorrect == FenceSpec => []FenceTypeOK
<1>1. FenceInit => LeaseBounded
  <2> SUFFICES ASSUME FenceInit PROVE LeaseBounded
    OBVIOUS
  <2>1. clock \in 0..MaxClock
    BY FenceAssumption DEF FenceInit
  <2>2. exists \in BOOLEAN
    BY Zenon DEF FenceInit
  <2> QED
    BY <2>1, <2>2, Zenon DEF FenceInit, LeaseBounded
<1>2. FenceIInv /\ LeaseBounded => FenceTypeOK
  <2> SUFFICES ASSUME FenceIInv, LeaseBounded PROVE FenceTypeOK
    OBVIOUS
  <2> DEFINE holders == {o \in Owners : ~IdleTxn(o) /\ txn[o].step # "waiting"}
  <2>1. \A o, p \in holders : o = p
    BY DEF FenceIInv, OneLock, Past, IdleTxn
  <2>2. holders = {} \/ \E o \in holders : holders = {o}
    BY <2>1
  <2>3. Cardinality(holders) <= 1
    BY <2>2, FS_EmptySet, FS_Singleton
  <2> QED
    BY <2>3 DEF FenceTypeOK, LeaseBounded, FenceIInv, FenceShape
<1> QED
  BY <1>1, <1>2, LeaseStaysBounded, FenceInvariance, PTL DEF FenceSpec

(* All of it, for any number of leaders and any lease length       *)
(* (PgFencing and FencedPostgresTarget).                                    *)
THEOREM FenceHistoryKept == FenceSpec => FenceHistory
  BY FenceTypeCorrect, EffectsHoldTheLease, EffectsOrdered, LeasesStayExpired, PTL DEF FenceHistory
=============================================================================
