------------------------- MODULE TaskIntentsProofs -------------------------
(***************************************************************************)
(* For any number of workers, submissions, tasks and operations: retained  *)
(* identities are used once, every link is one whole admission, history is *)
(* served whole, a cancellation stands, and the policy in force covers the *)
(* rows retained.                                                          *)
(***************************************************************************)
EXTENDS TaskIntents, FiniteSetTheorems, TLAPS

Under911006 == {"accept", "capacity"}

(* The functions the actions update, and the values other conjuncts need.  *)
Shape ==
    /\ intents = [i \in Submissions |-> intents[i]]
    /\ links \subseteq Submissions
    /\ task = [t \in Tasks |-> task[t]]
    /\ op \in [Ops -> Submissions \cup {"direct", None}]
    /\ tx = [w \in Workers |-> tx[w]]
    /\ opLock = [o \in Ops |-> opLock[o]]

(* A worker with an open transaction is up, at READ COMMITTED.             *)
TxServed ==
    \A w \in Workers : (tx[w] # Idle => w \in up) /\ (w \in up => ReadCommitted(w))

(* A transaction past the wait for 911006 holds it, and has read the rows  *)
(* as they still are.                                                      *)
TxFresh ==
    \A w \in Workers :
        /\ tx[w].kind = "accept" => tx[w].on \in Submissions
        /\ (tx[w].kind \in Under911006 /\ tx[w].lock = "held") =>
              taskLock = w /\ tx[w].rows = intents

(* An admission holds its operation's lock, and nobody has claimed it.     *)
TxClaims ==
    \A w \in Workers : tx[w].kind = "admit" =>
        /\ tx[w].on \in Submissions
        /\ opLock[OpOf[tx[w].on]] = w /\ op[OpOf[tx[w].on]] = None

(* Every operation a queued intent claimed has its link and its intent.    *)
Whole == \A o \in Ops : op[o] \in Submissions => op[o] \in links /\ intents[op[o]] # None

(* A schema that neither constructor accepts.                              *)
Damaged ==
    \/ tables \notin {{}, IntentTables} \/ linkTables \notin {{}, LinkTables}
    \/ linkShape # "v1"
    \/ tables = IntentTables /\ policy = None

(* History is whole, or the schema is damaged and no worker serves it.     *)
WholeOrDamaged == Whole \/ (Damaged /\ up = {})

IInv ==
    /\ Shape /\ TxServed /\ TxFresh /\ TxClaims
    /\ OneIntentPerIdentity /\ LinkIsTheAdmission /\ WholeOrDamaged

-----------------------------------------------------------------------------
(* Nothing is retained, claimed or open at first.                          *)
LEMMA InitIInv == Init => IInv
<1> SUFFICES ASSUME Init PROVE IInv
  OBVIOUS
<1>1. Shape /\ LinkIsTheAdmission /\ OneIntentPerIdentity
  BY DEF Init, Shape, LinkIsTheAdmission, OneIntentPerIdentity, Accepted
<1>2. TxServed /\ TxFresh /\ TxClaims
  BY DEF Init, TxServed, TxFresh, TxClaims, Idle, Under911006
<1>3. Whole
  BY IntentsAssumption DEF Init, Whole
<1> QED
  BY <1>1, <1>2, <1>3 DEF IInv, WholeOrDamaged

(* Restores, starts and crashes: a restore only damages, and a damaged     *)
(* schema is not opened.                                                   *)
LEMMA SchemaKeepsIInv ==
  ASSUME IInv,
         \/ Restore
         \/ \E w \in Workers : Open(w)
         \/ \E w \in Workers : Crash(w)
  PROVE  IInv'
<1>1. CASE Restore
  <2>1. Shape'
    BY <1>1, IntentsAssumption DEF IInv, Shape,
       Restore, txVars
  <2>2. TxServed'
    BY <1>1, IntentsAssumption DEF IInv, TxServed, Shape, Idle, ReadCommitted,
       Restore, txVars
  <2>3. TxFresh'
    <3>1. \A w \in Workers : tx'[w] = Idle
      BY <1>1 DEF IInv, TxServed, Restore, txVars
    <3> QED
      BY <3>1 DEF TxFresh, Idle, Under911006
  <2>4. TxClaims'
    BY <1>1, IntentsAssumption DEF IInv, TxClaims, TxServed, Shape, Idle,
       Restore, txVars
  <2>5. OneIntentPerIdentity'
    BY <1>1, IntentsAssumption DEF IInv, OneIntentPerIdentity, Accepted,
       Restore, txVars
  <2>6. LinkIsTheAdmission'
    BY <1>1, IntentsAssumption DEF IInv, LinkIsTheAdmission, Shape,
       Restore, txVars
  <2>7. WholeOrDamaged'
    <3>1. up' = {} /\ tables = IntentTables
      BY <1>1 DEF Restore
    <3>2. ASSUME NEW kept \in LinkTables, linkTables' = {kept} PROVE Damaged'
      BY <3>2 DEF Damaged, LinkTables
    <3>3. ASSUME policy' = None, tables' = tables PROVE Damaged'
      BY <3>1, <3>3 DEF Damaged, IntentTables
    <3>4. ASSUME NEW kept \in (SUBSET IntentTables) \ {{}, IntentTables}, tables' = kept PROVE Damaged'
      BY <3>4 DEF Damaged
    <3>5. ASSUME linkShape' = "other" PROVE Damaged'
      BY <3>5 DEF Damaged
    <3>6. Damaged'
      BY <1>1, <3>2, <3>3, <3>4, <3>5 DEF Restore
    <3> QED
      BY <3>1, <3>6 DEF WholeOrDamaged
  <2> QED
    BY <2>1, <2>2, <2>3, <2>4, <2>5, <2>6, <2>7 DEF IInv
<1>2. ASSUME NEW w \in Workers, Open(w) PROVE IInv'
  <2>1. Shape'
    BY <1>2, IntentsAssumption DEF IInv, Shape,
       Open, OpenIntents, OpenLinks, Qualified, rowVars, txVars
  <2>2. TxServed'
    BY ZenonT(60), <1>2, IntentsAssumption DEF IInv, TxServed, Shape, Idle, ReadCommitted,
       Open, OpenIntents, OpenLinks, Qualified, rowVars, txVars
  <2>3. TxFresh'
    BY <1>2, IntentsAssumption DEF IInv, TxFresh, TxServed, Shape, Idle, Under911006, ReadCommitted,
       Open, OpenIntents, OpenLinks, Qualified, rowVars, txVars
  <2>4. TxClaims'
    BY <1>2, IntentsAssumption DEF IInv, TxClaims, TxServed, Shape, Idle,
       Open, OpenIntents, OpenLinks, Qualified, rowVars, txVars
  <2>5. OneIntentPerIdentity'
    BY <1>2, IntentsAssumption DEF IInv, OneIntentPerIdentity, Accepted,
       Open, OpenIntents, OpenLinks, Qualified, rowVars, txVars
  <2>6. LinkIsTheAdmission'
    BY <1>2, IntentsAssumption DEF IInv, LinkIsTheAdmission, Shape,
       Open, OpenIntents, OpenLinks, Qualified, rowVars, txVars
  <2>7. WholeOrDamaged'
    BY <1>2, IntentsAssumption DEF IInv, WholeOrDamaged, Whole, Damaged,
       Open, OpenIntents, OpenLinks, Qualified, rowVars, txVars, IntentTables, LinkTables
  <2> QED
    BY <2>1, <2>2, <2>3, <2>4, <2>5, <2>6, <2>7 DEF IInv
<1>3. ASSUME NEW w \in Workers, Crash(w) PROVE IInv'
  <2>1. Shape'
    BY <1>3, IntentsAssumption DEF IInv, Shape,
       Crash, schemaVars, rowVars
  <2>2. TxServed'
    BY <1>3, IntentsAssumption DEF IInv, TxServed, Shape, Idle, ReadCommitted,
       Crash, schemaVars, rowVars
  <2>3. TxFresh'
    BY <1>3, IntentsAssumption DEF IInv, TxFresh, TxServed, Shape, Idle, Under911006, ReadCommitted,
       Crash, schemaVars, rowVars
  <2>4. TxClaims'
    BY <1>3, IntentsAssumption DEF IInv, TxClaims, TxServed, Shape, Idle,
       Crash, schemaVars, rowVars
  <2>5. OneIntentPerIdentity'
    BY <1>3, IntentsAssumption DEF IInv, OneIntentPerIdentity, Accepted,
       Crash, schemaVars, rowVars
  <2>6. LinkIsTheAdmission'
    BY <1>3, IntentsAssumption DEF IInv, LinkIsTheAdmission, Shape,
       Crash, schemaVars, rowVars
  <2>7. WholeOrDamaged'
    BY <1>3, IntentsAssumption DEF IInv, WholeOrDamaged, Whole, Damaged,
       Crash, schemaVars, rowVars
  <2> QED
    BY <2>1, <2>2, <2>3, <2>4, <2>5, <2>6, <2>7 DEF IInv
<1> QED
  BY <1>1, <1>2, <1>3

(* Transactions under 911006.                                              *)
LEMMA LockedKeepsIInv ==
  ASSUME IInv,
         \/ \E w \in Workers, kind \in Under911006, on \in Submissions \cup Capacities :
            (kind = "accept" => on \in Submissions) /\ Begin(w, [kind |-> kind, on |-> on])
         \/ \E w \in Workers : Locked(w)
         \/ \E w \in Workers : Accept(w)
         \/ \E w \in Workers : SetCapacity(w)
         \/ \E w \in Workers, t \in Tasks : CancelTask(w, t)
  PROVE  IInv'
<1>1. ASSUME NEW w \in Workers, NEW kind \in Under911006, NEW on \in Submissions \cup Capacities,
            kind = "accept" => on \in Submissions, Begin(w, [kind |-> kind, on |-> on])
     PROVE  IInv'
  <2>1. Shape'
    BY <1>1, IntentsAssumption DEF IInv, Shape,
       Begin, schemaVars, rowVars
  <2>2. TxServed'
    BY <1>1, IntentsAssumption DEF IInv, TxServed, Shape, Idle, ReadCommitted,
       Begin, schemaVars, rowVars
  <2>3. TxFresh'
    BY <1>1, IntentsAssumption DEF IInv, TxFresh, TxServed, Shape, Idle, Under911006, ReadCommitted,
       Begin, schemaVars, rowVars
  <2>4. TxClaims'
    BY <1>1, IntentsAssumption DEF IInv, TxClaims, TxServed, Shape, Idle,
       Begin, schemaVars, rowVars, Under911006
  <2>5. OneIntentPerIdentity'
    BY <1>1, IntentsAssumption DEF IInv, OneIntentPerIdentity, Accepted,
       Begin, schemaVars, rowVars
  <2>6. LinkIsTheAdmission'
    BY <1>1, IntentsAssumption DEF IInv, LinkIsTheAdmission, Shape,
       Begin, schemaVars, rowVars
  <2>7. WholeOrDamaged'
    BY <1>1, IntentsAssumption DEF IInv, WholeOrDamaged, Whole, Damaged,
       Begin, schemaVars, rowVars
  <2> QED
    BY <2>1, <2>2, <2>3, <2>4, <2>5, <2>6, <2>7 DEF IInv
<1>2. ASSUME NEW w \in Workers, Locked(w) PROVE IInv'
  <2>1. Shape'
    BY <1>2, IntentsAssumption DEF IInv, Shape,
       Locked, TakeTaskLock, schemaVars, rowVars
  <2>2. TxServed'
    <3>a. tx[w].kind \in {"accept", "capacity"}
      BY <1>2 DEF Locked
    <3>b. tx[w] # Idle
      BY <3>a DEF Idle
    <3>1. w \in up /\ ReadCommitted(w)
      BY <3>b DEF IInv, TxServed
    <3>2. \A x \in Workers : x # w => tx'[x] = tx[x]
      BY <1>2 DEF IInv, Shape, Locked
    <3>3. up' = up
      BY <1>2 DEF Locked
    <3> QED
      BY <3>1, <3>2, <3>3 DEF IInv, TxServed, ReadCommitted
  <2>3. TxFresh'
    <3>a. tx[w].kind \in {"accept", "capacity"}
      BY <1>2 DEF Locked
    <3>b. tx[w] # Idle
      BY <3>a DEF Idle
    <3>1. ReadCommitted(w)
      BY <3>b DEF IInv, TxServed
    <3>2. \A x \in Workers : x # w => tx'[x] = tx[x]
      BY <1>2 DEF IInv, Shape, Locked
    <3>3. tx'[w].kind = tx[w].kind /\ tx'[w].on = tx[w].on /\ tx'[w].rows = intents
      BY <1>2, <3>1 DEF IInv, Shape, Locked, ReadCommitted
    <3>4. intents' = intents /\ taskLock = None /\ taskLock' = w
      BY <1>2 DEF Locked, TakeTaskLock, rowVars
    <3> QED
      BY <3>2, <3>3, <3>4, IntentsAssumption DEF IInv, TxFresh
  <2>4. TxClaims'
    BY <1>2, IntentsAssumption DEF IInv, TxClaims, TxServed, Shape, Idle,
       Locked, TakeTaskLock, schemaVars, rowVars
  <2>5. OneIntentPerIdentity'
    BY <1>2, IntentsAssumption DEF IInv, OneIntentPerIdentity, Accepted,
       Locked, TakeTaskLock, schemaVars, rowVars
  <2>6. LinkIsTheAdmission'
    BY <1>2, IntentsAssumption DEF IInv, LinkIsTheAdmission, Shape,
       Locked, TakeTaskLock, schemaVars, rowVars
  <2>7. WholeOrDamaged'
    BY <1>2, IntentsAssumption DEF IInv, WholeOrDamaged, Whole, Damaged,
       Locked, TakeTaskLock, schemaVars, rowVars
  <2> QED
    BY <2>1, <2>2, <2>3, <2>4, <2>5, <2>6, <2>7 DEF IInv
<1>3. ASSUME NEW w \in Workers, Accept(w) PROVE IInv'
  <2>1. Shape'
    BY <1>3, IntentsAssumption DEF IInv, Shape,
       Accept, Release, schemaVars, rowVars
  <2>2. TxServed'
    BY <1>3, IntentsAssumption DEF IInv, TxServed, Shape, Idle, ReadCommitted,
       Accept, Release, schemaVars, rowVars
  <2>3. TxFresh'
    BY <1>3, IntentsAssumption DEF IInv, TxFresh, TxServed, Shape, Idle, Under911006, ReadCommitted,
       Accept, Release, schemaVars, rowVars
  <2>4. TxClaims'
    BY <1>3, IntentsAssumption DEF IInv, TxClaims, TxServed, Shape, Idle,
       Accept, Release, schemaVars, rowVars
  <2>5. OneIntentPerIdentity'
    <3>1. tx[w].on \in Submissions /\ tx[w].rows = intents /\ w \in up /\ up' = up
      BY SMTT(60), <1>3 DEF IInv, TxFresh, TxServed, Accept, Release, Under911006, Idle
    <3>2. CASE UNCHANGED rowVars
      BY <1>3, <3>1, <3>2 DEF IInv, OneIntentPerIdentity, Accepted, rowVars
    <3>3. ASSUME NEW i \in Submissions, NEW a, ~Conflict(i, intents),
                 intents' = [intents EXCEPT ![i] = a],
                 task' = [task EXCEPT ![TaskOf[i]] = "submitted"], UNCHANGED <<links, op>>
          PROVE  OneIntentPerIdentity'
      BY <3>1, <3>3, IntentsAssumption DEF IInv, Shape, OneIntentPerIdentity, Conflict, Accepted
    <3> QED
      BY <1>3, <3>1, <3>2, <3>3 DEF Accept
  <2>6. LinkIsTheAdmission'
    <3>1. tx[w].on \in Submissions /\ tx[w].rows = intents /\ w \in up /\ up' = up
      BY SMTT(60), <1>3 DEF IInv, TxFresh, TxServed, Accept, Release, Under911006, Idle
    <3>2. CASE UNCHANGED rowVars
      BY <1>3, <3>1, <3>2 DEF IInv, LinkIsTheAdmission, rowVars
    <3>3. ASSUME NEW i \in Submissions, NEW a, ~Conflict(i, intents),
                 intents' = [intents EXCEPT ![i] = a],
                 task' = [task EXCEPT ![TaskOf[i]] = "submitted"], UNCHANGED <<links, op>>
          PROVE  LinkIsTheAdmission'
      BY <3>1, <3>3, IntentsAssumption DEF IInv, Shape, LinkIsTheAdmission, Conflict, Accepted
    <3> QED
      BY <1>3, <3>1, <3>2, <3>3 DEF Accept
  <2>7. WholeOrDamaged'
    <3>1. tx[w].on \in Submissions /\ tx[w].rows = intents /\ w \in up /\ up' = up
      BY SMTT(60), <1>3 DEF IInv, TxFresh, TxServed, Accept, Release, Under911006, Idle
    <3>2. CASE UNCHANGED rowVars
      BY <1>3, <3>1, <3>2 DEF IInv, WholeOrDamaged, Whole, rowVars
    <3>3. ASSUME NEW i \in Submissions, NEW a, ~Conflict(i, intents),
                 intents' = [intents EXCEPT ![i] = a],
                 task' = [task EXCEPT ![TaskOf[i]] = "submitted"], UNCHANGED <<links, op>>
          PROVE  WholeOrDamaged'
      BY <3>1, <3>3, IntentsAssumption DEF IInv, Shape, WholeOrDamaged, Whole, Conflict, Accepted
    <3> QED
      BY <1>3, <3>1, <3>2, <3>3 DEF Accept
  <2> QED
    BY <2>1, <2>2, <2>3, <2>4, <2>5, <2>6, <2>7 DEF IInv
<1>4. ASSUME NEW w \in Workers, SetCapacity(w) PROVE IInv'
  <2>1. Shape'
    BY <1>4, IntentsAssumption DEF IInv, Shape,
       SetCapacity, rowVars
  <2>2. TxServed'
    BY <1>4, IntentsAssumption DEF IInv, TxServed, Shape, Idle, ReadCommitted,
       SetCapacity, rowVars
  <2>3. TxFresh'
    BY <1>4, IntentsAssumption DEF IInv, TxFresh, TxServed, Shape, Idle, Under911006, ReadCommitted,
       SetCapacity, rowVars
  <2>4. TxClaims'
    BY <1>4, IntentsAssumption DEF IInv, TxClaims, TxServed, Shape, Idle,
       SetCapacity, rowVars
  <2>5. OneIntentPerIdentity'
    BY <1>4, IntentsAssumption DEF IInv, OneIntentPerIdentity, Accepted,
       SetCapacity, rowVars
  <2>6. LinkIsTheAdmission'
    BY <1>4, IntentsAssumption DEF IInv, LinkIsTheAdmission, Shape,
       SetCapacity, rowVars
  <2>7. WholeOrDamaged'
    <3>1. Whole
      BY SMTT(60), <1>4 DEF IInv, WholeOrDamaged, TxServed, SetCapacity, Idle
    <3>2. UNCHANGED rowVars
      BY <1>4 DEF SetCapacity
    <3> QED
      BY <3>1, <3>2 DEF WholeOrDamaged, Whole, rowVars
  <2> QED
    BY <2>1, <2>2, <2>3, <2>4, <2>5, <2>6, <2>7 DEF IInv
<1>5. ASSUME NEW w \in Workers, NEW t \in Tasks, CancelTask(w, t) PROVE IInv'
  <2>1. Shape'
    BY <1>5, IntentsAssumption DEF IInv, Shape,
       CancelTask, schemaVars, txVars
  <2>2. TxServed'
    BY <1>5, IntentsAssumption DEF IInv, TxServed, Shape, Idle, ReadCommitted,
       CancelTask, schemaVars, txVars
  <2>3. TxFresh'
    BY <1>5, IntentsAssumption DEF IInv, TxFresh, TxServed, Shape, Idle, Under911006, ReadCommitted,
       CancelTask, schemaVars, txVars
  <2>4. TxClaims'
    BY <1>5, IntentsAssumption DEF IInv, TxClaims, TxServed, Shape, Idle,
       CancelTask, schemaVars, txVars
  <2>5. OneIntentPerIdentity'
    BY <1>5, IntentsAssumption DEF IInv, OneIntentPerIdentity, Accepted,
       CancelTask, schemaVars, txVars
  <2>6. LinkIsTheAdmission'
    BY <1>5, IntentsAssumption DEF IInv, LinkIsTheAdmission, Shape,
       CancelTask, schemaVars, txVars
  <2>7. WholeOrDamaged'
    BY <1>5, IntentsAssumption DEF IInv, WholeOrDamaged, Whole, Damaged,
       CancelTask, schemaVars, txVars
  <2> QED
    BY <2>1, <2>2, <2>3, <2>4, <2>5, <2>6, <2>7 DEF IInv
<1> QED
  BY <1>1, <1>2, <1>3, <1>4, <1>5, Zenon

(* Admissions and synchronous claims.                                      *)
LEMMA AdmitKeepsIInv ==
  ASSUME IInv,
         \/ \E w \in Workers, i \in Submissions : BeginAdmit(w, i)
         \/ \E w \in Workers : Admit(w)
         \/ \E w \in Workers, o \in Ops : DirectClaim(w, o)
  PROVE  IInv'
<1>1. ASSUME NEW w \in Workers, NEW i \in Submissions, BeginAdmit(w, i) PROVE IInv'
  <2>1. Shape'
    BY <1>1, IntentsAssumption DEF IInv, Shape,
       BeginAdmit, Claimable, schemaVars, rowVars
  <2>2. TxServed'
    BY <1>1, IntentsAssumption DEF IInv, TxServed, Shape, Idle, ReadCommitted,
       BeginAdmit, Claimable, schemaVars, rowVars
  <2>3. TxFresh'
    BY <1>1, IntentsAssumption DEF IInv, TxFresh, TxServed, Shape, Idle, Under911006, ReadCommitted,
       BeginAdmit, Claimable, schemaVars, rowVars
  <2>4. TxClaims'
    <3>1. \A x \in Workers : x # w => tx'[x] = tx[x]
      BY <1>1 DEF IInv, Shape, BeginAdmit
    <3>2. tx'[w].kind = "admit" /\ tx'[w].on = i
      BY <1>1 DEF IInv, Shape, BeginAdmit
    <3>3. opLock' = [opLock EXCEPT ![OpOf[i]] = w] /\ opLock[OpOf[i]] = None
          /\ op[OpOf[i]] = None /\ op' = op
      BY <1>1 DEF BeginAdmit, Claimable, rowVars
    <3>4. opLock = [o \in Ops |-> opLock[o]]
      BY DEF IInv, Shape
    <3>5. ASSUME NEW x \in Workers, x # w, tx[x].kind = "admit"
          PROVE  /\ tx[x].on \in Submissions
                 /\ opLock'[OpOf[tx[x].on]] = x /\ op'[OpOf[tx[x].on]] = None
      <4>1. tx[x].on \in Submissions /\ opLock[OpOf[tx[x].on]] = x /\ op[OpOf[tx[x].on]] = None
        BY <3>5 DEF IInv, TxClaims
      <4>2. OpOf[tx[x].on] \in Ops /\ OpOf[tx[x].on] # OpOf[i]
        BY <3>3, <4>1, IntentsAssumption
      <4> QED
        BY <3>3, <3>4, <4>1, <4>2
    <3>6. opLock'[OpOf[i]] = w /\ op'[OpOf[i]] = None
      BY <3>3, <3>4, IntentsAssumption
    <3> QED
      BY <3>1, <3>2, <3>5, <3>6 DEF TxClaims
  <2>5. OneIntentPerIdentity'
    BY <1>1, IntentsAssumption DEF IInv, OneIntentPerIdentity, Accepted,
       BeginAdmit, Claimable, schemaVars, rowVars
  <2>6. LinkIsTheAdmission'
    BY <1>1, IntentsAssumption DEF IInv, LinkIsTheAdmission, Shape,
       BeginAdmit, Claimable, schemaVars, rowVars
  <2>7. WholeOrDamaged'
    BY <1>1, IntentsAssumption DEF IInv, WholeOrDamaged, Whole, Damaged,
       BeginAdmit, Claimable, schemaVars, rowVars
  <2> QED
    BY <2>1, <2>2, <2>3, <2>4, <2>5, <2>6, <2>7 DEF IInv
<1>2. ASSUME NEW w \in Workers, Admit(w) PROVE IInv'
  <2>1. Shape'
    <3>1. tx[w].on \in Submissions /\ opLock[OpOf[tx[w].on]] = w /\ op[OpOf[tx[w].on]] = None
      BY <1>2 DEF IInv, TxClaims, Admit
    <3>2. CASE UNCHANGED rowVars
      BY <1>2, <3>2 DEF IInv, Shape, Admit, rowVars
    <3>3. CASE LinkRows(tx[w].on)
      BY <1>2, <3>1, <3>3, IntentsAssumption, Zenon DEF IInv, Shape, Admit, LinkRows
    <3> QED
      BY <1>2, <3>2, <3>3 DEF Admit
  <2>2. TxServed'
    BY <1>2, IntentsAssumption, Zenon DEF IInv, TxServed, Shape, Idle, ReadCommitted,
       Admit, StillPrepared, LinkRows, schemaVars, rowVars
  <2>3. TxFresh'
    BY <1>2, IntentsAssumption, Zenon DEF IInv, TxFresh, TxServed, Shape, Idle, Under911006, ReadCommitted,
       Admit, StillPrepared, LinkRows, schemaVars, rowVars
  <2>4. TxClaims'
    <3>1. tx[w].on \in Submissions /\ opLock[OpOf[tx[w].on]] = w /\ op[OpOf[tx[w].on]] = None
      BY <1>2 DEF IInv, TxClaims, Admit
    <3>2. tx'[w] = Idle /\ \A x \in Workers : x # w => tx'[x] = tx[x]
      BY <1>2 DEF IInv, Shape, Admit
    <3>3. \A o \in Ops : o # OpOf[tx[w].on] => op'[o] = op[o] /\ opLock'[o] = opLock[o]
      BY <1>2, <3>1, IntentsAssumption DEF IInv, Shape, Admit, LinkRows, rowVars
    <3>4. ASSUME NEW x \in Workers, x # w, tx[x].kind = "admit"
          PROVE  /\ tx[x].on \in Submissions
                 /\ opLock'[OpOf[tx[x].on]] = x /\ op'[OpOf[tx[x].on]] = None
      <4>1. tx[x].on \in Submissions /\ opLock[OpOf[tx[x].on]] = x /\ op[OpOf[tx[x].on]] = None
        BY <3>4 DEF IInv, TxClaims
      <4> QED
        BY <3>1, <3>3, <3>4, <4>1, IntentsAssumption
    <3> QED
      BY SMTT(60), <3>2, <3>4 DEF TxClaims, Idle
  <2>5. OneIntentPerIdentity'
    BY <1>2, IntentsAssumption, Zenon DEF IInv, OneIntentPerIdentity, Accepted,
       Admit, StillPrepared, LinkRows, schemaVars, rowVars
  <2>6. LinkIsTheAdmission'
    <3>1. tx[w].on \in Submissions /\ opLock[OpOf[tx[w].on]] = w /\ op[OpOf[tx[w].on]] = None
      BY <1>2 DEF IInv, TxClaims, Admit
    <3>2. CASE UNCHANGED rowVars
      BY <3>2 DEF IInv, LinkIsTheAdmission, rowVars
    <3>3. CASE LinkRows(tx[w].on)
      <4>1. ASSUME NEW j \in links PROVE op'[OpOf[j]] = j /\ task'[TaskOf[j]] = "working"
        <5>1. j \in Submissions /\ op[OpOf[j]] = j /\ task[TaskOf[j]] = "working"
          BY DEF IInv, Shape, LinkIsTheAdmission
        <5>2. OpOf[j] # OpOf[tx[w].on]
          BY <3>1, <5>1, IntentsAssumption
        <5> QED
          BY <3>1, <3>3, <5>1, <5>2, IntentsAssumption DEF IInv, Shape, LinkRows
      <4>2. LET i == tx[w].on IN op'[OpOf[i]] = i /\ task'[TaskOf[i]] = "working"
        BY <3>1, <3>3, IntentsAssumption DEF IInv, Shape, LinkRows
      <4>3. links' = links \cup {tx[w].on}
        BY <3>3 DEF LinkRows
      <4> QED
        BY <4>1, <4>2, <4>3 DEF LinkIsTheAdmission
    <3> QED
      BY <1>2, <3>2, <3>3 DEF Admit
  <2>7. WholeOrDamaged'
    BY ZenonT(60), <1>2, IntentsAssumption DEF IInv, WholeOrDamaged, Whole, Damaged,
       Admit, StillPrepared, LinkRows, schemaVars, rowVars, TxClaims, TxServed, Shape, Idle
  <2> QED
    BY <2>1, <2>2, <2>3, <2>4, <2>5, <2>6, <2>7 DEF IInv
<1>3. ASSUME NEW w \in Workers, NEW o \in Ops, DirectClaim(w, o) PROVE IInv'
  <2>1. Shape'
    BY <1>3, IntentsAssumption DEF IInv, Shape,
       DirectClaim, Claimable, schemaVars, txVars
  <2>2. TxServed'
    BY <1>3, IntentsAssumption DEF IInv, TxServed, Shape, Idle, ReadCommitted,
       DirectClaim, Claimable, schemaVars, txVars
  <2>3. TxFresh'
    BY <1>3, IntentsAssumption DEF IInv, TxFresh, TxServed, Shape, Idle, Under911006, ReadCommitted,
       DirectClaim, Claimable, schemaVars, txVars
  <2>4. TxClaims'
    <3>1. op' = [op EXCEPT ![o] = "direct"] /\ opLock[o] = None /\ tx' = tx /\ opLock' = opLock
      BY <1>3 DEF DirectClaim, Claimable, txVars
    <3>2. ASSUME NEW x \in Workers, tx[x].kind = "admit"
          PROVE  op'[OpOf[tx[x].on]] = None
      <4>1. tx[x].on \in Submissions /\ opLock[OpOf[tx[x].on]] = x /\ op[OpOf[tx[x].on]] = None
        BY <3>2 DEF IInv, TxClaims
      <4>2. op \in [Ops -> Submissions \cup {"direct", None}]
        BY DEF IInv, Shape
      <4> QED
        BY <3>1, <4>1, <4>2, IntentsAssumption
    <3> QED
      BY <3>1, <3>2 DEF IInv, TxClaims
  <2>5. OneIntentPerIdentity'
    BY <1>3, IntentsAssumption DEF IInv, OneIntentPerIdentity, Accepted,
       DirectClaim, Claimable, schemaVars, txVars
  <2>6. LinkIsTheAdmission'
    <3>1. op' = [op EXCEPT ![o] = "direct"] /\ op[o] = None /\ UNCHANGED <<links, task>>
      BY <1>3 DEF DirectClaim, Claimable
    <3>2. op \in [Ops -> Submissions \cup {"direct", None}] /\ links \subseteq Submissions
      BY DEF IInv, Shape
    <3>3. \A j \in links : op[OpOf[j]] = j /\ task[TaskOf[j]] = "working"
      BY DEF IInv, LinkIsTheAdmission
    <3>4. \A j \in links : op'[OpOf[j]] = j
      <4> SUFFICES ASSUME NEW j \in links PROVE op'[OpOf[j]] = j
        OBVIOUS
      <4>1. OpOf[j] \in Ops
        BY <3>2, IntentsAssumption
      <4>2. op[OpOf[j]] # None
        BY ZenonT(60), <3>2, <3>3, IntentsAssumption
      <4>3. OpOf[j] # o
        BY <3>1, <4>2
      <4> QED
        BY <3>1, <3>2, <3>3, <4>1, <4>3
    <3> QED
      BY <3>1, <3>3, <3>4 DEF LinkIsTheAdmission
  <2>7. WholeOrDamaged'
    BY <1>3, IntentsAssumption DEF IInv, WholeOrDamaged, Whole, Damaged,
       DirectClaim, Claimable, schemaVars, txVars, Shape
  <2> QED
    BY <2>1, <2>2, <2>3, <2>4, <2>5, <2>6, <2>7 DEF IInv
<1> QED
  BY <1>1, <1>2, <1>3

(* Every step keeps the invariant.                                         *)
LEMMA NextKeepsIInv == IInv /\ [Next]_vars => IInv'
<1> SUFFICES ASSUME IInv, [Next]_vars PROVE IInv'
  OBVIOUS
<1>1. CASE Next
  BY <1>1, SchemaKeepsIInv, LockedKeepsIInv, AdmitKeepsIInv, Zenon
  DEF Next, BeginAccept, BeginSetCapacity, Under911006
<1>2. CASE UNCHANGED vars
  BY ZenonT(60), <1>2 DEF vars, schemaVars, rowVars, txVars, IInv, Shape, TxServed, TxFresh, TxClaims, ReadCommitted,
              Idle, Under911006, IntentTables, LinkTables,
              OneIntentPerIdentity, Accepted, LinkIsTheAdmission, WholeOrDamaged, Whole, Damaged
<1> QED
  BY <1>1, <1>2

(* The invariant holds throughout.                                         *)
LEMMA Invariance == Spec => []IInv
<1>1. Init => IInv
  BY InitIInv
<1>2. IInv /\ [Next]_vars => IInv'
  BY NextKeepsIInv
<1> QED
  BY <1>1, <1>2, PTL DEF Spec

-----------------------------------------------------------------------------
(* A task or operation identity is retained once, whichever workers race   *)
(* to accept it (_accept under 911006).                                    *)
THEOREM IdentitiesUsedOnce == Spec => []OneIntentPerIdentity
<1>1. IInv => OneIntentPerIdentity
  BY DEF IInv
<1> QED
  BY <1>1, Invariance, PTL

(* Every link is its own intent's admission, never a synchronous call's    *)
(* claim (_link, OperationLedger.claim).                                   *)
THEOREM LinksAreAdmissions == Spec => []LinkIsTheAdmission
<1>1. IInv => LinkIsTheAdmission
  BY DEF IInv
<1> QED
  BY <1>1, Invariance, PTL

(* While a worker serves, every operation a queued intent claimed has its  *)
(* link and its intent: incomplete schemas are refused (__init__).         *)
THEOREM HistoryServedWhole == Spec => []ServedHistoryWhole
<1>1. IInv => ServedHistoryWhole
  BY DEF IInv, WholeOrDamaged, Whole, ServedHistoryWhole
<1> QED
  BY <1>1, Invariance, PTL

(* A canceled task is never brought back by an admission that waited for   *)
(* 911006 (_link).                                                         *)
THEOREM CancellationsStand == Spec => CancellationStands
<1> DEFINE Stands == \A t \in Tasks : task[t] = "canceled" => task'[t] = "canceled"
<1>1. IInv /\ [Next]_vars => [Stands]_vars
  <2> SUFFICES ASSUME IInv, Next PROVE Stands
    OBVIOUS
  <2>1. CASE UNCHANGED task
    BY <2>1
  <2>2. ASSUME NEW w \in Workers, Accept(w) PROVE Stands
    BY <2>2 DEF IInv, Shape, Accept, Conflict, rowVars
  <2>3. ASSUME NEW w \in Workers, Admit(w) PROVE Stands
    BY <2>3 DEF IInv, Shape, Admit, StillPrepared, LinkRows, rowVars
  <2>4. ASSUME NEW w \in Workers, NEW t \in Tasks, CancelTask(w, t) PROVE Stands
    BY <2>4 DEF IInv, Shape, CancelTask
  <2> QED
    BY <2>1, <2>2, <2>3, <2>4
    DEF Next, Restore, Open, Crash, BeginAccept, BeginSetCapacity, Begin, Locked,
        SetCapacity, BeginAdmit, DirectClaim, rowVars
<1> QED
  BY <1>1, Invariance, PTL DEF Spec, CancellationStands

-----------------------------------------------------------------------------
(* The capacity.  Its own invariant, kept beside the one above: what the   *)
(* tables hold, the policy a locked transaction has read is the one in     *)
(* force, and nothing is retained before the schema exists.                *)
LimitsFresh ==
    \A w \in Workers : tx[w].kind \in Under911006 =>
        /\ tx[w].kind = "capacity" => tx[w].on \in Capacities
        /\ tx[w].lock = "held" => tx[w].limits = policy

EmptyAtFirst == tables = {} => intents = [i \in Submissions |-> None]

CInv == TypeOK /\ LimitsFresh /\ EmptyAtFirst /\ CapacityKept

(* Rows and their sum.                                                     *)
LEMMA NoRows ==
    LET none == [i \in Submissions |-> None] IN
    /\ none \in RowSets /\ RetainedSum[none] = 0
    /\ Accepted(none) = {} /\ Cardinality(Accepted(none)) = 0
  BY RetainedSumAssumption, FS_EmptySet, Zenon DEF RowSets, Accepted

(* One more row adds its record and its allowance.                         *)
LEMMA OneMoreRow ==
  ASSUME NEW rows \in RowSets, NEW i \in Submissions, NEW a \in Allowances, i \notin Accepted(rows)
  PROVE  LET more == [rows EXCEPT ![i] = a] IN
         /\ more \in RowSets /\ RetainedSum[more] = RetainedSum[rows] + SizeOf[i] + a
         /\ Cardinality(Accepted(rows)) \in Nat
         /\ Cardinality(Accepted(more)) = Cardinality(Accepted(rows)) + 1
<1> DEFINE more == [rows EXCEPT ![i] = a]
<1>1. more \in RowSets /\ rows[i] = None
  BY DEF RowSets, Accepted
<1>2. RetainedSum[more] = RetainedSum[rows] + SizeOf[i] + a
  BY <1>1, RetainedSumAssumption
<1>3. Accepted(more) = Accepted(rows) \cup {i}
  BY CapacitiesAssumption DEF RowSets, Accepted
<1>4. IsFiniteSet(Accepted(rows))
  BY CapacitiesAssumption, FS_Subset DEF Accepted
<1>5. /\ Cardinality(Accepted(rows)) \in Nat
      /\ Cardinality(Accepted(more)) = Cardinality(Accepted(rows)) + 1
  BY <1>3, <1>4, FS_AddElement, FS_CardinalityType, Zenon
<1> QED
  BY <1>1, <1>2, <1>5

(* Nothing is retained at first, and there is no policy.                   *)
LEMMA InitCInv == Init => CInv
<1> SUFFICES ASSUME Init PROVE CInv
  OBVIOUS
<1>1. TypeOK
  BY NoRows DEF Init, TypeOK
<1>2. LimitsFresh /\ EmptyAtFirst /\ CapacityKept
  BY DEF Init, LimitsFresh, EmptyAtFirst, CapacityKept, Idle, Under911006
<1> QED
  BY <1>1, <1>2 DEF CInv

(* Restores, starts and crashes: a restore only forgets rows or the policy, *)
(* and a start invents a policy only over an empty schema.                 *)
LEMMA SchemaKeepsCInv ==
  ASSUME IInv, CInv,
         \/ Restore
         \/ \E w \in Workers : Open(w)
         \/ \E w \in Workers : Crash(w)
  PROVE  CInv'
<1> USE DEF CInv
<1>1. CASE Restore
  <2>1. \/ intents' = intents \/ intents' = [i \in Submissions |-> None]
    BY <1>1 DEF Restore
  <2>2. policy' \in {policy, None}
    BY <1>1 DEF Restore
  <2>3. /\ tables' \subseteq IntentTables /\ tables' # {} /\ linkTables' \subseteq LinkTables
        /\ linkShape' \in {"v1", "other"} /\ links' \subseteq Submissions
        /\ up' = {} /\ UNCHANGED <<task, op, tx, taskLock, opLock>>
    BY <1>1, Zenon DEF Restore, txVars, TypeOK, IntentTables
  <2>4. TypeOK'
    BY <2>1, <2>2, <2>3, NoRows DEF TypeOK
  <2>5. \A w \in Workers : tx'[w] = Idle
    BY <1>1, <2>3 DEF IInv, TxServed, Restore
  <2>6. LimitsFresh' /\ EmptyAtFirst'
    BY <2>3, <2>5 DEF LimitsFresh, EmptyAtFirst, Idle, Under911006
  <2>7. CapacityKept'
    <3> SUFFICES ASSUME policy' # None
                 PROVE  /\ Cardinality(Accepted(intents')) <= policy'.items
                        /\ Retained(intents') <= policy'.bytes
      BY DEF CapacityKept
    <3>1. policy' = policy /\ policy.items \in Nat /\ policy.bytes \in Nat
      BY <2>2, CapacitiesAssumption DEF TypeOK
    <3>2. CASE intents' = intents
      BY <3>1, <3>2 DEF CapacityKept
    <3>3. CASE intents' = [i \in Submissions |-> None]
      BY <3>1, <3>3, NoRows DEF Retained
    <3> QED
      BY <2>1, <3>2, <3>3
  <2> QED
    BY <2>4, <2>6, <2>7
<1>2. ASSUME NEW w \in Workers, Open(w) PROVE CInv'
  <2>1. TypeOK'
    BY <1>2, IntentsAssumption DEF TypeOK, Open, OpenIntents, OpenLinks, rowVars, txVars
  <2>2. UNCHANGED <<intents, tx>>
    BY <1>2 DEF Open, rowVars, txVars
  <2>3. LimitsFresh'
    <3>1. CASE policy' = policy
      BY <2>2, <3>1 DEF LimitsFresh
    <3>2. CASE tables = {}
      <4>1. up = {}
        BY <3>2 DEF TypeOK, IntentTables
      <4> QED
        BY <2>2, <4>1 DEF IInv, TxServed, LimitsFresh, Idle, Under911006
    <3> QED
      BY <1>2, <3>1, <3>2 DEF Open, OpenIntents
  <2>4. EmptyAtFirst'
    BY <1>2 DEF Open, OpenIntents, EmptyAtFirst, IntentTables
  <2>5. CapacityKept'
    <3>1. CASE policy' = policy
      BY <2>2, <3>1 DEF CapacityKept
    <3>2. CASE tables = {}
      BY <1>2, <2>1, <2>2, <3>2, NoRows, CapacitiesAssumption
      DEF CapacityKept, EmptyAtFirst, Retained, TypeOK
    <3> QED
      BY <1>2, <3>1, <3>2 DEF Open, OpenIntents
  <2> QED
    BY <2>1, <2>3, <2>4, <2>5
<1>3. ASSUME NEW w \in Workers, Crash(w) PROVE CInv'
  <2>1. TypeOK'
    BY <1>3 DEF TypeOK, Crash, schemaVars, rowVars
  <2>2. LimitsFresh'
    BY <1>3 DEF IInv, Shape, LimitsFresh, Crash, schemaVars, Idle, Under911006
  <2>3. EmptyAtFirst' /\ CapacityKept'
    BY <1>3, Zenon DEF EmptyAtFirst, CapacityKept, Crash, schemaVars, rowVars
  <2> QED
    BY <2>1, <2>2, <2>3
<1> QED
  BY <1>1, <1>2, <1>3

(* Acceptance fits the policy it read, a new policy covers the rows it     *)
(* read; under 911006 both are current (_accept, set_capacity).            *)
LEMMA LockedKeepsCInv ==
  ASSUME IInv, CInv, NEW w \in Workers,
         \/ Locked(w)
         \/ Accept(w)
         \/ SetCapacity(w)
  PROVE  CInv'
<1> USE DEF CInv
<1>1. \A x \in Workers : x # w => tx'[x] = tx[x]
  BY DEF IInv, Shape, Locked, Accept, Release, SetCapacity
<1>2. CASE Locked(w)
  <2>1. TypeOK' /\ EmptyAtFirst' /\ CapacityKept'
    BY <1>2, IntentsAssumption
    DEF TypeOK, EmptyAtFirst, CapacityKept, Locked, TakeTaskLock, schemaVars, rowVars
  <2>a. tx[w].kind \in {"accept", "capacity"}
    BY <1>2 DEF Locked
  <2>b. tx[w] # Idle
    BY <2>a DEF Idle
  <2>2. ReadCommitted(w)
    BY <2>b DEF IInv, TxServed
  <2>3. tx'[w].kind = tx[w].kind /\ tx'[w].on = tx[w].on /\ tx'[w].limits = policy
    BY <1>2, <2>2 DEF IInv, Shape, Locked, ReadCommitted
  <2>4. LimitsFresh'
    BY <1>1, <1>2, <2>3 DEF LimitsFresh, Locked, schemaVars, Under911006
  <2> QED
    BY <2>1, <2>4
<1>3. CASE Accept(w)
  <2>1. /\ tx'[w] = Idle /\ UNCHANGED <<schemaVars, up, opLock>>
        /\ taskLock' \in {None, taskLock} /\ w \in up
    BY <1>3 DEF IInv, Shape, TxServed, Accept, Release, Idle
  <2>2. LimitsFresh' /\ EmptyAtFirst'
    BY <1>1, <2>1 DEF LimitsFresh, EmptyAtFirst, TypeOK, schemaVars, Idle, Under911006, IntentTables
  <2>3. CASE UNCHANGED rowVars
    BY <2>1, <2>2, <2>3 DEF TypeOK, CapacityKept, schemaVars, rowVars
  <2>4. CASE ~UNCHANGED rowVars
    <3> DEFINE i == tx[w].on
               a == policy.resultBytes
    <3>1. /\ i \in Submissions /\ tx[w].rows = intents /\ tx[w].limits = policy
      BY <1>3 DEF IInv, TxFresh, LimitsFresh, Accept, Under911006
    <3>2. /\ ~Conflict(i, intents) /\ Fits(i, intents, policy)
          /\ intents' = [intents EXCEPT ![i] = a]
          /\ task' = [task EXCEPT ![TaskOf[i]] = "submitted"]
          /\ UNCHANGED <<links, op>>
      BY <1>3, <2>4, <3>1 DEF Accept
    <3>3. policy \in Capacities /\ a \in Allowances /\ intents \in RowSets
      BY <2>1 DEF TypeOK, Allowances
    <3>4. i \notin Accepted(intents)
      BY <3>2 DEF Conflict
    <3>5. /\ intents' \in RowSets /\ RetainedSum[intents'] = RetainedSum[intents] + SizeOf[i] + a
          /\ Cardinality(Accepted(intents)) \in Nat
          /\ Cardinality(Accepted(intents')) = Cardinality(Accepted(intents)) + 1
      BY <3>1, <3>2, <3>3, <3>4, OneMoreRow, Zenon
    <3>6. CapacityKept'
      BY <2>1, <3>2, <3>3, <3>5, CapacitiesAssumption
      DEF CapacityKept, Fits, Retained, schemaVars
    <3>7. TypeOK'
      BY <2>1, <3>1, <3>2, <3>5, IntentsAssumption DEF TypeOK, schemaVars
    <3> QED
      BY <2>2, <3>6, <3>7
  <2> QED
    BY <2>3, <2>4
<1>4. CASE SetCapacity(w)
  <2>1. /\ tx[w].on \in Capacities /\ tx[w].rows = intents /\ w \in up
    BY <1>4 DEF IInv, TxFresh, TxServed, LimitsFresh, SetCapacity, Under911006, Idle
  <2>2. TypeOK' /\ EmptyAtFirst'
    BY <1>4, <2>1, CapacitiesAssumption DEF TypeOK, EmptyAtFirst, SetCapacity, rowVars
  <2>3. CapacityKept'
    BY <1>4, <2>1, Zenon DEF CapacityKept, SetCapacity, Covers, rowVars
  <2>4. LimitsFresh'
    <3>1. tx'[w] = Idle
      BY <1>4 DEF IInv, Shape, SetCapacity
    <3>2. ASSUME NEW x \in Workers, x # w, tx[x].kind \in Under911006
          PROVE  tx[x].lock # "held"
      BY <1>4, <3>2 DEF IInv, TxFresh, SetCapacity, Under911006
    <3> QED
      BY <1>1, <3>1, <3>2 DEF LimitsFresh, Idle, Under911006
  <2> QED
    BY <2>2, <2>3, <2>4
<1> QED
  BY <1>2, <1>3, <1>4

(* Requests, cancellations and admissions leave policy and rows alone.     *)
LEMMA OthersKeepCInv ==
  ASSUME IInv, CInv, NEW w \in Workers,
         \/ BeginAccept(w)
         \/ BeginSetCapacity(w)
         \/ \E t \in Tasks : CancelTask(w, t)
         \/ \E i \in Submissions : BeginAdmit(w, i)
         \/ Admit(w)
         \/ \E o \in Ops : DirectClaim(w, o)
  PROVE  CInv'
<1> USE DEF CInv
<1>1. UNCHANGED <<schemaVars, intents, up>>
  BY Zenon DEF BeginAccept, BeginSetCapacity, Begin, CancelTask, BeginAdmit, Admit, DirectClaim,
         LinkRows, rowVars, schemaVars
<1>2. EmptyAtFirst' /\ CapacityKept'
  BY <1>1 DEF EmptyAtFirst, CapacityKept, schemaVars
<1>3. LimitsFresh'
  BY <1>1 DEF IInv, Shape, LimitsFresh, BeginAccept, BeginSetCapacity, Begin, CancelTask,
              BeginAdmit, Admit, DirectClaim, txVars, schemaVars, Idle, Under911006
<1>4. /\ links' \subseteq Submissions
      /\ task' \in [Tasks -> {"none", "submitted", "working", "canceled"}]
      /\ op' \in [Ops -> Submissions \cup {"direct", None}]
      /\ taskLock' = taskLock
      /\ opLock' \in [Ops -> Workers \cup {None}]
  <2>1. CASE Admit(w)
    <3>1. tx[w].on \in Submissions
      BY <2>1 DEF IInv, TxClaims, Admit
    <3>2. taskLock' = taskLock /\ opLock' \in [Ops -> Workers \cup {None}]
      BY <2>1, <3>1, IntentsAssumption DEF TypeOK, Admit
    <3>3. CASE UNCHANGED rowVars
      BY <3>2, <3>3 DEF TypeOK, rowVars
    <3>4. CASE LinkRows(tx[w].on)
      BY <3>1, <3>2, <3>4, IntentsAssumption DEF TypeOK, LinkRows
    <3> QED
      BY <2>1, <3>3, <3>4 DEF Admit
  <2>2. ASSUME NEW t \in Tasks, CancelTask(w, t)
        PROVE  /\ task' \in [Tasks -> {"none", "submitted", "working", "canceled"}]
               /\ UNCHANGED <<links, op, taskLock, opLock>>
    BY <2>2 DEF TypeOK, CancelTask, txVars
  <2>3. ASSUME NEW i \in Submissions, BeginAdmit(w, i)
        PROVE  /\ opLock' \in [Ops -> Workers \cup {None}]
               /\ UNCHANGED <<links, task, op, taskLock>>
    BY <2>3, IntentsAssumption DEF TypeOK, BeginAdmit, rowVars
  <2>4. ASSUME NEW o \in Ops, DirectClaim(w, o)
        PROVE  /\ op' \in [Ops -> Submissions \cup {"direct", None}]
               /\ UNCHANGED <<links, task, taskLock, opLock>>
    BY <2>4 DEF TypeOK, DirectClaim, txVars
  <2>5. CASE BeginAccept(w) \/ BeginSetCapacity(w)
    BY <2>5 DEF TypeOK, BeginAccept, BeginSetCapacity, Begin, rowVars
  <2> QED
    BY <2>1, <2>2, <2>3, <2>4, <2>5 DEF TypeOK
<1> QED
  BY <1>1, <1>2, <1>3, <1>4 DEF TypeOK, schemaVars

(* Every step keeps the second invariant too.                              *)
LEMMA NextKeepsCInv == IInv /\ CInv /\ [Next]_vars => CInv'
<1> SUFFICES ASSUME IInv, CInv, [Next]_vars PROVE CInv'
  OBVIOUS
<1>1. CASE Next
  BY <1>1, SchemaKeepsCInv, LockedKeepsCInv, OthersKeepCInv DEF Next
<1>2. CASE UNCHANGED vars
  BY <1>2 DEF vars, schemaVars, rowVars, txVars, CInv, TypeOK, LimitsFresh, EmptyAtFirst,
              CapacityKept
<1> QED
  BY <1>1, <1>2

(* The policy in force covers the records and result allowances retained,  *)
(* whichever workers accept, change the capacity, crash or start, and      *)
(* whatever part of the schema a restore brings back (TaskIntentStore).    *)
THEOREM CapacityCovers == Spec => [](TypeOK /\ CapacityKept)
<1>1. Init => CInv
  BY InitCInv
<1>2. IInv /\ CInv /\ [Next]_vars => CInv'
  BY NextKeepsCInv
<1>3. CInv => TypeOK /\ CapacityKept
  BY DEF CInv
<1> QED
  BY <1>1, <1>2, <1>3, Invariance, PTL DEF Spec

(* These together, for any number of workers, submissions and policies, *)
(* and any isolation level a connection may run at (TaskIntentStore,       *)
(* TaskAdmissionStore).                                                    *)
THEOREM IntentHistoryKept == Spec => IntentHistory
  BY CapacityCovers, IdentitiesUsedOnce, LinksAreAdmissions, HistoryServedWhole, CancellationsStand, PTL
  DEF IntentHistory
=============================================================================
