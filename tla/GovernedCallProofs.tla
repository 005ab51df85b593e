------------------------- MODULE GovernedCallProofs -------------------------
(***************************************************************************)
(* The theorems about GovernedCall, for every set of calls, operations and *)
(* agents, every cost and every limit: the inductive invariant IInv and    *)
(* the safety invariants it implies, what a step may never do, and that    *)
(* GovernedCall implements OperationEscrow.                                *)
(***************************************************************************)
EXTENDS GovernedCallStructure

USE DEF Settled, Guarded, Live, Finished, Goto

-----------------------------------------------------------------------------
(* Grants.                                                                 *)

(* Every step spends a grant at most once, for its own request.            *)
LEMMA GrantsStep ==
    TypeOK /\ WorkerInv /\ LedgerInv /\ GrantsSpentOnce /\ [Next]_vars => GrantsSpentOnce'
<1>. SUFFICES ASSUME TypeOK, WorkerInv, LedgerInv, GrantsSpentOnce, [Next]_vars
              PROVE  GrantsSpentOnce'
  OBVIOUS
<1>. USE CallsAssumption, ScopeAssumption
<1>1. ASSUME NEW c \in Calls, AdmitTransaction(c) PROVE GrantsSpentOnce'
  <2>1. /\ OpOf[c] \in Ops /\ op[OpOf[c]] = "absent" /\ needs' = needs
        /\ resv' = [resv EXCEPT ![OpOf[c]] = c]
    BY <1>1 DEF AdmitTransaction, WorkerInv
  <2>2. \A d \in Calls : approval[d] = "consumed" => OpOf[d] # OpOf[c] /\ ScopeOf[d] # ScopeOf[c]
    BY SMTT(60), <2>1 DEF GrantsSpentOnce, LedgerInv
  <2>3. CASE c \in needs
    <3>1. PICK d \in Calls : /\ ScopeOf[d] = ScopeOf[c] /\ approval[d] = "approved"
                             /\ approval' = [approval EXCEPT ![d] = "consumed"]
      BY <1>1, <2>3 DEF AdmitTransaction, Consume
    <3>2. \A x \in Calls : approval'[x] = "consumed" <=> (x = d \/ approval[x] = "consumed")
      BY <3>1 DEF TypeOK
    <3>3. OpOf[d] = OpOf[c] /\ resv'[OpOf[d]] = c
      BY SMTT(60), <2>1, <3>1 DEF TypeOK
    <3>4. ASSUME NEW x \in Calls, approval[x] = "consumed" PROVE resv'[OpOf[x]] = resv[OpOf[x]]
      BY SMTT(60), <2>1, <2>2, <3>4 DEF TypeOK
    <3>. QED
      BY SMTT(60), <2>1, <2>2, <2>3, <3>1, <3>2, <3>3, <3>4 DEF GrantsSpentOnce
  <2>4. CASE c \notin needs
    BY SMTT(60), <1>1, <2>1, <2>2, <2>4 DEF AdmitTransaction, GrantsSpentOnce, TypeOK
  <2>. QED
    BY <2>3, <2>4
<1>2. ASSUME NEW c \in Calls, AuthorizePolicy(c) PROVE GrantsSpentOnce'
  <2>1. resv' = resv /\ needs \subseteq needs'
    BY <1>2 DEF AuthorizePolicy, ledgerVars
  <2>2. approval' = approval \/ approval' = [approval EXCEPT ![c] = "pending"]
    BY <1>2 DEF AuthorizePolicy
  <2>. QED
    BY SMTT(60), <2>1, <2>2 DEF GrantsSpentOnce, TypeOK
<1>3. ASSUME NEW c \in Calls, NEW status \in {"approved", "denied"}, Approve(c, status)
      PROVE  GrantsSpentOnce'
  BY SMTT(60), <1>3 DEF Approve, GrantsSpentOnce, TypeOK, ledgerVars
<1>4. ASSUME ~\E c \in Calls : AdmitTransaction(c) \/ AuthorizePolicy(c),
             ~\E c \in Calls, status \in {"approved", "denied"} : Approve(c, status)
      PROVE  UNCHANGED <<approval, needs, resv>>
  <2>1. resv' = resv
    BY <1>4, LedgerChanges, Zenon DEF AbortAdmission, Settle, Reconcile, SettleOwned, SetBudget, ledgerVars
  <2>2. UNCHANGED <<approval, needs>>
    BY <1>4, Zenon DEF Next, Worker, Operator, Environment, BeginAdmission, AuthorizeBudget,
       AdmitRolledBack, AuditDeny, AdmissionFails, AbortAdmission, AbortFails, Invoke,
       InvokeReturns, InvokeRaises, Settle, SettleFails, InvocationFailed, Cancel, Crash,
       DestinationApplies, DestinationRefuses, Reconcile, SetBudget, MarkSensitive, AddPolicy,
       RevokeAgent, EnrollAgent, vars
  <2>. QED
    BY <2>1, <2>2
<1>5. CASE UNCHANGED <<approval, needs, resv>>
  BY <1>5, Zenon DEF GrantsSpentOnce
<1>. QED
  BY <1>1, <1>2, <1>3, <1>4, <1>5

-----------------------------------------------------------------------------
(* Audit.                                                                  *)

(* An entry that does not settle an operation changes no settling entry.   *)
LEMMA OtherEntries ==
    ASSUME NEW c \in Calls, NEW kind \in {"deny", "unknown"}, NEW o \in Ops,
           audit' = audit \cup {<<kind, c>>}
    PROVE  SettlingEntries(o)' = SettlingEntries(o)
BY DEF SettlingEntries

(* The gateway's entry settles exactly its own operation.                  *)
LEMMA GatewayEntry ==
    ASSUME NEW c \in Calls, NEW kind \in {"allow", "error"}, NEW o \in Ops,
           audit' = audit \cup {<<kind, c>>}
    PROVE  SettlingEntries(o)' =
              IF OpOf[c] = o THEN SettlingEntries(o) \cup {<<kind, c>>} ELSE SettlingEntries(o)
BY DEF SettlingEntries

(* The reviewer's entry settles exactly its own operation.                 *)
LEMMA ReviewerEntry ==
    ASSUME NEW p \in Ops, NEW result \in Settled, NEW o \in Ops,
           audit' = audit \cup {<<result, p>>}
    PROVE  SettlingEntries(o)' =
              IF p = o THEN SettlingEntries(o) \cup {<<result, p>>} ELSE SettlingEntries(o)
BY DEF SettlingEntries

(* Every step keeps the audit entries in line with the outcomes.           *)
LEMMA AuditStep ==
    TypeOK /\ WorkerInv /\ LedgerInv /\ AuditTellsOutcome /\ [Next]_vars => AuditTellsOutcome'
<1>. SUFFICES ASSUME TypeOK, WorkerInv, LedgerInv, AuditTellsOutcome, [Next]_vars
              PROVE  AuditTellsOutcome'
  OBVIOUS
<1>. USE CallsAssumption
<1>1. ASSUME NEW c \in Calls, AdmitTransaction(c) PROVE AuditTellsOutcome'
  <2>1. /\ OpOf[c] \in Ops /\ op[OpOf[c]] = "absent"
        /\ op' = [op EXCEPT ![OpOf[c]] = "unknown"]
        /\ resv' = [resv EXCEPT ![OpOf[c]] = c]
        /\ audit' = audit /\ reconciled' = reconciled
    BY <1>1 DEF AdmitTransaction, WorkerInv
  <2>2. ASSUME NEW o \in Ops PROVE SettlingEntries(o)' = SettlingEntries(o)
    BY <2>1 DEF SettlingEntries
  <2>. QED
    BY SMTT(60), <2>1, <2>2 DEF AuditTellsOutcome, TypeOK
<1>2. ASSUME NEW c \in Calls, AbortAdmission(c) PROVE AuditTellsOutcome'
  <2>1. /\ OpOf[c] \in Ops /\ op[OpOf[c]] = "unknown" /\ resv[OpOf[c]] = c
        /\ op' = [op EXCEPT ![OpOf[c]] = "failed"] /\ resv' = resv
        /\ audit' = audit \cup {<<"error", c>>} /\ reconciled' = reconciled
    BY <1>2 DEF AbortAdmission, WorkerInv
  <2>2. reconciled[OpOf[c]] = "none"
    BY <2>1 DEF LedgerInv, TypeOK
  <2>3. \A o \in Ops : SettlingEntries(o)' =
              IF OpOf[c] = o THEN SettlingEntries(o) \cup {<<"error", c>>} ELSE SettlingEntries(o)
    BY <2>1, GatewayEntry
  <2>. QED
    BY SMTT(60), <2>1, <2>2, <2>3 DEF AuditTellsOutcome, TypeOK
<1>3. ASSUME NEW c \in Calls, Settle(c) PROVE AuditTellsOutcome'
  <2>1. /\ OpOf[c] \in Ops /\ op[OpOf[c]] = "unknown" /\ resv[OpOf[c]] = c
        /\ op' = [op EXCEPT ![OpOf[c]] = "succeeded"] /\ resv' = resv
        /\ audit' = audit \cup {<<"allow", c>>} /\ reconciled' = reconciled
    BY <1>3 DEF Settle, SettleOwned, Owned, WorkerInv
  <2>2. reconciled[OpOf[c]] = "none"
    BY <2>1 DEF LedgerInv, TypeOK
  <2>3. \A o \in Ops : SettlingEntries(o)' =
              IF OpOf[c] = o THEN SettlingEntries(o) \cup {<<"allow", c>>} ELSE SettlingEntries(o)
    BY <2>1, GatewayEntry
  <2>. QED
    BY SMTT(60), <2>1, <2>2, <2>3 DEF AuditTellsOutcome, TypeOK
<1>4. ASSUME NEW p \in Ops, NEW result \in Settled, Reconcile(p, result) PROVE AuditTellsOutcome'
  <2>1. /\ op[p] = "unknown" /\ op' = [op EXCEPT ![p] = result] /\ resv' = resv
        /\ audit' = audit \cup {<<result, p>>}
        /\ reconciled' = [reconciled EXCEPT ![p] = result]
    BY <1>4 DEF Reconcile, SettleOwned, Owned
  <2>2. \A o \in Ops : SettlingEntries(o)' =
              IF p = o THEN SettlingEntries(o) \cup {<<result, p>>} ELSE SettlingEntries(o)
    BY <2>1, ReviewerEntry
  <2>. QED
    BY SMTT(60), <2>1, <2>2 DEF AuditTellsOutcome, TypeOK
<1>5. ASSUME NEW c \in Calls, NEW kind \in {"deny", "unknown"},
             audit' = audit \cup {<<kind, c>>}, UNCHANGED <<op, resv, reconciled>>
      PROVE  AuditTellsOutcome'
  BY <1>5, OtherEntries DEF AuditTellsOutcome
<1>6. CASE UNCHANGED <<audit, op, resv, reconciled>>
  BY <1>6 DEF AuditTellsOutcome, SettlingEntries
<1>7. ASSUME ~\E c \in Calls : AdmitTransaction(c) \/ AbortAdmission(c) \/ Settle(c),
             ~\E p \in Ops, result \in Settled : Reconcile(p, result)
      PROVE  /\ UNCHANGED <<op, resv, reconciled>>
             /\ \/ audit' = audit
                \/ \E c \in Calls, kind \in {"deny", "unknown"} : audit' = audit \cup {<<kind, c>>}
  <2>1. UNCHANGED <<op, resv, reconciled>>
    BY <1>7, LedgerChanges, Zenon DEF SetBudget, ledgerVars
  <2>2. \/ audit' = audit
        \/ \E c \in Calls, kind \in {"deny", "unknown"} : audit' = audit \cup {<<kind, c>>}
    BY <1>7 DEF Next, Worker, Operator, Environment, BeginAdmission, AuthorizePolicy,
       AuthorizeBudget, AdmitRolledBack, AuditDeny, AdmissionFails, AbortFails, Invoke,
       InvokeReturns, InvokeRaises, SettleFails, InvocationFailed, Cancel, Crash,
       DestinationApplies, DestinationRefuses, Approve, SetBudget, MarkSensitive, AddPolicy,
       RevokeAgent, EnrollAgent, vars
  <2>. QED
    BY <2>1, <2>2
<1>. QED
  BY <1>1, <1>2, <1>3, <1>4, <1>5, <1>6, <1>7

-----------------------------------------------------------------------------
(* The theorems.                                                           *)

(* The initial state satisfies the inductive invariant.                    *)
LEMMA InitIInv == Init => IInv
<1>. SUFFICES ASSUME Init PROVE IInv
  OBVIOUS
<1>1. TypeOK
  BY TypeInit
<1>2. WorkerInv
  BY DEF Init, WorkerInv
<1>3. LedgerInv
  BY DEF Init, LedgerInv
<1>4. DestInv
  BY DEF Init, DestInv
<1>5. HoldsMatchLedger
  BY CallsAssumption DEF Init, HoldsMatchLedger
<1>6. BudgetConserved
  <2>1. \A a \in Agents : Committed(a) = {}
    BY CallsAssumption DEF Init, Committed
  <2>2. \A a \in Agents : limit[a] \in Nat
    BY CallsAssumption, Zenon DEF Init
  <2>3. \A a \in Agents : spent[a] = 0 /\ reserved[a] = {}
    BY DEF Init
  <2>4. CostSum[{}] = 0
    BY CostSumAssumption
  <2>5. ASSUME NEW a \in Agents PROVE spent[a] = CostSum[Committed(a)] /\ Exposure(a) <= limit[a]
    BY <2>1, <2>2, <2>3, <2>4 DEF Exposure
  <2>. QED
    BY <2>5 DEF BudgetConserved
<1>7. GrantsSpentOnce
  BY DEF Init, GrantsSpentOnce
<1>8. AuditTellsOutcome
  BY DEF Init, AuditTellsOutcome, SettlingEntries
<1>. QED
  BY <1>1, <1>2, <1>3, <1>4, <1>5, <1>6, <1>7, <1>8 DEF IInv

(* The inductive invariant holds in every reachable state.                 *)
THEOREM Inductive == Spec => []IInv
<1>1. IInv /\ [Next]_vars => IInv'
  BY TypeStep, StructStep, HoldsStep, BudgetStep, GrantsStep, AuditStep DEF IInv, StructInv
<1>. QED
  BY InitIInv, <1>1, PTL DEF Spec

(* Every reachable state is well typed.                                    *)
THEOREM TypeCorrect == Spec => []TypeOK
<1>1. IInv => TypeOK
  BY DEF IInv
<1>. QED
  BY <1>1, Inductive, PTL

(* Reservations and the ledger agree in every reachable state: no crash,   *)
(* cancellation or race leaks or loses a hold.                             *)
THEOREM HoldsCorrect == Spec => []HoldsMatchLedger
<1>1. IInv => HoldsMatchLedger
  BY DEF IInv
<1>. QED
  BY <1>1, Inductive, PTL

(* Money is conserved and the spend limit holds, for every number of calls *)
(* and every cost.                                                         *)
THEOREM BudgetCorrect == Spec => []BudgetConserved
<1>1. IInv => BudgetConserved
  BY DEF IInv
<1>. QED
  BY <1>1, Inductive, PTL

(* No operation is ever invoked twice, whatever the retries.               *)
THEOREM InvokedOnce == Spec => []AtMostOneInvocation
<1>1. IInv => AtMostOneInvocation
  BY CallsAssumption DEF IInv, WorkerInv, AtMostOneInvocation, TypeOK
<1>. QED
  BY <1>1, Inductive, PTL

(* The recorded outcome never contradicts the destination.                 *)
THEOREM OutcomeCorrect == Spec => []OutcomeFaithful
<1>1. IInv => OutcomeFaithful
  <2>. SUFFICES ASSUME IInv, NEW o \in Ops, RequireEvidence \/ reconciled[o] = "none"
                PROVE  /\ op[o] = "failed" => dest[o] # "applied"
                       /\ op[o] = "succeeded" => dest[o] # "none"
    BY DEF OutcomeFaithful
  <2>1. CASE reconciled[o] = "none"
    <3>1. ASSUME op[o] = "failed", dest[o] = "applied" PROVE FALSE
      <4>1. resv[o] \in sent /\ pc[resv[o]] = "canceled"
        BY <2>1, <3>1 DEF IInv, DestInv
      <4>. QED
        BY <4>1 DEF IInv, WorkerInv, TypeOK
    <3>. QED
      BY <2>1, <3>1 DEF IInv, DestInv
  <2>2. CASE RequireEvidence /\ reconciled[o] # "none"
    BY <2>2 DEF IInv, DestInv, LedgerInv, TypeOK
  <2>. QED
    BY <2>1, <2>2
<1>. QED
  BY <1>1, Inductive, PTL

(* Every approval grant is spent by exactly one admitted operation.        *)
THEOREM GrantsCorrect == Spec => []GrantsSpentOnce
<1>1. IInv => GrantsSpentOnce
  BY DEF IInv
<1>. QED
  BY <1>1, Inductive, PTL

(* Every settled operation has exactly one settling audit entry.           *)
THEOREM AuditCorrect == Spec => []AuditTellsOutcome
<1>1. IInv => AuditTellsOutcome
  BY DEF IInv
<1>. QED
  BY <1>1, Inductive, PTL

-----------------------------------------------------------------------------
(* A settled outcome, a reservation link and a reconciliation are final.   *)
THEOREM SettledFinal == Spec => SettledIsFinal
<1>. DEFINE Final == \A o \in Ops :
                 /\ op[o] \in Settled => op'[o] = op[o]
                 /\ op[o] # "absent" => op'[o] # "absent" /\ resv'[o] = resv[o]
                 /\ op[o] \in Settled => reconciled'[o] = reconciled[o]
<1>1. ASSUME IInv, [Next]_vars PROVE Final
  <2>1. ASSUME NEW c \in Calls, AdmitTransaction(c) PROVE Final
    BY <1>1, <2>1 DEF AdmitTransaction, IInv, TypeOK, WorkerInv
  <2>2. ASSUME NEW p, NEW t, NEW outcome \in Settled, SettleOwned(p, t, outcome),
               \/ reconciled' = reconciled
               \/ reconciled' = [reconciled EXCEPT ![p] = outcome]
        PROVE  Final
    BY <1>1, <2>2 DEF SettleOwned, Owned, IInv, TypeOK
  <2>3. CASE UNCHANGED <<op, resv, reconciled>>
    BY <2>3
  <2>4. ASSUME NEW a, NEW l, NEW r, SetBudget(a, l, r) PROVE UNCHANGED <<op, resv, reconciled>>
    BY <2>4, Zenon DEF SetBudget, ledgerVars
  <2>5. ASSUME NEW c \in Calls, AbortAdmission(c) PROVE Final
    BY <1>1, <2>2, <2>5, AbortOwned DEF AbortAdmission, IInv
  <2>. HIDE DEF Final
  <2>. QED
    BY <1>1, <2>1, <2>2, <2>3, <2>4, <2>5, LedgerChanges DEF Settle, Reconcile
<1>2. IInv /\ [Next]_vars => [Final]_vars
  BY <1>1
<1>. QED
  BY <1>2, Inductive, PTL DEF SettledIsFinal, Spec

(* What the policy decided before the transaction still holds when it      *)
(* commits.                                                                *)
THEOREM AdmissionCorrect == Spec => AdmissionFollowsPolicy
<1>. DEFINE Follows == \A c \in Calls : (pc[c] # "admitted" /\ pc'[c] = "admitted") =>
                 /\ AgentOf[c] \in active /\ CapOf[c] \notin blocked
                 /\ CapOf[c] \in sensitive =>
                       \E d \in Calls : /\ ScopeOf[d] = ScopeOf[c]
                                        /\ approval[d] = "approved" /\ approval'[d] = "consumed"
<1>1. ASSUME IInv, [Next]_vars PROVE Follows
  <2>. SUFFICES ASSUME NEW c \in Calls, pc[c] # "admitted", pc'[c] = "admitted"
                PROVE  /\ AgentOf[c] \in active /\ CapOf[c] \notin blocked
                       /\ CapOf[c] \in sensitive =>
                             \E d \in Calls : /\ ScopeOf[d] = ScopeOf[c]
                                              /\ approval[d] = "approved" /\ approval'[d] = "consumed"
    OBVIOUS
  <2>. USE DEF IInv, TypeOK
  <2>1. ASSUME NEW x \in Calls, Worker(x), ~AdmitTransaction(x) PROVE pc'[c] # "admitted"
    BY SMTT(60), <1>1, <2>1 DEF Worker, BeginAdmission, AuthorizePolicy, AuthorizeBudget, AdmitRolledBack,
       AuditDeny, AdmissionFails, AbortAdmission, AbortFails, Invoke, InvokeReturns, InvokeRaises,
       Settle, SettleFails, InvocationFailed
  <2>2. ASSUME Environment PROVE pc'[c] # "admitted"
    BY <1>1, <2>2 DEF Environment, Cancel, Crash, DestinationApplies, DestinationRefuses
  <2>3. ASSUME Operator PROVE pc' = pc
    BY <2>3 DEF Operator, Reconcile, Approve, SetBudget, MarkSensitive, AddPolicy,
       RevokeAgent, EnrollAgent
  <2>4. PICK x \in Calls : AdmitTransaction(x)
    BY <1>1, <2>1, <2>2, <2>3 DEF Next, vars
  <2>5. x = c
    BY <1>1, <2>4 DEF AdmitTransaction
  <2>6. /\ AgentOf[c] \in active /\ CapOf[c] \notin blocked
        /\ CapOf[c] \in sensitive => c \in needs
    BY <1>1, <2>4, <2>5 DEF AdmitTransaction, WorkerInv
  <2>7. c \in needs => \E d \in Calls : /\ ScopeOf[d] = ScopeOf[c]
                                        /\ approval[d] = "approved" /\ approval'[d] = "consumed"
    BY <1>1, <2>4, <2>5 DEF AdmitTransaction, Consume
  <2>. QED
    BY <2>6, <2>7
<1>2. IInv /\ [Next]_vars => [Follows]_vars
  BY <1>1
<1>. QED
  BY <1>2, Inductive, PTL DEF AdmissionFollowsPolicy, Spec

-----------------------------------------------------------------------------
(* Refinement: the governed call implements OperationEscrow.               *)

(* The initial state maps to an initial state of the escrow.               *)
LEMMA EscrowInit == Init => Escrow!Init
BY DEF Init, Escrow!Init, Phase

(* Settling an owned token closes its escrow.                              *)
LEMMA EscrowClose ==
    ASSUME NEW o \in Ops, NEW t \in Calls, NEW outcome \in Settled, TypeOK,
           SettleOwned(o, t, outcome), sent' = sent
    PROVE  Escrow!Close(o, Phase(outcome))
<1>1. /\ op[o] = "unknown" /\ resv[o] = t /\ t \in reserved[AgentOf[t]]
      /\ reserved' = [reserved EXCEPT ![AgentOf[t]] = @ \ {t}]
      /\ op' = [op EXCEPT ![o] = outcome] /\ limit' = limit /\ resv' = resv
  BY DEF SettleOwned, Owned
<1>2. [q \in Ops |-> Phase(op'[q])] = [[q \in Ops |-> Phase(op[q])] EXCEPT ![o] = Phase(outcome)]
  BY <1>1, Zenon DEF TypeOK
<1>3. Phase(op[o]) = "held"
  BY <1>1 DEF Phase
<1>4. spent' = IF Phase(outcome) = "charged" THEN [spent EXCEPT ![AgentOf[t]] = @ + CostOf[t]] ELSE spent
  BY DEF SettleOwned, Phase
<1>. QED
  BY <1>1, <1>2, <1>3, <1>4 DEF Escrow!Close

(* Every step is a step of the escrow or leaves it unchanged.              *)
LEMMA EscrowStep ==
    ASSUME IInv, [Next]_vars
    PROVE  Escrow!Next \/ UNCHANGED Escrow!vars
<1>. USE CallsAssumption DEF IInv
<1>0. TypeOK /\ WorkerInv /\ LedgerInv /\ HoldsMatchLedger
  BY DEF IInv
<1>1. ASSUME NEW c \in Calls, AdmitTransaction(c) PROVE Escrow!Next
  <2>1. /\ OpOf[c] \in Ops /\ op[OpOf[c]] = "absent"
        /\ op' = [op EXCEPT ![OpOf[c]] = "unknown"]
        /\ resv' = [resv EXCEPT ![OpOf[c]] = c]
        /\ reserved' = [reserved EXCEPT ![AgentOf[c]] = @ \cup {c}]
        /\ UNCHANGED <<limit, spent, sent>>
        /\ Exposure(AgentOf[c]) + CostOf[c] <= limit[AgentOf[c]]
    BY <1>0, <1>1 DEF AdmitTransaction, Affordable, WorkerInv, destVars
  <2>2. [q \in Ops |-> Phase(op'[q])] = [[q \in Ops |-> Phase(op[q])] EXCEPT ![OpOf[c]] = "held"]
    BY <1>0, <2>1, Zenon DEF TypeOK, Phase
  <2>3. [q \in Ops |-> Phase(op[q])][OpOf[c]] = "none"
    BY <2>1 DEF Phase
  <2>4. Escrow!Exposure(AgentOf[c]) = Exposure(AgentOf[c])
    BY DEF Escrow!Exposure, Exposure
  <2>5. Escrow!Hold(c)
    BY <2>1, <2>2, <2>3, <2>4 DEF Escrow!Hold
  <2>. QED
    BY <2>5 DEF Escrow!Next
<1>2. ASSUME NEW c \in Calls, Invoke(c) PROVE Escrow!Next
  <2>1. Escrow!Perform(c)
    BY <1>0, <1>2 DEF Invoke, Escrow!Perform, WorkerInv, TypeOK, budgetVars, ledgerVars
  <2>. QED
    BY <2>1 DEF Escrow!Next
<1>3. ASSUME NEW o \in Ops, NEW t \in Calls, NEW outcome \in Settled,
             SettleOwned(o, t, outcome), sent' = sent
      PROVE  Escrow!Next
  <2>1. Escrow!Close(o, Phase(outcome)) /\ Phase(outcome) \in {"charged", "released"}
    BY <1>0, <1>3, EscrowClose DEF Phase
  <2>. QED
    BY <2>1 DEF Escrow!Next
<1>4. ASSUME NEW c \in Calls, AbortAdmission(c) PROVE Escrow!Next
  <2>1. sent' = sent
    BY <1>4 DEF AbortAdmission, destVars
  <2>. QED
    BY <1>0, <1>3, <1>4, <2>1, AbortOwned
<1>5. ASSUME NEW c \in Calls, Settle(c) PROVE Escrow!Next
  <2>1. SettleOwned(OpOf[c], c, "succeeded") /\ sent' = sent
    BY <1>5 DEF Settle, destVars
  <2>2. OpOf[c] \in Ops
    BY <1>0, <1>5 DEF Settle, WorkerInv
  <2>. QED
    BY <1>3, <2>1, <2>2
<1>6. ASSUME NEW o \in Ops, NEW result \in Settled, Reconcile(o, result) PROVE Escrow!Next
  <2>1. SettleOwned(o, resv[o], result) /\ sent' = sent /\ op[o] = "unknown"
    BY <1>6 DEF Reconcile, destVars
  <2>2. resv[o] \in Calls
    BY <1>0, <2>1 DEF HoldsMatchLedger
  <2>. QED
    BY <1>3, <2>1, <2>2, Zenon
<1>7. ASSUME NEW a \in Agents, NEW l \in Limits, NEW r \in Rates, SetBudget(a, l, r)
      PROVE  Escrow!Next
  <2>1. Escrow!SetLimit(a, l)
    BY <1>7 DEF SetBudget, Escrow!SetLimit, Escrow!Exposure, Exposure, ledgerVars, destVars
  <2>. QED
    BY <2>1 DEF Escrow!Next
<1>8. ASSUME ~\E c \in Calls : Invoke(c),
             UNCHANGED <<op, resv, reserved, spent, limit, reconciled>>
      PROVE  Escrow!Next \/ UNCHANGED Escrow!vars
  <2>1. CASE sent' = sent
    BY <1>8, <2>1, Zenon DEF Escrow!vars
  <2>2. CASE sent' # sent
    BY <1>4, <1>5, <1>6, <1>7, <1>1, <1>8, <2>2, Zenon DEF Next, Worker, Operator, Environment, BeginAdmission,
       AuthorizePolicy, AuthorizeBudget, AdmitRolledBack, AuditDeny, AdmissionFails, AbortFails,
       InvokeReturns, InvokeRaises, SettleFails, InvocationFailed, Cancel, Crash,
       DestinationApplies, DestinationRefuses, Approve, MarkSensitive, AddPolicy, RevokeAgent,
       EnrollAgent, vars, destVars
  <2>. QED
    BY <2>1, <2>2
<1>. QED
  BY <1>1, <1>2, <1>4, <1>5, <1>6, <1>7, <1>8, LedgerChanges

(* The governed call implements the escrow it promises.                    *)
THEOREM EscrowCorrect == Spec => ImplementsEscrow
<1>1. IInv /\ [Next]_vars => [Escrow!Next]_(Escrow!vars)
  BY EscrowStep
<1>. QED
  BY <1>1, Inductive, EscrowInit, PTL DEF Spec, ImplementsEscrow, Escrow!Spec

=============================================================================
