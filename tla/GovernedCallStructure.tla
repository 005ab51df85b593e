----------------------- MODULE GovernedCallStructure ------------------------
(***************************************************************************)
(* What the theorems about GovernedCall rest on: types, how workers,       *)
(* ledger and destination stand to each other, and that every step keeps   *)
(* the holds and the budget.                                               *)
(***************************************************************************)
EXTENDS GovernedCall, TLAPS

(* Before the claim: the authority guard keeps the decision current.       *)
(* After it: the worker owns its operation, and has not been sent before   *)
(* Invoke.                                                                 *)
WorkerInv ==
    \A c \in Calls :
        /\ pc[c] \in {"hinted", "cleared", "authorized"} =>
              OpOf[c] \in Ops /\ AgentOf[c] \in active
        /\ pc[c] \in {"cleared", "authorized"} =>
              CapOf[c] \notin blocked /\ (CapOf[c] \in sensitive => c \in needs)
        /\ pc[c] \in {"admitted", "invoking", "returned", "raised"} =>
              OpOf[c] \in Ops /\ resv[OpOf[c]] = c
        /\ c \in sent => /\ OpOf[c] \in Ops /\ resv[OpOf[c]] = c
                         /\ pc[c] \notin {"admitted", "canceled"}
        /\ pc[c] = "returned" => dest[OpOf[c]] # "none"

(* An operation exists exactly when a call past admission claimed it.      *)
LedgerInv ==
    \A o \in Ops :
        /\ op[o] = "absent" <=> resv[o] = NoCall
        /\ resv[o] # NoCall =>
              /\ OpOf[resv[o]] = o
              /\ pc[resv[o]] \in {"admitted", "invoking", "returned", "raised",
                                  "failed", "canceled", "done", "crashed"}
        /\ reconciled[o] # "none" => op[o] = reconciled[o]

(* How each settled operation stands with the destination.                 *)
DestInv ==
    \A o \in Ops :
        /\ dest[o] = "applied" => resv[o] \in sent
        /\ (op[o] = "failed" /\ reconciled[o] = "none") => pc[resv[o]] = "canceled"
        /\ (op[o] = "succeeded" /\ reconciled[o] = "none") => dest[o] # "none"
        /\ (RequireEvidence /\ reconciled[o] = "failed") => dest[o] = "refused"
        /\ (RequireEvidence /\ reconciled[o] = "succeeded") => dest[o] = "applied"

(* What a worker knows, what the ledger says and what the destination did. *)
StructInv == WorkerInv /\ LedgerInv /\ DestInv

USE DEF Settled, Guarded, Live, Finished, Goto

-----------------------------------------------------------------------------
(* The initial state is well typed.                                        *)
LEMMA TypeInit == Init => TypeOK
<1>. SUFFICES ASSUME Init PROVE TypeOK
  OBVIOUS
<1>1. limit \in [Agents -> Nat] /\ rate \in [Agents -> Nat]
  BY CallsAssumption, Zenon DEF Init
<1>2. audit = {} /\ sent = {} /\ cancelled = {} /\ needs = {}
  BY DEF Init
<1>. QED
  BY <1>1, <1>2 DEF Init, TypeOK

(* Settling a token keeps the budget and the ledger well typed.            *)
LEMMA SettleType ==
    ASSUME NEW o, NEW t \in Calls, NEW outcome \in Settled, TypeOK, SettleOwned(o, t, outcome)
    PROVE  /\ reserved' \in [Agents -> SUBSET Calls]
           /\ recent' \in [Agents -> SUBSET Calls]
           /\ spent' \in [Agents -> Nat]
           /\ op' \in [Ops -> {"absent", "unknown"} \cup Settled]
           /\ limit' = limit /\ rate' = rate /\ resv' = resv
<1>. AgentOf[t] \in Agents /\ CostOf[t] \in Nat
  BY CallsAssumption
<1>1. reserved' \in [Agents -> SUBSET Calls]
  BY DEF SettleOwned, TypeOK
<1>2. recent' \in [Agents -> SUBSET Calls]
  BY DEF SettleOwned, TypeOK
<1>3. spent' \in [Agents -> Nat]
  BY DEF SettleOwned, TypeOK
<1>4. op' \in [Ops -> {"absent", "unknown"} \cup Settled]
  BY Zenon DEF SettleOwned, TypeOK
<1>. QED
  BY <1>1, <1>2, <1>3, <1>4 DEF SettleOwned

(* Every step of a worker, an operator or the environment keeps types.     *)
LEMMA TypeStep == TypeOK /\ [Next]_vars => TypeOK'
<1>. SUFFICES ASSUME TypeOK, [Next]_vars PROVE TypeOK'
  OBVIOUS
<1>. USE CallsAssumption
<1>1. ASSUME NEW c \in Calls, BeginAdmission(c) PROVE TypeOK'
  BY <1>1 DEF BeginAdmission, TypeOK, policyVars, budgetVars, ledgerVars, destVars
<1>2. ASSUME NEW c \in Calls, AuthorizePolicy(c) PROVE TypeOK'
  BY SMTT(60), <1>2 DEF AuthorizePolicy, TypeOK, policyVars, budgetVars, ledgerVars, destVars
<1>3. ASSUME NEW c \in Calls, AuthorizeBudget(c) PROVE TypeOK'
  BY <1>3 DEF AuthorizeBudget, TypeOK, policyVars, budgetVars, ledgerVars, destVars
<1>4. ASSUME NEW c \in Calls, AdmitTransaction(c) PROVE TypeOK'
  <2>1. recent' \in [Agents -> SUBSET Calls]
    BY <1>4 DEF AdmitTransaction, TypeOK
  <2>2. reserved' \in [Agents -> SUBSET Calls]
    BY <1>4 DEF AdmitTransaction, TypeOK
  <2>3. approval' \in [Calls -> {"none", "pending", "approved", "denied", "consumed"}]
    <3>1. CASE c \in needs
      BY <1>4, <3>1 DEF AdmitTransaction, Consume, TypeOK
    <3>2. CASE c \notin needs
      BY <1>4, <3>2 DEF AdmitTransaction, TypeOK
    <3>. QED
      BY <3>1, <3>2
  <2>4. op' \in [Ops -> {"absent", "unknown"} \cup Settled]
    BY <1>4, Zenon DEF AdmitTransaction, TypeOK
  <2>5. resv' \in [Ops -> Calls \cup {NoCall}]
    BY <1>4, Zenon DEF AdmitTransaction, TypeOK
  <2>. QED
    BY <1>4, <2>1, <2>2, <2>3, <2>4, <2>5, Zenon DEF AdmitTransaction, TypeOK, policyVars, destVars
<1>5. ASSUME NEW c \in Calls, AdmitRolledBack(c) PROVE TypeOK'
  BY <1>5 DEF AdmitRolledBack, TypeOK, policyVars, budgetVars, ledgerVars, destVars
<1>6. ASSUME NEW c \in Calls, AuditDeny(c) PROVE TypeOK'
  BY <1>6 DEF AuditDeny, TypeOK, policyVars, budgetVars, ledgerVars, destVars
<1>7. ASSUME NEW c \in Calls, AdmissionFails(c) PROVE TypeOK'
  BY <1>7 DEF AdmissionFails, TypeOK, policyVars, budgetVars, ledgerVars, destVars
<1>8. ASSUME NEW c \in Calls, AbortAdmission(c) PROVE TypeOK'
  <2>1. reserved' \in [Agents -> SUBSET Calls] /\ op' \in [Ops -> {"absent", "unknown"} \cup Settled]
    BY <1>8, Zenon DEF AbortAdmission, TypeOK
  <2>. QED
    BY <1>8, <2>1 DEF AbortAdmission, TypeOK, policyVars, destVars
<1>9. ASSUME NEW c \in Calls, AbortFails(c) PROVE TypeOK'
  BY <1>9 DEF AbortFails, TypeOK, policyVars, budgetVars, ledgerVars, destVars
<1>10. ASSUME NEW c \in Calls, Invoke(c) PROVE TypeOK'
  BY <1>10 DEF Invoke, TypeOK, policyVars, budgetVars, ledgerVars, destVars
<1>11. ASSUME NEW c \in Calls, InvokeReturns(c) PROVE TypeOK'
  BY <1>11 DEF InvokeReturns, TypeOK, policyVars, budgetVars, ledgerVars, destVars
<1>12. ASSUME NEW c \in Calls, InvokeRaises(c) PROVE TypeOK'
  BY <1>12 DEF InvokeRaises, TypeOK, policyVars, budgetVars, ledgerVars, destVars
<1>13. ASSUME NEW c \in Calls, Settle(c) PROVE TypeOK'
  <2>1. SettleOwned(OpOf[c], c, "succeeded")
    BY <1>13 DEF Settle
  <2>. QED
    BY SMTT(60), <1>13, <2>1, SettleType DEF Settle, TypeOK, policyVars, destVars
<1>14. ASSUME NEW c \in Calls, SettleFails(c) PROVE TypeOK'
  BY <1>14 DEF SettleFails, TypeOK, policyVars, budgetVars, ledgerVars, destVars
<1>15. ASSUME NEW c \in Calls, InvocationFailed(c) PROVE TypeOK'
  BY <1>15 DEF InvocationFailed, TypeOK, policyVars, budgetVars, ledgerVars, destVars
<1>16. ASSUME NEW c \in Calls, Cancel(c) PROVE TypeOK'
  BY <1>16 DEF Cancel, TypeOK, policyVars, budgetVars, ledgerVars, destVars
<1>17. ASSUME NEW c \in Calls, Crash(c) PROVE TypeOK'
  BY <1>17 DEF Crash, TypeOK, policyVars, budgetVars, ledgerVars, destVars
<1>18. ASSUME NEW c \in Calls, DestinationApplies(c) PROVE TypeOK'
  BY <1>18, Zenon DEF DestinationApplies, TypeOK, policyVars, budgetVars, ledgerVars, destVars
<1>19. ASSUME NEW o \in Ops, DestinationRefuses(o) PROVE TypeOK'
  BY <1>19 DEF DestinationRefuses, TypeOK, policyVars, budgetVars, ledgerVars, destVars
<1>20. ASSUME NEW o \in Ops, NEW result \in Settled, Reconcile(o, result) PROVE TypeOK'
  <2>1. resv[o] \in Calls
    BY <1>20 DEF Reconcile, SettleOwned, Owned, TypeOK
  <2>2. SettleOwned(o, resv[o], result)
    BY <1>20 DEF Reconcile
  <2>3. reconciled' \in [Ops -> {"none"} \cup Settled]
    BY <1>20 DEF Reconcile, TypeOK
  <2>4. audit' \subseteq ({"deny", "error", "unknown", "allow"} \X Calls) \cup (Settled \X Ops)
    BY <1>20 DEF Reconcile, TypeOK
  <2>5. UNCHANGED <<pc, cancelled, needs, active, sensitive, blocked, approval, sent, dest>>
    BY <1>20 DEF Reconcile, policyVars, destVars
  <2>6. /\ reserved' \in [Agents -> SUBSET Calls] /\ recent' \in [Agents -> SUBSET Calls]
        /\ spent' \in [Agents -> Nat] /\ op' \in [Ops -> {"absent", "unknown"} \cup Settled]
        /\ limit' = limit /\ rate' = rate /\ resv' = resv
    BY SMTT(60), <2>1, <2>2, SettleType
  <2>. QED
    BY <2>3, <2>4, <2>5, <2>6 DEF TypeOK
<1>21. ASSUME NEW c \in Calls, NEW status \in {"approved", "denied"}, Approve(c, status) PROVE TypeOK'
  BY <1>21 DEF Approve, TypeOK, policyVars, budgetVars, ledgerVars, destVars
<1>22. ASSUME NEW a \in Agents, NEW l \in Limits, NEW r \in Rates, SetBudget(a, l, r) PROVE TypeOK'
  BY <1>22 DEF SetBudget, TypeOK, policyVars, budgetVars, ledgerVars, destVars
<1>23. ASSUME NEW k \in Caps, MarkSensitive(k) PROVE TypeOK'
  BY <1>23 DEF MarkSensitive, ExclusiveAuthority, TypeOK, policyVars, budgetVars, ledgerVars, destVars
<1>24. ASSUME NEW k \in Caps, AddPolicy(k) PROVE TypeOK'
  BY <1>24 DEF AddPolicy, ExclusiveAuthority, TypeOK, policyVars, budgetVars, ledgerVars, destVars
<1>25. ASSUME NEW a \in Agents, RevokeAgent(a) PROVE TypeOK'
  BY <1>25 DEF RevokeAgent, ExclusiveAuthority, TypeOK, policyVars, budgetVars, ledgerVars, destVars
<1>26. ASSUME NEW a \in Agents, EnrollAgent(a) PROVE TypeOK'
  BY <1>26 DEF EnrollAgent, ExclusiveAuthority, TypeOK, policyVars, budgetVars, ledgerVars, destVars
<1>27. CASE UNCHANGED vars
  BY <1>27 DEF vars, TypeOK, policyVars, budgetVars, ledgerVars, destVars
<1>28. ASSUME NEW c \in Calls, Worker(c) PROVE TypeOK'
  BY <1>1, <1>2, <1>3, <1>4, <1>5, <1>6, <1>7, <1>8, <1>9, <1>10, <1>11, <1>12, <1>13,
     <1>14, <1>15, <1>28 DEF Worker
<1>29. ASSUME Environment PROVE TypeOK'
  BY <1>16, <1>17, <1>18, <1>19, <1>29 DEF Environment
<1>30. ASSUME Operator PROVE TypeOK'
  BY <1>20, <1>21, <1>22, <1>23, <1>24, <1>25, <1>26, <1>30 DEF Operator
<1>. QED
  BY <1>27, <1>28, <1>29, <1>30 DEF Next

-----------------------------------------------------------------------------
(* Every step keeps the outcomes in line with the destination.             *)
LEMMA StructStep == TypeOK /\ StructInv /\ [Next]_vars => StructInv'
<1>. SUFFICES ASSUME TypeOK, StructInv, [Next]_vars PROVE StructInv'
  OBVIOUS
<1>. USE CallsAssumption DEF TypeOK, StructInv, WorkerInv, LedgerInv, DestInv
<1>1. ASSUME NEW c \in Calls, BeginAdmission(c) PROVE StructInv'
  <2>1. WorkerInv'
    BY SMTT(60), <1>1 DEF BeginAdmission, policyVars, budgetVars, ledgerVars, destVars
  <2>2. LedgerInv'
    BY SMTT(60), <1>1 DEF BeginAdmission, policyVars, budgetVars, ledgerVars, destVars
  <2>3. DestInv'
    BY SMTT(60), <1>1 DEF BeginAdmission, policyVars, budgetVars, ledgerVars, destVars
  <2>. QED
    BY <2>1, <2>2, <2>3
<1>2. ASSUME NEW c \in Calls, AuthorizePolicy(c) PROVE StructInv'
  BY SMTT(60), <1>2 DEF AuthorizePolicy, policyVars, budgetVars, ledgerVars, destVars
<1>3. ASSUME NEW c \in Calls, AuthorizeBudget(c) PROVE StructInv'
  BY SMTT(60), <1>3 DEF AuthorizeBudget, policyVars, budgetVars, ledgerVars, destVars
<1>4. ASSUME NEW c \in Calls, AdmitTransaction(c) PROVE StructInv'
  BY SMTT(60), <1>4 DEF AdmitTransaction, Consume, policyVars, budgetVars, ledgerVars, destVars
<1>5. ASSUME NEW c \in Calls, AdmitRolledBack(c) PROVE StructInv'
  BY SMTT(60), <1>5 DEF AdmitRolledBack, policyVars, budgetVars, ledgerVars, destVars
<1>6. ASSUME NEW c \in Calls, AuditDeny(c) PROVE StructInv'
  BY SMTT(60), <1>6 DEF AuditDeny, policyVars, budgetVars, ledgerVars, destVars
<1>7. ASSUME NEW c \in Calls, AdmissionFails(c) PROVE StructInv'
  BY SMTT(60), <1>7 DEF AdmissionFails, policyVars, budgetVars, ledgerVars, destVars
<1>8. ASSUME NEW c \in Calls, AbortAdmission(c) PROVE StructInv'
  BY SMTT(60), <1>8 DEF AbortAdmission, policyVars, budgetVars, ledgerVars, destVars
<1>9. ASSUME NEW c \in Calls, AbortFails(c) PROVE StructInv'
  BY SMTT(60), <1>9 DEF AbortFails, policyVars, budgetVars, ledgerVars, destVars
<1>10. ASSUME NEW c \in Calls, Invoke(c) PROVE StructInv'
  BY SMTT(60), <1>10 DEF Invoke, policyVars, budgetVars, ledgerVars, destVars
<1>11. ASSUME NEW c \in Calls, InvokeReturns(c) PROVE StructInv'
  BY SMTT(60), <1>11 DEF InvokeReturns, policyVars, budgetVars, ledgerVars, destVars
<1>12. ASSUME NEW c \in Calls, InvokeRaises(c) PROVE StructInv'
  BY SMTT(60), <1>12 DEF InvokeRaises, policyVars, budgetVars, ledgerVars, destVars
<1>13. ASSUME NEW c \in Calls, Settle(c) PROVE StructInv'
  BY SMTT(60), <1>13 DEF Settle, SettleOwned, Owned, policyVars, budgetVars, ledgerVars, destVars
<1>14. ASSUME NEW c \in Calls, SettleFails(c) PROVE StructInv'
  BY SMTT(60), <1>14 DEF SettleFails, policyVars, budgetVars, ledgerVars, destVars
<1>15. ASSUME NEW c \in Calls, InvocationFailed(c) PROVE StructInv'
  BY SMTT(60), <1>15 DEF InvocationFailed, policyVars, budgetVars, ledgerVars, destVars
<1>16. ASSUME NEW c \in Calls, Cancel(c) PROVE StructInv'
  BY SMTT(60), <1>16 DEF Cancel, policyVars, budgetVars, ledgerVars, destVars
<1>17. ASSUME NEW c \in Calls, Crash(c) PROVE StructInv'
  BY SMTT(60), <1>17 DEF Crash, policyVars, budgetVars, ledgerVars, destVars
<1>18. ASSUME NEW c \in Calls, DestinationApplies(c) PROVE StructInv'
  BY SMTT(60), <1>18 DEF DestinationApplies, policyVars, budgetVars, ledgerVars, destVars
<1>19. ASSUME NEW o \in Ops, DestinationRefuses(o) PROVE StructInv'
  BY SMTT(60), <1>19 DEF DestinationRefuses, policyVars, budgetVars, ledgerVars, destVars
<1>20. ASSUME NEW o \in Ops, NEW result \in Settled, Reconcile(o, result) PROVE StructInv'
  BY SMTT(60), <1>20 DEF Reconcile, Evidence, SettleOwned, Owned, policyVars, budgetVars, ledgerVars, destVars
<1>21. ASSUME NEW c \in Calls, NEW status \in {"approved", "denied"}, Approve(c, status) PROVE StructInv'
  BY SMTT(60), <1>21 DEF Approve, policyVars, budgetVars, ledgerVars, destVars
<1>22. ASSUME NEW a \in Agents, NEW l \in Limits, NEW r \in Rates, SetBudget(a, l, r) PROVE StructInv'
  BY SMTT(60), <1>22 DEF SetBudget, policyVars, budgetVars, ledgerVars, destVars
<1>23. ASSUME NEW k \in Caps, MarkSensitive(k) PROVE StructInv'
  BY SMTT(60), <1>23 DEF MarkSensitive, ExclusiveAuthority, policyVars, budgetVars, ledgerVars, destVars
<1>24. ASSUME NEW k \in Caps, AddPolicy(k) PROVE StructInv'
  BY SMTT(60), <1>24 DEF AddPolicy, ExclusiveAuthority, policyVars, budgetVars, ledgerVars, destVars
<1>25. ASSUME NEW a \in Agents, RevokeAgent(a) PROVE StructInv'
  BY SMTT(60), <1>25 DEF RevokeAgent, ExclusiveAuthority, policyVars, budgetVars, ledgerVars, destVars
<1>26. ASSUME NEW a \in Agents, EnrollAgent(a) PROVE StructInv'
  BY SMTT(60), <1>26 DEF EnrollAgent, ExclusiveAuthority, policyVars, budgetVars, ledgerVars, destVars
<1>27. CASE UNCHANGED vars
  BY SMTT(60), <1>27 DEF vars, policyVars, budgetVars, ledgerVars, destVars
<1>. HIDE DEF TypeOK, StructInv, WorkerInv, LedgerInv, DestInv
<1>28. ASSUME NEW c \in Calls, Worker(c) PROVE StructInv'
  BY <1>1, <1>2, <1>3, <1>4, <1>5, <1>6, <1>7, <1>8, <1>9, <1>10, <1>11, <1>12, <1>13,
     <1>14, <1>15, <1>28 DEF Worker
<1>29. ASSUME Environment PROVE StructInv'
  BY <1>16, <1>17, <1>18, <1>19, <1>29 DEF Environment
<1>30. ASSUME Operator PROVE StructInv'
  BY <1>20, <1>21, <1>22, <1>23, <1>24, <1>25, <1>26, <1>30 DEF Operator
<1>. QED
  BY <1>27, <1>28, <1>29, <1>30 DEF Next

-----------------------------------------------------------------------------
(* The inductive invariant.                                                *)
IInv ==
    /\ TypeOK
    /\ WorkerInv
    /\ LedgerInv
    /\ DestInv
    /\ HoldsMatchLedger
    /\ BudgetConserved
    /\ GrantsSpentOnce
    /\ AuditTellsOutcome

-----------------------------------------------------------------------------
(* Reservations and money.                                                 *)

(* The steps that touch the ledger or the budget; every other step leaves  *)
(* both alone.                                                             *)
LEMMA LedgerChanges ==
    ASSUME [Next]_vars
    PROVE  \/ \E c \in Calls : AdmitTransaction(c) \/ AbortAdmission(c) \/ Settle(c)
           \/ \E o \in Ops, result \in Settled : Reconcile(o, result)
           \/ \E a \in Agents, l \in Limits, r \in Rates : SetBudget(a, l, r)
           \/ UNCHANGED <<op, resv, reserved, spent, limit, reconciled>>
<1>. DEFINE Frame == UNCHANGED <<op, resv, reserved, spent, limit, reconciled>>
<1>. USE DEF policyVars, budgetVars, ledgerVars, destVars
<1>1. ASSUME NEW c \in Calls, Worker(c),
             ~AdmitTransaction(c), ~AbortAdmission(c), ~Settle(c)
      PROVE  Frame
  BY <1>1 DEF Worker, BeginAdmission, AuthorizePolicy, AuthorizeBudget, AdmitRolledBack,
     AuditDeny, AdmissionFails, AbortFails, Invoke, InvokeReturns, InvokeRaises,
     SettleFails, InvocationFailed
<1>2. ASSUME Environment PROVE Frame
  BY <1>2 DEF Environment, Cancel, Crash, DestinationApplies, DestinationRefuses
<1>3. ASSUME NEW c \in Calls, NEW status, Approve(c, status) PROVE Frame
  BY <1>3 DEF Approve
<1>4. ASSUME NEW k \in Caps, MarkSensitive(k) \/ AddPolicy(k) PROVE Frame
  BY <1>4 DEF MarkSensitive, AddPolicy
<1>5. ASSUME NEW a \in Agents, RevokeAgent(a) \/ EnrollAgent(a) PROVE Frame
  BY <1>5 DEF RevokeAgent, EnrollAgent
<1>6. ASSUME UNCHANGED vars PROVE Frame
  BY <1>6 DEF vars
<1>. HIDE DEF Frame
<1>7. \/ \E c \in Calls : AdmitTransaction(c) \/ AbortAdmission(c) \/ Settle(c)
      \/ \E o \in Ops, result \in Settled : Reconcile(o, result)
      \/ \E a \in Agents, l \in Limits, r \in Rates : SetBudget(a, l, r)
      \/ Frame
  BY <1>1, <1>2, <1>3, <1>4, <1>5, <1>6 DEF Next, Operator
<1>. QED
  BY <1>7 DEF Frame

(* A canceled admission still owns its token, so that _abort_admission,    *)
(* which does not check it, settles it like every other participant.       *)
LEMMA AbortOwned ==
    ASSUME NEW c \in Calls, WorkerInv, HoldsMatchLedger, AbortAdmission(c)
    PROVE  OpOf[c] \in Ops /\ SettleOwned(OpOf[c], c, "failed")
<1>1. OpOf[c] \in Ops /\ resv[OpOf[c]] = c /\ op[OpOf[c]] = "unknown"
  BY DEF AbortAdmission, WorkerInv
<1>2. c \in reserved[AgentOf[c]]
  BY <1>1, CallsAssumption DEF HoldsMatchLedger
<1>3. c # NoCall
  BY CallsAssumption
<1>. QED
  BY <1>1, <1>2, <1>3 DEF AbortAdmission, SettleOwned, Owned

(* Settling an owned token empties its hold.                               *)
LEMMA SettleHolds ==
    ASSUME NEW o \in Ops, NEW t \in Calls, NEW outcome \in Settled, OpOf[t] = o,
           TypeOK, LedgerInv, HoldsMatchLedger, SettleOwned(o, t, outcome)
    PROVE  HoldsMatchLedger'
<1>1. /\ op[o] = "unknown" /\ resv[o] = t /\ resv' = resv
      /\ op' = [op EXCEPT ![o] = outcome]
      /\ reserved' = [reserved EXCEPT ![AgentOf[t]] = @ \ {t}]
  BY DEF SettleOwned, Owned
<1>2. ASSUME NEW a \in Agents
      PROVE  reserved'[a] = {c \in Calls : /\ AgentOf[c] = a /\ OpOf[c] # NoOp
                               /\ op'[OpOf[c]] = "unknown" /\ resv'[OpOf[c]] = c}
  BY <1>1, CallsAssumption DEF HoldsMatchLedger, TypeOK
<1>3. ASSUME NEW p \in Ops, op'[p] = "unknown"
      PROVE  resv'[p] \in Calls /\ OpOf[resv'[p]] = p
  BY <1>1, <1>3 DEF HoldsMatchLedger, TypeOK
<1>. QED
  BY <1>2, <1>3 DEF HoldsMatchLedger

(* Every step keeps reservations and unknown operations matched.           *)
LEMMA HoldsStep ==
    TypeOK /\ WorkerInv /\ LedgerInv /\ HoldsMatchLedger /\ [Next]_vars => HoldsMatchLedger'
<1>. SUFFICES ASSUME TypeOK, WorkerInv, LedgerInv, HoldsMatchLedger, [Next]_vars
              PROVE  HoldsMatchLedger'
  OBVIOUS
<1>1. ASSUME NEW c \in Calls, AdmitTransaction(c) PROVE HoldsMatchLedger'
  <2>1. /\ OpOf[c] \in Ops /\ op[OpOf[c]] = "absent"
        /\ op' = [op EXCEPT ![OpOf[c]] = "unknown"]
        /\ resv' = [resv EXCEPT ![OpOf[c]] = c]
        /\ reserved' = [reserved EXCEPT ![AgentOf[c]] = @ \cup {c}]
    BY <1>1 DEF AdmitTransaction, WorkerInv
  <2>2. ASSUME NEW a \in Agents
        PROVE  reserved'[a] = {d \in Calls : /\ AgentOf[d] = a /\ OpOf[d] # NoOp
                                 /\ op'[OpOf[d]] = "unknown" /\ resv'[OpOf[d]] = d}
    BY <2>1, CallsAssumption DEF HoldsMatchLedger, TypeOK, LedgerInv
  <2>3. ASSUME NEW o \in Ops, op'[o] = "unknown"
        PROVE  resv'[o] \in Calls /\ OpOf[resv'[o]] = o
    BY <2>1, <2>3 DEF HoldsMatchLedger, TypeOK
  <2>. QED
    BY <2>2, <2>3 DEF HoldsMatchLedger
<1>2. ASSUME NEW c \in Calls, AbortAdmission(c) PROVE HoldsMatchLedger'
  BY <1>2, AbortOwned, SettleHolds
<1>3. ASSUME NEW c \in Calls, Settle(c) PROVE HoldsMatchLedger'
  BY <1>3, SettleHolds DEF Settle, WorkerInv
<1>4. ASSUME NEW o \in Ops, NEW result \in Settled, Reconcile(o, result) PROVE HoldsMatchLedger'
  BY <1>4, SettleHolds DEF Reconcile, HoldsMatchLedger
<1>5. ASSUME NEW a \in Agents, NEW l \in Limits, NEW r \in Rates, SetBudget(a, l, r)
      PROVE  HoldsMatchLedger'
  BY <1>5 DEF SetBudget, HoldsMatchLedger, ledgerVars
<1>6. CASE UNCHANGED <<op, resv, reserved, spent, limit, reconciled>>
  BY <1>6 DEF HoldsMatchLedger
<1>. QED
  BY <1>1, <1>2, <1>3, <1>4, <1>5, <1>6, LedgerChanges

(* Removing a call from a set removes its cost from the sum.               *)
LEMMA CostSumRemove ==
    ASSUME NEW S \in SUBSET Calls, NEW c \in S
    PROVE  CostSum[S] = CostSum[S \ {c}] + CostOf[c]
<1>1. S \ {c} \in SUBSET Calls /\ c \in Calls \ (S \ {c}) /\ (S \ {c}) \cup {c} = S
  OBVIOUS
<1>. QED
  BY <1>1, CostSumAssumption

(* Settling an owned token moves its cost from held to spent, or frees it. *)
LEMMA SettleBudget ==
    ASSUME NEW o \in Ops, NEW t \in Calls, NEW outcome \in Settled, OpOf[t] = o,
           TypeOK, HoldsMatchLedger, BudgetConserved, SettleOwned(o, t, outcome)
    PROVE  BudgetConserved'
<1>. DEFINE b == AgentOf[t]
<1>1. /\ op[o] = "unknown" /\ resv[o] = t /\ resv' = resv /\ limit' = limit
      /\ op' = [op EXCEPT ![o] = outcome] /\ t \in reserved[b]
      /\ reserved' = [reserved EXCEPT ![b] = @ \ {t}]
  BY DEF SettleOwned, Owned
<1>2. b \in Agents /\ o # NoOp /\ CostOf[t] \in Nat /\ reserved[b] \in SUBSET Calls
  BY CallsAssumption DEF TypeOK
<1>3. CostSum[reserved[b]] = CostSum[reserved[b] \ {t}] + CostOf[t]
  BY <1>1, <1>2, CostSumRemove
<1>4. /\ CostSum[reserved[b] \ {t}] \in Nat /\ spent \in [Agents -> Nat]
      /\ \A a \in Agents : CostSum[Committed(a)] \in Nat /\ Committed(a) \in SUBSET Calls
      /\ limit \in [Agents -> Nat]
  BY <1>2, CostSumAssumption DEF TypeOK, Committed
<1>5. ASSUME NEW a \in Agents, a # b
      PROVE  spent'[a] = CostSum[Committed(a)'] /\ Exposure(a)' <= limit'[a]
  <2>1. spent'[a] = spent[a] /\ reserved'[a] = reserved[a]
    BY <1>1, <1>2, <1>5 DEF SettleOwned, TypeOK
  <2>2. Committed(a)' = Committed(a)
    BY <1>1, <1>2, <1>5 DEF Committed, TypeOK
  <2>. QED
    BY <2>1, <2>2, <1>1 DEF BudgetConserved, Exposure
<1>6. CASE outcome = "succeeded"
  <2>1. spent' = [spent EXCEPT ![b] = @ + CostOf[t]]
    BY <1>6 DEF SettleOwned
  <2>2. Committed(b)' = Committed(b) \cup {t} /\ t \in Calls \ Committed(b)
    BY <1>1, <1>2, <1>6 DEF Committed, TypeOK
  <2>3. CostSum[Committed(b)'] = CostSum[Committed(b)] + CostOf[t]
    BY <2>2, <1>2, <1>4, CostSumAssumption
  <2>4. spent'[b] = spent[b] + CostOf[t] /\ reserved'[b] = reserved[b] \ {t}
    BY <2>1, <1>1, <1>2, <1>4 DEF TypeOK
  <2>5. spent'[b] = CostSum[Committed(b)'] /\ Exposure(b)' <= limit'[b]
    BY SMTT(60), <2>3, <2>4, <1>1, <1>2, <1>3, <1>4 DEF BudgetConserved, Exposure
  <2>. QED
    BY <2>5, <1>5 DEF BudgetConserved
<1>7. CASE outcome = "failed"
  <2>1. spent' = spent /\ reserved'[b] = reserved[b] \ {t}
    BY <1>1, <1>2, <1>7 DEF SettleOwned, TypeOK
  <2>2. Committed(b)' = Committed(b)
    BY <1>1, <1>2, <1>7 DEF Committed, TypeOK
  <2>3. spent'[b] = CostSum[Committed(b)'] /\ Exposure(b)' <= limit'[b]
    BY SMTT(60), <2>1, <2>2, <1>1, <1>2, <1>3, <1>4 DEF BudgetConserved, Exposure
  <2>. QED
    BY <2>3, <1>5 DEF BudgetConserved
<1>. QED
  BY <1>6, <1>7

(* Every step conserves money and respects the spend limit.                *)
LEMMA BudgetStep ==
    TypeOK /\ WorkerInv /\ LedgerInv /\ HoldsMatchLedger /\ BudgetConserved /\ [Next]_vars
        => BudgetConserved'
<1>. SUFFICES ASSUME TypeOK, WorkerInv, LedgerInv, HoldsMatchLedger, BudgetConserved, [Next]_vars
              PROVE  BudgetConserved'
  OBVIOUS
<1>1. ASSUME NEW c \in Calls, AdmitTransaction(c) PROVE BudgetConserved'
  <2>. DEFINE b == AgentOf[c]
  <2>1. /\ OpOf[c] \in Ops /\ op[OpOf[c]] = "absent"
        /\ op' = [op EXCEPT ![OpOf[c]] = "unknown"]
        /\ resv' = [resv EXCEPT ![OpOf[c]] = c]
        /\ reserved' = [reserved EXCEPT ![b] = @ \cup {c}]
        /\ limit' = limit /\ spent' = spent
        /\ Exposure(b) + CostOf[c] <= limit[b]
    BY <1>1 DEF AdmitTransaction, Affordable, WorkerInv
  <2>2. b \in Agents /\ CostOf[c] \in Nat /\ reserved[b] \in SUBSET Calls /\ c \notin reserved[b]
    BY SMTT(60), <2>1, CallsAssumption DEF TypeOK, HoldsMatchLedger
  <2>3. CostSum[reserved[b] \cup {c}] = CostSum[reserved[b]] + CostOf[c]
    BY <2>2, CostSumAssumption
  <2>4. ASSUME NEW a \in Agents PROVE Committed(a)' = Committed(a)
    BY SMTT(60), <2>1 DEF Committed, TypeOK
  <2>5. ASSUME NEW a \in Agents, a # b PROVE Exposure(a)' <= limit'[a]
    BY <2>1, <2>5 DEF BudgetConserved, Exposure, TypeOK
  <2>6. Exposure(b)' <= limit'[b]
    <3>1. reserved'[b] = reserved[b] \cup {c}
      BY <2>1, <2>2 DEF TypeOK
    <3>2. CostSum[reserved[b]] \in Nat /\ spent[b] \in Nat /\ limit[b] \in Nat
      BY <2>2, CostSumAssumption DEF TypeOK
    <3>3. Exposure(b)' = spent[b] + (CostSum[reserved[b]] + CostOf[c])
      BY <2>1, <2>3, <3>1, Zenon DEF Exposure
    <3>4. (spent[b] + CostSum[reserved[b]]) + CostOf[c] <= limit[b]
      BY <2>1 DEF Exposure
    <3>. HIDE DEF b
    <3>. QED
      BY SMTT(60), <2>1, <2>2, <3>2, <3>3, <3>4
  <2>. QED
    BY <2>1, <2>4, <2>5, <2>6 DEF BudgetConserved
<1>2. ASSUME NEW c \in Calls, AbortAdmission(c) PROVE BudgetConserved'
  BY <1>2, AbortOwned, SettleBudget
<1>3. ASSUME NEW c \in Calls, Settle(c) PROVE BudgetConserved'
  BY <1>3, SettleBudget DEF Settle, WorkerInv
<1>4. ASSUME NEW o \in Ops, NEW result \in Settled, Reconcile(o, result) PROVE BudgetConserved'
  BY <1>4, SettleBudget DEF Reconcile, HoldsMatchLedger
<1>5. ASSUME NEW a \in Agents, NEW l \in Limits, NEW r \in Rates, SetBudget(a, l, r)
      PROVE  BudgetConserved'
  <2>1. /\ l >= Exposure(a) /\ limit' = [limit EXCEPT ![a] = l]
        /\ UNCHANGED <<op, resv, reserved, spent>>
    BY <1>5 DEF SetBudget, ledgerVars
  <2>2. ASSUME NEW b \in Agents PROVE Exposure(b)' = Exposure(b) /\ Committed(b)' = Committed(b)
    BY <2>1 DEF Exposure, Committed
  <2>3. \A b \in Agents : Exposure(b) \in Nat
    BY CostSumAssumption DEF Exposure, TypeOK
  <2>4. l \in Nat
    BY CallsAssumption
  <2>. QED
    BY <2>1, <2>2, <2>3, <2>4 DEF BudgetConserved, TypeOK
<1>6. CASE UNCHANGED <<op, resv, reserved, spent, limit, reconciled>>
  BY <1>6 DEF BudgetConserved, Exposure, Committed
<1>. QED
  BY <1>1, <1>2, <1>3, <1>4, <1>5, <1>6, LedgerChanges

=============================================================================
