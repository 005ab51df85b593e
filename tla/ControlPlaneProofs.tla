------------------------- MODULE ControlPlaneProofs -------------------------
(***************************************************************************)
(* The legacy control plane keeps its charges and its authorizations,      *)
(* over every store, for any calls, costs, limits and operators.           *)
(***************************************************************************)
EXTENDS ControlPlane, FiniteSetTheorems, TLAPS

-----------------------------------------------------------------------------
(* Where a call's token may still be in the budget row, and where it must  *)
(* be.                                                                     *)
Held == {"reserved", "admitted", "aborting", "returned", "raised", "crashed"}
Charged == {"reserved", "admitted", "aborting", "returned"}
Done == {c \in Calls : pc[c] = "done"}

(* A row within its limits, whose tokens belong to calls under way.        *)
GoodRow(b) ==
    /\ b \in Rows /\ Within(b)
    /\ \A c \in b.reserved \ Durable : pc[c] \in Held

(* A row that accounts for every call.                                     *)
Accounts(b) ==
    /\ \A c \in Calls : pc[c] \in Charged => c \in b.reserved
    /\ b.spent = CostSum[Done]

(* The budget, and the row a PostgreSQL mutation has read and not written: *)
(* at most one call has one, and it is current unless an operator replaced *)
(* the budget.                                                             *)
BudgetInv ==
    /\ site \in Sites /\ pc = [d \in Calls |-> pc[d]]
    /\ seen = [c \in Calls |-> seen[c]]
    /\ budget # None => GoodRow(budget)
    /\ \A c \in Calls : seen[c] # None => GoodRow(seen[c]) /\ ~Atomic
    /\ \A c, d \in Calls : seen[c] # None /\ seen[d] # None => c = d
    /\ acked = None => \A c \in Calls : seen[c] # None => seen[c] = Seed(budget)
    /\ acked = None => Accounts(Seed(budget))
    /\ Atomic => AckedLimitStands

(* Calls that had an effect, or are about to, under a grant; and the       *)
(* grants consumed.                                                        *)
Spending(c) ==
    {d \in needs : (d \in effects \/ pc[d] = "admitted") /\ ScopeOf[d] = ScopeOf[c]}
Consumed(c) == {d \in Calls : ScopeOf[d] = ScopeOf[c] /\ approval[d] = "consumed"}

Told(c) == \E d \in {"allow", "unknown", "error"} : <<c, d>> \in audit

(* A call that had an effect is past its invocation, and has been told of  *)
(* once it is over; a call without a decision has no approval row.         *)
FlowInv ==
    /\ site \in Sites /\ pc = [d \in Calls |-> pc[d]]
    /\ needs \subseteq Calls /\ effects \subseteq Calls /\ late \subseteq Calls
    /\ approval = [c \in Calls |-> approval[c]]
    /\ \A c \in Calls : pc[c] = "reserved" => site.backend = "memory"
    /\ \A c \in effects : \/ pc[c] \in {"returned", "raised", "erring", "crashed"}
                          \/ pc[c] \in {"done", "failed", "unknown"} /\ Told(c)
    /\ \A c \in late : pc[c] = "refused"
    /\ \A c \in Calls : pc[c] \in {"idle", "authed", "checked"} => approval[c] = "none"
    /\ \A c \in Calls : Cardinality(Spending(c)) <= Cardinality(Consumed(c))

-----------------------------------------------------------------------------
(* Sums and counts of tokens.                                              *)

(* Sets of calls are finite and cost a natural number.                     *)
LEMMA TokensCounted ==
    ASSUME NEW S \in SUBSET Calls
    PROVE  IsFiniteSet(S) /\ Cardinality(S) \in Nat /\ CostSum[S] \in Nat
<1>1. IsFiniteSet(S)
  BY BudgetAssumption, FS_Subset
<1>2. Cardinality(S) \in Nat
  BY <1>1, FS_CardinalityType
<1> QED
  BY <1>1, <1>2, CostSumAssumption

(* One more token.                                                         *)
LEMMA TokenAdded ==
    ASSUME NEW S \in SUBSET Calls, NEW c \in Calls, c \notin S
    PROVE  /\ Cardinality(S \cup {c}) = Cardinality(S) + 1
           /\ CostSum[S \cup {c}] = CostSum[S] + CostOf[c]
<1>1. Cardinality(S \cup {c}) = Cardinality(S) + 1
  BY TokensCounted, FS_AddElement
<1>2. CostSum[S \cup {c}] = CostSum[S] + CostOf[c]
  BY CostSumAssumption
<1> QED
  BY <1>1, <1>2

(* One token less.                                                         *)
LEMMA TokenTaken ==
    ASSUME NEW S \in SUBSET Calls, NEW c \in S
    PROVE  /\ Cardinality(S) = Cardinality(S \ {c}) + 1
           /\ CostSum[S] = CostSum[S \ {c}] + CostOf[c]
<1> DEFINE T == S \ {c}
<1>1. T \in SUBSET Calls /\ c \in Calls /\ c \notin T /\ T \cup {c} = S
  OBVIOUS
<1> HIDE DEF T
<1>2. Cardinality(S) = Cardinality(T) + 1 /\ CostSum[S] = CostSum[T] + CostOf[c]
  BY <1>1, TokenAdded
<1> QED
  BY <1>2 DEF T

(* A call put into, or taken out of, a set it may or may not be in.        *)
LEMMA TokenMoves ==
    ASSUME NEW S \in SUBSET Calls, NEW c \in Calls
    PROVE  /\ CostSum[S \cup {c}] \in {CostSum[S], CostSum[S] + CostOf[c]}
           /\ Cardinality(S \cup {c}) \in {Cardinality(S), Cardinality(S) + 1}
           /\ CostSum[S \ {c}] <= CostSum[S] /\ Cardinality(S \ {c}) <= Cardinality(S)
           /\ CostSum[S \ {c}] \in Nat /\ Cardinality(S \ {c}) \in Nat
           /\ CostSum[S] \in Nat /\ Cardinality(S) \in Nat /\ CostOf[c] \in Nat
<1>1. CostSum[S] \in Nat /\ Cardinality(S) \in Nat /\ CostOf[c] \in Nat
  BY TokensCounted, BudgetAssumption
<1>2. S \ {c} \in SUBSET Calls
  OBVIOUS
<1>3. CostSum[S \ {c}] \in Nat /\ Cardinality(S \ {c}) \in Nat
  BY <1>2, TokensCounted
<1>4. CASE c \in S
  <2>1. S \cup {c} = S
    BY <1>4
  <2>2. /\ Cardinality(S) = Cardinality(S \ {c}) + 1
        /\ CostSum[S] = CostSum[S \ {c}] + CostOf[c]
    BY <1>4, TokenTaken
  <2> QED
    BY <1>1, <1>3, <2>1, <2>2
<1>5. CASE c \notin S
  <2>1. S \ {c} = S
    BY <1>5
  <2>2. /\ Cardinality(S \cup {c}) = Cardinality(S) + 1
        /\ CostSum[S \cup {c}] = CostSum[S] + CostOf[c]
    BY <1>5, TokenAdded
  <2>3. CostSum[S \ {c}] = CostSum[S] /\ Cardinality(S \ {c}) = Cardinality(S)
    BY <2>1, Zenon
  <2> QED
    BY <1>1, <2>2, <2>3
<1> QED
  BY <1>4, <1>5

(* The fields of a row.                                                    *)
LEMMA RowFields ==
    ASSUME NEW b \in Rows
    PROVE  /\ b.limit \in Int /\ b.spent \in Nat /\ b.recent \in SUBSET Calls
           /\ b.reserved \in SUBSET Calls /\ b.limit \in Limits \cup {DefaultLimit}
           /\ b # None
  BY BudgetAssumption, Zenon DEF Rows

(* Fresh rows admit nothing yet.                                           *)
LEMMA FreshGood ==
    ASSUME NEW l \in Limits \cup {DefaultLimit}
    PROVE  /\ Fresh(l) \in Rows /\ Within(Fresh(l)) /\ Fresh(l).reserved = {}
           /\ Fresh(l).spent = 0 /\ Fresh(l).limit = l /\ Fresh(l) # None
<1> DEFINE b == Fresh(l)
<1>1. b \in Rows
  BY DEF Fresh, Rows
<1>2. b.spent = 0 /\ b.recent = {} /\ b.reserved = {} /\ b.limit = l
  BY DEF Fresh
<1>3. CostSum[{}] = 0 /\ Cardinality({}) = 0
  BY CostSumAssumption, FS_EmptySet
<1> HIDE DEF b
<1>4. Within(b)
  BY <1>2, <1>3 DEF Within
<1>5. b # None
  BY <1>1, RowFields
<1> QED
  BY <1>1, <1>2, <1>4, <1>5 DEF b

(* BudgetManager.reserve keeps a row within its limits.                    *)
LEMMA ReserveWithin ==
    ASSUME NEW b \in Rows, NEW c \in Calls, Affords(b, c)
    PROVE  /\ Reserved(b, c) \in Rows /\ Within(Reserved(b, c))
           /\ Reserved(b, c).reserved = b.reserved \cup {c}
           /\ Reserved(b, c).spent = b.spent /\ Reserved(b, c).limit = b.limit
<1> DEFINE n == Reserved(b, c)
<1>1. n \in Rows
  BY DEF Reserved, Rows
<1>2. n.reserved = b.reserved \cup {c} /\ n.spent = b.spent /\ n.limit = b.limit /\ n.recent = b.recent
  BY DEF Reserved, Rows
<1> HIDE DEF n
<1>3. /\ b.limit \in Int /\ b.spent \in Nat /\ b.recent \in SUBSET Calls /\ b.reserved \in SUBSET Calls
      /\ Rate \in Int
  BY RowFields, BudgetAssumption
<1>4. /\ b.spent + CostSum[b.reserved] + CostOf[c] <= b.limit
      /\ Cardinality(b.recent) + Cardinality(b.reserved) < Rate
  BY DEF Affords
<1>5. /\ CostSum[n.reserved] \in {CostSum[b.reserved], CostSum[b.reserved] + CostOf[c]}
      /\ Cardinality(n.reserved) \in {Cardinality(b.reserved), Cardinality(b.reserved) + 1}
      /\ CostSum[b.reserved] \in Nat /\ CostOf[c] \in Nat /\ Cardinality(b.reserved) \in Nat
  BY <1>2, <1>3, TokenMoves, Zenon
<1>6. Cardinality(b.recent) \in Nat
  BY <1>3, TokensCounted
<1>7. Within(n)
  BY <1>2, <1>3, <1>4, <1>5, <1>6 DEF Within
<1> QED
  BY <1>1, <1>2, <1>7 DEF n

(* BudgetManager.release.                                                  *)
LEMMA ReleaseWithin ==
    ASSUME NEW b \in Rows, NEW c \in Calls, Within(b)
    PROVE  /\ Released(b, c) \in Rows /\ Within(Released(b, c))
           /\ Released(b, c).reserved = b.reserved \ {c}
           /\ Released(b, c).spent = b.spent /\ Released(b, c).limit = b.limit
<1> DEFINE n == Released(b, c)
<1>1. n \in Rows
  BY DEF Released, Rows
<1>2. n.reserved = b.reserved \ {c} /\ n.spent = b.spent /\ n.limit = b.limit /\ n.recent = b.recent
  BY DEF Released, Rows
<1> HIDE DEF n
<1>3. /\ b.limit \in Int /\ b.spent \in Nat /\ b.recent \in SUBSET Calls /\ b.reserved \in SUBSET Calls
      /\ Rate \in Int
  BY RowFields, BudgetAssumption
<1>4. /\ CostSum[n.reserved] <= CostSum[b.reserved] /\ Cardinality(n.reserved) <= Cardinality(b.reserved)
      /\ CostSum[n.reserved] \in Nat /\ Cardinality(n.reserved) \in Nat
      /\ CostSum[b.reserved] \in Nat /\ Cardinality(b.reserved) \in Nat
  BY <1>2, <1>3, TokenMoves, Zenon
<1>5. Cardinality(b.recent) \in Nat
  BY <1>3, TokensCounted
<1>6. Within(n)
  BY <1>2, <1>3, <1>4, <1>5 DEF Within
<1> QED
  BY <1>1, <1>2, <1>6 DEF n

(* BudgetManager.commit moves the cost from reserved to spent.             *)
LEMMA CommitWithin ==
    ASSUME NEW b \in Rows, NEW c \in b.reserved, Within(b)
    PROVE  /\ Committed(b, c) \in Rows /\ Within(Committed(b, c))
           /\ Committed(b, c).reserved = b.reserved \ {c}
           /\ Committed(b, c).spent = b.spent + CostOf[c] /\ Committed(b, c).limit = b.limit
<1> DEFINE n == Committed(b, c)
<1>0. /\ b.limit \in Int /\ b.spent \in Nat /\ b.recent \in SUBSET Calls /\ b.reserved \in SUBSET Calls
      /\ Rate \in Int /\ c \in Calls /\ CostOf[c] \in Nat
  BY RowFields, BudgetAssumption
<1>1. n \in Rows
  <2>1. b.spent + CostOf[c] \in Nat /\ b.reserved \ {c} \in SUBSET Calls /\ b.recent \cup {c} \in SUBSET Calls
    BY <1>0
  <2> QED
    BY <2>1, Zenon DEF Committed, Rows
<1>2. /\ n.reserved = b.reserved \ {c} /\ n.spent = b.spent + CostOf[c] /\ n.limit = b.limit
      /\ n.recent = b.recent \cup {c}
  BY <1>0 DEF Committed, Rows
<1> HIDE DEF n
<1>4. /\ CostSum[b.reserved] = CostSum[n.reserved] + CostOf[c]
      /\ Cardinality(b.reserved) = Cardinality(n.reserved) + 1
      /\ CostSum[n.reserved] \in Nat /\ Cardinality(n.reserved) \in Nat
  <2>1. /\ Cardinality(b.reserved) = Cardinality(b.reserved \ {c}) + 1
        /\ CostSum[b.reserved] = CostSum[b.reserved \ {c}] + CostOf[c]
    BY <1>0, TokenTaken
  <2>2. CostSum[b.reserved \ {c}] \in Nat /\ Cardinality(b.reserved \ {c}) \in Nat
    BY <1>0, TokenMoves, Zenon
  <2> QED
    BY <1>2, <2>1, <2>2
<1>5. Cardinality(b.recent) \in Nat /\ Cardinality(n.recent) \in {Cardinality(b.recent), Cardinality(b.recent) + 1}
  BY <1>0, <1>2, TokenMoves, Zenon
<1>6. Within(n)
  BY <1>0, <1>2, <1>4, <1>5 DEF Within
<1> QED
  BY <1>1, <1>2, <1>6 DEF n

(* The rate window drops a committed call.                                 *)
LEMMA ExpireWithin ==
    ASSUME NEW b \in Rows, NEW c \in Calls, Within(b)
    PROVE  LET n == [b EXCEPT !.recent = @ \ {c}] IN
           /\ n \in Rows /\ Within(n)
           /\ n.reserved = b.reserved /\ n.spent = b.spent /\ n.limit = b.limit
<1> DEFINE n == [b EXCEPT !.recent = @ \ {c}]
<1>1. n \in Rows
  BY DEF Rows
<1>2. n.reserved = b.reserved /\ n.spent = b.spent /\ n.limit = b.limit /\ n.recent = b.recent \ {c}
  BY DEF Rows
<1> HIDE DEF n
<1>3. /\ b.limit \in Int /\ b.spent \in Nat /\ b.recent \in SUBSET Calls /\ b.reserved \in SUBSET Calls
      /\ Rate \in Int
  BY RowFields, BudgetAssumption
<1>4. /\ Cardinality(n.recent) <= Cardinality(b.recent)
      /\ Cardinality(n.recent) \in Nat /\ Cardinality(b.recent) \in Nat
  BY <1>2, <1>3, TokenMoves, Zenon
<1>5. Cardinality(b.reserved) \in Nat
  BY <1>3, TokensCounted
<1>6. Within(n)
  BY <1>2, <1>3, <1>4, <1>5 DEF Within
<1> QED
  BY <1>1, <1>2, <1>6 DEF n

-----------------------------------------------------------------------------
(* Steps and the budget.                                                   *)

(* A step that gives up no token, takes none and settles nothing.          *)
TokensKept ==
    /\ pc' = [d \in Calls |-> pc'[d]]
    /\ \A d \in Calls : /\ pc[d] \in Held /\ d \notin Durable => pc'[d] \in Held
                        /\ pc'[d] \in Charged => pc[d] \in Charged
                        /\ pc'[d] = "done" <=> pc[d] = "done"

(* A row in good order stays so while no token is given up.                *)
LEMMA GoodRowKept ==
    ASSUME TokensKept, NEW b, GoodRow(b)
    PROVE  b \in Rows /\ Within(b) /\ \A c \in b.reserved \ Durable : pc'[c] \in Held
<1>1. b \in Rows /\ Within(b) /\ \A c \in b.reserved \ Durable : pc[c] \in Held
  BY DEF GoodRow
<1>2. b.reserved \in SUBSET Calls
  BY <1>1, RowFields
<1> QED
  BY <1>1, <1>2 DEF TokensKept

(* A row that accounts for every call goes on doing so.                    *)
LEMMA AccountsKept ==
    ASSUME TokensKept, NEW b, Accounts(b)
    PROVE  (\A c \in Calls : pc'[c] \in Charged => c \in b.reserved) /\ b.spent = CostSum[Done']
<1>1. Done' = Done
  BY DEF TokensKept, Done
<1> QED
  BY <1>1 DEF Accounts, TokensKept

(* What a mutation sees: a row in good order, the current one unless an    *)
(* operator replaced it, and no other call inside a mutation.              *)
LEMMA ViewGood ==
    ASSUME BudgetInv, NEW c \in Calls, CanMutate(c)
    PROVE  /\ GoodRow(View(c)) /\ View(c) \in Rows
           /\ acked = None => View(c) = Seed(budget) /\ Accounts(View(c))
           /\ Atomic /\ acked # None => View(c).limit = acked
           /\ \A d \in Calls \ {c} : seen[d] = None
<1>1. GoodRow(Seed(budget))
  <2>1. CASE budget = None
    <3>1. GoodRow(Fresh(DefaultLimit))
      BY FreshGood DEF GoodRow
    <3> QED
      BY <2>1, <3>1 DEF Seed
  <2>2. CASE budget # None
    BY <2>2 DEF Seed, BudgetInv
  <2> QED
    BY <2>1, <2>2
<1>2. CASE Atomic
  <2>1. View(c) = Seed(budget) /\ \A d \in Calls : seen[d] = None
    BY <1>2 DEF View, BudgetInv
  <2>2. acked # None => Seed(budget).limit = acked
    BY <1>2 DEF BudgetInv, AckedLimitStands, Seed
  <2>3. acked = None => Accounts(Seed(budget))
    BY DEF BudgetInv
  <2> QED
    BY <1>1, <2>1, <2>2, <2>3 DEF GoodRow
<1>3. CASE ~Atomic
  <2>1. View(c) = seen[c] /\ seen[c] # None
    BY <1>3 DEF View, CanMutate
  <2>2. GoodRow(seen[c]) /\ (acked = None => seen[c] = Seed(budget) /\ Accounts(Seed(budget)))
        /\ \A d \in Calls \ {c} : seen[d] = None
    BY <2>1 DEF BudgetInv
  <2> QED
    BY <1>3, <2>1, <2>2 DEF GoodRow
<1> QED
  BY <1>2, <1>3

(* Steps that leave the budget alone.                                      *)
LEMMA BudgetRests ==
    ASSUME BudgetInv, TokensKept, UNCHANGED <<site, budgetVars>>
    PROVE  BudgetInv'
<1>1. UNCHANGED <<site, budget, seen, acked>>
  BY DEF budgetVars
<1>2. (budget # None => GoodRow(budget))'
  BY <1>1, GoodRowKept DEF BudgetInv, GoodRow
<1>3. (\A c \in Calls : seen[c] # None => GoodRow(seen[c]) /\ ~Atomic)'
  BY <1>1, GoodRowKept DEF BudgetInv, GoodRow, Atomic
<1>4. (acked = None => Accounts(Seed(budget)))'
  BY <1>1, AccountsKept DEF BudgetInv, Accounts, Seed
<1> QED
  BY <1>1, <1>2, <1>3, <1>4 DEF BudgetInv, TokensKept, AckedLimitStands, Atomic, Seed

(* mutate_budget rolls back.                                               *)
LEMMA BudgetRollsBack ==
    ASSUME BudgetInv, TokensKept, UNCHANGED site, NEW c \in Calls, Rollback(c)
    PROVE  BudgetInv'
<1>1. UNCHANGED <<site, budget, acked>> /\ seen' = [seen EXCEPT ![c] = None]
  BY DEF Rollback
<1>2. seen' = [d \in Calls |-> seen'[d]] /\ \A d \in Calls : seen'[d] \in {None, seen[d]}
  BY <1>1 DEF BudgetInv
<1>3. (budget # None => GoodRow(budget))'
  BY <1>1, GoodRowKept DEF BudgetInv, GoodRow
<1>4. (\A d \in Calls : seen[d] # None => GoodRow(seen[d]) /\ ~Atomic)'
  BY <1>1, <1>2, GoodRowKept DEF BudgetInv, GoodRow, Atomic
<1>5. (acked = None => Accounts(Seed(budget)))'
  BY <1>1, AccountsKept DEF BudgetInv, Accounts, Seed
<1>6. (acked = None => \A d \in Calls : seen[d] # None => seen[d] = Seed(budget))'
      /\ (\A d, e \in Calls : seen[d] # None /\ seen[e] # None => d = e)'
  BY <1>1, <1>2 DEF BudgetInv, Seed
<1> QED
  BY <1>1, <1>2, <1>3, <1>4, <1>5, <1>6 DEF BudgetInv, TokensKept, AckedLimitStands, Atomic

(* mutate_budget writes a row in good order, with the limit it read.       *)
LEMMA BudgetWritten ==
    ASSUME BudgetInv, pc' = [d \in Calls |-> pc'[d]], UNCHANGED site, NEW c \in Calls, CanMutate(c),
           NEW b, Write(c, b), b \in Rows, Within(b), b.limit = View(c).limit,
           \A d \in b.reserved \ Durable : pc'[d] \in Held,
           acked = None => /\ \A d \in Calls : pc'[d] \in Charged => d \in b.reserved
                           /\ b.spent = CostSum[Done']
    PROVE  BudgetInv'
<1>1. UNCHANGED <<site, acked>> /\ budget' = b /\ seen' = [seen EXCEPT ![c] = None]
  BY DEF Write
<1>2. b # None
  BY RowFields
<1>3. seen' = [d \in Calls |-> seen'[d]] /\ \A d \in Calls : seen'[d] = None
  BY <1>1, ViewGood DEF BudgetInv
<1>4. GoodRow(budget)'
  BY <1>1 DEF GoodRow
<1>5. (acked = None => Accounts(Seed(budget)))'
  BY <1>1, <1>2 DEF Accounts, Seed
<1>6. (Atomic => AckedLimitStands)'
  BY <1>1, <1>2, ViewGood DEF AckedLimitStands, Atomic
<1>7. site' \in Sites
  BY <1>1 DEF BudgetInv
<1> QED
  BY <1>1, <1>3, <1>4, <1>5, <1>6, <1>7 DEF BudgetInv

-----------------------------------------------------------------------------
(* Workers and the budget.                                                 *)

(* Where the worker of a call goes, and that no other moves.               *)
LEMMA Moved ==
    ASSUME pc = [d \in Calls |-> pc[d]], NEW c \in Calls, NEW l, Goto(c, l)
    PROVE  /\ pc' = [d \in Calls |-> pc'[d]] /\ pc'[c] = l
           /\ \A d \in Calls \ {c} : pc'[d] = pc[d]
  BY DEF Goto

(* A step of one call that gives up no token.                              *)
LEMMA QuietMove ==
    ASSUME pc = [d \in Calls |-> pc[d]], NEW c \in Calls, NEW l, Goto(c, l),
           pc[c] \in Held /\ c \notin Durable => l \in Held,
           l \in Charged => pc[c] \in Charged, pc[c] # "done", l # "done"
    PROVE  TokensKept
  BY Moved DEF TokensKept

(* The steps of a worker that touch no budget.                             *)
LEMMA QuietKeepsBudget ==
    ASSUME BudgetInv, UNCHANGED site, NEW c \in Calls,
           \/ Authenticate(c) \/ CheckIdentity(c) \/ (\E hours \in BOOLEAN : Authorize(c, hours))
           \/ Deny(c) \/ Cancel(c) \/ Invoke(c) \/ AuditError(c)
    PROVE  BudgetInv'
<1>1. pc = [d \in Calls |-> pc[d]]
  BY DEF BudgetInv
<1>2. CASE Authenticate(c)
  <2>1. PICK l \in {"authed", "refused"} : Goto(c, l)
    BY <1>2 DEF Authenticate
  <2>2. pc[c] = "idle" /\ UNCHANGED budgetVars
    BY <1>2 DEF Authenticate
  <2>3. TokensKept
    BY <1>1, <2>1, <2>2, QuietMove DEF Held, Charged
  <2> QED
    BY <2>2, <2>3, BudgetRests
<1>3. CASE CheckIdentity(c)
  <2>1. PICK l \in {"checked", "denying"} : Goto(c, l)
    BY <1>3 DEF CheckIdentity
  <2>2. pc[c] = "authed" /\ UNCHANGED budgetVars
    BY <1>3 DEF CheckIdentity
  <2>3. TokensKept
    BY <1>1, <2>1, <2>2, QuietMove DEF Held, Charged
  <2> QED
    BY <2>2, <2>3, BudgetRests
<1>4. ASSUME NEW hours \in BOOLEAN, Authorize(c, hours) PROVE BudgetInv'
  <2>1. PICK l \in {"ruled", "denying"} : Goto(c, l)
    BY <1>4, Zenon DEF Authorize
  <2>2. pc[c] = "checked" /\ UNCHANGED budgetVars
    BY <1>4, Zenon DEF Authorize
  <2>3. TokensKept
    BY <1>1, <2>1, <2>2, QuietMove DEF Held, Charged
  <2> QED
    BY <2>2, <2>3, BudgetRests
<1>5. CASE Deny(c)
  <2>1. PICK l \in {"previewed", "denied"} : Goto(c, l)
    BY <1>5 DEF Deny
  <2>2. pc[c] = "denying" /\ UNCHANGED budgetVars
    BY <1>5 DEF Deny
  <2>3. TokensKept
    BY <1>1, <2>1, <2>2, QuietMove DEF Held, Charged
  <2> QED
    BY <2>2, <2>3, BudgetRests
<1>6. CASE Cancel(c)
  <2>1. pc[c] = "admitted" /\ Goto(c, "aborting") /\ UNCHANGED budgetVars
    BY <1>6 DEF Cancel
  <2>2. TokensKept
    BY <1>1, <2>1, QuietMove DEF Held, Charged
  <2> QED
    BY <2>1, <2>2, BudgetRests
<1>7. CASE Invoke(c)
  <2>1. PICK l \in {"returned", "raised"} : Goto(c, l)
    BY <1>7 DEF Invoke
  <2>2. pc[c] = "admitted" /\ UNCHANGED budgetVars
    BY <1>7 DEF Invoke
  <2>3. TokensKept
    BY <1>1, <2>1, <2>2, QuietMove DEF Held, Charged
  <2> QED
    BY <2>2, <2>3, BudgetRests
<1>8. CASE AuditError(c)
  <2>1. pc[c] = "erring" /\ Goto(c, "failed") /\ UNCHANGED budgetVars
    BY <1>8 DEF AuditError
  <2>2. TokensKept
    BY <1>1, <2>1, QuietMove DEF Held, Charged
  <2> QED
    BY <2>1, <2>2, BudgetRests
<1> QED
  BY <1>2, <1>3, <1>4, <1>5, <1>6, <1>7, <1>8

(* The advisory lock is taken and the row read.                            *)
LEMMA LockKeepsBudget ==
    ASSUME BudgetInv, UNCHANGED site, NEW c \in Calls, Lock(c)
    PROVE  BudgetInv'
<1>1. /\ ~Atomic /\ \A d \in Calls : seen[d] = None
      /\ seen' = [seen EXCEPT ![c] = Seed(budget)] /\ UNCHANGED <<site, pc, budget, acked>>
  BY DEF Lock, ReadRow
<1>2. /\ seen' = [d \in Calls |-> seen'[d]] /\ seen'[c] = Seed(budget)
      /\ \A d \in Calls \ {c} : seen'[d] = None
  BY <1>1 DEF BudgetInv
<1>3. GoodRow(Seed(budget))
  BY FreshGood DEF GoodRow, Seed, BudgetInv
<1>4. (\A d \in Calls : seen[d] # None => GoodRow(seen[d]) /\ ~Atomic)'
  BY <1>1, <1>2, <1>3 DEF GoodRow, Atomic
<1>5. (budget # None => GoodRow(budget))' /\ (acked = None => Accounts(Seed(budget)))'
  BY <1>1 DEF BudgetInv, GoodRow, Accounts, Done, Seed
<1>6. (acked = None => \A d \in Calls : seen[d] # None => seen[d] = Seed(budget))'
      /\ (\A d, e \in Calls : seen[d] # None /\ seen[e] # None => d = e)'
  BY <1>1, <1>2 DEF Seed
<1> QED
  BY <1>1, <1>2, <1>4, <1>5, <1>6 DEF BudgetInv, AckedLimitStands, Atomic

(* can_afford writes the row it read.                                      *)
LEMMA CanAffordKeepsBudget ==
    ASSUME BudgetInv, UNCHANGED site, NEW c \in Calls, CanAfford(c)
    PROVE  BudgetInv'
<1>1. /\ pc[c] = "ruled" /\ CanMutate(c) /\ Write(c, View(c))
      /\ \E l \in {"denying", "previewed", "allowed"} : Goto(c, l)
  BY DEF CanAfford
<1>2. TokensKept
  BY <1>1, QuietMove DEF BudgetInv, Held, Charged
<1>3. GoodRow(View(c)) /\ (acked = None => Accounts(View(c)))
  BY <1>1, ViewGood
<1>4. View(c) \in Rows /\ Within(View(c)) /\ \A d \in View(c).reserved \ Durable : pc'[d] \in Held
  BY <1>2, <1>3, GoodRowKept
<1>5. acked = None => /\ \A d \in Calls : pc'[d] \in Charged => d \in View(c).reserved
                      /\ View(c).spent = CostSum[Done']
  BY <1>2, <1>3, AccountsKept
<1> QED
  BY <1>1, <1>2, <1>4, <1>5, BudgetWritten DEF TokensKept

(* A reservation is written and its call admitted, or reserved in memory.  *)
LEMMA ReservedKeepsBudget ==
    ASSUME BudgetInv, UNCHANGED site, NEW c \in Calls, CanMutate(c), pc[c] = "allowed",
           Affords(View(c), c), Write(c, Reserved(View(c), c)),
           NEW l \in {"admitted", "reserved"}, Goto(c, l)
    PROVE  BudgetInv'
<1> DEFINE v == View(c)
           b == Reserved(v, c)
<1>1. GoodRow(v) /\ v \in Rows /\ (acked = None => Accounts(v))
  BY ViewGood
<1>2. b \in Rows /\ Within(b) /\ b.reserved = v.reserved \cup {c} /\ b.spent = v.spent /\ b.limit = v.limit
  BY <1>1, ReserveWithin
<1>3. v.reserved \in SUBSET Calls /\ \A d \in v.reserved \ Durable : pc[d] \in Held
  BY <1>1, RowFields DEF GoodRow
<1>4. pc' = [d \in Calls |-> pc'[d]] /\ pc'[c] = l /\ \A d \in Calls \ {c} : pc'[d] = pc[d]
  BY Moved DEF BudgetInv
<1>5. Done' = Done
  BY <1>4 DEF Done
<1>6. Write(c, b) /\ b.limit = View(c).limit
  BY <1>2
<1> HIDE DEF v, b
<1>7. \A d \in b.reserved \ Durable : pc'[d] \in Held
  BY <1>2, <1>3, <1>4 DEF Held
<1>8. acked = None => /\ \A d \in Calls : pc'[d] \in Charged => d \in b.reserved
                      /\ b.spent = CostSum[Done']
  BY <1>1, <1>2, <1>4, <1>5 DEF Accounts
<1> QED
  BY <1>2, <1>4, <1>6, <1>7, <1>8, BudgetWritten

(* A reservation is given back by a call that leaves.                      *)
LEMMA ReleasedKeepsBudget ==
    ASSUME BudgetInv, UNCHANGED site, NEW c \in Calls, CanMutate(c), pc[c] # "done",
           Write(c, Released(View(c), c)),
           NEW l \in {"denying", "failed", "erring"}, Goto(c, l)
    PROVE  BudgetInv'
<1> DEFINE v == View(c)
           b == Released(v, c)
<1>1. GoodRow(v) /\ v \in Rows /\ Within(v) /\ (acked = None => Accounts(v))
  BY ViewGood DEF GoodRow
<1>2. b \in Rows /\ Within(b) /\ b.reserved = v.reserved \ {c} /\ b.spent = v.spent /\ b.limit = v.limit
  BY <1>1, ReleaseWithin
<1>3. v.reserved \in SUBSET Calls /\ \A d \in v.reserved \ Durable : pc[d] \in Held
  BY <1>1, RowFields DEF GoodRow
<1>4. pc' = [d \in Calls |-> pc'[d]] /\ pc'[c] = l /\ \A d \in Calls \ {c} : pc'[d] = pc[d]
  BY Moved DEF BudgetInv
<1>5. Done' = Done
  BY <1>4 DEF Done
<1>6. Write(c, b) /\ b.limit = View(c).limit
  BY <1>2
<1> HIDE DEF v, b
<1>7. \A d \in b.reserved \ Durable : pc'[d] \in Held
  BY <1>2, <1>3, <1>4
<1>8. acked = None => /\ \A d \in Calls : pc'[d] \in Charged => d \in b.reserved
                      /\ b.spent = CostSum[Done']
  BY <1>1, <1>2, <1>4, <1>5, Zenon DEF Accounts, Charged
<1> QED
  BY <1>2, <1>4, <1>6, <1>7, <1>8, BudgetWritten

(* A reservation is charged by a call that is done.                        *)
LEMMA CommittedKeepsBudget ==
    ASSUME BudgetInv, UNCHANGED site, NEW c \in Calls, CanMutate(c), pc[c] # "done",
           c \in View(c).reserved, Write(c, Committed(View(c), c)), Goto(c, "done")
    PROVE  BudgetInv'
<1> DEFINE v == View(c)
           b == Committed(v, c)
<1>1. GoodRow(v) /\ v \in Rows /\ Within(v) /\ (acked = None => Accounts(v))
  BY ViewGood DEF GoodRow
<1>2. /\ b \in Rows /\ Within(b) /\ b.reserved = v.reserved \ {c}
      /\ b.spent = v.spent + CostOf[c] /\ b.limit = v.limit
  BY <1>1, CommitWithin
<1>3. v.reserved \in SUBSET Calls /\ \A d \in v.reserved \ Durable : pc[d] \in Held
  BY <1>1, RowFields DEF GoodRow
<1>4. pc' = [d \in Calls |-> pc'[d]] /\ pc'[c] = "done" /\ \A d \in Calls \ {c} : pc'[d] = pc[d]
  BY Moved DEF BudgetInv
<1>5. Done' = Done \cup {c} /\ c \notin Done /\ Done \in SUBSET Calls
  BY <1>4 DEF Done
<1>6. CostSum[Done'] = CostSum[Done] + CostOf[c]
  BY <1>5, TokenAdded
<1>7. Write(c, b) /\ b.limit = View(c).limit
  BY <1>2
<1> HIDE DEF v, b
<1>8. \A d \in b.reserved \ Durable : pc'[d] \in Held
  BY <1>2, <1>3, <1>4
<1>9. acked = None => /\ \A d \in Calls : pc'[d] \in Charged => d \in b.reserved
                      /\ b.spent = CostSum[Done']
  BY <1>1, <1>2, <1>4, <1>6 DEF Accounts, Charged
<1> QED
  BY <1>2, <1>4, <1>7, <1>8, <1>9, BudgetWritten

(* The rate window passes a committed call.                                *)
LEMMA ExpireKeepsBudget ==
    ASSUME BudgetInv, UNCHANGED site, NEW c \in Calls, Expire(c)
    PROVE  BudgetInv'
<1> DEFINE b == [budget EXCEPT !.recent = @ \ {c}]
<1>1. /\ budget # None /\ seen = [d \in Calls |-> None] /\ budget' = b
      /\ UNCHANGED <<site, pc, seen, acked>>
  BY DEF Expire
<1>2. GoodRow(budget) /\ budget \in Rows /\ Within(budget)
  BY <1>1 DEF BudgetInv, GoodRow
<1>3. /\ b \in Rows /\ Within(b)
      /\ b.reserved = budget.reserved /\ b.spent = budget.spent /\ b.limit = budget.limit
  BY <1>2, ExpireWithin
<1>4. b # None
  BY <1>3, RowFields
<1> HIDE DEF b
<1>5. GoodRow(budget)'
  BY <1>1, <1>2, <1>3 DEF GoodRow
<1>6. (acked = None => Accounts(Seed(budget)))'
  BY <1>1, <1>3, <1>4 DEF BudgetInv, Accounts, Done, Seed
<1>7. (Atomic => AckedLimitStands)'
  BY <1>1, <1>3, <1>4 DEF BudgetInv, AckedLimitStands, Atomic
<1>8. \A d \in Calls : seen'[d] = None
  BY <1>1
<1> QED
  BY <1>1, <1>5, <1>6, <1>7, <1>8 DEF BudgetInv

(* Admission.                                                              *)
LEMMA AdmitKeepsBudget ==
    ASSUME BudgetInv, FlowInv, UNCHANGED site, NEW c \in Calls,
           AdmitSql(c) \/ Reserve(c) \/ ConsumeMemory(c)
    PROVE  BudgetInv'
<1>1. pc = [d \in Calls |-> pc[d]]
  BY DEF BudgetInv
<1>2. ASSUME pc[c] = "allowed", Rollback(c), Goto(c, "denying") PROVE BudgetInv'
  <2>1. TokensKept
    BY <1>1, <1>2, QuietMove DEF Held, Charged
  <2> QED
    BY <1>2, <2>1, BudgetRollsBack
<1>3. CASE AdmitSql(c)
  <2>1. pc[c] = "allowed" /\ CanMutate(c)
    BY <1>3 DEF AdmitSql
  <2>2. \/ Affords(View(c), c) /\ Write(c, Reserved(View(c), c)) /\ Goto(c, "admitted")
        \/ Rollback(c) /\ Goto(c, "denying")
    BY <1>3 DEF AdmitSql
  <2> QED
    BY <1>2, <2>1, <2>2, ReservedKeepsBudget
<1>4. CASE Reserve(c)
  <2>1. pc[c] = "allowed" /\ CanMutate(c)
    BY <1>4 DEF Reserve, CanMutate, Atomic
  <2>2. \/ Affords(View(c), c) /\ Write(c, Reserved(View(c), c)) /\ Goto(c, "reserved")
        \/ Rollback(c) /\ Goto(c, "denying")
    BY <1>4 DEF Reserve
  <2> QED
    BY <1>2, <2>1, <2>2, ReservedKeepsBudget
<1>5. CASE ConsumeMemory(c)
  <2>1. pc[c] = "reserved"
    BY <1>5 DEF ConsumeMemory
  <2>2. CanMutate(c)
    BY <2>1 DEF FlowInv, CanMutate, Atomic
  <2>3. \/ Goto(c, "admitted") /\ UNCHANGED budgetVars
        \/ Write(c, Released(View(c), c)) /\ Goto(c, "denying")
    BY <1>5 DEF ConsumeMemory
  <2>4. ASSUME Goto(c, "admitted"), UNCHANGED budgetVars PROVE BudgetInv'
    <3>1. TokensKept
      BY <1>1, <2>1, <2>4, QuietMove DEF Held, Charged
    <3> QED
      BY <2>4, <3>1, BudgetRests
  <2> QED
    BY <2>1, <2>2, <2>3, <2>4, ReleasedKeepsBudget
<1> QED
  BY <1>3, <1>4, <1>5

(* Settlement, failure and crash.                                          *)
LEMMA SettleKeepsBudget ==
    ASSUME BudgetInv, UNCHANGED site, NEW c \in Calls,
           Abort(c) \/ Settle(c) \/ InvocationFailed(c) \/ Crash(c)
    PROVE  BudgetInv'
<1>1. pc = [d \in Calls |-> pc[d]]
  BY DEF BudgetInv
<1>2. CASE Abort(c)
  <2>1. pc[c] = "aborting" /\ CanMutate(c) /\ Write(c, Released(View(c), c)) /\ Goto(c, "failed")
    BY <1>2 DEF Abort
  <2> QED
    BY <2>1, ReleasedKeepsBudget
<1>3. CASE Settle(c)
  <2>1. pc[c] = "returned" /\ CanMutate(c)
    BY <1>3 DEF Settle
  <2>2. \/ c \in View(c).reserved /\ Write(c, Committed(View(c), c)) /\ Goto(c, "done")
        \/ Rollback(c) /\ Goto(c, "raised")
    BY <1>3 DEF Settle
  <2>3. ASSUME Rollback(c), Goto(c, "raised") PROVE BudgetInv'
    <3>1. TokensKept
      BY <1>1, <2>1, <2>3, QuietMove DEF Held, Charged
    <3> QED
      BY <2>3, <3>1, BudgetRollsBack
  <2> QED
    BY <2>1, <2>2, <2>3, CommittedKeepsBudget, SMTT(30)
<1>4. CASE InvocationFailed(c)
  <2>1. pc[c] = "raised"
    BY <1>4 DEF InvocationFailed
  <2>2. \/ c \in Durable /\ Goto(c, "unknown") /\ UNCHANGED budgetVars
        \/ CanMutate(c) /\ Write(c, Released(View(c), c)) /\ Goto(c, "erring")
    BY <1>4 DEF InvocationFailed
  <2>3. ASSUME c \in Durable, Goto(c, "unknown"), UNCHANGED budgetVars PROVE BudgetInv'
    <3>1. TokensKept
      BY <1>1, <2>1, <2>3, QuietMove DEF Held, Charged
    <3> QED
      BY <2>3, <3>1, BudgetRests
  <2> QED
    BY <2>1, <2>2, <2>3, ReleasedKeepsBudget
<1>5. CASE Crash(c)
  <2>1. pc[c] # "done" /\ Rollback(c) /\ Goto(c, "crashed")
    BY <1>5 DEF Crash, Finished
  <2>2. TokensKept
    BY <1>1, <2>1, QuietMove DEF Held, Charged
  <2> QED
    BY <2>1, <2>2, BudgetRollsBack
<1> QED
  BY <1>2, <1>3, <1>4, <1>5

(* Operators: PUT /control/budgets replaces the row, and nothing else      *)
(* touches it.                                                             *)
LEMMA OperatorKeepsBudget ==
    ASSUME BudgetInv, UNCHANGED site, OperatorStep
    PROVE  BudgetInv'
<1>1. ASSUME NEW l \in Limits, SetBudget(l) PROVE BudgetInv'
  <2>1. budget' = Fresh(l) /\ acked' = l /\ UNCHANGED <<site, pc, seen>>
    BY <1>1 DEF SetBudget, UpsertBudget
  <2>2. acked' # None
    BY <2>1, BudgetAssumption
  <2>3. Fresh(l) \in Rows /\ Within(Fresh(l)) /\ Fresh(l).reserved = {}
        /\ Fresh(l).limit = l /\ Fresh(l) # None
    BY FreshGood
  <2>4. GoodRow(budget)'
    BY <2>1, <2>3 DEF GoodRow
  <2>5. (Atomic => AckedLimitStands)'
    BY <2>1, <2>3 DEF AckedLimitStands, Atomic
  <2>6. (\A c \in Calls : seen[c] # None => GoodRow(seen[c]) /\ ~Atomic)'
    BY <2>1 DEF BudgetInv, GoodRow, Atomic
  <2> QED
    BY <2>1, <2>2, <2>4, <2>5, <2>6 DEF BudgetInv
<1>2. ASSUME UNCHANGED <<pc, budgetVars>> PROVE BudgetInv'
  <2>1. TokensKept
    BY <1>2 DEF TokensKept, BudgetInv
  <2> QED
    BY <1>2, <2>1, BudgetRests
<1>3. (\E l \in Limits : SetBudget(l)) \/ UNCHANGED <<pc, budgetVars>>
  BY Zenon DEF OperatorStep, RevokeRead, Register, RevokeWrite, MarkSensitive, AddRule,
         Approve, DenyApproval, Decide
<1> QED
  BY <1>1, <1>2, <1>3

-----------------------------------------------------------------------------
(* Grants and effects.                                                     *)

(* Fewer calls to account for, and no consumed grant taken back.           *)
LEMMA GrantsRest ==
    ASSUME FlowInv, NEW c \in Calls,
           Spending(c)' \subseteq Spending(c), Consumed(c) \subseteq Consumed(c)'
    PROVE  Cardinality(Spending(c)') <= Cardinality(Consumed(c)')
<1>1. Spending(c) \in SUBSET Calls /\ Consumed(c)' \in SUBSET Calls
  BY DEF FlowInv, Spending, Consumed
<1>2. IsFiniteSet(Spending(c)) /\ IsFiniteSet(Consumed(c)')
  BY <1>1, TokensCounted
<1>3. /\ Cardinality(Spending(c)') <= Cardinality(Spending(c))
      /\ Cardinality(Consumed(c)) <= Cardinality(Consumed(c)')
      /\ IsFiniteSet(Spending(c)') /\ IsFiniteSet(Consumed(c))
  BY <1>2, FS_Subset
<1>4. /\ Cardinality(Spending(c)') \in Nat /\ Cardinality(Spending(c)) \in Nat
      /\ Cardinality(Consumed(c)') \in Nat /\ Cardinality(Consumed(c)) \in Nat
  BY <1>2, <1>3, FS_CardinalityType
<1>5. Cardinality(Spending(c)) <= Cardinality(Consumed(c))
  BY DEF FlowInv
<1> QED
  BY <1>3, <1>4, <1>5

(* A step of one call that takes no grant.                                 *)
LEMMA FlowMoves ==
    ASSUME FlowInv, UNCHANGED site, NEW c \in Calls, NEW l, Goto(c, l), pc[c] # "refused",
           late' \in {late, late \cup {c}}, c \in late' => l = "refused",
           l = "reserved" => site.backend = "memory",
           needs' \in {needs, needs \cup {c}}, effects' \in {effects, effects \cup {c}},
           audit \subseteq audit',
           c \in effects' => \/ l \in {"returned", "raised", "erring", "crashed"}
                             \/ l \in {"done", "failed", "unknown"} /\ Told(c)',
           approval' = [d \in Calls |-> approval'[d]],
           l \in {"idle", "authed", "checked"} => approval'[c] = "none",
           \A d \in Calls \ {c} : approval'[d] = approval[d],
           approval[c] = "consumed" => approval'[c] = "consumed",
           c \in needs' /\ (c \in effects' \/ l = "admitted")
               => c \in needs /\ (c \in effects \/ pc[c] = "admitted")
    PROVE  FlowInv'
<1>1. pc' = [d \in Calls |-> pc'[d]] /\ pc'[c] = l /\ \A d \in Calls \ {c} : pc'[d] = pc[d]
  BY Moved DEF FlowInv
<1>2. c \notin late
  BY DEF FlowInv
<1>3. needs' \subseteq Calls /\ effects' \subseteq Calls /\ late' \subseteq Calls
  BY DEF FlowInv
<1>4. (\A d \in Calls : pc[d] = "reserved" => site.backend = "memory")'
  BY <1>1 DEF FlowInv
<1>5. (\A d \in effects : \/ pc[d] \in {"returned", "raised", "erring", "crashed"}
                          \/ pc[d] \in {"done", "failed", "unknown"} /\ Told(d))'
  <2>1. ASSUME NEW d \in effects', d # c
        PROVE  \/ pc'[d] \in {"returned", "raised", "erring", "crashed"}
               \/ pc'[d] \in {"done", "failed", "unknown"} /\ Told(d)'
    <3>1. d \in effects /\ d \in Calls /\ pc'[d] = pc[d]
      BY <1>1, <2>1 DEF FlowInv
    <3>2. Told(d) => Told(d)'
      BY DEF Told
    <3> QED
      BY <3>1, <3>2 DEF FlowInv
  <2> QED
    BY <1>1, <2>1
<1>6. (\A d \in late : pc[d] = "refused")'
  BY <1>1, <1>2 DEF FlowInv
<1>7. (\A d \in Calls : pc[d] \in {"idle", "authed", "checked"} => approval[d] = "none")'
  BY <1>1 DEF FlowInv
<1>8. \A d \in Calls : Spending(d)' \subseteq Spending(d) /\ Consumed(d) \subseteq Consumed(d)'
  BY <1>1 DEF FlowInv, Spending, Consumed
<1>9. (\A d \in Calls : Cardinality(Spending(d)) <= Cardinality(Consumed(d)))'
  BY <1>8, GrantsRest
<1>10. site' \in Sites
  BY DEF FlowInv
<1> QED
  BY <1>1, <1>3, <1>4, <1>5, <1>6, <1>7, <1>9, <1>10, SMTT(30) DEF FlowInv

(* Admission consumes one grant of the request, unless none is needed.     *)
LEMMA FlowConsumes ==
    ASSUME FlowInv, UNCHANGED <<site, needs, late, effects, audit>>, NEW c \in Calls,
           pc[c] \in {"allowed", "reserved"}, Goto(c, "admitted"), Consume(c)
    PROVE  FlowInv'
<1>1. c \notin effects
  BY DEF FlowInv
<1>2. CASE c \notin needs /\ UNCHANGED approval
  BY <1>1, <1>2, FlowMoves DEF FlowInv
<1>3. ASSUME c \in needs, NEW d \in Granting(c), Spend(d) PROVE FlowInv'
  <2>1. pc' = [e \in Calls |-> pc'[e]] /\ pc'[c] = "admitted" /\ \A e \in Calls \ {c} : pc'[e] = pc[e]
    BY Moved DEF FlowInv
  <2>2. d \in Calls /\ approval[d] = "approved" /\ ScopeOf[d] = ScopeOf[c]
    BY DEF Granting
  <2>3. /\ approval' = [e \in Calls |-> approval'[e]] /\ approval'[d] = "consumed"
        /\ \A e \in Calls \ {d} : approval'[e] = approval[e]
    BY <1>3, <2>2 DEF Spend, FlowInv
  <2>4. c \notin late
    BY DEF FlowInv
  <2>5. (\A e \in effects : \/ pc[e] \in {"returned", "raised", "erring", "crashed"}
                            \/ pc[e] \in {"done", "failed", "unknown"} /\ Told(e))'
    BY <1>1, <2>1 DEF FlowInv, Told
  <2>6. (\A e \in Calls : pc[e] \in {"idle", "authed", "checked"} => approval[e] = "none")'
    BY <2>1, <2>2, <2>3 DEF FlowInv
  <2>7. (\A e \in Calls : Cardinality(Spending(e)) <= Cardinality(Consumed(e)))'
    <3> SUFFICES ASSUME NEW e \in Calls
                 PROVE  Cardinality(Spending(e)') <= Cardinality(Consumed(e)')
      OBVIOUS
    <3>1. CASE ScopeOf[e] # ScopeOf[c]
      <4>1. Spending(e)' \subseteq Spending(e) /\ Consumed(e) \subseteq Consumed(e)'
        BY <2>1, <2>2, <2>3, <3>1 DEF FlowInv, Spending, Consumed
      <4> QED
        BY <4>1, GrantsRest
    <3>2. CASE ScopeOf[e] = ScopeOf[c]
      <4>1. Spending(e)' = Spending(e) \cup {c} /\ c \notin Spending(e) /\ Spending(e) \in SUBSET Calls
        BY <1>1, <1>3, <2>1, <3>2 DEF FlowInv, Spending
      <4>2. Consumed(e)' = Consumed(e) \cup {d} /\ d \notin Consumed(e) /\ Consumed(e) \in SUBSET Calls
        BY <2>2, <2>3, <3>2, SMTT(30) DEF Consumed
      <4>3. /\ Cardinality(Spending(e)') = Cardinality(Spending(e)) + 1
            /\ Cardinality(Consumed(e)') = Cardinality(Consumed(e)) + 1
        BY <2>2, <4>1, <4>2, TokenAdded
      <4>4. /\ Cardinality(Spending(e)) <= Cardinality(Consumed(e))
            /\ Cardinality(Spending(e)) \in Nat /\ Cardinality(Consumed(e)) \in Nat
        BY <4>1, <4>2, TokensCounted DEF FlowInv
      <4> QED
        BY <4>3, <4>4
    <3> QED
      BY <3>1, <3>2
  <2>8. (\A e \in Calls : pc[e] = "reserved" => site.backend = "memory")'
        /\ (\A e \in late : pc[e] = "refused")'
    BY <2>1, <2>4 DEF FlowInv
  <2> QED
    BY <2>1, <2>3, <2>5, <2>6, <2>7, <2>8 DEF FlowInv
<1> QED
  BY <1>2, <1>3 DEF Consume

(* A step that moves no call.                                              *)
LEMMA FlowRests ==
    ASSUME FlowInv, UNCHANGED <<site, pc, needs, late, effects, audit>>,
           approval' = [d \in Calls |-> approval'[d]],
           \A d \in Calls : approval[d] \in {"none", "consumed"} => approval'[d] = approval[d]
    PROVE  FlowInv'
<1>1. \A d \in Calls : Spending(d)' \subseteq Spending(d) /\ Consumed(d) \subseteq Consumed(d)'
  BY DEF FlowInv, Spending, Consumed
<1>2. (\A d \in Calls : Cardinality(Spending(d)) <= Cardinality(Consumed(d)))'
  BY <1>1, GrantsRest
<1>3. (\A d \in effects : \/ pc[d] \in {"returned", "raised", "erring", "crashed"}
                          \/ pc[d] \in {"done", "failed", "unknown"} /\ Told(d))'
  BY DEF FlowInv, Told
<1> QED
  BY <1>2, <1>3 DEF FlowInv

(* A step of one call before its invocation, or of one whose end is told.  *)
LEMMA FlowPasses ==
    ASSUME FlowInv, UNCHANGED <<site, needs, late, approval, effects>>, NEW c \in Calls, NEW l,
           Goto(c, l), pc[c] # "refused",
           l \notin {"refused", "idle", "authed", "checked", "admitted"},
           l = "reserved" => site.backend = "memory", audit \subseteq audit',
           c \in effects => \/ l \in {"returned", "raised", "erring", "crashed"}
                            \/ l \in {"done", "failed", "unknown"} /\ Told(c)'
    PROVE  FlowInv'
<1>1. c \notin late'
  BY DEF FlowInv
<1> QED
  BY <1>1, FlowMoves DEF FlowInv

(* Authentication and the decision.                                        *)
LEMMA DecisionKeepsFlow ==
    ASSUME FlowInv, UNCHANGED site, NEW c \in Calls,
           \/ Authenticate(c) \/ CheckIdentity(c) \/ (\E hours \in BOOLEAN : Authorize(c, hours))
    PROVE  FlowInv'
<1>1. approval = [d \in Calls |-> approval[d]]
  BY DEF FlowInv
<1>2. CASE Authenticate(c)
  <2>1. /\ pc[c] = "idle" /\ UNCHANGED <<needs, approval, effects, audit>>
        /\ Goto(c, IF Authentic(ident, c) THEN "authed" ELSE "refused")
        /\ late' = IF ident.revoked THEN late \cup {c} ELSE late
    BY <1>2 DEF Authenticate
  <2>2. c \notin effects /\ c \notin late /\ approval[c] = "none"
    BY <2>1 DEF FlowInv
  <2>3. CASE Authentic(ident, c)
    <3>1. late' = late /\ Goto(c, "authed")
      BY <2>1, <2>3 DEF Authentic
    <3> QED
      BY <1>1, <2>1, <2>2, <3>1, FlowMoves
  <2>4. CASE ~Authentic(ident, c)
    <3>1. Goto(c, "refused") /\ late' \in {late, late \cup {c}}
      BY <2>1, <2>4
    <3> QED
      BY <1>1, <2>1, <2>2, <3>1, FlowMoves
  <2> QED
    BY <2>3, <2>4
<1>3. CASE CheckIdentity(c)
  <2>1. pc[c] = "authed" /\ UNCHANGED <<needs, late, approval, effects, audit>>
    BY <1>3 DEF CheckIdentity, identVars
  <2>2. PICK l \in {"checked", "denying"} : Goto(c, l)
    BY <1>3 DEF CheckIdentity
  <2>3. c \notin effects /\ c \notin late /\ approval[c] = "none"
    BY <2>1 DEF FlowInv
  <2> QED
    BY <1>1, <2>1, <2>2, <2>3, FlowMoves
<1>4. ASSUME NEW hours \in BOOLEAN, Authorize(c, hours) PROVE FlowInv'
  <2>1. pc[c] = "checked" /\ UNCHANGED <<late, effects, audit>>
    BY <1>4, Zenon DEF Authorize, identVars
  <2>2. c \notin effects /\ c \notin late /\ approval[c] = "none"
    BY <2>1 DEF FlowInv
  <2>3. \/ RequestApproval(c) /\ Goto(c, "denying") /\ UNCHANGED needs
        \/ Goto(c, "denying") /\ UNCHANGED <<approval, needs>>
        \/ Goto(c, "ruled") /\ needs' \in {needs, needs \cup {c}} /\ UNCHANGED approval
    BY <1>4, Zenon DEF Authorize
  <2>4. CASE RequestApproval(c) /\ Goto(c, "denying") /\ UNCHANGED needs
    <3>1. approval' = [d \in Calls |-> approval'[d]] /\ \A d \in Calls \ {c} : approval'[d] = approval[d]
      BY <1>1, <2>4 DEF RequestApproval
    <3> QED
      BY <2>1, <2>2, <2>4, <3>1, FlowMoves
  <2>5. CASE Goto(c, "denying") /\ UNCHANGED <<approval, needs>>
    BY <1>1, <2>1, <2>2, <2>5, FlowMoves
  <2>6. CASE Goto(c, "ruled") /\ needs' \in {needs, needs \cup {c}} /\ UNCHANGED approval
    BY <1>1, <2>1, <2>2, <2>6, FlowMoves
  <2> QED
    BY <2>3, <2>4, <2>5, <2>6
<1> QED
  BY <1>2, <1>3, <1>4

(* The budget checks and admission.                                        *)
LEMMA AdmissionKeepsFlow ==
    ASSUME FlowInv, UNCHANGED site, NEW c \in Calls,
           CanAfford(c) \/ Deny(c) \/ AdmitSql(c) \/ Reserve(c) \/ ConsumeMemory(c) \/ Cancel(c)
    PROVE  FlowInv'
<1>1. CASE CanAfford(c)
  <2>1. /\ pc[c] = "ruled" /\ UNCHANGED <<needs, late, approval, effects, audit>>
        /\ \E l \in {"denying", "previewed", "allowed"} : Goto(c, l)
    BY <1>1 DEF CanAfford, identVars
  <2>2. c \notin effects
    BY <2>1 DEF FlowInv
  <2> QED
    BY <2>1, <2>2, FlowPasses
<1>2. CASE Deny(c)
  <2>1. /\ pc[c] = "denying" /\ UNCHANGED <<needs, late, approval, effects>> /\ audit \subseteq audit'
        /\ \E l \in {"previewed", "denied"} : Goto(c, l)
    BY <1>2 DEF Deny, identVars, Record
  <2>2. c \notin effects
    BY <2>1 DEF FlowInv
  <2> QED
    BY <2>1, <2>2, FlowPasses
<1>3. CASE AdmitSql(c)
  <2>1. pc[c] = "allowed" /\ UNCHANGED <<needs, late, effects, audit>>
    BY <1>3 DEF AdmitSql, identVars
  <2>2. \/ Consume(c) /\ Goto(c, "admitted")
        \/ Goto(c, "denying") /\ UNCHANGED approval
    BY <1>3 DEF AdmitSql
  <2>3. c \notin effects
    BY <2>1 DEF FlowInv
  <2> QED
    BY <2>1, <2>2, <2>3, FlowPasses, FlowConsumes
<1>4. CASE Reserve(c)
  <2>1. /\ pc[c] = "allowed" /\ UNCHANGED <<needs, late, approval, effects, audit>>
        /\ site.backend = "memory" /\ \E l \in {"reserved", "denying"} : Goto(c, l)
    BY <1>4 DEF Reserve, identVars
  <2>2. c \notin effects
    BY <2>1 DEF FlowInv
  <2> QED
    BY <2>1, <2>2, FlowPasses
<1>5. CASE ConsumeMemory(c)
  <2>1. pc[c] = "reserved" /\ UNCHANGED <<needs, late, effects, audit>>
    BY <1>5 DEF ConsumeMemory, identVars
  <2>2. \/ Consume(c) /\ Goto(c, "admitted")
        \/ Goto(c, "denying") /\ UNCHANGED approval
    BY <1>5 DEF ConsumeMemory
  <2>3. c \notin effects
    BY <2>1 DEF FlowInv
  <2> QED
    BY <2>1, <2>2, <2>3, FlowPasses, FlowConsumes
<1>6. CASE Cancel(c)
  <2>1. /\ pc[c] = "admitted" /\ UNCHANGED <<needs, late, approval, effects, audit>>
        /\ Goto(c, "aborting")
    BY <1>6 DEF Cancel, identVars
  <2>2. c \notin effects
    BY <2>1 DEF FlowInv
  <2> QED
    BY <2>1, <2>2, FlowPasses
<1> QED
  BY <1>1, <1>2, <1>3, <1>4, <1>5, <1>6

(* Invocation and what follows it.                                         *)
LEMMA OutcomeKeepsFlow ==
    ASSUME FlowInv, UNCHANGED site, NEW c \in Calls,
           Abort(c) \/ Invoke(c) \/ Settle(c) \/ InvocationFailed(c) \/ AuditError(c) \/ Crash(c)
    PROVE  FlowInv'
<1>1. approval = [d \in Calls |-> approval[d]]
  BY DEF FlowInv
<1>2. ASSUME NEW o \in {"allow", "unknown", "error"}, Record(c, o)
      PROVE  audit \subseteq audit' /\ Told(c)'
  BY <1>2 DEF Record, Told
<1>3. CASE Abort(c)
  <2>1. /\ pc[c] = "aborting" /\ UNCHANGED <<needs, late, approval, effects>>
        /\ Record(c, "error") /\ Goto(c, "failed")
    BY <1>3 DEF Abort, identVars
  <2> QED
    BY <1>2, <2>1, FlowPasses
<1>4. CASE Invoke(c)
  <2>1. pc[c] = "admitted" /\ UNCHANGED <<needs, late, approval, audit>>
        /\ effects' \in {effects, effects \cup {c}}
    BY <1>4 DEF Invoke, identVars
  <2>2. PICK l \in {"returned", "raised"} : Goto(c, l)
    BY <1>4 DEF Invoke
  <2>3. c \notin late
    BY <2>1 DEF FlowInv
  <2> QED
    BY <1>1, <2>1, <2>2, <2>3, FlowMoves
<1>5. CASE Settle(c)
  <2>1. pc[c] = "returned" /\ UNCHANGED <<needs, late, approval, effects>>
    BY <1>5, Zenon DEF Settle, identVars
  <2>2. \/ Record(c, "allow") /\ Goto(c, "done")
        \/ audit' = audit /\ Goto(c, "raised")
    BY <1>5, Zenon DEF Settle
  <2> QED
    BY <1>2, <2>1, <2>2, FlowPasses
<1>6. CASE InvocationFailed(c)
  <2>1. pc[c] = "raised" /\ UNCHANGED <<needs, late, approval, effects>>
    BY <1>6 DEF InvocationFailed, identVars
  <2>2. \/ Record(c, "unknown") /\ Goto(c, "unknown")
        \/ audit' = audit /\ Goto(c, "erring")
    BY <1>6 DEF InvocationFailed
  <2> QED
    BY <1>2, <2>1, <2>2, FlowPasses
<1>7. CASE AuditError(c)
  <2>1. /\ pc[c] = "erring" /\ UNCHANGED <<needs, late, approval, effects>>
        /\ Record(c, "error") /\ Goto(c, "failed")
    BY <1>7 DEF AuditError, identVars
  <2> QED
    BY <1>2, <2>1, FlowPasses
<1>8. CASE Crash(c)
  <2>1. /\ pc[c] # "refused" /\ UNCHANGED <<needs, late, approval, effects, audit>>
        /\ Goto(c, "crashed")
    BY <1>8 DEF Crash, Finished, identVars
  <2> QED
    BY <2>1, FlowPasses
<1> QED
  BY <1>3, <1>4, <1>5, <1>6, <1>7, <1>8

(* Operators decide on pending requests only.                              *)
LEMMA RestKeepsFlow ==
    ASSUME FlowInv, UNCHANGED site,
           OperatorStep \/ (\E c \in Calls : Lock(c) \/ Expire(c)) \/ UNCHANGED vars
    PROVE  FlowInv'
<1>1. approval = [d \in Calls |-> approval[d]]
  BY DEF FlowInv
<1>2. ASSUME NEW c \in Calls, NEW status, Decide(c, status) PROVE FlowInv'
  <2>1. UNCHANGED <<pc, needs, late, effects, audit>> /\ approval[c] = "pending"
        /\ approval' = [approval EXCEPT ![c] = status]
    BY <1>2 DEF Decide, identVars
  <2>2. approval' = [d \in Calls |-> approval'[d]] /\ \A d \in Calls \ {c} : approval'[d] = approval[d]
    BY <1>1, <2>1
  <2> QED
    BY <2>1, <2>2, FlowRests
<1>3. ASSUME UNCHANGED <<pc, needs, late, approval, effects, audit>> PROVE FlowInv'
  BY <1>1, <1>3, FlowRests
<1>4. (\E c \in Calls : \E status : Decide(c, status))
      \/ UNCHANGED <<pc, needs, late, approval, effects, audit>>
  <2>1. CASE OperatorStep
    BY <2>1, Zenon DEF OperatorStep, RevokeRead, Register, RevokeWrite, SetBudget, MarkSensitive, AddRule,
                Approve, DenyApproval, identVars
  <2>2. CASE \E c \in Calls : Lock(c) \/ Expire(c)
    BY <2>2 DEF Lock, ReadRow, Expire, identVars
  <2>3. CASE UNCHANGED vars
    BY <2>3 DEF vars, identVars
  <2> QED
    BY <2>1, <2>2, <2>3
<1> QED
  BY <1>2, <1>3, <1>4

-----------------------------------------------------------------------------
(* The invariant.                                                          *)

(* A deployment begins without a budget row, with nothing admitted.        *)
LEMMA ControlInit == Init => BudgetInv /\ FlowInv
<1> SUFFICES ASSUME Init PROVE BudgetInv /\ FlowInv
  OBVIOUS
<1>1. /\ site \in Sites /\ pc = [d \in Calls |-> pc[d]] /\ \A d \in Calls : pc[d] \in {"denied", "idle"}
      /\ \A d \in Calls : seen[d] = None /\ seen = [c \in Calls |-> seen[c]]
      /\ needs = {} /\ late = {} /\ budget = None /\ acked = None /\ effects = {}
  BY DEF Init
<1>2. /\ approval = [c \in Calls |-> approval[c]]
      /\ \A d \in Calls : pc[d] = "idle" => approval[d] = "none"
  BY DEF Init
<1>3. Done = {}
  BY <1>1 DEF Done
<1>4. Fresh(DefaultLimit).spent = 0
  BY FreshGood
<1>5. Accounts(Seed(budget))
  BY <1>1, <1>3, <1>4, CostSumAssumption DEF Accounts, Seed, Charged
<1>6. seen = [c \in Calls |-> seen[c]]
  BY DEF Init
<1>7. BudgetInv
  BY <1>1, <1>5, <1>6 DEF BudgetInv, AckedLimitStands
<1>8. \A c \in Calls : Cardinality(Spending(c)) <= Cardinality(Consumed(c))
  <2> SUFFICES ASSUME NEW c \in Calls PROVE Cardinality(Spending(c)) <= Cardinality(Consumed(c))
    OBVIOUS
  <2>1. Spending(c) = {} /\ Consumed(c) \in SUBSET Calls
    BY <1>1 DEF Spending, Consumed
  <2>2. Cardinality(Consumed(c)) \in Nat
    BY <2>1, TokensCounted
  <2> QED
    BY <2>1, <2>2, FS_EmptySet
<1>9. FlowInv
  BY <1>1, <1>2, <1>8 DEF FlowInv
<1> QED
  BY <1>7, <1>9

(* Every step of a worker and of an operator keeps both parts.             *)
LEMMA ControlStep == BudgetInv /\ FlowInv /\ [Next]_vars => BudgetInv' /\ FlowInv'
<1> SUFFICES ASSUME BudgetInv, FlowInv, [Next]_vars PROVE BudgetInv' /\ FlowInv'
  OBVIOUS
<1>1. ASSUME NEW c \in Calls, WorkerStep(c), UNCHANGED site PROVE BudgetInv' /\ FlowInv'
  <2>1. BudgetInv'
    BY <1>1, QuietKeepsBudget, LockKeepsBudget, CanAffordKeepsBudget, AdmitKeepsBudget,
       SettleKeepsBudget, ExpireKeepsBudget DEF WorkerStep
  <2>2. FlowInv'
    BY <1>1, DecisionKeepsFlow, AdmissionKeepsFlow, OutcomeKeepsFlow, RestKeepsFlow DEF WorkerStep
  <2> QED
    BY <2>1, <2>2
<1>2. CASE OperatorStep /\ UNCHANGED site
  BY <1>2, OperatorKeepsBudget, RestKeepsFlow
<1>3. CASE UNCHANGED vars
  <2>1. UNCHANGED <<site, pc, budgetVars>>
    BY <1>3 DEF vars
  <2>2. TokensKept
    BY <2>1 DEF TokensKept, BudgetInv
  <2>3. BudgetInv'
    BY <2>1, <2>2, BudgetRests
  <2>4. FlowInv'
    BY <1>3, <2>1, RestKeepsFlow
  <2> QED
    BY <2>3, <2>4
<1>4. site.calls \subseteq Calls
  BY SitesAssumption DEF BudgetInv
<1> QED
  BY <1>1, <1>2, <1>3, <1>4 DEF Next

(* The two parts say what the properties say.                              *)
LEMMA ControlImplies == BudgetInv /\ FlowInv => ChargesKept /\ EffectsAuthorized
<1> SUFFICES ASSUME BudgetInv, FlowInv PROVE ChargesKept /\ EffectsAuthorized
  OBVIOUS
<1>1. WithinBudget
  BY DEF BudgetInv, GoodRow, WithinBudget
<1>2. NoChargeLost
  BY DEF BudgetInv, Accounts, Seed, Charged, Done, NoChargeLost
<1>3. EffectsRecorded
  BY DEF FlowInv, Told, EffectsRecorded, Finished
<1>4. NothingLeaks
  BY DEF BudgetInv, GoodRow, Held, Finished, NothingLeaks
<1>5. Atomic => AckedLimitStands
  BY DEF BudgetInv
<1>6. GrantPerEffect
  <2> SUFFICES ASSUME NEW c \in Calls
               PROVE  Cardinality({d \in effects \cap needs : ScopeOf[d] = ScopeOf[c]})
                          <= Cardinality(Consumed(c))
    BY DEF GrantPerEffect, Consumed
  <2> DEFINE S == {d \in effects \cap needs : ScopeOf[d] = ScopeOf[c]}
  <2>1. S \subseteq Spending(c) /\ Spending(c) \in SUBSET Calls /\ Consumed(c) \in SUBSET Calls
    BY DEF FlowInv, Spending, Consumed
  <2> HIDE DEF S
  <2>2. S \in SUBSET Calls /\ IsFiniteSet(Spending(c))
    BY <2>1, TokensCounted
  <2>3. Cardinality(S) <= Cardinality(Spending(c))
    BY <2>1, <2>2, FS_Subset
  <2>4. /\ Cardinality(S) \in Nat /\ Cardinality(Spending(c)) \in Nat /\ Cardinality(Consumed(c)) \in Nat
        /\ Cardinality(Spending(c)) <= Cardinality(Consumed(c))
    BY <2>1, <2>2, TokensCounted DEF FlowInv
  <2> QED
    BY <2>3, <2>4 DEF S
<1>7. RevokedRefused
  BY DEF FlowInv, RevokedRefused
<1> QED
  BY <1>1, <1>2, <1>3, <1>4, <1>5, <1>6, <1>7 DEF ChargesKept, EffectsAuthorized

(* gateway.py, budget.py and store.py: for any calls, costs, limits and    *)
(* deployments, whatever workers, crashes and operators interleave, the    *)
(* stored budget stays within its limits and accounts for every call.      *)
THEOREM ChargesAlwaysKept == Spec => []ChargesKept
<1>1. Init => BudgetInv /\ FlowInv
  BY ControlInit
<1>2. BudgetInv /\ FlowInv /\ [Next]_vars => (BudgetInv /\ FlowInv)'
  BY ControlStep
<1>3. BudgetInv /\ FlowInv => ChargesKept
  BY ControlImplies
<1> QED
  BY <1>1, <1>2, <1>3, PTL DEF Spec

(* approvals.py and identity.py: approved effects never outnumber the      *)
(* grants consumed for their request, and a call received after its agent  *)
(* was revoked has none.                                                   *)
THEOREM EffectsAlwaysAuthorized == Spec => []EffectsAuthorized
<1>1. Init => BudgetInv /\ FlowInv
  BY ControlInit
<1>2. BudgetInv /\ FlowInv /\ [Next]_vars => (BudgetInv /\ FlowInv)'
  BY ControlStep
<1>3. BudgetInv /\ FlowInv => EffectsAuthorized
  BY ControlImplies
<1> QED
  BY <1>1, <1>2, <1>3, PTL DEF Spec

=============================================================================
