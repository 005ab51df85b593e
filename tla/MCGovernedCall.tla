--------------------------- MODULE MCGovernedCall ---------------------------
(* Instances of GovernedCall for TLC.                                      *)
EXTENDS GovernedCall, FiniteSetsExt, TLC

CONSTANTS c1, c2, c3, a1, o1, o2, k1, s1, s2

(* The sum of the costs of a set of calls.                                 *)
MCCostSum == [S \in SUBSET Calls |-> MapThenSumSet(LAMBDA c : CostOf[c], S)]

(* Two attempts at one operation, and a call without an operation_id.      *)
RetryAgent == c1 :> a1 @@ c2 :> a1 @@ c3 :> a1
RetryOp    == c1 :> o1 @@ c2 :> o1 @@ c3 :> NoOp
RetryCap   == c1 :> k1 @@ c2 :> k1 @@ c3 :> k1
RetryCost  == c1 :> 2 @@ c2 :> 2 @@ c3 :> 1
RetryScope == c1 :> s1 @@ c2 :> s1 @@ c3 :> s2

(* Two operations of one agent that compete for one budget.                *)
ShareAgent == c1 :> a1 @@ c2 :> a1
ShareOp    == c1 :> o1 @@ c2 :> o2
ShareCap   == c1 :> k1 @@ c2 :> k1
ShareCost  == c1 :> 1 @@ c2 :> 2
ShareScope == c1 :> s1 @@ c2 :> s2

=============================================================================
