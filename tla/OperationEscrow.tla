--------------------------- MODULE OperationEscrow ---------------------------
(***************************************************************************)
(* What the gateway promises of an operation, without saying how: its cost *)
(* is put in escrow before the operation can be performed, it is performed *)
(* at most once and only by the call that holds the escrow, and the escrow *)
(* is charged or released exactly once, within the agent's limit.          *)
(***************************************************************************)
EXTENDS Naturals

CONSTANTS Calls, Agents, Ops, AgentOf, OpOf, CostOf, CostSum, Limits, NoCall

VARIABLES
    limit, spent,  \* what each agent may spend and has spent
    held,          \* the calls whose cost is in escrow, for each agent
    phase,         \* none, held, charged or released, for each operation
    holder,        \* the call that holds, or held, an operation's escrow
    performed      \* the calls that were performed

vars == <<limit, spent, held, phase, holder, performed>>

Init ==
    /\ limit \in [Agents -> Limits]
    /\ spent = [a \in Agents |-> 0]
    /\ held = [a \in Agents |-> {}]
    /\ phase = [o \in Ops |-> "none"]
    /\ holder = [o \in Ops |-> NoCall]
    /\ performed = {}

Exposure(a) == spent[a] + CostSum[held[a]]

(* Put the cost of call c in escrow for its operation.                     *)
Hold(c) ==
    LET a == AgentOf[c] IN
    /\ OpOf[c] \in Ops /\ phase[OpOf[c]] = "none"
    /\ Exposure(a) + CostOf[c] <= limit[a]
    /\ held' = [held EXCEPT ![a] = @ \cup {c}]
    /\ phase' = [phase EXCEPT ![OpOf[c]] = "held"]
    /\ holder' = [holder EXCEPT ![OpOf[c]] = c]
    /\ UNCHANGED <<limit, spent, performed>>

(* Perform the operation, once, as its holder.                             *)
Perform(c) ==
    /\ OpOf[c] \in Ops /\ holder[OpOf[c]] = c
    /\ c \notin performed
    /\ performed' = performed \cup {c}
    /\ UNCHANGED <<limit, spent, held, phase, holder>>

(* Close the escrow of operation o, charging it or giving it back.         *)
Close(o, outcome) ==
    LET c == holder[o]
        a == AgentOf[c] IN
    /\ phase[o] = "held" /\ c \in held[a]
    /\ phase' = [phase EXCEPT ![o] = outcome]
    /\ held' = [held EXCEPT ![a] = @ \ {c}]
    /\ spent' = IF outcome = "charged" THEN [spent EXCEPT ![a] = @ + CostOf[c]] ELSE spent
    /\ UNCHANGED <<limit, holder, performed>>

SetLimit(a, l) ==
    /\ l >= Exposure(a)
    /\ limit' = [limit EXCEPT ![a] = l]
    /\ UNCHANGED <<spent, held, phase, holder, performed>>

Next ==
    \/ \E c \in Calls : Hold(c) \/ Perform(c)
    \/ \E o \in Ops, outcome \in {"charged", "released"} : Close(o, outcome)
    \/ \E a \in Agents, l \in Limits : SetLimit(a, l)

Spec == Init /\ [][Next]_vars

=============================================================================
