----------------------------- MODULE OneShotTask -----------------------------
(***************************************************************************)
(* What queued execution promises of a task, without saying how: its cost  *)
(* is held before anything is decided, exactly one of "attempt" and        *)
(* "closed" is ever decided, only a decided attempt has an effect, at most *)
(* once, and the hold is charged only for an effect and given back only    *)
(* when the task was closed and can have none.                             *)
(***************************************************************************)
CONSTANT Tasks

VARIABLES
    hold,      \* none, held, charged or released
    decision,  \* none, attempt or closed
    done       \* the tasks whose effect happened

vars == <<hold, decision, done>>

Init ==
    /\ hold = [t \in Tasks |-> "none"]
    /\ decision = [t \in Tasks |-> "none"]
    /\ done = {}

Hold(t) ==
    /\ hold[t] = "none"
    /\ hold' = [hold EXCEPT ![t] = "held"]
    /\ UNCHANGED <<decision, done>>

(* Close the task and give its hold back, in one step.                     *)
Close(t) ==
    /\ hold[t] = "held" /\ decision[t] = "none"
    /\ decision' = [decision EXCEPT ![t] = "closed"]
    /\ hold' = [hold EXCEPT ![t] = "released"]
    /\ UNCHANGED done

Attempt(t) ==
    /\ hold[t] = "held" /\ decision[t] = "none"
    /\ decision' = [decision EXCEPT ![t] = "attempt"]
    /\ UNCHANGED <<hold, done>>

Perform(t) ==
    /\ decision[t] = "attempt" /\ t \notin done
    /\ done' = done \cup {t}
    /\ UNCHANGED <<hold, decision>>

Charge(t) ==
    /\ hold[t] = "held" /\ decision[t] = "attempt" /\ t \in done
    /\ hold' = [hold EXCEPT ![t] = "charged"]
    /\ UNCHANGED <<decision, done>>

Next == \E t \in Tasks : Hold(t) \/ Close(t) \/ Attempt(t) \/ Perform(t) \/ Charge(t)

Spec == Init /\ [][Next]_vars

=============================================================================
