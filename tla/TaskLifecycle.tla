--------------------------- MODULE TaskLifecycle ---------------------------
(***************************************************************************)
(* DurableTaskLifecycle: owner-scoped task snapshots with an append-only   *)
(* event history under three capacities: unfinished tasks of one owner,    *)
(* events of one task, and bytes of all events in the namespace.  Every    *)
(* operation is one transaction under the task advisory lock; in a tenant  *)
(* namespace SQL triggers repeat the two namespace-wide checks.            *)
(*                                                                         *)
(* An unfinished task holds bytes back for the events it must still be     *)
(* able to record.  Sizes are counted in units; TerminalBytes stands for   *)
(* _TERMINAL_EVENT_BYTES.                                                  *)
(***************************************************************************)
EXTENDS Integers, Sequences, FiniteSets, FiniteSetsExt, Functions

CONSTANTS
    Tasks, Owners, OwnerOf,  \* a task and the owner whose scope it is in
    Clients,                 \* embedding services that update tasks
    NoView,
    Sizes,                   \* sizes of encoded snapshots
    TerminalBytes,           \* _TERMINAL_EVENT_BYTES
    MaxActive, MaxEvents,    \* max_active_per_owner, max_events_per_task
    HistoryCaps, EventCaps   \* what operators may set the policies to

LifecycleAssumption ==
    /\ OwnerOf \in [Tasks -> Owners]
    /\ Sizes \subseteq 1..TerminalBytes
    /\ MaxActive >= 1 /\ MaxEvents >= 3

VARIABLES
    historyCap, eventCap,  \* the two policy rows; 0: not introduced yet
    state,                 \* the snapshot's state, "none" without a row
    events,                \* the states of the event rows, in sequence order
    bytes,                 \* the bytes those rows retain
    view                   \* what a client last read of a task

policyVars == <<historyCap, eventCap>>
rowVars == <<state, events, bytes>>
lifecycleVars == <<policyVars, rowVars, view>>

Terminal == {"completed", "failed", "canceled", "rejected"}
Paused == {"input-required", "auth-required"}
States == {"submitted", "working"} \cup Paused \cup Terminal

(* _TRANSITIONS.                                                           *)
Transitions(a) ==
    CASE a = "submitted" -> States \ {"submitted", "completed"}
      [] a = "working" -> States \ {"submitted", "working"}
      [] a = "input-required" -> {"working", "canceled", "failed"}
      [] a = "auth-required" -> {"working", "canceled", "rejected", "failed"}
      [] OTHER -> {}

(* TaskLifecycle.transition; the caller passes the next sequence.          *)
Legal(a, b) == b \in Transitions(a)

Created == {t \in Tasks : state[t] # "none"}
Unfinished(o) == {t \in Created : OwnerOf[t] = o /\ state[t] \notin Terminal}
Sequence(t) == Len(events[t]) - 1

Init ==
    /\ historyCap = 0 /\ eventCap = 0
    /\ state = [t \in Tasks |-> "none"]
    /\ events = [t \in Tasks |-> <<>>]
    /\ bytes = [t \in Tasks |-> 0]
    /\ view = [c \in Clients |-> NoView]

-----------------------------------------------------------------------------
(* Byte accounting.                                                        *)

(* Fault variant: a waiting task reserves nothing.                         *)
EventReserveShort(s) ==
    IF s \in Terminal \cup Paused \cup {"none"} THEN 0 ELSE 2 * TerminalBytes

(* _event_reserve: a waiting status and a terminal one, or the latter only. *)
EventReserve(s) ==
    CASE s \in Terminal \cup {"none"} -> 0
      [] s \in Paused -> TerminalBytes
      [] OTHER -> 2 * TerminalBytes

(* _event_usage: sums over the retained rows, not a counter.               *)
Used == SumFunction(bytes)
Reserved == MapThenSumSet(LAMBDA t : EventReserve(state[t]), Tasks)

(* _check_event_append, for a task that moves to state s.                  *)
CheckEventAppend(t, s, size) ==
    /\ size <= TerminalBytes
    /\ Used + size + Reserved + EventReserve(s) - EventReserve(state[t]) <= eventCap

(* The INSERT triggers: of the snapshot table with the new row's reserve   *)
(* added, of the event table with the reserve of the row it follows        *)
(* exchanged.  The first event of a task follows its own snapshot.         *)
SnapshotTrigger(s, size) ==
    Used + Reserved + EventReserve(s) + size <= eventCap
EventTrigger(t, s, size) ==
    Used + Reserved + EventReserve(s) - EventReserve(state[t]) + size <= eventCap

(* Fault variant: every event may take the last slot.                      *)
SlotFreeToAll(t, s) == Len(events[t]) < MaxEvents

(* The event-count limit keeps the last slot for a terminal event.         *)
SlotFree(t, s) ==
    /\ Len(events[t]) < MaxEvents
    /\ s \in Terminal \/ Len(events[t]) < MaxEvents - 1

-----------------------------------------------------------------------------
(* _bootstrap_event_capacity fails if the retained history does not fit.   *)
EventsFit(e) == Used + Reserved <= e

(* The constructor introduces the two policies together, or neither.       *)
Bootstrap(h, e) ==
    /\ historyCap = 0 /\ eventCap = 0
    /\ EventsFit(e)
    /\ historyCap' = h /\ eventCap' = e
    /\ UNCHANGED <<rowVars, view>>

(* Fault variant: the historical tasks of other owners are not counted.    *)
CreateUncounted(t, size) ==
    /\ eventCap > 0 /\ state[t] = "none"
    /\ Cardinality(Unfinished(OwnerOf[t])) < MaxActive
    /\ CheckEventAppend(t, "submitted", size)
    /\ state' = [state EXCEPT ![t] = "submitted"]
    /\ events' = [events EXCEPT ![t] = <<"submitted">>]
    /\ bytes' = [bytes EXCEPT ![t] = size]
    /\ UNCHANGED <<policyVars, view>>

(* The INSERT trigger that holds older workers to the history capacity.    *)
HistoryTrigger == Cardinality(Created) < historyCap

(* create: a new identity, within the history, active and byte capacities. *)
Create(t, size) ==
    /\ eventCap > 0 /\ state[t] = "none"
    /\ Cardinality(Created) < historyCap /\ HistoryTrigger
    /\ Cardinality(Unfinished(OwnerOf[t])) < MaxActive
    /\ CheckEventAppend(t, "submitted", size) /\ SnapshotTrigger("submitted", size)
    /\ state' = [state EXCEPT ![t] = "submitted"]
    /\ events' = [events EXCEPT ![t] = <<"submitted">>]
    /\ bytes' = [bytes EXCEPT ![t] = size]
    /\ UNCHANGED <<policyVars, view>>

(* get: a client reads a snapshot of its owner.                            *)
Read(c, t) ==
    /\ state[t] # "none"
    /\ view' = [view EXCEPT ![c] = [task |-> t, state |-> state[t], sequence |-> Sequence(t)]]
    /\ UNCHANGED <<policyVars, rowVars>>

(* Fault variant: the sequence the client expects is not compared.         *)
FreshUnchecked(v) == TRUE

(* transition compares the caller's expected_sequence with the snapshot's. *)
Fresh(v) == v.sequence = Sequence(v.task)

(* What transition checks before it writes.                                *)
Admitted(t, s, size) ==
    /\ Legal(state[t], s)
    /\ SlotFree(t, s)
    /\ CheckEventAppend(t, s, size) /\ EventTrigger(t, s, size)

(* Fault variant: the event is appended, the snapshot is not updated.      *)
TransitionEventOnly(c, s, size) ==
    /\ view[c] # NoView
    /\ LET t == view[c].task IN
       /\ Fresh(view[c]) /\ Admitted(t, s, size)
       /\ UNCHANGED state
       /\ events' = [events EXCEPT ![t] = Append(@, s)]
       /\ bytes' = [bytes EXCEPT ![t] = @ + size]
       /\ view' = [view EXCEPT ![c] = [task |-> t, state |-> s, sequence |-> Len(events[t])]]
    /\ UNCHANGED policyVars

(* Fault variant: a replaced snapshot is credited.                         *)
TransitionRefunds(c, s, size) ==
    /\ view[c] # NoView
    /\ LET t == view[c].task IN
       /\ Fresh(view[c]) /\ Admitted(t, s, size)
       /\ state' = [state EXCEPT ![t] = s]
       /\ events' = [events EXCEPT ![t] = Append(@, s)]
       /\ bytes' = [bytes EXCEPT ![t] = @ - size]
       /\ view' = [view EXCEPT ![c] = [task |-> t, state |-> s, sequence |-> Len(events[t])]]
    /\ UNCHANGED policyVars

(* transition and cancel: event row and snapshot row in one transaction;   *)
(* the client receives the updated snapshot.                               *)
Transition(c, s, size) ==
    /\ view[c] # NoView
    /\ LET t == view[c].task IN
       /\ Fresh(view[c]) /\ Admitted(t, s, size)
       /\ state' = [state EXCEPT ![t] = s]
       /\ events' = [events EXCEPT ![t] = Append(@, s)]
       /\ bytes' = [bytes EXCEPT ![t] = @ + size]
       /\ view' = [view EXCEPT ![c] = [task |-> t, state |-> s, sequence |-> Len(events[t])]]
    /\ UNCHANGED policyVars

(* A stale sequence: the client has to read again.                         *)
TransitionStale(c) ==
    /\ view[c] # NoView /\ ~Fresh(view[c])
    /\ view' = [view EXCEPT ![c] = NoView]
    /\ UNCHANGED <<policyVars, rowVars>>

(* set_history_capacity never falls below the retained tasks.              *)
SetHistoryCapacity(n) ==
    /\ historyCap > 0 /\ n >= Cardinality(Created)
    /\ historyCap' = n
    /\ UNCHANGED <<eventCap, rowVars, view>>

(* Fault variant: only the retained bytes limit a decrease.                *)
SetEventCapacityUnreserved(n) ==
    /\ eventCap > 0 /\ n >= Used
    /\ eventCap' = n
    /\ UNCHANGED <<historyCap, rowVars, view>>

(* set_event_capacity never falls below retained bytes and reservations.   *)
SetEventCapacity(n) ==
    /\ eventCap > 0 /\ n >= Used + Reserved
    /\ eventCap' = n
    /\ UNCHANGED <<historyCap, rowVars, view>>

-----------------------------------------------------------------------------
Operator ==
    \/ \E h \in HistoryCaps, e \in EventCaps : Bootstrap(h, e)
    \/ \E h \in HistoryCaps : SetHistoryCapacity(h)
    \/ \E e \in EventCaps : SetEventCapacity(e)

Service ==
    \/ \E t \in Tasks, size \in Sizes : Create(t, size)
    \/ \E c \in Clients, t \in Tasks : Read(c, t)
    \/ \E c \in Clients, s \in States, size \in Sizes : Transition(c, s, size)
    \/ \E c \in Clients : TransitionStale(c)

Next == Operator \/ Service

Spec == Init /\ [][Next]_lifecycleVars

-----------------------------------------------------------------------------
(* The policies, the snapshots, the events and what clients have read of   *)
(* DurableTaskLifecycle have their types.                                  *)
TypeOK ==
    /\ historyCap \in HistoryCaps \cup {0} /\ eventCap \in EventCaps \cup {0}
    /\ state \in [Tasks -> States \cup {"none"}]
    /\ \A t \in Tasks : events[t] \in Seq(States) /\ bytes[t] \in Nat
    /\ view \in [Clients -> {NoView} \cup [task : Tasks, state : States, sequence : Nat]]

(* "Reserve the final event slot so a saturated task can still terminate": *)
(* whatever other tasks and capacity changes have taken, an unfinished     *)
(* task can record every end the lifecycle allows, at any size, past the   *)
(* application's checks and the triggers; and a task that is not waiting   *)
(* has the bytes to wait first.                                            *)
RoomToEnd ==
    \A t \in Created, size \in Sizes :
        /\ \A s \in Terminal : Legal(state[t], s) => Admitted(t, s, size)
        /\ \A s \in Paused : (state[t] \notin Paused /\ Legal(state[t], s)) =>
              CheckEventAppend(t, s, size) /\ EventTrigger(t, s, size)

(* No sequence of admissions, events and policy changes exceeds a policy:  *)
(* retained tasks, unfinished tasks of an owner, and retained plus         *)
(* reserved bytes, so a restart never finds history that does not fit.     *)
CapacityKept ==
    eventCap > 0 =>
        /\ Cardinality(Created) <= historyCap
        /\ \A o \in Owners : Cardinality(Unfinished(o)) <= MaxActive
        /\ Used + Reserved <= eventCap

(* Status replay: the retained events are a legal history from submitted   *)
(* to the state of the snapshot, with nothing after an end.                *)
HistoryReplays ==
    \A t \in Created :
        /\ Head(events[t]) = "submitted" /\ events[t][Len(events[t])] = state[t]
        /\ \A i \in 1..Len(events[t]) - 1 : Legal(events[t][i], events[t][i + 1])

(* Compare-and-update: an update is applied only to the very state its     *)
(* client read, whatever other clients committed in between; and history   *)
(* is only ever extended, by one event.                                    *)
NoLostUpdate ==
    \A t \in Created : events'[t] # events[t] =>
        /\ SubSeq(events'[t], 1, Len(events[t])) = events[t]
        /\ Len(events'[t]) = Len(events[t]) + 1
        /\ \E c \in Clients : /\ view[c] # NoView /\ view'[c] # view[c]
                              /\ view[c].task = t /\ view[c].state = state[t]

=============================================================================
