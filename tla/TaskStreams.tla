---------------------------- MODULE TaskStreams ----------------------------
(***************************************************************************)
(* Readers of one task's event history: the SDK iterator watch, the        *)
(* tenant's event stream and the A2A status observer.  Each polls pages of *)
(* events after its cursor and decides by itself when the history is over. *)
(* A connection may be lost at any time, with what was sent and not yet    *)
(* consumed; its client reconnects with the last event it consumed.        *)
(***************************************************************************)
EXTENDS TaskLifecycle

CONSTANTS
    Watchers,      \* clients that follow a task
    TaskOf,        \* the task each follows
    KindOf,        \* "sdk", "tenant" or "a2a": the code that serves it
    PageSize,      \* page_size
    MaxDrops       \* bound: connections lost

StreamsAssumption ==
    /\ TaskOf \in [Watchers -> Tasks]
    /\ KindOf \in [Watchers -> {"sdk", "tenant", "a2a"}]

VARIABLES
    wpc,       \* "closed", "poll", "send", "quiet" or "ended"
    cursor,    \* the sequence the server sent last
    page,      \* fetched, not sent: the sequences of one page
    wire,      \* sent, not consumed
    got,       \* the sequence the client consumed last, -1 before the first
    drops      \* connections lost so far

streamVars == <<wpc, cursor, page, wire, got, drops>>
vars == <<lifecycleVars, streamVars>>

StreamInit ==
    /\ Init
    /\ wpc = [w \in Watchers |-> "closed"]
    /\ cursor = [w \in Watchers |-> -1] /\ got = [w \in Watchers |-> -1]
    /\ page = [w \in Watchers |-> <<>>] /\ wire = [w \in Watchers |-> <<>>]
    /\ drops = 0

(* What ends an interaction: for the SDK a terminal state, for the two     *)
(* streams a waiting one as well (_finished).                              *)
Finished(w, s) == s \in Terminal \/ (KindOf[w] # "sdk" /\ s \in Paused)

(* The state recorded by the event with sequence n.                        *)
StateAt(w, n) == events[TaskOf[w]][n + 1]

(* Fault variant: the observer refuses every interaction that is over.     *)
OpenRefusesFinished(w) ==
    /\ wpc[w] \in {"closed", "ended"} /\ wire[w] = <<>>
    /\ TaskOf[w] \in Created
    /\ ~Finished(w, state[TaskOf[w]])
    /\ wpc' = [wpc EXCEPT ![w] = "poll"]
    /\ cursor' = [cursor EXCEPT ![w] = got[w]]
    /\ UNCHANGED <<lifecycleVars, page, wire, got, drops>>

(* _parse_cursor: Last-Event-ID names the last event consumed, or nothing. *)
ParseCursor(w) == got[w]

(* A client connects with the last event it consumed; the observer refuses *)
(* an interaction that has no subsequent events.                           *)
Open(w) ==
    /\ wpc[w] \in {"closed", "ended"} /\ wire[w] = <<>>
    /\ TaskOf[w] \in Created
    /\ wpc[w] = "ended" => ~(KindOf[w] = "sdk") /\ StateAt(w, got[w]) \notin Terminal
    /\ (KindOf[w] = "a2a" /\ ParseCursor(w) = Sequence(TaskOf[w])) => ~Finished(w, state[TaskOf[w]])
    /\ wpc' = [wpc EXCEPT ![w] = "poll"]
    /\ cursor' = [cursor EXCEPT ![w] = ParseCursor(w)]
    /\ UNCHANGED <<lifecycleVars, page, wire, got, drops>>

(* Fault variant: a page starts at the cursor, not after it.               *)
EventsAfterInclusive(w) ==
    LET t == TaskOf[w]
        from == IF cursor[w] < 0 THEN 0 ELSE cursor[w]
        to == Min({Sequence(t), from + PageSize - 1}) IN
    [i \in 1..(to - from + 1) |-> from + i - 1]

(* events: the sequences after the cursor, at most a page of them.         *)
EventsAfter(w) ==
    LET to == Min({Sequence(TaskOf[w]), cursor[w] + PageSize}) IN
    [i \in 1..(to - cursor[w]) |-> cursor[w] + i]

(* One poll.  An empty page makes watch and the tenant stream look at the  *)
(* snapshot in a second transaction; the observer just polls again.        *)
Poll(w) ==
    /\ wpc[w] = "poll"
    /\ page' = [page EXCEPT ![w] = EventsAfter(w)]
    /\ wpc' = [wpc EXCEPT ![w] = IF EventsAfter(w) # <<>> THEN "send"
                                 ELSE IF KindOf[w] = "a2a" THEN "poll" ELSE "quiet"]
    /\ UNCHANGED <<lifecycleVars, cursor, wire, got, drops>>

(* One event of the page is sent, or yielded to the iterator's consumer;   *)
(* the one that finishes the interaction ends the stream, whatever is left *)
(* of the page.                                                            *)
Send(w) ==
    LET n == Head(page[w]) IN
    /\ wpc[w] = "send"
    /\ cursor' = [cursor EXCEPT ![w] = n]
    /\ IF KindOf[w] = "sdk"
       THEN got' = [got EXCEPT ![w] = n] /\ wire' = wire
       ELSE wire' = [wire EXCEPT ![w] = Append(@, n)] /\ got' = got
    /\ page' = [page EXCEPT ![w] = IF Finished(w, StateAt(w, n)) THEN <<>> ELSE Tail(@)]
    /\ wpc' = [wpc EXCEPT ![w] = IF Finished(w, StateAt(w, n)) THEN "ended"
                                 ELSE IF Len(page[w]) = 1 THEN "poll" ELSE "send"]
    /\ UNCHANGED <<lifecycleVars, drops>>

(* Fault variant: the tenant stream trusts the snapshot's state alone.     *)
QuietStateOnly(w) == Finished(w, state[TaskOf[w]])

(* The snapshot says that nothing will follow.  The tenant stream compares *)
(* its sequence with the cursor: a state change since the empty page is    *)
(* still to be replayed.  watch looks at the state alone.                  *)
QuietEnd(w) ==
    /\ Finished(w, state[TaskOf[w]])
    /\ KindOf[w] = "tenant" => Sequence(TaskOf[w]) = cursor[w]

CheckQuiet(w) ==
    /\ wpc[w] = "quiet"
    /\ wpc' = [wpc EXCEPT ![w] = IF QuietEnd(w) THEN "ended" ELSE "poll"]
    /\ UNCHANGED <<lifecycleVars, cursor, page, wire, got, drops>>

Consume(w) ==
    /\ wire[w] # <<>>
    /\ got' = [got EXCEPT ![w] = Head(wire[w])]
    /\ wire' = [wire EXCEPT ![w] = Tail(@)]
    /\ UNCHANGED <<lifecycleVars, wpc, cursor, page, drops>>

(* Disconnect, bounded lifetime, failed authorization, lost allocation, a  *)
(* SQL error or a stalled send: the stream stops, what is in flight is     *)
(* lost.                                                                   *)
Drop(w) ==
    /\ drops < MaxDrops /\ (wpc[w] \notin {"closed", "ended"} \/ wire[w] # <<>>)
    /\ drops' = drops + 1
    /\ wpc' = [wpc EXCEPT ![w] = "closed"]
    /\ page' = [page EXCEPT ![w] = <<>>] /\ wire' = [wire EXCEPT ![w] = <<>>]
    /\ UNCHANGED <<lifecycleVars, cursor, got>>

Follow(w) == Open(w) \/ Poll(w) \/ Send(w) \/ CheckQuiet(w) \/ Consume(w)

StreamNext ==
    \/ Next /\ UNCHANGED streamVars
    \/ \E w \in Watchers : Follow(w) \/ Drop(w)

StreamSpec == StreamInit /\ [][StreamNext]_vars

-----------------------------------------------------------------------------
(* Replay: a client consumes the events one by one in durable order,       *)
(* and what is in flight follows it without a gap or a repetition, across  *)
(* lost connections and pages.                                             *)
ReplayInOrder ==
    \A w \in Watchers :
        /\ got'[w] # got[w] => got'[w] = got[w] + 1
        /\ \A i \in DOMAIN wire'[w] : wire'[w][i] = got'[w] + i

(* "A state change between the empty page and this read must still be      *)
(* replayed on the next poll, including its final event": a stream that    *)
(* ends by itself has sent the event that finished the interaction.        *)
EndIsTold ==
    \A w \in Watchers : wpc[w] = "ended" =>
        cursor[w] >= 0 /\ Finished(w, StateAt(w, cursor[w]))

(* The task is over, and its follower has learned how it ended.            *)
Over(w) == state[TaskOf[w]] \in Terminal
Learned(w) == got[w] = Sequence(TaskOf[w])

=============================================================================
