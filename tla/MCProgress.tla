----------------------------- MODULE MCProgress -----------------------------
(***************************************************************************)
(* What must eventually happen, for the three components in which somebody *)
(* waits: followers of a task (TaskStreams), streams that hold a slot of   *)
(* their process (StreamLease), and requests that wait for a signing key   *)
(* (OperatorKeys).  They share no state; the scene says which of them this *)
(* behaviour is about, and the variables of the others are off.            *)
(***************************************************************************)
EXTENDS Integers, FiniteSets, TLC

CONSTANTS t1, o1, o2, c1, NoView, tenant, a2a, s1, s3, a1, p1, p2, k1, r1, r2

VARIABLES
    scene,
    historyCap, eventCap, state, events, bytes, view,
    wpc, cursor, page, wire, got, drops,
    now, revoked, revokedAt, rows, expires, deadline, total, perOwner, holding, calls, pc,
    clock, idp, published, jwks, attempt, holder, thread, fetches, latest, returned

followVars == <<historyCap, eventCap, state, events, bytes, view,
                wpc, cursor, page, wire, got, drops>>
slotVars == <<now, revoked, revokedAt, rows, expires, deadline,
              total, perOwner, holding, calls, pc>>
keyVars == <<clock, idp, published, jwks, attempt, holder, thread, fetches, latest, returned>>
vars == <<scene, followVars, slotVars, keyVars>>

Off == "off"
FollowOff ==
    /\ historyCap = Off /\ eventCap = Off /\ state = Off /\ events = Off /\ bytes = Off
    /\ view = Off /\ wpc = Off /\ cursor = Off /\ page = Off /\ wire = Off /\ got = Off
    /\ drops = Off
SlotsOff ==
    /\ now = Off /\ revoked = Off /\ revokedAt = Off /\ rows = Off /\ expires = Off
    /\ deadline = Off /\ total = Off /\ perOwner = Off /\ holding = Off /\ calls = Off
    /\ pc = Off
KeysOff ==
    /\ clock = Off /\ idp = Off /\ published = Off /\ jwks = Off /\ attempt = Off
    /\ holder = Off /\ thread = Off /\ fetches = Off /\ latest = Off /\ returned = Off

-----------------------------------------------------------------------------
(* The tenant stream and the A2A observer follow one task of at most three *)
(* events, in pages of two; one connection is lost.                        *)
Watchers == {tenant, a2a}
Follow == INSTANCE TaskStreams WITH
    Tasks <- {t1}, Owners <- {o1}, OwnerOf <- [t \in {t1} |-> o1], Clients <- {c1},
    Sizes <- {1}, TerminalBytes <- 1, MaxActive <- 1, MaxEvents <- 3,
    HistoryCaps <- {1}, EventCaps <- {8}, TaskOf <- [w \in Watchers |-> t1],
    KindOf <- [w \in Watchers |-> IF w = tenant THEN "tenant" ELSE "a2a"],
    PageSize <- 2, MaxDrops <- 1

(* Two tenant streams of two owners in one process, and an observer in     *)
(* another; every limit is one.                                            *)
SlotStreams == {s1, s3, a1}
Slots == INSTANCE StreamLease WITH
    Streams <- SlotStreams, Procs <- {p1, p2}, Tenants <- {t1}, Owners <- {o1, o2},
    ProcOf <- [s \in SlotStreams |-> IF s = a1 THEN p2 ELSE p1],
    TenantOf <- [s \in SlotStreams |-> t1],
    OwnerOf <- [s \in SlotStreams |-> IF s = s3 THEN o2 ELSE o1],
    Leased <- {s1, s3}, MaxStreams <- 1, MaxPerTenant <- 1, MaxPerOwner <- 1,
    LeaseLife <- 1, MaxLife <- 1, LocalMax <- 1, LocalOwnerMax <- 1, MaxTime <- 1

(* Two request threads and one key.                                        *)
Threads == {r1, r2}
Keys == INSTANCE OperatorKeys WITH
    Kids <- {k1}, TTL <- 2, MinRefresh <- 2, FetchTime <- 1, MaxClock <- 4

ASSUME Instances ==
    /\ Follow!LifecycleAssumption /\ Follow!StreamsAssumption
    /\ Slots!StreamsAssumption /\ Slots!LimitsAssumption
    /\ Keys!KeysAssumption

-----------------------------------------------------------------------------
Init ==
    \/ scene = "follow" /\ Follow!StreamInit /\ SlotsOff /\ KeysOff
    \/ scene = "slots" /\ Slots!Init /\ FollowOff /\ KeysOff
    \/ scene = "keys" /\ Keys!KeysInit /\ FollowOff /\ SlotsOff

InFollow(A) == scene = "follow" /\ A /\ UNCHANGED <<scene, slotVars, keyVars>>
InSlots(A) == scene = "slots" /\ A /\ UNCHANGED <<scene, followVars, keyVars>>
InKeys(A) == scene = "keys" /\ A /\ UNCHANGED <<scene, followVars, slotVars>>

Next ==
    \/ InFollow(Follow!StreamNext)
    \/ InSlots(Slots!Next)
    \/ InKeys(Keys!KeysNext)

(* A client that follows a task reconnects and its server keeps polling;   *)
(* threads of a stream finish, the timeout on its response fires and its   *)
(* finally clauses run; a thread gets a lock that is free again and again, *)
(* and a fetch ends by its timeout.                                        *)
Fairness ==
    /\ \A w \in Watchers : WF_vars(InFollow(Follow!Follow(w)))
    /\ \A s \in SlotStreams : WF_vars(InSlots(Slots!Serve(s)))
    /\ \A t \in Threads : /\ SF_vars(InKeys(Keys!Lookup(t)))
                          /\ WF_vars(InKeys(Keys!FailFetch(t) \/ Keys!Install(t)))

Spec == Init /\ [][Next]_vars /\ Fairness

-----------------------------------------------------------------------------
(* "A state change between the empty page and this read must still be      *)
(* replayed on the next poll, including its final event": a stream that    *)
(* ends by itself has sent the event that finished the interaction; and a  *)
(* client consumes the events in durable order without a gap or a          *)
(* repetition, across lost connections and pages.                          *)
ReplayedToTheEnd ==
    /\ [](scene = "follow" => Follow!EndIsTold)
    /\ [][scene = "follow" => Follow!ReplayInOrder]_vars

(* Whoever follows a task learns how it ended, across lost connections.    *)
EndIsLearned ==
    \A w \in Watchers :
        (scene = "follow" /\ Follow!Over(w)) ~> (scene = "follow" => Follow!Learned(w))

(* Every slot of a process is given back, however its stream ends.         *)
SlotReturned ==
    \A s \in SlotStreams :
        (scene = "slots" /\ s \in holding) ~> (scene = "slots" => s \notin holding)

(* Every lookup is answered: a slow or failing provider holds the lock for *)
(* a while, not the other requests for ever.                               *)
LookupsAnswered ==
    \A t \in Threads :
        (scene = "keys" /\ thread[t].pc = "waiting")
            ~> (scene = "keys" => thread[t].pc = "idle")

(* Nobody waits for ever: the three together.                              *)
EveryWaitEnds == EndIsLearned /\ SlotReturned /\ LookupsAnswered

=============================================================================
