---------------------------- MODULE StreamLease ----------------------------
(***************************************************************************)
(* Admission of status streams.  A stream first takes a slot of its own    *)
(* process (_Streams), then, for tenants, an allocation that the whole     *)
(* fleet shares (DurableStreamLeases): a row with an expiry by database    *)
(* time that each send renews.  Clients leave while SQL is still running,  *)
(* cleanup fails, owners are revoked, and processes die with their slots.  *)
(***************************************************************************)
EXTENDS Naturals, FiniteSets

CONSTANTS
    Streams,                         \* requests, each with an identity of its own
    Procs, Tenants, Owners,
    ProcOf, TenantOf, OwnerOf,
    Leased,                          \* the tenant streams; others are observers
    MaxStreams, MaxPerTenant, MaxPerOwner, \* FleetStreamLimits
    LeaseLife, MaxLife,              \* lease_seconds, max_seconds
    LocalMax, LocalOwnerMax,         \* StreamLimits
    MaxTime                          \* bound: the last instant of the clock

StreamsAssumption ==
    /\ IsFiniteSet(Streams) /\ Leased \subseteq Streams
    /\ ProcOf \in [Streams -> Procs] /\ TenantOf \in [Streams -> Tenants]
    /\ OwnerOf \in [Streams -> Owners]
    /\ \A s, r \in Streams : OwnerOf[s] = OwnerOf[r] => TenantOf[s] = TenantOf[r]

LimitsAssumption ==
    /\ MaxStreams \in Nat /\ MaxPerTenant \in Nat /\ MaxPerOwner \in Nat
    /\ LeaseLife \in Nat \ {0} /\ MaxLife \in Nat /\ LeaseLife <= MaxLife
    /\ LocalMax \in Nat /\ LocalOwnerMax \in Nat /\ MaxTime \in Nat

VARIABLES
    now,
    revoked,           \* owners whose authority is gone
    revokedAt,
    rows,              \* stream_leases_v1
    expires, deadline,
    total, perOwner,   \* _Streams of each process
    holding,           \* streams whose release closure has not run
    calls,             \* how often it is still going to be called
    pc

dirVars == <<revoked, revokedAt>>
rowVars == <<rows, expires, deadline>>
localVars == <<total, perOwner, holding, calls>>
vars == <<now, dirVars, rowVars, localVars, pc>>

Goto(s, l) == pc' = [pc EXCEPT ![s] = l]

(* Rows that acquire does not purge.                                       *)
Live == {s \in rows : expires[s] > now /\ deadline[s] > now}

Init ==
    /\ now = 0
    /\ revoked = {} /\ revokedAt = [o \in Owners |-> 0]
    /\ rows = {} /\ expires = [s \in Streams |-> 0] /\ deadline = [s \in Streams |-> 0]
    /\ total = [p \in Procs |-> 0] /\ perOwner = [p \in Procs |-> [o \in Owners |-> 0]]
    /\ holding = {} /\ calls = [s \in Streams |-> 0]
    /\ pc = [s \in Streams |-> "idle"]

-----------------------------------------------------------------------------
(* The slot of the process.                                                *)

(* _Streams.acquire, after the request was authenticated.  The release     *)
(* closure of an observer is called by its response and perhaps by its     *)
(* generator and its background task; that of a tenant stream once.        *)
Admit(s) ==
    LET p == ProcOf[s]
        o == OwnerOf[s] IN
    /\ pc[s] = "idle" /\ o \notin revoked
    /\ total[p] < LocalMax /\ perOwner[p][o] < LocalOwnerMax
    /\ total' = [total EXCEPT ![p] = @ + 1]
    /\ perOwner' = [perOwner EXCEPT ![p] = [@ EXCEPT ![o] = @ + 1]]
    /\ holding' = holding \cup {s}
    /\ \E n \in (IF s \in Leased THEN {1} ELSE 1..3) : calls' = [calls EXCEPT ![s] = n]
    /\ Goto(s, IF s \in Leased THEN "asking" ELSE "open")
    /\ UNCHANGED <<now, dirVars, rowVars>>

(* Fault variant: the closure does not remember that it ran.               *)
ReleaseTwice(s) ==
    LET p == ProcOf[s]
        o == OwnerOf[s] IN
    /\ total' = [total EXCEPT ![p] = IF @ = 0 THEN 0 ELSE @ - 1]
    /\ perOwner' = [perOwner EXCEPT ![p] = [@ EXCEPT ![o] = IF @ = 0 THEN 0 ELSE @ - 1]]
    /\ holding' = holding \ {s}

(* release: the slot is given back by the first call only.                 *)
Release(s) ==
    LET p == ProcOf[s]
        o == OwnerOf[s] IN
    IF s \in holding
    THEN /\ total' = [total EXCEPT ![p] = @ - 1]
         /\ perOwner' = [perOwner EXCEPT ![p] = [@ EXCEPT ![o] = @ - 1]]
         /\ holding' = holding \ {s}
    ELSE UNCHANGED <<total, perOwner, holding>>

-----------------------------------------------------------------------------
(* The shared allocation.                                                  *)

(* Fault variant: only the fleet and the tenant are counted.               *)
RoomIgnoresOwner(s) ==
    /\ Cardinality(Live) < MaxStreams
    /\ Cardinality({r \in Live : TenantOf[r] = TenantOf[s]}) < MaxPerTenant

Room(s) ==
    /\ Cardinality(Live) < MaxStreams
    /\ Cardinality({r \in Live : TenantOf[r] = TenantOf[s]}) < MaxPerTenant
    /\ Cardinality({r \in Live : OwnerOf[r] = OwnerOf[s]}) < MaxPerOwner

(* acquire, in a thread that outlives its request: purge, count, insert.   *)
Acquire(s) ==
    /\ pc[s] \in {"asking", "abandoned"}
    /\ OwnerOf[s] \notin revoked /\ Room(s)
    /\ rows' = Live \cup {s}
    /\ expires' = [expires EXCEPT ![s] = now + LeaseLife]
    /\ deadline' = [deadline EXCEPT ![s] = now + MaxLife]
    /\ Goto(s, IF pc[s] = "asking" THEN "open" ELSE "orphan")
    /\ UNCHANGED <<now, dirVars, localVars>>

(* Denied, out of capacity or an SQL error: nothing was allocated, and a   *)
(* requester that is still there gives its slot back.                      *)
AcquireFails(s) ==
    /\ pc[s] \in {"asking", "abandoned"}
    /\ IF pc[s] = "asking" THEN Release(s) /\ calls' = [calls EXCEPT ![s] = 0]
                           ELSE UNCHANGED localVars
    /\ Goto(s, "done")
    /\ UNCHANGED <<now, dirVars, rowVars>>

(* Fault variant: only the SQL side of an abandoned request is cleaned up. *)
LeaveKeeps(s) ==
    /\ pc[s] = "asking"
    /\ Goto(s, "abandoned")
    /\ UNCHANGED <<now, dirVars, rowVars, localVars>>

(* acquire_stream_lease: the requester leaves during the SQL admission.    *)
Leave(s) ==
    /\ pc[s] = "asking"
    /\ Release(s) /\ calls' = [calls EXCEPT ![s] = 0]
    /\ Goto(s, "abandoned")
    /\ UNCHANGED <<now, dirVars, rowVars>>

(* Fault variant: renewing needs the row alone, not the authority.         *)
RenewUnguarded(s) ==
    /\ pc[s] = "open" /\ s \in Leased
    /\ s \in Live
    /\ expires' = [expires EXCEPT ![s] =
                     IF now + LeaseLife <= deadline[s] THEN now + LeaseLife ELSE deadline[s]]
    /\ UNCHANGED <<now, dirVars, rows, deadline, localVars, pc>>

(* Fault variant: renewal may extend the absolute lifetime.                *)
RenewForever(s) ==
    /\ pc[s] = "open" /\ s \in Leased
    /\ OwnerOf[s] \notin revoked /\ s \in Live
    /\ expires' = [expires EXCEPT ![s] = now + LeaseLife]
    /\ UNCHANGED <<now, dirVars, rows, deadline, localVars, pc>>

(* renew, before each send and in quiet periods.                           *)
Renew(s) ==
    /\ pc[s] = "open" /\ s \in Leased
    /\ OwnerOf[s] \notin revoked /\ s \in Live
    /\ expires' = [expires EXCEPT ![s] =
                     IF now + LeaseLife <= deadline[s] THEN now + LeaseLife ELSE deadline[s]]
    /\ UNCHANGED <<now, dirVars, rows, deadline, localVars, pc>>

(* The response ends: finished history, disconnect, refused renewal,       *)
(* stalled send, or the timeout on the whole response.                     *)
End(s) ==
    /\ pc[s] = "open"
    /\ Goto(s, "closing")
    /\ UNCHANGED <<now, dirVars, rowVars, localVars>>

(* The finally clauses: every call of the release closure, one at a time.  *)
Close(s) ==
    /\ pc[s] = "closing" /\ calls[s] > 0
    /\ Release(s) /\ calls' = [calls EXCEPT ![s] = @ - 1]
    /\ Goto(s, IF calls[s] > 1 THEN "closing" ELSE IF s \in Leased THEN "orphan" ELSE "done")
    /\ UNCHANGED <<now, dirVars, rowVars>>

(* Fault variant: the local slot is released again with the allocation.    *)
CleanupAgain(s) ==
    /\ pc[s] = "orphan"
    /\ rows' = rows \ {s}
    /\ total' = [total EXCEPT ![ProcOf[s]] = @ - 1]
    /\ Goto(s, "done")
    /\ UNCHANGED <<now, dirVars, expires, deadline, perOwner, holding, calls>>

(* coordinator.release, also after revocation; when it fails or its short  *)
(* timeout passes, the row is left to expire.                              *)
Cleanup(s) ==
    /\ pc[s] = "orphan"
    /\ rows' \in {rows, rows \ {s}}
    /\ Goto(s, "done")
    /\ UNCHANGED <<now, dirVars, expires, deadline, localVars>>

(* A process dies with its slots and its threads; its rows remain.         *)
Die(p) ==
    /\ \E s \in Streams : ProcOf[s] = p /\ pc[s] \notin {"idle", "done"}
    /\ pc' = [s \in Streams |-> IF ProcOf[s] = p /\ pc[s] # "idle" THEN "done" ELSE pc[s]]
    /\ total' = [total EXCEPT ![p] = 0]
    /\ perOwner' = [perOwner EXCEPT ![p] = [o \in Owners |-> 0]]
    /\ holding' = {s \in holding : ProcOf[s] # p}
    /\ calls' = [s \in Streams |-> IF ProcOf[s] = p THEN 0 ELSE calls[s]]
    /\ UNCHANGED <<now, dirVars, rowVars>>

Revoke(o) ==
    /\ o \notin revoked
    /\ revoked' = revoked \cup {o}
    /\ revokedAt' = [revokedAt EXCEPT ![o] = now]
    /\ UNCHANGED <<now, rowVars, localVars, pc>>

Tick ==
    /\ now < MaxTime
    /\ now' = now + 1
    /\ UNCHANGED <<dirVars, rowVars, localVars, pc>>

Serve(s) == Acquire(s) \/ AcquireFails(s) \/ End(s) \/ Close(s) \/ Cleanup(s)

Next ==
    \/ \E s \in Streams : Admit(s) \/ Leave(s) \/ Renew(s) \/ Serve(s)
    \/ \E p \in Procs : Die(p)
    \/ \E o \in Owners : Revoke(o)
    \/ Tick

Spec == Init /\ [][Next]_vars

-----------------------------------------------------------------------------
(* Times and counters are never negative (a release twice would make them  *)
(* so), and a stream is where its handler can be.                          *)
TypeOK ==
    /\ now \in Nat
    /\ revoked \subseteq Owners /\ revokedAt \in [Owners -> Nat]
    /\ rows \subseteq Streams
    /\ expires \in [Streams -> Nat] /\ deadline \in [Streams -> Nat]
    /\ total \in [Procs -> Nat] /\ perOwner \in [Procs -> [Owners -> Nat]]
    /\ holding \subseteq Streams /\ calls \in [Streams -> 0..3]
    /\ pc \in [Streams -> {"idle", "asking", "abandoned", "open", "closing", "orphan", "done"}]

(* The fleet's limits hold at every instant, over all processes: expired   *)
(* rows that nobody purged yet never come back to life beside the          *)
(* allocations made in their place.                                        *)
AllocationBound ==
    /\ Cardinality(Live) <= MaxStreams
    /\ \A t \in Tenants : Cardinality({s \in Live : TenantOf[s] = t}) <= MaxPerTenant
    /\ \A o \in Owners : Cardinality({s \in Live : OwnerOf[s] = o}) <= MaxPerOwner

(* The counters of a process are exactly the streams that hold a slot,     *)
(* whichever of the release paths run, how often and in which order; a     *)
(* stream that is being served holds one.                                  *)
LocalExact ==
    /\ \A p \in Procs :
          /\ total[p] = Cardinality({s \in holding : ProcOf[s] = p}) /\ total[p] <= LocalMax
          /\ \A o \in Owners :
                perOwner[p][o] = Cardinality({s \in holding : ProcOf[s] = p /\ OwnerOf[s] = o})
    /\ \A s \in Streams : pc[s] \in {"asking", "open"} => s \in holding

(* Revocation reaches running streams: an allocation of a revoked owner    *)
(* lives at most one lease beyond it.                                      *)
RevokedFades ==
    \A s \in rows : OwnerOf[s] \in revoked => expires[s] <= revokedAt[OwnerOf[s]] + LeaseLife

(* "Renewals never extend it": an allocation keeps its absolute deadline   *)
(* and no renewal outlives it.                                             *)
DeadlineKept ==
    \A s \in rows \cap rows' : deadline'[s] = deadline[s] /\ expires'[s] <= deadline[s]

=============================================================================
