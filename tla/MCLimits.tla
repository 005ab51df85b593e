------------------------------ MODULE MCLimits ------------------------------
(***************************************************************************)
(* The limits the bridge enforces on its own work, one scene each: the     *)
(* capacities of the task history (TaskLifecycle, twice), the fleet's      *)
(* status streams (StreamLease), a tenant's admission caps                 *)
(* (AdmissionQuotas), the requests of one client (RateLimit) and the       *)
(* deliveries of one signed request (RequestReplay).  They share no state; *)
(* the variables of the other scenes are off.                              *)
(***************************************************************************)
EXTENDS Integers, FiniteSets, TLC

CONSTANTS t1, t2, t3, o1, o2, c1, c2, NoView, s1, s2, s3, p1, p2,
          w1, w2, u1, u2, q1, q2, q3, None, r1, r2, n1, n2

VARIABLES
    scene,
    historyCap, eventCap, state, events, bytes, view,
    now, revoked, revokedAt, rows, expires, deadline, total, perOwner, holding, calls, pc,
    clock, policy, op, record, txn,
    hitClock, start, count, thread, allowed,
    mechanism, requestClock, claims, pending, accepted, inWindow, last

taskVars == <<historyCap, eventCap, state, events, bytes, view>>
leaseVars == <<now, revoked, revokedAt, rows, expires, deadline,
               total, perOwner, holding, calls, pc>>
quotaVars == <<clock, policy, op, record, txn>>
rateVars == <<hitClock, start, count, thread, allowed>>
replayVars == <<mechanism, requestClock, claims, pending, accepted, inWindow, last>>
vars == <<scene, taskVars, leaseVars, quotaVars, rateVars, replayVars>>

Off == "off"
TasksOff ==
    /\ historyCap = Off /\ eventCap = Off /\ state = Off /\ events = Off /\ bytes = Off
    /\ view = Off
LeasesOff ==
    /\ now = Off /\ revoked = Off /\ revokedAt = Off /\ rows = Off /\ expires = Off
    /\ deadline = Off /\ total = Off /\ perOwner = Off /\ holding = Off /\ calls = Off
    /\ pc = Off
QuotasOff == clock = Off /\ policy = Off /\ op = Off /\ record = Off /\ txn = Off
ReplayOff ==
    /\ mechanism = Off /\ requestClock = Off /\ claims = Off /\ pending = Off
    /\ accepted = Off /\ inWindow = Off /\ last = Off
RatesOff == hitClock = Off /\ start = Off /\ count = Off /\ thread = Off /\ allowed = Off

-----------------------------------------------------------------------------
(* Two tasks of one owner and one of another compete for active tasks,     *)
(* events, bytes and history while an operator changes the policies.       *)
ThreeTasks == {t1, t2, t3}
TwoOwners == {o1, o2}
OneClient == {c1}
TaskOwner == [t \in ThreeTasks |-> IF t = t3 THEN o2 ELSE o1]
TwoSizes == {1, 2}
TwoHistoryCaps == {1, 2}
TwoEventCaps == {9, 11}
Capacity == INSTANCE TaskLifecycle WITH
    Tasks <- ThreeTasks, Owners <- TwoOwners, OwnerOf <- TaskOwner, Clients <- OneClient,
    Sizes <- TwoSizes, TerminalBytes <- 2, MaxActive <- 1, MaxEvents <- 4,
    HistoryCaps <- TwoHistoryCaps, EventCaps <- TwoEventCaps

(* Two clients update one task.                                            *)
Updates == INSTANCE TaskLifecycle WITH
    Tasks <- {t1}, Owners <- {o1}, OwnerOf <- [t \in {t1} |-> o1], Clients <- {c1, c2},
    Sizes <- {1}, TerminalBytes <- 1, MaxActive <- 1, MaxEvents <- 6,
    HistoryCaps <- {1}, EventCaps <- {12}

(* Three tenant streams of two owners on two processes.                    *)
Streams == {s1, s2, s3}
Procs == {p1, p2}
Tenants == {t1}
ProcOf == [s \in Streams |-> IF s = s2 THEN p2 ELSE p1]
TenantOf == [s \in Streams |-> t1]
StreamOwner == [s \in Streams |-> IF s = s3 THEN o2 ELSE o1]
Leases == INSTANCE StreamLease WITH
    Owners <- TwoOwners, OwnerOf <- StreamOwner, Leased <- Streams, MaxStreams <- 2, MaxPerTenant <- 2, MaxPerOwner <- 1,
    LeaseLife <- 2, MaxLife <- 3, LocalMax <- 2, LocalOwnerMax <- 1, MaxTime <- 3

(* Two observers on one process, and a tenant stream on the other.         *)
OnlyS2 == {s2}
Observers == INSTANCE StreamLease WITH
    Owners <- TwoOwners, OwnerOf <- StreamOwner, Leased <- OnlyS2, MaxStreams <- 1, MaxPerTenant <- 1, MaxPerOwner <- 1,
    LeaseLife <- 1, MaxLife <- 1, LocalMax <- 2, LocalOwnerMax <- 1, MaxTime <- 1

(* Two workers, two owners and three operations.  The two enabled policies *)
(* bind through different limits: one through spend, one through counts.   *)
Operations == {q1, q2, q3}
Workers == {w1, w2}
Users == {u1, u2}
Costs == {1, 2}
Uncapped == [enabled |-> FALSE, spend |-> 0, userSpend |-> 0, rate |-> 1, userRate |-> 1,
             active |-> 1, userActive |-> 1, records |-> 3]
Policies ==
    {Uncapped,
     [enabled |-> TRUE, spend |-> 4, userSpend |-> 3, rate |-> 3, userRate |-> 3,
      active |-> 3, userActive |-> 3, records |-> 2],
     [enabled |-> TRUE, spend |-> 9, userSpend |-> 9, rate |-> 2, userRate |-> 2,
      active |-> 2, userActive |-> 1, records |-> 3]}
Quotas == INSTANCE AdmissionQuotas WITH
    Owners <- Users, Prior <- 1, Window <- 1, MaxClock <- 1

(* Two requests to a window of two ticks, threads up to two ticks late.    *)
Threads == {r1, r2}
Rate == INSTANCE RateLimit WITH
    clock <- hitClock, MaxRequests <- 2, Window <- 2,
    MaxClock <- 6, MaxDelay <- 2, MaxRefused <- 1

(* Two nonces made two ticks apart, a window of two ticks on either side,  *)
(* and time for both windows, the retention beyond them and a transaction  *)
(* that runs late.                                                         *)
Mechanisms == {"durable", "tenant", "cache"}
Nonces == {n1, n2}
Stamp == [n \in Nonces |-> IF n = n1 THEN 2 ELSE 4]
Replay == INSTANCE RequestReplay WITH
    clock <- requestClock, total <- accepted, TTL <- 2, MaxClock <- 10

ASSUME Instances ==
    /\ Replay!WindowAssumption
    /\ Capacity!LifecycleAssumption /\ Updates!LifecycleAssumption
    /\ Leases!StreamsAssumption /\ Leases!LimitsAssumption
    /\ Observers!StreamsAssumption /\ Observers!LimitsAssumption

Symmetry == Permutations(Operations)

-----------------------------------------------------------------------------
Init ==
    \/ scene = "capacity" /\ Capacity!Init /\ LeasesOff /\ QuotasOff /\ RatesOff /\ ReplayOff
    \/ scene = "updates" /\ Updates!Init /\ LeasesOff /\ QuotasOff /\ RatesOff /\ ReplayOff
    \/ scene = "leases" /\ Leases!Init /\ TasksOff /\ QuotasOff /\ RatesOff /\ ReplayOff
    \/ scene = "observers" /\ Observers!Init /\ TasksOff /\ QuotasOff /\ RatesOff /\ ReplayOff
    \/ scene = "quotas" /\ Quotas!Init /\ TasksOff /\ LeasesOff /\ RatesOff /\ ReplayOff
    \/ scene = "rate" /\ Rate!Init /\ TasksOff /\ LeasesOff /\ QuotasOff /\ ReplayOff
    \/ scene = "requests" /\ Replay!Init /\ TasksOff /\ LeasesOff /\ QuotasOff /\ RatesOff

Next ==
    /\ UNCHANGED scene
    /\ \/ /\ scene = "capacity" /\ Capacity!Next
          /\ UNCHANGED <<leaseVars, quotaVars, rateVars, replayVars>>
       \/ /\ scene = "updates" /\ Updates!Next
          /\ UNCHANGED <<leaseVars, quotaVars, rateVars, replayVars>>
       \/ /\ scene = "leases" /\ Leases!Next
          /\ UNCHANGED <<taskVars, quotaVars, rateVars, replayVars>>
       \/ /\ scene = "observers" /\ Observers!Next
          /\ UNCHANGED <<taskVars, quotaVars, rateVars, replayVars>>
       \/ /\ scene = "quotas" /\ Quotas!Next
          /\ UNCHANGED <<taskVars, leaseVars, rateVars, replayVars>>
       \/ /\ scene = "rate" /\ Rate!Next
          /\ UNCHANGED <<taskVars, leaseVars, quotaVars, replayVars>>
       \/ /\ scene = "requests" /\ Replay!Next
          /\ UNCHANGED <<taskVars, leaseVars, quotaVars, rateVars>>

Spec == Init /\ [][Next]_vars

-----------------------------------------------------------------------------
(* DurableTaskLifecycle: "Reserve the final event slot so a saturated task *)
(* can still terminate", no capacity is exceeded, the events replay to the *)
(* snapshot; and with two clients an update is applied only to the state   *)
(* its client read.                                                        *)
TaskHistoryKept ==
    /\ [](scene = "capacity" =>
            /\ Capacity!TypeOK /\ Capacity!RoomToEnd
            /\ Capacity!CapacityKept /\ Capacity!HistoryReplays)
    /\ [][scene = "updates" => Updates!NoLostUpdate]_vars

(* DurableStreamLeases and _Streams: the fleet's limits hold at every      *)
(* instant over all processes, a revoked owner's allocation fades, renewal *)
(* never extends the deadline, and the local counters are exact.           *)
AllocationsBounded ==
    /\ [](scene = "leases" =>
            /\ Leases!TypeOK /\ Leases!AllocationBound
            /\ Leases!RevokedFades /\ Leases!LocalExact)
    /\ [](scene = "observers" => Observers!LocalExact)
    /\ [][scene = "leases" => Leases!DeadlineKept]_vars

(* admission_quotas.py and ratelimit.py: no admission takes the tenant or  *)
(* an owner past a cap, whatever was in flight when the caps were set; no  *)
(* client gets more than three windows' worth of requests in one window.   *)
AdmissionsBounded ==
    /\ [][scene = "quotas" =>
            Quotas!TenantCaps /\ Quotas!OwnerCaps /\ Quotas!TenantRate /\ Quotas!Attributed]_vars
    /\ [](scene = "rate" => Rate!StretchBounded)

(* durable_replay.py, authority.py and request_auth.py: however late its   *)
(* transaction runs, a nonce takes effect at most once while it is fresh;  *)
(* the development cache accepts it again only after its window.           *)
RequestsOnce ==
    /\ [](scene = "requests" => Replay!OnceWhileFresh)
    /\ [][scene = "requests" => Replay!CacheWindow]_vars

=============================================================================
