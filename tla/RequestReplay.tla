---------------------------- MODULE RequestReplay ---------------------------
(***************************************************************************)
(* One signed request, many deliveries: the three nonce mechanisms.        *)
(*   "durable"  claim_nonce (durable_replay.py), production agents;        *)
(*   "tenant"   authenticate_agent and prune_replays (authority.py);       *)
(*   "cache"    NonceCache (request_auth.py), development.                 *)
(* A durable or tenant nonce carries the time it was made.  A worker reads *)
(* the clock, checks that time and only later gets the database lock, so   *)
(* checking and claiming are two steps with other workers, and time, in    *)
(* between.  All workers read one clock.                                   *)
(***************************************************************************)
EXTENDS Integers, FiniteSets

CONSTANTS
    Mechanisms,     \* subset of {"durable", "tenant", "cache"}
    Workers,
    Nonces,
    Stamp,          \* the time each nonce carries
    TTL,            \* ttl_seconds, 300
    MaxClock,       \* bound: time
    None

WindowAssumption == TTL \in Nat \ {0} /\ \A n \in Nonces : Stamp[n] \in Nat

VARIABLES
    mechanism,
    clock,
    claims,         \* nonce -> time of its row or cache entry, or None
    pending,        \* worker -> a checked request waiting for the lock
    total,          \* history variable: acceptances of each nonce
    inWindow,       \* history variable: those made while the nonce was fresh
    last            \* history variable: time of the last acceptance

vars == <<mechanism, clock, claims, pending, total, inWindow, last>>

Distance(x, y) == IF x >= y THEN x - y ELSE y - x
Idle(w) == pending[w] = None

Accept(n, fresh) ==
    /\ total' = [total EXCEPT ![n] = @ + 1]
    /\ inWindow' = [inWindow EXCEPT ![n] = @ + (IF fresh THEN 1 ELSE 0)]
    /\ last' = [last EXCEPT ![n] = clock]

------------------------------------------------------------------------------
(* The timestamp check, the same in claim_nonce and authenticate_agent.     *)
Check(w, n) ==
    /\ mechanism \in {"durable", "tenant"}
    /\ Idle(w)
    /\ Distance(clock, Stamp[n]) <= TTL
    /\ pending' = [pending EXCEPT ![w] = [nonce |-> n, now |-> clock]]
    /\ UNCHANGED <<mechanism, clock, claims, total, inWindow, last>>

(* claim_nonce's transaction: old rows go, the nonce comes, both by the     *)
(* clock read before the transaction.                                       *)
CutoffOneWindow(now) == now - TTL
Cutoff(now) == now - 2 * TTL
Kept(now) == [n \in Nonces |-> IF claims[n] # None /\ claims[n] < Cutoff(now) THEN None ELSE claims[n]]

ClaimNonce(w) ==
    LET r == pending[w]  kept == Kept(r.now) IN
    /\ mechanism = "durable"
    /\ ~Idle(w)
    /\ claims' = IF kept[r.nonce] = None THEN [kept EXCEPT ![r.nonce] = r.now] ELSE kept
    /\ IF kept[r.nonce] = None THEN Accept(r.nonce, clock <= Stamp[r.nonce] + TTL)
       ELSE UNCHANGED <<total, inWindow, last>>
    /\ pending' = [pending EXCEPT ![w] = None]
    /\ UNCHANGED <<mechanism, clock>>

(* authenticate_agent's transaction: the row is dated inside it, and the    *)
(* principal is good until the nonce's window closes.                       *)
Expired(n) == Stamp[n] + TTL <= clock
AuthenticateAgent(w) ==
    LET r == pending[w] IN
    /\ mechanism = "tenant"
    /\ ~Idle(w)
    /\ IF claims[r.nonce] = None
       THEN claims' = [claims EXCEPT ![r.nonce] = clock] /\ Accept(r.nonce, ~Expired(r.nonce))
       ELSE UNCHANGED <<claims, total, inWindow, last>>
    /\ pending' = [pending EXCEPT ![w] = None]
    /\ UNCHANGED <<mechanism, clock>>

(* prune_replays, in batches of any size: some of the old rows go.          *)
PruneReplays(S) ==
    /\ mechanism = "tenant"
    /\ S # {}
    /\ \A n \in S : claims[n] # None /\ claims[n] < Cutoff(clock)
    /\ claims' = [n \in Nonces |-> IF n \in S THEN None ELSE claims[n]]
    /\ UNCHANGED <<mechanism, clock, pending, total, inWindow, last>>

(* NonceCache.check_and_store, in one process.                              *)
CacheForgets(t) == clock - t >= TTL
CacheExpired(t) == clock - t > TTL
CheckAndStore(n) ==
    LET kept == [m \in Nonces |-> IF claims[m] # None /\ CacheExpired(claims[m]) THEN None ELSE claims[m]] IN
    /\ mechanism = "cache"
    /\ claims' = IF kept[n] = None THEN [kept EXCEPT ![n] = clock] ELSE kept
    /\ IF kept[n] = None THEN Accept(n, TRUE) ELSE UNCHANGED <<total, inWindow, last>>
    /\ UNCHANGED <<mechanism, clock, pending>>

(* The request is refused before its transaction, or its worker dies.       *)
Abandon(w) ==
    /\ ~Idle(w)
    /\ pending' = [pending EXCEPT ![w] = None]
    /\ UNCHANGED <<mechanism, clock, claims, total, inWindow, last>>

Tick ==
    /\ clock < MaxClock
    /\ clock' = clock + 1
    /\ UNCHANGED <<mechanism, claims, pending, total, inWindow, last>>

Init ==
    /\ mechanism \in Mechanisms
    /\ clock = 0
    /\ claims = [n \in Nonces |-> None]
    /\ pending = [w \in Workers |-> None]
    /\ total = [n \in Nonces |-> 0]
    /\ inWindow = [n \in Nonces |-> 0]
    /\ last = [n \in Nonces |-> None]

Next ==
    \/ \E w \in Workers : \/ \E n \in Nonces : Check(w, n)
                          \/ ClaimNonce(w) \/ AuthenticateAgent(w) \/ Abandon(w)
    \/ \E S \in SUBSET Nonces : PruneReplays(S)
    \/ \E n \in Nonces : CheckAndStore(n)
    \/ Tick

Spec == Init /\ [][Next]_vars

------------------------------------------------------------------------------
(* A nonce takes effect at most once while it is fresh.  For a tenant       *)
(* request, fresh means that the principal it yields is not yet expired, so *)
(* a request accepted a second time, however late its transaction ran,      *)
(* yields nothing usable.                                                   *)
OnceWhileFresh ==
    mechanism # "cache" => \A n \in Nonces : inWindow[n] <= 1

(* The development cache keeps its promise of a TTL window: two             *)
(* acceptances of a nonce are more than TTL apart.                          *)
CacheWindow ==
    mechanism = "cache" => \A n \in Nonces :
        (total'[n] > total[n] /\ last[n] # None) => clock - last[n] > TTL
=============================================================================
