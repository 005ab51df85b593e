---------------------------- MODULE OperatorKeys ----------------------------
(***************************************************************************)
(* OidcVerifier._key_for_kid (src/api/auth_oidc.py): the cache of an       *)
(* identity provider's signing keys that operator requests verify against. *)
(* Request threads share one cache under one lock, which a thread holds    *)
(* while it fetches; the provider publishes and withdraws keys meanwhile,  *)
(* and answers late, badly or not at all.                                  *)
(***************************************************************************)
EXTENDS Naturals, FiniteSets

CONSTANTS Threads, Kids,
          TTL,          \* jwks_ttl_seconds
          MinRefresh,   \* jwks_min_refresh_seconds
          FetchTime,    \* longest a fetch, discovery included, takes
          MaxClock      \* bound on time

(* OidcVerifier.__init__ refuses durations that are not positive.          *)
ASSUME KeysAssumption ==
    TTL \in Nat \ {0} /\ MinRefresh \in Nat \ {0} /\ FetchTime \in Nat \ {0} /\ MaxClock \in Nat

Never == MaxClock + TTL + MinRefresh + FetchTime + 1    \* no time is this late

VARIABLES clock,      \* time.monotonic()
          idp,        \* the keys the provider publishes now
          published,  \* per key, the last time it was published (history)
          jwks,       \* _jwks_cache: per key its fetched_at, or Never
          attempt,    \* _jwks_last_attempt_at, or Never
          holder,     \* the holder of _jwks_lock, {} or a singleton
          thread,     \* per thread [pc, kid, began, keys]
          fetches,    \* the times at which a fetch began (history)
          latest,     \* the keys of the last set fetched (history)
          returned    \* the last key handed to jwt.decode: [kid, at] (history)

keyVars == <<clock, idp, published, jwks, attempt, holder, thread, fetches, latest, returned>>

AnyKid == CHOOSE k \in Kids : TRUE
IdleThread == [pc |-> "idle", kid |-> AnyKid, began |-> 0, keys |-> {}]
NoKey == [kid |-> "", at |-> Never]

KeysInit ==
    /\ clock = 0 /\ idp \in SUBSET Kids
    /\ published = [k \in Kids |-> 0]
    /\ jwks = [k \in Kids |-> Never] /\ attempt = Never
    /\ holder = {} /\ thread = [t \in Threads |-> IdleThread]
    /\ fetches = {} /\ latest = {} /\ returned = NoKey

-----------------------------------------------------------------------------
CachedForever(k) == jwks[k] # Never                     \* mutant: no expiry
Cached(k) == jwks[k] # Never /\ clock - jwks[k] < TTL
LimitedNever == FALSE                                    \* mutant: no refresh limit
Limited == attempt # Never /\ clock - attempt < MinRefresh

(* A token arrives; its kid is looked up once the lock is free.            *)
Ask(t, k) ==
    /\ thread[t].pc = "idle"
    /\ thread' = [thread EXCEPT ![t].pc = "waiting", ![t].kid = k]
    /\ UNCHANGED <<clock, idp, published, jwks, attempt, holder, fetches, latest, returned>>

(* Under the lock: a fresh entry is returned at once.                      *)
Hit(t) ==
    /\ thread[t].pc = "waiting" /\ holder = {}
    /\ Cached(thread[t].kid)
    /\ returned' = [kid |-> thread[t].kid, at |-> clock]
    /\ thread' = [thread EXCEPT ![t] = IdleThread]
    /\ UNCHANGED <<clock, idp, published, jwks, attempt, holder, fetches, latest>>

(* No fresh entry, and the last attempt is too recent: refused.            *)
RefuseLimited(t) ==
    /\ thread[t].pc = "waiting" /\ holder = {}
    /\ ~Cached(thread[t].kid) /\ Limited
    /\ thread' = [thread EXCEPT ![t] = IdleThread]
    /\ UNCHANGED <<clock, idp, published, jwks, attempt, holder, fetches, latest, returned>>

(* No fresh entry: the attempt is stamped, then the set is requested.      *)
BeginFetchUnlocked(t) ==                                 \* mutant: lock released to fetch
    /\ thread[t].pc = "waiting" /\ holder = {}
    /\ ~Cached(thread[t].kid) /\ ~Limited
    /\ attempt' = clock
    /\ fetches' = fetches \cup {clock}
    /\ thread' = [thread EXCEPT ![t].pc = "fetching", ![t].began = clock]
    /\ UNCHANGED <<clock, idp, published, jwks, holder, latest, returned>>
BeginFetch(t) ==
    /\ thread[t].pc = "waiting" /\ holder = {}
    /\ ~Cached(thread[t].kid) /\ ~Limited
    /\ attempt' = clock /\ holder' = {t}
    /\ fetches' = fetches \cup {clock}
    /\ thread' = [thread EXCEPT ![t].pc = "fetching", ![t].began = clock]
    /\ UNCHANGED <<clock, idp, published, jwks, latest, returned>>

(* The provider reads out its keys; malformed entries are skipped.         *)
Answer(t) ==
    /\ thread[t].pc = "fetching"
    /\ \E ks \in SUBSET idp :
          thread' = [thread EXCEPT ![t].pc = "received", ![t].keys = ks]
    /\ UNCHANGED <<clock, idp, published, jwks, attempt, holder, fetches, latest, returned>>

(* The fetch times out, fails, or brings a malformed or oversized set.     *)
FailFetchHolding(t) ==                                   \* mutant: lock kept on failure
    /\ thread[t].pc \in {"fetching", "received"}
    /\ thread' = [thread EXCEPT ![t] = IdleThread]
    /\ UNCHANGED <<clock, idp, published, jwks, attempt, holder, fetches, latest, returned>>
FailFetch(t) ==
    /\ thread[t].pc \in {"fetching", "received"}
    /\ thread' = [thread EXCEPT ![t] = IdleThread] /\ holder' = {}
    /\ UNCHANGED <<clock, idp, published, jwks, attempt, fetches, latest, returned>>

Refreshed(ks) == [k \in Kids |-> IF k \in ks THEN clock ELSE Never]
RefreshedMerged(ks) == [k \in Kids |-> IF k \in ks THEN clock ELSE jwks[k]]   \* mutant

(* The fetched set replaces the cache; the key is in it, or is refused.    *)
InstallMerging(t) ==                                     \* mutant: update() for replacement
    /\ thread[t].pc = "received"
    /\ jwks' = RefreshedMerged(thread[t].keys) /\ latest' = thread[t].keys
    /\ returned' = IF thread[t].kid \in thread[t].keys
                   THEN [kid |-> thread[t].kid, at |-> clock] ELSE returned
    /\ thread' = [thread EXCEPT ![t] = IdleThread] /\ holder' = {}
    /\ UNCHANGED <<clock, idp, published, attempt, fetches>>
Install(t) ==
    /\ thread[t].pc = "received"
    /\ jwks' = Refreshed(thread[t].keys) /\ latest' = thread[t].keys
    /\ returned' = IF thread[t].kid \in thread[t].keys
                   THEN [kid |-> thread[t].kid, at |-> clock] ELSE returned
    /\ thread' = [thread EXCEPT ![t] = IdleThread] /\ holder' = {}
    /\ UNCHANGED <<clock, idp, published, attempt, fetches>>

(* The provider changes the keys it publishes (external).                  *)
Rotate(ks) ==
    /\ ks # idp
    /\ idp' = ks
    /\ published' = [k \in Kids |-> IF k \in idp \cup ks THEN clock ELSE published[k]]
    /\ UNCHANGED <<clock, jwks, attempt, holder, thread, fetches, latest, returned>>

(* Time passes; a fetch under way is cut off by its timeout.               *)
KeysTick ==
    /\ clock < MaxClock
    /\ \A t \in holder : clock < thread[t].began + FetchTime
    /\ clock' = clock + 1
    /\ published' = [k \in Kids |-> IF k \in idp THEN clock + 1 ELSE published[k]]
    /\ UNCHANGED <<idp, jwks, attempt, holder, thread, fetches, latest, returned>>

KeysNext ==
    \/ \E t \in Threads : \/ \E k \in Kids : Ask(t, k)
                          \/ Hit(t) \/ RefuseLimited(t) \/ BeginFetch(t)
                          \/ Answer(t) \/ FailFetch(t) \/ Install(t)
    \/ \E ks \in SUBSET Kids : Rotate(ks)
    \/ KeysTick

KeysSpec == KeysInit /\ [][KeysNext]_keyVars

(* What a waiting thread does once the lock is free.                       *)
Lookup(t) == Hit(t) \/ RefuseLimited(t) \/ BeginFetch(t)

-----------------------------------------------------------------------------
(* The cache's state: at most one thread is past the lock, and it is the   *)
(* holder; no timestamp is in the future.                                  *)
KeysTypeOK ==
    /\ clock \in 0..MaxClock /\ idp \subseteq Kids
    /\ holder = {t \in Threads : thread[t].pc \in {"fetching", "received"}}
    /\ Cardinality(holder) <= 1
    /\ \A k \in Kids : jwks[k] # Never => jwks[k] <= clock

(* auth_oidc.py: "Removed keys must not remain usable after the configured *)
(* cache TTL": a key handed to verification was published less than the    *)
(* TTL, and the time the fetch took, before, whatever fetches failed since.*)
RemovedKeyFades ==
    returned.at = clock /\ returned # NoKey =>
        clock - published[returned.kid] < TTL + FetchTime

(* "A successfully fetched set replaces the previous trust set": no key    *)
(* outside the last set fetched is usable, even inside its own TTL.        *)
OnlyLatestSet == \A k \in Kids : Cached(k) => k \in latest

(* Lookups of unknown keys, failures and waiting threads included, never   *)
(* make two requests to the provider within the refresh interval.          *)
RefreshesSpaced ==
    \A a, b \in fetches : (a < b) => b - a >= MinRefresh

(* auth_oidc.py: "Removed keys must not remain usable after the configured *)
(* cache TTL", no key outside the last set fetched is usable, and the      *)
(* provider is not asked twice within the refresh interval.                *)
KeysCurrent == KeysTypeOK /\ RemovedKeyFades /\ OnlyLatestSet /\ RefreshesSpaced

=============================================================================
