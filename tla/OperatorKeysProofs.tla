------------------------ MODULE OperatorKeysProofs -------------------------
(***************************************************************************)
(* Proofs about OperatorKeys: whatever the threads, the provider and the   *)
(* clock do, for any number of threads and keys and any positive           *)
(* intervals, a withdrawn key fades within its TTL and the time of one     *)
(* fetch, and the provider is asked no more often than configured.         *)
(***************************************************************************)
EXTENDS OperatorKeys, FiniteSetTheorems, TLAPS

Holding == {"fetching", "received"}

ThreadStates ==
    [Threads -> [pc : {"idle", "waiting"} \cup Holding, kid : Kids \cup {AnyKid},
                 began : Nat, keys : SUBSET Kids]]

(* What the fields hold.                                                   *)
KeysShape ==
    /\ clock \in 0..MaxClock /\ idp \subseteq Kids /\ latest \subseteq Kids
    /\ published \in [Kids -> Nat] /\ jwks \in [Kids -> Nat] /\ attempt \in Nat
    /\ thread \in ThreadStates
    /\ fetches \subseteq Nat
    /\ returned = NoKey \/ (returned.kid \in Kids /\ returned.at \in Nat /\ returned.at <= clock)

(* The provider's history: what it publishes now, it published just now.   *)
Published ==
    /\ \A k \in Kids : published[k] <= clock
    /\ \A k \in idp : published[k] = clock

(* A cached key belongs to the last set fetched, and had been published no *)
(* earlier than one fetch before its entry was stamped.                    *)
EntriesBacked ==
    \A k \in Kids : jwks[k] # Never =>
        k \in latest /\ jwks[k] <= clock /\ jwks[k] <= published[k] + FetchTime

(* The lock has one holder, whose fetch began at most its timeout ago; the *)
(* keys it brought were published since.                                   *)
OneFetch ==
    /\ holder = {t \in Threads : thread[t].pc \in Holding}
    /\ \A t, u \in holder : t = u
    /\ \A t \in Threads : thread[t].pc \in Holding \cup {"waiting"} => thread[t].kid \in Kids
    /\ \A t \in Threads : thread[t].pc \in Holding =>
          thread[t].began <= clock /\ clock <= thread[t].began + FetchTime
    /\ \A t \in Threads : thread[t].pc = "received" =>
          \A k \in thread[t].keys : published[k] >= thread[t].began

(* Every fetch was stamped, and the stamp is the latest of them.           *)
AttemptStamped ==
    /\ attempt = Never => fetches = {}
    /\ attempt # Never => attempt <= clock /\ \A f \in fetches : f <= attempt

KeysInv ==
    /\ KeysShape /\ Published /\ EntriesBacked /\ OneFetch /\ AttemptStamped
    /\ RemovedKeyFades /\ RefreshesSpaced

-----------------------------------------------------------------------------
(* No time of the clock is mistaken for a missing timestamp.               *)
LEMMA NeverComes == Never \in Nat /\ \A n \in 0..MaxClock : n < Never
  BY KeysAssumption DEF Never

(* An empty cache that nobody asked (OidcVerifier.__init__).               *)
LEMMA KeysInitInv == KeysInit => KeysInv
<1> SUFFICES ASSUME KeysInit PROVE KeysInv
  OBVIOUS
<1>1. KeysShape
  BY NeverComes, KeysAssumption DEF KeysInit, KeysShape, ThreadStates, Holding, IdleThread
<1>2. Published
  BY KeysAssumption DEF KeysInit, Published
<1>3. EntriesBacked
  BY DEF KeysInit, EntriesBacked
<1>4. OneFetch
  BY DEF KeysInit, OneFetch, IdleThread, Holding
<1>5. AttemptStamped /\ RemovedKeyFades /\ RefreshesSpaced
  BY DEF KeysInit, AttemptStamped, RemovedKeyFades, RefreshesSpaced
<1> QED
  BY <1>1, <1>2, <1>3, <1>4, <1>5 DEF KeysInv

(* Every step of a thread keeps the invariant (_key_for_kid).              *)
LEMMA ThreadKeepsInv ==
    ASSUME KeysInv, NEW t \in Threads,
           \/ \E k \in Kids : Ask(t, k)
           \/ Hit(t) \/ RefuseLimited(t) \/ BeginFetch(t) \/ Answer(t) \/ FailFetch(t) \/ Install(t)
    PROVE  KeysInv'
<1>1. ASSUME NEW k \in Kids, Ask(t, k) PROVE KeysInv'
  <2>1. KeysShape'
    BY <1>1, ZenonT(60) DEF KeysInv, KeysShape, ThreadStates, Holding, Ask
  <2>2. Published' /\ EntriesBacked' /\ AttemptStamped'
    BY <1>1 DEF KeysInv, Published, EntriesBacked, AttemptStamped, Ask
  <2>3. OneFetch'
    BY <1>1, ZenonT(60) DEF KeysInv, KeysShape, ThreadStates, OneFetch, Holding, Ask
  <2>4. RemovedKeyFades' /\ RefreshesSpaced'
    BY <1>1 DEF KeysInv, RemovedKeyFades, RefreshesSpaced, Ask
  <2> QED
    BY <2>1, <2>2, <2>3, <2>4 DEF KeysInv
<1>2. CASE Hit(t)
  <2>1. KeysShape'
    BY <1>2, KeysAssumption DEF KeysInv, KeysShape, ThreadStates, OneFetch, Holding, Hit, IdleThread
  <2>2. Published' /\ EntriesBacked' /\ AttemptStamped'
    BY <1>2 DEF KeysInv, Published, EntriesBacked, AttemptStamped, Hit
  <2>3. OneFetch'
    BY <1>2 DEF KeysInv, KeysShape, ThreadStates, OneFetch, Holding, Hit, IdleThread
  <2>4. RemovedKeyFades' /\ RefreshesSpaced'
    BY <1>2, KeysAssumption DEF KeysInv, KeysShape, ThreadStates, Holding, OneFetch, EntriesBacked, Cached, RemovedKeyFades, RefreshesSpaced, Hit
  <2> QED
    BY <2>1, <2>2, <2>3, <2>4 DEF KeysInv
<1>3. CASE RefuseLimited(t)
  <2>1. KeysShape'
    BY <1>3 DEF KeysInv, KeysShape, ThreadStates, Holding, RefuseLimited, IdleThread
  <2>2. Published' /\ EntriesBacked' /\ AttemptStamped'
    BY <1>3 DEF KeysInv, Published, EntriesBacked, AttemptStamped, RefuseLimited
  <2>3. OneFetch'
    BY <1>3 DEF KeysInv, KeysShape, ThreadStates, OneFetch, Holding, RefuseLimited, IdleThread
  <2>4. RemovedKeyFades' /\ RefreshesSpaced'
    BY <1>3 DEF KeysInv, RemovedKeyFades, RefreshesSpaced, RefuseLimited
  <2> QED
    BY <2>1, <2>2, <2>3, <2>4 DEF KeysInv
<1>4. CASE BeginFetch(t)
  <2>1. KeysShape'
    <3>1. clock \in Nat /\ thread \in ThreadStates
      BY KeysAssumption DEF KeysInv, KeysShape
    <3>2. thread' = [thread EXCEPT ![t].pc = "fetching", ![t].began = clock]
      BY <1>4 DEF BeginFetch
    <3>3. thread' \in ThreadStates
      BY <3>1, <3>2, Zenon DEF ThreadStates, Holding
    <3> QED
      BY <1>4, <3>1, <3>3 DEF KeysInv, KeysShape, BeginFetch
  <2>2. Published' /\ EntriesBacked'
    BY <1>4 DEF KeysInv, Published, EntriesBacked, BeginFetch
  <2>3. OneFetch'
    BY <1>4, KeysAssumption DEF KeysInv, KeysShape, ThreadStates, OneFetch, Holding, BeginFetch
  <2>4. AttemptStamped'
    BY <1>4, NeverComes DEF KeysInv, KeysShape, ThreadStates, Holding, AttemptStamped, BeginFetch
  <2>5. RemovedKeyFades' /\ RefreshesSpaced'
    BY <1>4, KeysAssumption DEF KeysInv, KeysShape, ThreadStates, Holding, AttemptStamped, Limited, RemovedKeyFades, RefreshesSpaced, BeginFetch
  <2> QED
    BY <2>1, <2>2, <2>3, <2>4, <2>5 DEF KeysInv
<1>5. CASE Answer(t)
  <2>1. KeysShape'
    <3>1. PICK ks \in SUBSET idp : thread' = [thread EXCEPT ![t].pc = "received", ![t].keys = ks]
      BY <1>5, Zenon DEF Answer
    <3>2. thread' \in ThreadStates
      BY <3>1, ZenonT(60) DEF KeysInv, KeysShape, ThreadStates, Holding
    <3> QED
      BY <1>5, <3>2 DEF KeysInv, KeysShape, Answer
  <2>2. Published' /\ EntriesBacked' /\ AttemptStamped'
    BY <1>5 DEF KeysInv, Published, EntriesBacked, AttemptStamped, Answer
  <2>3. OneFetch'
    <3>1. PICK ks \in SUBSET idp : thread' = [thread EXCEPT ![t].pc = "received", ![t].keys = ks]
      BY <1>5, Zenon DEF Answer
    <3>2. \A k \in ks : published[k] = clock
      BY <3>1 DEF KeysInv, Published
    <3>3. clock \in Nat /\ thread \in ThreadStates
      BY KeysAssumption DEF KeysInv, KeysShape
    <3>4. /\ \A u \in Threads : u # t => thread'[u] = thread[u]
          /\ thread'[t].pc = "received" /\ thread'[t].keys = ks
          /\ thread'[t].kid = thread[t].kid /\ thread'[t].began = thread[t].began
      BY <3>1, <3>3 DEF ThreadStates
    <3>5. thread[t].pc = "fetching" /\ UNCHANGED <<clock, published, holder>>
      BY <1>5 DEF Answer
    <3>6. OneFetch
      BY DEF KeysInv
    <3> QED
      BY <3>2, <3>3, <3>4, <3>5, <3>6 DEF OneFetch, Holding
  <2>4. RemovedKeyFades' /\ RefreshesSpaced'
    BY <1>5 DEF KeysInv, RemovedKeyFades, RefreshesSpaced, Answer
  <2> QED
    BY <2>1, <2>2, <2>3, <2>4 DEF KeysInv
<1>6. CASE FailFetch(t)
  <2>1. KeysShape'
    BY <1>6 DEF KeysInv, KeysShape, ThreadStates, Holding, FailFetch, IdleThread
  <2>2. Published' /\ EntriesBacked' /\ AttemptStamped'
    BY <1>6 DEF KeysInv, Published, EntriesBacked, AttemptStamped, FailFetch
  <2>3. OneFetch'
    BY <1>6 DEF KeysInv, KeysShape, ThreadStates, OneFetch, Holding, FailFetch, IdleThread
  <2>4. RemovedKeyFades' /\ RefreshesSpaced'
    BY <1>6 DEF KeysInv, RemovedKeyFades, RefreshesSpaced, FailFetch
  <2> QED
    BY <2>1, <2>2, <2>3, <2>4 DEF KeysInv
<1>7. CASE Install(t)
  <2>1. KeysShape'
    BY <1>7, KeysAssumption, NeverComes DEF KeysInv, KeysShape, ThreadStates, Install, Refreshed, IdleThread, OneFetch, Holding
  <2>2. Published' /\ AttemptStamped'
    BY <1>7 DEF KeysInv, Published, AttemptStamped, Install
  <2>3. EntriesBacked'
    BY <1>7, KeysAssumption, NeverComes DEF KeysInv, KeysShape, ThreadStates, OneFetch, Holding, Published, EntriesBacked, Install, Refreshed
  <2>4. OneFetch'
    BY <1>7 DEF KeysInv, KeysShape, ThreadStates, OneFetch, Holding, Install, IdleThread
  <2>5. RemovedKeyFades' /\ RefreshesSpaced'
    BY <1>7, KeysAssumption DEF KeysInv, KeysShape, ThreadStates, OneFetch, Holding, RemovedKeyFades, RefreshesSpaced, Install
  <2> QED
    BY <2>1, <2>2, <2>3, <2>4, <2>5 DEF KeysInv
<1> QED
  BY <1>1, <1>2, <1>3, <1>4, <1>5, <1>6, <1>7

(* So do the provider's changes and the passing of time.                   *)
LEMMA OthersKeepInv ==
    ASSUME KeysInv, (\E ks \in SUBSET Kids : Rotate(ks)) \/ KeysTick \/ UNCHANGED keyVars
    PROVE  KeysInv'
<1>1. ASSUME NEW ks \in SUBSET Kids, Rotate(ks) PROVE KeysInv'
  <2>1. KeysShape'
    BY <1>1 DEF KeysInv, KeysShape, ThreadStates, Holding, Rotate
  <2>2. Published'
    BY <1>1 DEF KeysInv, KeysShape, ThreadStates, Holding, Published, Rotate
  <2>3. EntriesBacked' /\ AttemptStamped'
    BY <1>1, KeysAssumption DEF KeysInv, KeysShape, ThreadStates, Holding, Published, EntriesBacked, AttemptStamped, Rotate
  <2>4. OneFetch'
    BY <1>1 DEF KeysInv, KeysShape, ThreadStates, OneFetch, Holding, Published, Rotate
  <2>5. RemovedKeyFades' /\ RefreshesSpaced'
    <3>1. CASE returned = NoKey
      BY <1>1, <3>1 DEF KeysInv, RemovedKeyFades, RefreshesSpaced, Rotate
    <3>2. CASE returned # NoKey
      BY <1>1, <3>2, KeysAssumption DEF KeysInv, KeysShape, Published, RemovedKeyFades, RefreshesSpaced, Rotate
    <3> QED
      BY <3>1, <3>2
  <2> QED
    BY <2>1, <2>2, <2>3, <2>4, <2>5 DEF KeysInv
<1>2. CASE KeysTick
  <2>1. KeysShape'
    BY <1>2, KeysAssumption DEF KeysInv, KeysShape, ThreadStates, Holding, KeysTick
  <2>2. Published'
    BY <1>2 DEF KeysInv, KeysShape, ThreadStates, Holding, Published, KeysTick
  <2>3. EntriesBacked' /\ AttemptStamped'
    BY <1>2, KeysAssumption DEF KeysInv, KeysShape, ThreadStates, Holding, Published, EntriesBacked, AttemptStamped, KeysTick
  <2>4. OneFetch'
    BY <1>2, KeysAssumption DEF KeysInv, KeysShape, ThreadStates, OneFetch, Holding, Published, KeysTick
  <2>5. RemovedKeyFades' /\ RefreshesSpaced'
    <3>1. CASE returned = NoKey
      BY <1>2, <3>1 DEF KeysInv, RemovedKeyFades, RefreshesSpaced, KeysTick
    <3>2. CASE returned # NoKey
      BY <1>2, <3>2, KeysAssumption DEF KeysInv, KeysShape, Published, RemovedKeyFades, RefreshesSpaced, KeysTick
    <3> QED
      BY <3>1, <3>2
  <2> QED
    BY <2>1, <2>2, <2>3, <2>4, <2>5 DEF KeysInv
<1>3. CASE UNCHANGED keyVars
  <2>1. KeysShape' /\ Published' /\ EntriesBacked'
    BY <1>3 DEF KeysInv, KeysShape, ThreadStates, Holding, Published, EntriesBacked, keyVars
  <2>2. OneFetch' /\ AttemptStamped'
    BY <1>3 DEF KeysInv, OneFetch, AttemptStamped, keyVars
  <2>3. RemovedKeyFades' /\ RefreshesSpaced'
    BY <1>3 DEF KeysInv, RemovedKeyFades, RefreshesSpaced, keyVars
  <2> QED
    BY <2>1, <2>2, <2>3 DEF KeysInv
<1> QED
  BY <1>1, <1>2, <1>3

(* The invariant says all that is claimed of the cache.                    *)
LEMMA InvImpliesCurrent == KeysInv => KeysCurrent
<1> SUFFICES ASSUME KeysInv PROVE KeysCurrent
  OBVIOUS
<1>1. holder = {} \/ \E t \in holder : holder = {t}
  BY DEF KeysInv, OneFetch
<1>2. Cardinality(holder) <= 1
  <2>1. CASE holder = {}
    BY <2>1, FS_EmptySet
  <2>2. ASSUME NEW t \in holder, holder = {t} PROVE Cardinality(holder) <= 1
    BY <2>2, FS_Singleton
  <2> QED
    BY <1>1, <2>1, <2>2
<1>3. KeysTypeOK
  BY <1>2 DEF KeysInv, KeysShape, ThreadStates, OneFetch, Holding, EntriesBacked, KeysTypeOK
<1>4. OnlyLatestSet
  BY DEF KeysInv, EntriesBacked, OnlyLatestSet, Cached
<1> QED
  BY <1>3, <1>4 DEF KeysInv, KeysCurrent

(* auth_oidc.py _key_for_kid: "Removed keys must not remain usable after   *)
(* the configured cache TTL", only the last set fetched is trusted, and    *)
(* the provider is not asked twice within the refresh interval.            *)
THEOREM KeysStayCurrent == KeysSpec => []KeysCurrent
<1>1. KeysInv /\ [KeysNext]_keyVars => KeysInv'
  BY ThreadKeepsInv, OthersKeepInv DEF KeysNext
<1> QED
  BY <1>1, KeysInitInv, InvImpliesCurrent, PTL DEF KeysSpec

=============================================================================
