---------------------------- MODULE SigningTrust ----------------------------
(***************************************************************************)
(* Controller-signed key histories (signing_trust_journal.py,              *)
(* observer_key_registry.py): two domains, each an append-only table of    *)
(* signed registry revisions, read by every settlement.                    *)
(*                                                                         *)
(* A registry maps key identities to key material and a state.  An         *)
(* envelope carries its revision number and the digest of its predecessor, *)
(* which carries the digest of its own; the digest is injective, so an     *)
(* envelope is modelled as the whole chain of registries up to its own,    *)
(* its revision being the length of that chain.                            *)
(*                                                                         *)
(* Publication is one transaction under the exclusive row lock (SQLite:    *)
(* the write lock).  A settlement holds the shared lock from the moment it *)
(* resolves its keys until it commits or rolls back, and is therefore two  *)
(* steps.  The database can be restored to fewer rows between              *)
(* transactions; a process keeps its minimum revisions in memory, and a    *)
(* new process gets them from its operator.  The journal's capacity is the *)
(* subject of RetainedJournals.                                            *)
(***************************************************************************)
EXTENDS Naturals, Sequences, FiniteSets, SequencesExt

CONSTANTS
    Instances,      \* SigningTrustJournal objects, one per process
    Domains,        \* "destination" and "readback"
    Ids,            \* key identities
    Registries,     \* key lists a controller may sign, lawful or not
    Proposals,      \* envelopes a controller signs for one revision
    MaxRev,         \* bound: revisions, per domain
    MaxRestores,    \* bound: restores of the database
    None

DomainsAssumption == Domains = {"destination", "readback"}

VARIABLES
    rows,           \* per domain and revision: the stored envelope or None
    signed,         \* per domain: the envelopes its controller has signed
    floors,         \* per instance and domain: minimum revision
    known,          \* history variable: the chain an instance published,
                    \* settled with or was pinned to
    settling,       \* per instance: the chains and keys of an open settlement
    published,      \* history variable: the longest chain ever stored
    restores

vars == <<rows, signed, floors, known, settling, published, restores>>

States == {"staged", "active", "revoked"}
ActiveIn(r) == {k \in DOMAIN r : r[k].state = "active"}

------------------------------------------------------------------------------
(* ObserverTrustRegistry: at least one key, no material under two names.    *)
Registry(r) ==
    /\ DOMAIN r # {}
    /\ \A j, k \in DOMAIN r : r[j].material = r[k].material => j = k

(* resolve_active: only an active key verifies new evidence.                *)
ResolveActive(r, k) == k \in DOMAIN r /\ r[k].state = "active"

(* validate_rotation *)
AllowedResurrecting(s) == IF s = "staged" THEN States ELSE {"active", "revoked"}
Allowed(s) ==
    CASE s = "staged" -> States
      [] s = "active" -> {"active", "revoked"}
      [] s = "revoked" -> {"revoked"}
ValidateRotation(old, new) ==
    /\ DOMAIN old \subseteq DOMAIN new
    /\ \A k \in DOMAIN old : /\ new[k].material = old[k].material
                             /\ new[k].state \in Allowed(old[k].state)
    /\ \A k \in DOMAIN new \ DOMAIN old : new[k].state = "staged"
    /\ ActiveIn(old) # {} => ActiveIn(new) # {}

(* _verify: a controller's signature over a well-formed registry.           *)
Verify(d, c) == c \in signed[d] /\ Registry(Last(c))

Stored(d) == {n \in 1..MaxRev[d] : rows[d][n] # None}

(* _load: contiguous revisions from 1, each naming its predecessor, every   *)
(* transition lawful.  The result is the last envelope.                     *)
Loads(d) ==
    /\ Stored(d) = 1..Cardinality(Stored(d))
    /\ \A n \in Stored(d) :
         /\ Verify(d, rows[d][n])
         /\ Len(rows[d][n]) = n
         /\ n > 1 => /\ Front(rows[d][n]) = rows[d][n - 1]
                     /\ ValidateRotation(Last(rows[d][n - 1]), Last(rows[d][n]))
Current(d) == IF Stored(d) = {} THEN <<>>
           ELSE rows[d][CHOOSE n \in Stored(d) : \A m \in Stored(d) : m <= n]

AboveAny(i, d) == Current(d) # <<>>
AboveFloor(i, d) == Current(d) # <<>> /\ Len(Current(d)) >= floors[i][d]

\* Nobody holds the signing policy shared.
UnlockedAlways == TRUE
Unlocked == \A j \in Instances : settling[j] = None

------------------------------------------------------------------------------
(* A controller, outside the program, signs a successor of an envelope of   *)
(* its own, valid or not.                                                   *)
Sign(d, base, r) ==
    LET c == Append(base, r) IN
    /\ base \in signed[d] \cup {<<>>}
    /\ Len(base) < MaxRev[d]
    /\ c \notin signed[d]
    /\ Cardinality({e \in signed[d] : Len(e) = Len(c)}) < Proposals
    /\ signed' = [signed EXCEPT ![d] = @ \cup {c}]
    /\ UNCHANGED <<rows, floors, known, settling, published, restores>>

FloorForgotten(m, n) == m
Larger(m, n) == IF m >= n THEN m ELSE n

(* publish, committed.  Publishing the head again changes nothing: not the  *)
(* table and not the instance's minimum.                                    *)
Publish(i, d, c) ==
    LET head == Current(d) IN
    /\ Unlocked
    /\ Verify(d, c)
    /\ Loads(d)
    /\ head # <<>> => Len(head) >= floors[i][d]
    /\ c # head
    /\ Front(c) = head
    /\ Len(c) >= floors[i][d]
    /\ head # <<>> => ValidateRotation(Last(head), Last(c))
    /\ rows' = [rows EXCEPT ![d][Len(c)] = c]
    /\ floors' = [floors EXCEPT ![i][d] = Larger(@, Len(c))]
    /\ known' = [known EXCEPT ![i][d] = c]
    /\ published' = [published EXCEPT ![d] = IF Len(c) > Len(@) THEN c ELSE @]
    /\ UNCHANGED <<signed, settling, restores>>

(* settlement_keys: both domains are loaded under the shared lock, a        *)
(* domain's minimum rising as soon as its own key resolves.                 *)
ResolvesIn(i, d, k) ==
    Loads(d) /\ AboveFloor(i, d) /\ ResolveActive(Last(Current(d)), k)

SettlementKeys(i, kd, kr) ==
    /\ settling[i] = None
    /\ ResolvesIn(i, "destination", kd)
    /\ ResolvesIn(i, "readback", kr)
    /\ settling' = [settling EXCEPT ![i] =
                      [chain |-> [d \in Domains |-> Current(d)],
                       key |-> [d \in Domains |-> IF d = "destination" THEN kd ELSE kr]]]
    /\ floors' = [floors EXCEPT ![i] = [d \in Domains |-> Len(Current(d))]]
    /\ known' = [known EXCEPT ![i] = [d \in Domains |-> Current(d)]]
    /\ UNCHANGED <<rows, signed, published, restores>>

(* The readback key is refused after the destination key was accepted: the  *)
(* transaction rolls back, the destination's minimum stays raised.          *)
SettlementDenied(i, kd, kr) ==
    /\ settling[i] = None
    /\ ResolvesIn(i, "destination", kd)
    /\ ~ResolvesIn(i, "readback", kr)
    /\ floors' = [floors EXCEPT ![i]["destination"] = Len(Current("destination"))]
    /\ known' = [known EXCEPT ![i]["destination"] = Current("destination")]
    /\ UNCHANGED <<rows, signed, settling, published, restores>>

(* The settlement's transaction ends: committed, rolled back or lost.       *)
SettlementEnds(i) ==
    /\ settling[i] # None
    /\ settling' = [settling EXCEPT ![i] = None]
    /\ UNCHANGED <<rows, signed, floors, known, published, restores>>

(* A new process with the minimum revisions its operator retained.          *)
Restart(i, f) ==
    /\ settling[i] = None
    /\ \A d \in Domains : f[d] > 1 => f[d] <= Len(published[d])
    /\ floors' = [floors EXCEPT ![i] = f]
    /\ known' = [known EXCEPT ![i] =
                   [d \in Domains |-> IF f[d] = 1 THEN <<>> ELSE SubSeq(published[d], 1, f[d])]]
    /\ UNCHANGED <<rows, signed, settling, published, restores>>

(* A restore brings a domain's table back without some of its rows.         *)
Restore(d, kept) ==
    /\ restores < MaxRestores
    /\ Unlocked
    /\ kept # Stored(d)
    /\ rows' = [rows EXCEPT ![d] = [n \in 1..MaxRev[d] |-> IF n \in kept THEN @[n] ELSE None]]
    /\ restores' = restores + 1
    /\ UNCHANGED <<signed, floors, known, settling, published>>

Init ==
    /\ rows = [d \in Domains |-> [n \in 1..MaxRev[d] |-> None]]
    /\ signed = [d \in Domains |-> {}]
    /\ floors = [i \in Instances |-> [d \in Domains |-> 1]]
    /\ known = [i \in Instances |-> [d \in Domains |-> <<>>]]
    /\ settling = [i \in Instances |-> None]
    /\ published = [d \in Domains |-> <<>>]
    /\ restores = 0

Next ==
    \/ \E d \in Domains : \E base \in signed[d] \cup {<<>>}, r \in Registries[d] : Sign(d, base, r)
    \/ \E i \in Instances :
         \/ \E d \in Domains : \E c \in signed[d] : Publish(i, d, c)
         \/ \E kd, kr \in Ids : SettlementKeys(i, kd, kr) \/ SettlementDenied(i, kd, kr)
         \/ SettlementEnds(i)
         \/ \E m \in 1..MaxRev["destination"], n \in 1..MaxRev["readback"] :
              Restart(i, [d \in Domains |-> IF d = "destination" THEN m ELSE n])
    \/ \E d \in Domains : \E kept \in SUBSET Stored(d) : Restore(d, kept)

Spec == Init /\ [][Next]_vars

------------------------------------------------------------------------------
(* Types. *)
TypeOK ==
    /\ \A d \in Domains : \A n \in Stored(d) : rows[d][n] \in signed[d]
    /\ \A i \in Instances, d \in Domains : floors[i][d] \in 1..MaxRev[d]
    /\ \A i \in Instances, d \in Domains : Len(known[i][d]) <= floors[i][d]
    /\ restores \in 0..MaxRestores

(* The life of a key over any stretch of a history that loads: it never     *)
(* disappears, never gets other material, never returns from revocation,    *)
(* is never active before a revision had it staged unless the history       *)
(* began with it, and a domain with an active key always keeps one.         *)
LawfulHistory ==
    \A d \in Domains : Loads(d) =>
      \A m, n \in Stored(d) : m < n =>
        LET old == Last(rows[d][m])  new == Last(rows[d][n]) IN
        /\ \A k \in DOMAIN old :
             /\ k \in DOMAIN new /\ new[k].material = old[k].material
             /\ old[k].state = "revoked" => new[k].state = "revoked"
        /\ \A k \in ActiveIn(new) : \E b \in 1..(n - 1) :
             k \in DOMAIN Last(rows[d][b]) /\ Last(rows[d][b])[k].state # "revoked"
        /\ ActiveIn(old) # {} => ActiveIn(new) # {}

(* A settlement is decided under the registries that are current when it    *)
(* commits: no rotation of either domain slips between resolving its keys   *)
(* and its end.                                                             *)
SettlesAtHead ==
    \A i \in Instances : settling[i] # None =>
      \A d \in Domains : /\ settling[i].chain[d] = Current(d)
                         /\ ResolveActive(Last(Current(d)), settling[i].key[d])

(* With controllers that sign one envelope per revision, a process never    *)
(* settles under a history that lacks what it published, settled with or    *)
(* was pinned to before, whatever the database was restored to.             *)
NoRollbackUsed ==
    \A i \in Instances : (settling[i] = None /\ settling'[i] # None) =>
        \A d \in Domains : IsPrefix(known[i][d], settling'[i].chain[d])
=============================================================================
