----------------------------- MODULE MCJournals -----------------------------
(***************************************************************************)
(* What is written down to be believed later: the audit log and its        *)
(* checkpoints (AuditChain, three times: retention on PostgreSQL, the      *)
(* witness over SQLite, a log in memory), the capacity of the              *)
(* authorization journals (RetainedJournals) and the history of trusted    *)
(* signing keys (SigningTrust, twice).  They share no state here; the      *)
(* scene says which of them this behaviour is about, and the variables of  *)
(* the others are off.                                                     *)
(***************************************************************************)
EXTENDS Integers, Sequences, TLC

CONSTANTS w1, w2, a, b, k1, k2, NoPolicy, i1, i2, None

VARIABLES
    scene,
    log, auditLimits, used, hold, localHold, evidence, job, checkpoints, registry,
    exported, journal, logRestores,
    kind, backend, obj, limits, rows, opened, shadowed, pledge, acked, damage,
    envelopes, signed, floors, known, settling, published, restores

auditVars == <<log, auditLimits, used, hold, localHold, evidence, job, checkpoints,
               registry, exported, journal, logRestores>>
journalVars == <<kind, backend, obj, limits, rows, opened, shadowed, pledge, acked, damage>>
trustVars == <<envelopes, signed, floors, known, settling, published, restores>>
vars == <<scene, auditVars, journalVars, trustVars>>

Off == "off"
AuditOff ==
    /\ log = Off /\ auditLimits = Off /\ used = Off /\ hold = Off /\ localHold = Off
    /\ evidence = Off /\ job = Off /\ checkpoints = Off /\ registry = Off
    /\ exported = Off /\ journal = Off /\ logRestores = Off
JournalsOff ==
    /\ kind = Off /\ backend = Off /\ obj = Off /\ limits = Off /\ rows = Off
    /\ opened = Off /\ shadowed = Off /\ pledge = Off /\ acked = Off /\ damage = Off
TrustOff ==
    /\ envelopes = Off /\ signed = Off /\ floors = Off /\ known = Off
    /\ settling = Off /\ published = Off /\ restores = Off

-----------------------------------------------------------------------------
(* Bodies of one and two bytes, and limits of the audit that bind.         *)
Bodies == {a, b}
SizeOf == a :> 1 @@ b :> 2
Wide == [records |-> 3, bytes |-> 6, entry |-> 2]
Same == {Wide}
Narrow == {[records |-> 2, bytes |-> 3, entry |-> 2], [records |-> 3, bytes |-> 4, entry |-> 1]}

(* Two workers on PostgreSQL, an empty log or one entry from before the    *)
(* upgrade, and evidence that protects the log from truncation.            *)
Workers == {w1, w2}
Retained == {"operation", "reservation"}
OldLogs == {<<>>, <<[seq |-> 0, prev |-> <<>>, hash |-> <<b>>]>>}
Retention == INSTANCE AuditChain WITH
    limits <- auditLimits, signed <- checkpoints, restores <- logRestores,
    Backend <- "postgres", Legacy <- OldLogs, Default <- Wide, Limits <- Narrow,
    Evidence <- Retained, MaxSeq <- 2, MaxSigned <- 1, MaxJournal <- 0, MaxRestores <- 0

(* One worker on SQLite, a witness that journals two statements, and one   *)
(* restore of the database.                                                *)
OneWorker == {w1}
NewLog == {<<>>}
Witness == INSTANCE AuditChain WITH
    limits <- auditLimits, signed <- checkpoints, restores <- logRestores,
    Workers <- OneWorker, Backend <- "sqlite", Legacy <- NewLog, Default <- Wide,
    Limits <- Same, Evidence <- {}, MaxSeq <- 1, MaxSigned <- 2, MaxJournal <- 2,
    MaxRestores <- 1

(* One worker whose log is a list.                                         *)
Memory == INSTANCE AuditChain WITH
    limits <- auditLimits, signed <- checkpoints, restores <- logRestores,
    Workers <- OneWorker, Backend <- "memory", Legacy <- NewLog, Default <- Wide,
    Limits <- Same, Evidence <- {}, MaxSeq <- 2, MaxSigned <- 1, MaxJournal <- 0,
    MaxRestores <- 0

(* Two keys and entries of one or two bytes let a journal be exactly full, *)
(* over-full after limits are lowered, and refused by each limit; the last *)
(* choice is not a valid limits object.  Three objects are damaged.        *)
Keys == {k1, k2}
Sizes == {1, 2}
L(n, m, e) == [records |-> n, bytes |-> m, entry |-> e]
Choices == {L(1, 2, 2), L(2, 3, 2), L(2, 2, 1), L(2, 1, 2)}
DefaultLimits == L(2, 4, 2)
Journals == INSTANCE RetainedJournals WITH Default <- DefaultLimits, MaxDamage <- 3

(* In the destination domain key a is replaced by key b, with candidates   *)
(* that break each rule of a rotation.                                     *)
Domains == {"destination", "readback"}
Ids == {"a", "b"}
K(m, s) == [material |-> m, state |-> s]
A(s) == [a |-> K(1, s)]
AB(s, t) == [a |-> K(1, s), b |-> K(2, t)]
Lawful == [destination |-> {A("active"), AB("active", "staged"), AB("revoked", "active")},
           readback |-> {A("active"), AB("revoked", "active")}]
Unlawful == [destination |-> {AB("active", "active"), AB("revoked", "active"),
                              [a |-> K(3, "active"), b |-> K(2, "active")]},
             readback |-> {A("active")}]

(* Two processes, both domains, and one restore of the database.           *)
Processes == {i1, i2}
TwoRevisions == [d \in Domains |-> 2]
Rotation == INSTANCE SigningTrust WITH
    rows <- envelopes, Instances <- Processes, Registries <- Lawful, Proposals <- 1,
    MaxRev <- TwoRevisions, MaxRestores <- 1

(* One process, two candidates for each revision, and time for a key that  *)
(* was revoked to be proposed again.                                       *)
OneProcess == {i1}
ThreeRevisions == [d \in Domains |-> IF d = "destination" THEN 3 ELSE 1]
Conflict == INSTANCE SigningTrust WITH
    rows <- envelopes, Instances <- OneProcess, Registries <- Unlawful, Proposals <- 2,
    MaxRev <- ThreeRevisions, MaxRestores <- 0

ASSUME Instances ==
    /\ Retention!AuditAssumption /\ Witness!AuditAssumption /\ Memory!AuditAssumption
    /\ Rotation!DomainsAssumption

-----------------------------------------------------------------------------
Init ==
    \/ scene = "retention" /\ Retention!Init /\ JournalsOff /\ TrustOff
    \/ scene = "witness" /\ Witness!Init /\ JournalsOff /\ TrustOff
    \/ scene = "memory" /\ Memory!Init /\ JournalsOff /\ TrustOff
    \/ scene = "journals" /\ Journals!Init /\ AuditOff /\ TrustOff
    \/ scene = "rotation" /\ Rotation!Init /\ AuditOff /\ JournalsOff
    \/ scene = "conflict" /\ Conflict!Init /\ AuditOff /\ JournalsOff

Next ==
    /\ UNCHANGED scene
    /\ \/ scene = "retention" /\ Retention!Next /\ UNCHANGED <<journalVars, trustVars>>
       \/ scene = "witness" /\ Witness!Next /\ UNCHANGED <<journalVars, trustVars>>
       \/ scene = "memory" /\ Memory!Next /\ UNCHANGED <<journalVars, trustVars>>
       \/ scene = "journals" /\ Journals!Next /\ UNCHANGED <<auditVars, trustVars>>
       \/ scene = "rotation" /\ Rotation!Next /\ UNCHANGED <<auditVars, journalVars>>
       \/ scene = "conflict" /\ Conflict!Next /\ UNCHANGED <<auditVars, journalVars>>

Spec == Init /\ [][Next]_vars

-----------------------------------------------------------------------------
(* AuditLog, CheckpointRegistry and the witness journal: the retained log  *)
(* is one unbroken chain whose counters are exact; every registered        *)
(* checkpoint verifies against it after any truncation; nothing is         *)
(* truncated under a hold or while retained evidence needs it; and the     *)
(* witness journal never contradicts itself, whatever is restored.         *)
AuditProvable ==
    /\ [](scene = "retention" =>
            /\ Retention!TypeOK /\ Retention!ChainIntact
            /\ Retention!CheckpointsVerify /\ Retention!UsageExact)
    /\ [](scene = "witness" => Witness!JournalMonotone)
    /\ [](scene = "memory" => Memory!TypeOK /\ Memory!ChainIntact)
    /\ [][scene = "retention" => Retention!RetentionGuarded]_vars

(* The three journal capacities: with any object lost or altered, a        *)
(* qualified worker acknowledges only what is kept and within the limits   *)
(* an operator set; workers agree on whether the journal is qualified.     *)
JournalsKept ==
    /\ [](scene = "journals" =>
            Journals!TypeOK /\ Journals!AckedRetained /\ Journals!QualificationAgrees)
    /\ [][scene = "journals" => Journals!PledgeKept /\ Journals!GrowthBounded]_vars

(* signing_trust_journal.py: an instance settles only at the newest        *)
(* revision it could know of and never on a rolled back history; every     *)
(* stored history is a lawful rotation.                                    *)
TrustAtHead ==
    /\ [](scene = "rotation" => Rotation!TypeOK /\ Rotation!SettlesAtHead)
    /\ [](scene = "conflict" => Conflict!LawfulHistory)
    /\ [][scene = "rotation" => Rotation!NoRollbackUsed]_vars

=============================================================================
