------------------------ MODULE AuthorityDirectory --------------------------
(***************************************************************************)
(* Tenant authority (authority.py): platform administrators, tenants,      *)
(* members, agents and delegations are rows with a revision; a login or a  *)
(* signed request mints a principal that carries the revisions it was      *)
(* derived from, and every later use compares them with the rows.          *)
(*                                                                         *)
(* Writers hold advisory lock 911005 exclusively (SQLite: the write lock), *)
(* guards hold it shared around a local governance operation, and every    *)
(* other read is one transaction.  A session slot holds a principal some   *)
(* process was given; its seal cannot be forged, so principals are only    *)
(* ever minted.  Nonces are the subject of RequestReplay.                  *)
(***************************************************************************)
EXTENDS Naturals, FiniteSets

CONSTANTS
    Admins,         \* platform subjects
    Tenants,
    Members,        \* <<tenant, subject>> pairs that may be enrolled
    Agents,         \* <<tenant, agent>> pairs that may be enrolled
    PublicKeys,     \* agent request keys
    Scopes,         \* scope sets (capabilities and targets) that occur
    Grants,         \* delegation identities
    Slots,          \* principals held by processes
    MaxWrites,      \* bound: enrollment changes
    MaxClock,       \* bound: time
    Life,           \* longest token life, and longest delegation
    None

VARIABLES tenant, platform, member, agent, delegation, sessions, guarding, clock, writes

rows == <<tenant, platform, member, agent, delegation>>
vars == <<tenant, platform, member, agent, delegation, sessions, guarding, clock, writes>>

Roles == {"tenant_admin", "member"}
Fresh(s) == sessions[s] = None

------------------------------------------------------------------------------
(* Rows that may be used: _tenant, _platform, _member, _agent.              *)
TenantUp(t) == tenant[t].active
PlatformUp(a) == platform[a].active
MemberUp(m) == member[m].active
AgentUp(g) == agent[g].active

(* _grant: a delegation is valid only while every revision it was made      *)
(* under still stands, inside its time window.                              *)
GrantorAny(d) == TRUE
GrantorStands(d) ==
    IF d.grantor[1] = "platform"
    THEN PlatformUp(d.grantor[2]) /\ platform[d.grantor[2]].rev = d.grantorRev
    ELSE /\ MemberUp(d.grantor[2]) /\ member[d.grantor[2]].role = "tenant_admin"
         /\ member[d.grantor[2]].rev = d.grantorRev
GrantUp(id, g) ==
    LET d == delegation[id] IN
    /\ d # None
    /\ d.active
    /\ d.from <= clock /\ clock < d.to
    /\ d.agent = g /\ d.agentRev = agent[g].rev
    /\ TenantUp(g[1]) /\ d.tenantRev = tenant[g[1]].rev
    /\ MemberUp(d.user) /\ member[d.user].rev = d.userRev
    /\ GrantorStands(d)

(* _verify_seal and _current.                                               *)
Current(p) ==
    /\ p # None
    /\ p.until > clock
    /\ CASE p.kind = "platform_admin" -> PlatformUp(p.who) /\ platform[p.who].rev = p.rev
         [] p.kind \in Roles ->
              /\ TenantUp(p.who[1]) /\ tenant[p.who[1]].rev = p.tenantRev
              /\ MemberUp(p.who) /\ member[p.who].role = p.kind /\ member[p.who].rev = p.rev
         [] p.kind = "machine" ->
              /\ TenantUp(p.who[1]) /\ tenant[p.who[1]].rev = p.tenantRev
              /\ AgentUp(p.who) /\ agent[p.who].rev = p.rev
         [] p.kind = "delegated_human" ->
              /\ TenantUp(p.who[1]) /\ tenant[p.who[1]].rev = p.tenantRev
              /\ AgentUp(p.who) /\ agent[p.who].rev = p.rev
              /\ GrantUp(p.grant, p.who) /\ delegation[p.grant].rev = p.grantRev

(* _admin: a platform administrator, or the tenant's own.                   *)
AdminAnyTenant(p, t) == Current(p) /\ p.kind \in {"platform_admin", "tenant_admin"}
Admin(p, t) ==
    /\ Current(p)
    /\ p.kind = "platform_admin" \/ (p.kind = "tenant_admin" /\ t # None /\ p.who[1] = t)

(* authorize *)
Authorizes(p, scope) ==
    Current(p) /\ p.kind \in {"machine", "delegated_human"} /\ scope \in p.scopes

------------------------------------------------------------------------------
(* Minting.  deps and stale are history: the rows a principal depends on    *)
(* and whether one of them was written since.                               *)
Mint(s, p) ==
    /\ Fresh(s)
    /\ sessions' = [sessions EXCEPT ![s] = p]
    /\ UNCHANGED <<rows, guarding, clock, writes>>

AuthenticatePlatform(s, a, until) ==
    /\ clock < until
    /\ PlatformUp(a)
    /\ Mint(s, [kind |-> "platform_admin", who |-> a, rev |-> platform[a].rev, tenantRev |-> 0,
                grant |-> None, grantRev |-> 0, until |-> until, scopes |-> {}, key |-> None,
                deps |-> {<<"platform", a>>}, stale |-> FALSE])

AuthenticateMember(s, m, until) ==
    /\ clock < until
    /\ TenantUp(m[1]) /\ MemberUp(m)
    /\ Mint(s, [kind |-> member[m].role, who |-> m, rev |-> member[m].rev,
                tenantRev |-> tenant[m[1]].rev, grant |-> None, grantRev |-> 0, until |-> until,
                scopes |-> member[m].scopes, key |-> None,
                deps |-> {<<"tenant", m[1]>>, <<"member", m>>}, stale |-> FALSE])

Earlier(x, y) == IF x <= y THEN x ELSE y

(* authenticate_agent, after its nonce was claimed: the request is signed   *)
(* with the key enrolled now.                                               *)
AuthenticateAgent(s, g, key, until) ==
    /\ clock < until
    /\ TenantUp(g[1]) /\ AgentUp(g) /\ agent[g].key = key
    /\ Mint(s, [kind |-> "machine", who |-> g, rev |-> agent[g].rev,
                tenantRev |-> tenant[g[1]].rev, grant |-> None, grantRev |-> 0, until |-> until,
                scopes |-> agent[g].scopes, key |-> key,
                deps |-> {<<"tenant", g[1]>>, <<"agent", g>>}, stale |-> FALSE])

AuthenticateDelegated(s, g, key, id, until) ==
    LET d == delegation[id] IN
    /\ clock < until
    /\ TenantUp(g[1]) /\ AgentUp(g) /\ agent[g].key = key
    /\ GrantUp(id, g)
    /\ Mint(s, [kind |-> "delegated_human", who |-> g, rev |-> agent[g].rev,
                tenantRev |-> tenant[g[1]].rev, grant |-> id, grantRev |-> d.rev,
                until |-> Earlier(d.to, until), scopes |-> d.scopes, key |-> key,
                deps |-> {<<"tenant", g[1]>>, <<"agent", g>>, <<"grant", id>>,
                          <<"member", d.user>>, d.grantor},
                stale |-> FALSE])

------------------------------------------------------------------------------
(* Writes.  The exclusive lock waits for every guard.                       *)
ExclusiveNow == TRUE
Exclusive == guarding = {}
NextRev(r) == r + 1

Write(row) ==
    /\ writes < MaxWrites
    /\ Exclusive
    /\ writes' = writes + 1
    /\ sessions' = [s \in Slots |-> IF Fresh(s) THEN None
                      ELSE [sessions[s] EXCEPT !.stale = @ \/ row \in sessions[s].deps]]
    /\ UNCHANGED <<guarding, clock>>

BootstrapPlatformAdmin(a) ==
    /\ \A b \in Admins : platform[b].rev = 0
    /\ Write(<<"platform", a>>)
    /\ platform' = [platform EXCEPT ![a] = [rev |-> 1, active |-> TRUE]]
    /\ UNCHANGED <<tenant, member, agent, delegation>>

SetTenant(s, t, up) ==
    /\ Admin(sessions[s], None)
    /\ Write(<<"tenant", t>>)
    /\ tenant' = [tenant EXCEPT ![t] = [rev |-> @.rev + 1, active |-> up]]
    /\ UNCHANGED <<platform, member, agent, delegation>>

EnrollPlatformAdmin(s, a) ==
    /\ Admin(sessions[s], None)
    /\ Write(<<"platform", a>>)
    /\ platform' = [platform EXCEPT ![a] = [rev |-> @.rev + 1, active |-> TRUE]]
    /\ UNCHANGED <<tenant, member, agent, delegation>>

NotAbsent(a) == PlatformUp(a)
NotTheLast(a) == PlatformUp(a) /\ Cardinality({b \in Admins : PlatformUp(b)}) > 1
RevokePlatformAdmin(s, a) ==
    /\ Admin(sessions[s], None)
    /\ NotTheLast(a)
    /\ Write(<<"platform", a>>)
    /\ platform' = [platform EXCEPT ![a] = [rev |-> @.rev + 1, active |-> FALSE]]
    /\ UNCHANGED <<tenant, member, agent, delegation>>

EnrollMember(s, m, role, scopes) ==
    /\ Admin(sessions[s], m[1])
    /\ TenantUp(m[1])
    /\ Write(<<"member", m>>)
    /\ member' = [member EXCEPT ![m] = [rev |-> NextRev(@.rev), active |-> TRUE, role |-> role,
                                        scopes |-> scopes]]
    /\ UNCHANGED <<tenant, platform, agent, delegation>>

RevokeMember(s, m) ==
    /\ Admin(sessions[s], m[1])
    /\ MemberUp(m)
    /\ Write(<<"member", m>>)
    /\ member' = [member EXCEPT ![m] = [@ EXCEPT !.rev = @ + 1, !.active = FALSE]]
    /\ UNCHANGED <<tenant, platform, agent, delegation>>

EnrollAgent(s, g, key, scopes) ==
    /\ Admin(sessions[s], g[1])
    /\ TenantUp(g[1])
    /\ Write(<<"agent", g>>)
    /\ agent' = [agent EXCEPT ![g] = [rev |-> @.rev + 1, active |-> TRUE, key |-> key,
                                      scopes |-> scopes]]
    /\ UNCHANGED <<tenant, platform, member, delegation>>

RevokeAgent(s, g) ==
    /\ Admin(sessions[s], g[1])
    /\ AgentUp(g)
    /\ Write(<<"agent", g>>)
    /\ agent' = [agent EXCEPT ![g] = [@ EXCEPT !.rev = @ + 1, !.active = FALSE]]
    /\ UNCHANGED <<tenant, platform, member, delegation>>

(* grant_delegation: an administrator and the consenting user, whose        *)
(* session bounds the life of the grant and, with the agent, its scopes.    *)
ScopesOfUser(user, g, scopes) == scopes # {} /\ scopes \subseteq user.scopes
ScopesAllowed(user, g, scopes) ==
    scopes # {} /\ scopes \subseteq user.scopes \cap agent[g].scopes
GrantDelegation(s, u, g, id, scopes, from, to) ==
    LET actor == sessions[s]  user == sessions[u] IN
    /\ delegation[id] = None
    /\ Current(user) /\ user.kind \in Roles /\ g[1] = user.who[1]
    /\ clock <= from /\ from < to /\ to <= Earlier(user.until, clock + Life)
    /\ Admin(actor, user.who[1])
    /\ AgentUp(g)
    /\ ScopesAllowed(user, g, scopes)
    /\ Write(<<"grant", id>>)
    /\ delegation' = [delegation EXCEPT ![id] =
         [rev |-> 1, active |-> TRUE, agent |-> g, agentRev |-> agent[g].rev,
          user |-> user.who, userRev |-> user.rev, tenantRev |-> user.tenantRev,
          grantor |-> IF actor.kind = "platform_admin" THEN <<"platform", actor.who>>
                      ELSE <<"member", actor.who>>,
          grantorRev |-> actor.rev, scopes |-> scopes, from |-> from, to |-> to,
          consent |-> user.until]]
    /\ UNCHANGED <<tenant, platform, member, agent>>

RevokeDelegation(s, id) ==
    /\ delegation[id] # None
    /\ Admin(sessions[s], delegation[id].agent[1])
    /\ Write(<<"grant", id>>)
    /\ delegation' = [delegation EXCEPT ![id] = [@ EXCEPT !.rev = @ + 1, !.active = FALSE]]
    /\ UNCHANGED <<tenant, platform, member, agent>>

------------------------------------------------------------------------------
(* guard: the principal is checked and the shared lock held to the end of   *)
(* the governed operation.                                                  *)
GuardBeginUnchecked(s) ==
    /\ s \notin guarding
    /\ guarding' = guarding \cup {s}
    /\ UNCHANGED <<rows, sessions, clock, writes>>
GuardBegin(s) ==
    /\ s \notin guarding
    /\ Current(sessions[s])
    /\ guarding' = guarding \cup {s}
    /\ UNCHANGED <<rows, sessions, clock, writes>>

GuardEnd(s) ==
    /\ s \in guarding
    /\ guarding' = guarding \ {s}
    /\ UNCHANGED <<rows, sessions, clock, writes>>

(* A process lets go of a principal; time passes.                           *)
Forget(s) ==
    /\ ~Fresh(s) /\ s \notin guarding
    /\ sessions' = [sessions EXCEPT ![s] = None]
    /\ UNCHANGED <<rows, guarding, clock, writes>>

Tick ==
    /\ clock < MaxClock
    /\ clock' = clock + 1
    /\ UNCHANGED <<rows, sessions, guarding, writes>>

------------------------------------------------------------------------------
Init ==
    /\ tenant = [t \in Tenants |-> [rev |-> 0, active |-> FALSE]]
    /\ platform = [a \in Admins |-> [rev |-> 0, active |-> FALSE]]
    /\ member = [m \in Members |-> [rev |-> 0, active |-> FALSE, role |-> "member", scopes |-> {}]]
    /\ agent = [g \in Agents |-> [rev |-> 0, active |-> FALSE, key |-> None, scopes |-> {}]]
    /\ delegation = [id \in Grants |-> None]
    /\ sessions = [s \in Slots |-> None]
    /\ guarding = {} /\ clock = 0 /\ writes = 0

Times == 0..(MaxClock + Life)

Authenticate(s, until) ==
    \/ \E a \in Admins : AuthenticatePlatform(s, a, until)
    \/ \E m \in Members : AuthenticateMember(s, m, until)
    \/ \E g \in Agents, key \in PublicKeys :
         \/ AuthenticateAgent(s, g, key, until)
         \/ \E id \in Grants : AuthenticateDelegated(s, g, key, id, until)

Administer(s) ==
    \/ \E t \in Tenants, up \in BOOLEAN : SetTenant(s, t, up)
    \/ \E a \in Admins : EnrollPlatformAdmin(s, a) \/ RevokePlatformAdmin(s, a)
    \/ \E m \in Members : \/ RevokeMember(s, m)
                          \/ \E r \in Roles, c \in Scopes : EnrollMember(s, m, r, c)
    \/ \E g \in Agents : \/ RevokeAgent(s, g)
                         \/ \E key \in PublicKeys, c \in Scopes : EnrollAgent(s, g, key, c)
    \/ \E u \in Slots, g \in Agents, id \in Grants, c \in Scopes, from, to \in Times :
         GrantDelegation(s, u, g, id, c, from, to)
    \/ \E id \in Grants : RevokeDelegation(s, id)

Next ==
    \/ \E a \in Admins : BootstrapPlatformAdmin(a)
    \/ \E s \in Slots : \/ \E l \in 1..Life : Authenticate(s, clock + l)
                        \/ Administer(s)
                        \/ GuardBegin(s) \/ GuardEnd(s) \/ Forget(s)
    \/ Tick

Spec == Init /\ [][Next]_vars

------------------------------------------------------------------------------
(* Types; only known kinds of principals are held. *)
TypeOK ==
    /\ \A s \in Slots : ~Fresh(s) =>
         sessions[s].kind \in Roles \cup {"platform_admin", "machine", "delegated_human"}
    /\ guarding \subseteq {s \in Slots : ~Fresh(s)}
    /\ clock \in 0..MaxClock /\ writes \in 0..MaxWrites

(* The platform can always be administered: once bootstrapped, an active    *)
(* platform administrator remains, whoever revokes whom.                    *)
AlwaysAnAdmin ==
    (\E a \in Admins : platform[a].rev > 0) => \E a \in Admins : platform[a].active

(* No stale authority: a principal that passes _current depends on no row   *)
(* that was written after it was minted.  Revoking and enrolling again      *)
(* does not bring an old principal back, and for a delegated one the user,  *)
(* the grantor and the grant count as much as the agent and the tenant.     *)
NoStaleAuthority ==
    \A s \in Slots : Current(sessions[s]) => ~sessions[s].stale

(* What a current principal may do is within what is enrolled now: an       *)
(* agent's scopes and its key, and for a delegated human also the user's    *)
(* scopes and the life of the session in which the user consented.          *)
WithinEnrollment ==
    \A s \in Slots : LET p == sessions[s] IN
      \A c \in UNION Scopes : Authorizes(p, c) =>
        /\ c \in agent[p.who].scopes /\ p.key = agent[p.who].key
        /\ p.kind = "delegated_human" => LET d == delegation[p.grant] IN
             c \in member[d.user].scopes /\ p.until <= d.consent

(* While a guarded operation runs, nothing its principal depends on is      *)
(* written: the check at its start still describes the rows at its end.     *)
GuardStable == \A s \in guarding : ~sessions[s].stale

(* Every change to the rows of a tenant is made in the presence of a        *)
(* current administrator of that very tenant or of the platform.            *)
ChangesAuthorized ==
    \A m \in Members : member'[m] # member[m] =>
        \E s \in Slots : LET p == sessions[s] IN
           Current(p) /\ (p.kind = "platform_admin"
                            \/ (p.kind = "tenant_admin" /\ p.who[1] = m[1]))
=============================================================================
