----------------------------- MODULE MCTenancy ------------------------------
(***************************************************************************)
(* Who may act, and on whose data, one scene each: the authority directory *)
(* (AuthorityDirectory, twice) and the assignment of a namespace to a      *)
(* tenant (TenantMigration).  They share no state in this model; the       *)
(* variables of the other scenes are off.                                  *)
(***************************************************************************)
EXTENDS TenantMigration, TLC

CONSTANTS t1, t2, u1, u2, a1, p1, p2, read, write, k1, g1, s1, s2

VARIABLES
    scene,
    tenant, platform, member, agent, delegation, sessions, authorityGuards, clock, writes

authorityVars ==
    <<tenant, platform, member, agent, delegation, sessions, authorityGuards, clock, writes>>
allVars == <<scene, authorityVars, vars>>

Off == "off"
AuthorityOff ==
    /\ tenant = Off /\ platform = Off /\ member = Off /\ agent = Off /\ delegation = Off
    /\ sessions = Off /\ authorityGuards = Off /\ clock = Off /\ writes = Off
StoreOff == db = Off /\ handle = Off /\ guarding = Off /\ archive = Off /\ ids = Off

-----------------------------------------------------------------------------
(* One tenant, its administrator, a member and an agent, one platform      *)
(* administrator, two sessions, two writes.                                *)
Slots == {s1, s2}
PublicKeys == {k1}
Grants == {g1}
Agents == {<<t1, a1>>}
OneAdmin == {p1}
TenantOne == {t1}
TwoMembers == {<<t1, u1>>, <<t1, u2>>}
TwoScopes == {{read}, {read, write}}
Delegation == INSTANCE AuthorityDirectory WITH
    Admins <- OneAdmin, Tenants <- TenantOne, Members <- TwoMembers, Scopes <- TwoScopes,
    MaxWrites <- 2, MaxClock <- 1, Life <- 1, guarding <- authorityGuards

(* The state after bootstrap and the enrollment of the tenant, its members *)
(* and its agent, which the actions of AuthorityDirectory reach in five    *)
(* writes.                                                                 *)
Enrolled ==
    /\ tenant = [t \in TenantOne |-> [rev |-> 1, active |-> TRUE]]
    /\ platform = [a \in OneAdmin |-> [rev |-> 1, active |-> TRUE]]
    /\ member = [m \in TwoMembers |-> [rev |-> 1, active |-> TRUE, scopes |-> {read, write},
                                       role |-> IF m[2] = u1 THEN "tenant_admin" ELSE "member"]]
    /\ agent = [g \in Agents |-> [rev |-> 1, active |-> TRUE, scopes |-> {read, write},
                                  key |-> k1]]
    /\ delegation = [id \in Grants |-> None]
    /\ sessions = [s \in Slots |-> None]
    /\ authorityGuards = {} /\ clock = 0 /\ writes = 0

(* Two tenants and two platform subjects, from an empty directory.         *)
TwoAdmins == {p1, p2}
TwoTenants == {t1, t2}
MemberOfEach == {<<t1, u1>>, <<t2, u1>>}
OneScope == {{read}}
Administration == INSTANCE AuthorityDirectory WITH
    Admins <- TwoAdmins, Tenants <- TwoTenants, Members <- MemberOfEach, Scopes <- OneScope,
    MaxWrites <- 5, MaxClock <- 1, Life <- 1, guarding <- authorityGuards

Symmetry == Permutations(Tables) \cup Permutations(Tenants) \cup Permutations(Archives)

-----------------------------------------------------------------------------
SceneInit ==
    \/ scene = "delegation" /\ Enrolled /\ StoreOff
    \/ scene = "administration" /\ Administration!Init /\ StoreOff
    \/ scene = "stores" /\ Init /\ AuthorityOff

SceneNext ==
    /\ UNCHANGED scene
    /\ \/ scene = "delegation" /\ Delegation!Next /\ UNCHANGED vars
       \/ scene = "administration" /\ Administration!Next /\ UNCHANGED vars
       \/ scene = "stores" /\ Next /\ UNCHANGED authorityVars

SceneSpec == SceneInit /\ [][SceneNext]_allVars

-----------------------------------------------------------------------------
(* authority.py: a principal that passes _current depends on no row        *)
(* written since it was minted, exceeds no enrollment that is current, and *)
(* keeps its standing while a guarded operation runs; an active platform   *)
(* administrator always remains, and only a current administrator of the   *)
(* same tenant or of the platform changes a member.                        *)
AuthorityCurrent ==
    /\ [](scene = "delegation" =>
            /\ Delegation!TypeOK /\ Delegation!NoStaleAuthority
            /\ Delegation!WithinEnrollment /\ Delegation!GuardStable)
    /\ [](scene = "administration" => Administration!AlwaysAnAdmin)
    /\ [][scene = "administration" => Administration!ChangesAuthorized]_allVars

(* tenant_migration.py and tenant_store.py: from freeze on old releases    *)
(* add nothing to the recorded history, a namespace holds rows of no       *)
(* tenant but its own, history is assigned by an activated migration only  *)
(* and with a restorable backup, and no phase discards a row.              *)
MigrationKeepsHistory ==
    /\ [](scene = "stores" => HistoryIntact /\ OneTenant)
    /\ [][scene = "stores" =>
            /\ HistoryAssignedOnce
            /\ NothingDiscarded /\ ActivatedWithBackup]_allVars

=============================================================================
