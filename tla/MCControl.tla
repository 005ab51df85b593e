------------------------------ MODULE MCControl -----------------------------
(***************************************************************************)
(* The control plane over each of its stores (ControlPlane), the hub that  *)
(* translates what it routes (ProtocolHub) and the cache of keys its       *)
(* operators are verified against (OperatorKeys).  They share no state;    *)
(* the scene says which of them moves, and the others rest where they      *)
(* begin.                                                                  *)
(***************************************************************************)
EXTENDS ControlPlane, ProtocolHub, OperatorKeys, FiniteSetsExt, TLC

CONSTANTS c0, c1, c2, p1, p2, p3, w1, w2, k1, pay

VARIABLE scene

sceneVars == <<scene, vars, hubVars, keyVars>>

-----------------------------------------------------------------------------
(* Identical calls c0, c1 and c2 (one request scope) on two workers, c0 of *)
(* which has already asked for approval; or, on one worker, p1, the        *)
(* operation p2 of the same request and the costlier preview p3.           *)
MCWorkerOf == [c \in Calls |-> IF c \in {c0, c2} THEN w2 ELSE w1]
MCKeyOf == [c \in Calls |-> k1]
MCCostOf == [c \in Calls |-> IF c = p3 THEN 2 ELSE 1]
MCCapOf == [c \in Calls |-> pay]
MCScopeOf == [c \in Calls |-> IF c = p3 THEN p3 ELSE IF c \in {p1, p2} THEN p1 ELSE c1]
MCRouteOf == [c \in Calls |-> "mcp-a2a"]
MCCostSum == [S \in SUBSET Calls |-> MapThenSumSet(LAMBDA c : CostOf[c], S)]

AskRule == {[kind |-> "approval_above_cost", max |-> 0]}
HoursRules == AskRule \cup {[kind |-> "business_hours"]}
RouteRule == {[kind |-> "deny_route", route |-> "mcp-a2a"]}
MCRules == HoursRules \cup RouteRule

Site(backend, calls, workers, site_rules) ==
    [backend |-> backend, calls |-> calls, workers |-> workers, rules |-> site_rules]
Sqlite == Site("sqlite", {c0, c1, c2}, {w1, w2}, AskRule)
Memory == Site("memory", {c0, c1, c2}, {w1, w2}, HoursRules)
Postgres == Site("postgres", {p1, p2, p3}, {w1}, RouteRule)
MCSites == {Sqlite, Memory, Postgres}

-----------------------------------------------------------------------------
SceneInit ==
    /\ scene \in {"control", "hub", "keys"}
    /\ Init /\ (scene # "control" => site = Sqlite)
    /\ KeysInit /\ (scene # "keys" => idp = {})
    /\ IF scene = "hub" THEN HubInit ELSE InitReply /\ proto = "mcp" /\ blocks = <<>>

SceneNext ==
    /\ UNCHANGED scene
    /\ \/ scene = "control" /\ Next /\ UNCHANGED <<hubVars, keyVars>>
       \/ scene = "hub" /\ HubNext /\ UNCHANGED <<vars, keyVars>>
       \/ scene = "keys" /\ KeysNext /\ UNCHANGED <<vars, hubVars>>

SceneSpec == SceneInit /\ [][SceneNext]_sceneVars

=============================================================================
