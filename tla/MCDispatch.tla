----------------------------- MODULE MCDispatch -----------------------------
(***************************************************************************)
(* What queued work leaves behind: the retained intents and admission      *)
(* links (TaskIntents), the SQLite destination file (DestinationFile) and  *)
(* the PostgreSQL fence (PgFence).  They share no state; the scene says    *)
(* which of them moves, and the others rest where they begin.              *)
(***************************************************************************)
EXTENDS TaskIntents, DestinationFile, PgFence, FiniteSetsExt, TLC

CONSTANTS w1, w2, w3, s1, s2, s3, t1, t2, o1, o2, f1, f2, b1, q1, q3, d1, d2

VARIABLE scene

sceneVars == <<scene, vars, destinationVars, fenceVars>>

-----------------------------------------------------------------------------
(* Two workers at READ COMMITTED and one whose connection runs at          *)
(* REPEATABLE READ.  Submissions s1 and s2 share an operation, s1 and s3 a *)
(* task; s2 and s3 may be retained together.                               *)
MCTaskOf == s1 :> t1 @@ s2 :> t2 @@ s3 :> t1
MCOpOf == s1 :> o1 @@ s2 :> o1 @@ s3 :> o2
MCSizeOf == s1 :> 1 @@ s2 :> 2 @@ s3 :> 1
MCIsolation ==
    w1 :> "read committed" @@ w2 :> "read committed" @@ w3 :> "repeatable read"

(* The default admits one record; the others admit two, with a smaller and *)
(* a larger result allowance, or too few bytes for the larger ones.        *)
MCDefault == [intentBytes |-> 2, resultBytes |-> 1, items |-> 1, bytes |-> 4]
MCCapacities ==
    {MCDefault,
     [intentBytes |-> 1, resultBytes |-> 2, items |-> 2, bytes |-> 6],
     [intentBytes |-> 2, resultBytes |-> 1, items |-> 2, bytes |-> 4]}

MCRetainedSum ==
    [rows \in RowSets |-> MapThenSumSet(LAMBDA i : SizeOf[i] + rows[i], Accepted(rows))]

(* Fenced v1 processes f1 and f2 with different fingerprints, a sandbox    *)
(* process b1, and queued processes q1 and q3 of two descriptors that are  *)
(* configured with the same path.                                          *)
MCKindOf ==
    [h \in Handles |-> CASE h \in {f1, f2} -> "fenced"
                         [] h = b1 -> "sandbox"
                         [] OTHER -> "queued"]
MCDescOf == [h \in Handles |-> IF h = q3 THEN d2 ELSE d1]
MCPrintOf == [h \in Handles |-> IF h = f1 THEN "first" ELSE "second"]

-----------------------------------------------------------------------------
SceneInit ==
    /\ scene \in {"intents", "file", "fence"}
    /\ Init /\ DestinationInit /\ FenceInit

SceneNext ==
    /\ UNCHANGED scene
    /\ \/ scene = "intents" /\ Next /\ UNCHANGED <<destinationVars, fenceVars>>
       \/ scene = "file" /\ DestinationNext /\ UNCHANGED <<vars, fenceVars>>
       \/ scene = "fence" /\ FenceNext /\ UNCHANGED <<vars, destinationVars>>

SceneSpec == SceneInit /\ [][SceneNext]_sceneVars

=============================================================================
