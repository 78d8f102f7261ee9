------------------------------ MODULE MCEngine ------------------------------
(***************************************************************************)
(* The engine, its event bridge and the upload manager on a small          *)
(* instance.  The two meet only where the bridge hands a completion over;  *)
(* the run explores them one at a time: the life of engines up to the      *)
(* handover, and the uploads with files that arrive in any order.          *)
(***************************************************************************)
EXTENDS Engine, Uploads, TLC

CONSTANTS f1, f2, j1, j2, s1, s2, u1, c1, c2,
    Effort    \* bound on the files that arrive and the calls, together

VARIABLE part
engVars == <<engineVars, uploadVars, part>>

TwoFiles == {f1, f2}
TwoJobs == {j1, j2}
TwoSinks == {s1, s2}
TwoCallers == {c1, c2}
OneUser == {u1}

EngInit ==
    /\ EngineInit /\ UploadInit
    /\ \/ part = "engine" /\ store.width = 1     \* the uploads stay as they are
       \/ part = "uploads"

(* What the bridge does, as the uploads see it: a file arrives.            *)
Arrives(f) ==
    /\ f \notin handed
    /\ finished' = finished \cup {f} /\ handed' = handed \cup {f}
    /\ Request(f)
    /\ UNCHANGED <<lifeVars, channel, lagged, others, missed>>

EngNext ==
    /\ UNCHANGED part
    /\ \/ part = "engine" /\ EngineNext /\ UNCHANGED uploadVars
       \/ /\ part = "uploads"
          /\ \/ UploadNext /\ UNCHANGED engineVars
             \/ \E f \in Files : Arrives(f)
          /\ Cardinality(handed') + uops' <= Effort

EngSpec == EngInit /\ [][EngNext]_engVars /\ EngineFairness /\ UploadFairness
=============================================================================
