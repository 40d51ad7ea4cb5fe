----------------------------- MODULE MCBackground -----------------------------
(* Small instances of the work that goes on behind a row its user polls,   *)
(* one at a time: uploads with the scan of a folder, the batch of a smart  *)
(* folder, and a query of a contact.                                       *)
EXTENDS FileIntake, MCBatchIngestion, AsyncQuery

CONSTANTS query, p1, p2

VARIABLE work

MCExt == [f \in Path |-> CASE f = "notes" -> "json" [] f = "photo" -> "jpg"
                           [] f = "scan" -> "tif" [] f = "tool" -> "rs"]
MCDir == [f \in Path |->
            [name |-> IF f \in {"photo", "scan"} THEN "pics" ELSE IF f = "tool" THEN "prj" ELSE "top",
             depth |-> IF f = "notes" THEN 0 ELSE 1, hidden |-> FALSE, project |-> f = "tool"]]

MCInit ==
    /\ work \in {"files", "batch", "query"}
    /\ IntakeInit /\ Init /\ AsyncInit
MCNext ==
    /\ \/ work = "files" /\ IntakeNext /\ UNCHANGED <<vars, asyncVars>>
       \/ work = "batch" /\ Next /\ UNCHANGED <<intakeVars, asyncVars>>
       \/ work = "query" /\ AsyncNext /\ UNCHANGED <<intakeVars, vars>>
    /\ UNCHANGED work
\* Of work that is not the one chosen nothing is under way, and fairness asks
\* nothing of it.
MCSpec ==
    /\ MCInit /\ [][MCNext]_<<work, intakeVars, vars, asyncVars>>
    /\ IntakeFairness /\ BatchFairness /\ AsyncFairness
=============================================================================
