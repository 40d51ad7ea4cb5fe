------------------------------ MODULE MCIntake ------------------------------
(* Small instances of how data becomes records, one at a time: the         *)
(* ingestion of files, the graph of fingerprints drawn from them, and the  *)
(* import and synchronisation of Apple sources.                            *)
EXTENDS MCIngestion, AppleImport

IntakeInit ==
    /\ AppleInit
    /\ \/ BothInit
       \/ /\ part = "import" /\ Init /\ GraphInit
          /\ load = CHOOSE w \in Workload : TRUE
          /\ active = CHOOSE a \in Registry : TRUE
IntakeNext ==
    \/ BothNext /\ UNCHANGED appleVars
    \/ part = "import" /\ AppleNext /\ UNCHANGED <<part, vars, graphVars>>
IntakeSpec == IntakeInit /\ [][IntakeNext]_<<part, vars, graphVars, appleVars>>
=============================================================================
