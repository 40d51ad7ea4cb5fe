--------------------------- MODULE BatchContract ---------------------------
(***************************************************************************)
(* What the user of a smart-folder batch is promised: the files submitted  *)
(* wait, are worked on and are settled once; none is started while the     *)
(* batch is paused or after it was cancelled; and the batch says that it   *)
(* is complete only when nothing waits and nothing is worked on.  How the  *)
(* coordinator, its workers and the handlers keep this is BatchIngestion.  *)
(***************************************************************************)
CONSTANT File

VARIABLES
    phase,     \* "new", "open", "paused", "cancelled" or "complete"
    waiting,   \* files not started
    working    \* files started and not settled

contractVars == <<phase, waiting, working>>

ContractInit == phase = "new" /\ waiting = {} /\ working = {}

SubmitFiles ==
    /\ phase = "new" /\ phase' = "open"
    /\ waiting' \in (SUBSET File) \ {{}}
    /\ UNCHANGED working

StartFile(f) ==
    /\ phase = "open" /\ f \in waiting
    /\ waiting' = waiting \ {f} /\ working' = working \cup {f}
    /\ UNCHANGED phase

\* In any phase: a pause or a cancellation lets the workers finish.
SettleFile(f) ==
    /\ f \in working /\ working' = working \ {f}
    /\ UNCHANGED <<phase, waiting>>

Pause ==
    /\ phase = "open" /\ waiting # {} /\ phase' = "paused"
    /\ UNCHANGED <<waiting, working>>

Resume ==
    /\ phase = "paused" /\ phase' = "open"
    /\ UNCHANGED <<waiting, working>>

\* Also a batch that was complete is cancelled by a late request.
Cancel ==
    /\ phase # "new" /\ phase' = "cancelled"
    /\ UNCHANGED <<waiting, working>>

Complete ==
    /\ phase = "open" /\ waiting = {} /\ working = {} /\ phase' = "complete"
    /\ UNCHANGED <<waiting, working>>

ContractNext ==
    \/ SubmitFiles \/ Pause \/ Resume \/ Cancel \/ Complete
    \/ \E f \in File : StartFile(f) \/ SettleFile(f)

ContractSpec == ContractInit /\ [][ContractNext]_contractVars
============================================================================
