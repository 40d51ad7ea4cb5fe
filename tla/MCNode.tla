------------------------------- MODULE MCNode -------------------------------
(* Small instances of the node's own state, one at a time: its identity    *)
(* and databases, its AI configuration, and the calls made with it.        *)
EXTENDS MCNodeLifecycle, AiConfig

VARIABLE part

MCRequested ==
    {[provider |-> "anthropic", key |-> k, enabled |-> e, chat |-> "none"] :
        k \in UserKey \cup {Redacted}, e \in {"yes", "no"}}

NodeInit ==
    /\ part \in {"lifecycle", "config", "calls"}
    /\ Init /\ AiInit
    /\ part = "lifecycle" => cfgFile = NoFile /\ master = 0
    /\ part # "lifecycle" => disk = NoConfig
NodeNext ==
    /\ \/ part = "lifecycle" /\ Next /\ UNCHANGED aiVars
       \/ /\ \/ part = "config" /\ (LoadNext \/ SaveNext)
             \/ part = "calls" /\ (LoadNext \/ CallNext)
          /\ UNCHANGED vars
    /\ UNCHANGED part
NodeSpec == NodeInit /\ [][NodeNext]_<<part, vars, aiVars>>
=============================================================================
