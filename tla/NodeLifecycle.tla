---------------------------- MODULE NodeLifecycle ----------------------------
(***************************************************************************)
(* The node of a server process and the identity it runs under: the        *)
(* NodeManager (configuration, cached node, shared Sled pool), the         *)
(* identity tree, and the operations that provision, restore, reconfigure  *)
(* and delete them while requests keep asking for the node.                *)
(*                                                                         *)
(* An operation is a program of steps, one per lock section, tree access   *)
(* or file access.  Between two steps any other request may run, and the   *)
(* process may die.  Only the write lock of the node slot is held over     *)
(* several steps: by get_node while it creates a node, and by              *)
(* update_config.  An identity is a pair of tree entries, the private key  *)
(* and the public key, which are read and written one at a time.           *)
(***************************************************************************)
EXTENDS Integers, Sequences, FiniteSets, SequencesExt

CONSTANTS
    Task, Admin,    \* requests served at once; those that may be administrative
    Path, Home,     \* database paths; the one a default configuration names
    Identity,       \* identities users have recovery phrases of
    Fresh,          \* identities bootstrap may mint
    Ghost,          \* an identity minted by anything else
    NoKey, NoNode, NoPool, NoConfig, Free,
    Ops,            \* the operations, besides requests, that may be asked for
    MaxOps,         \* how many of them (bounds the model)
    MaxCrashes

ASSUME PathAssumption == Home \in Path
ASSUME AdminAssumption == Admin \subseteq Task
ASSUME LockAssumption == Free \notin Task
ASSUME KeyAssumption == NoKey \notin Identity \cup Fresh \cup {Ghost}

VARIABLES
    config,         \* NodeManager.config (database path, cloud sync on or off)
    slot,           \* NodeManager.shared_node
    lock,           \* the task that holds shared_node's write lock
    pool,           \* NodeManager.shared_pool
    pools,          \* how many pools this process has created
    ident,          \* ident[p]: the identity tree of the database at p
    card,           \* paths whose database has an identity card
    disk,           \* node_config.json
    marker,         \* .onboarding_complete
    prog,           \* per task: the steps still to do
    local,          \* per task: what it has read
    ops, crashes,   \* how many operations were begun, how often the process died
    hist            \* history: what the properties compare with

memVars  == <<config, slot, lock, pool, pools>>
diskVars == <<ident, card, disk, marker>>
taskVars == <<prog, local>>
countVars == <<ops, crashes>>
vars == <<memVars, diskVars, taskVars, countVars, hist>>

Key     == Identity \cup Fresh \cup {Ghost, NoKey}
Pair    == [priv : Key, pub : Key]
Config  == [path : Path, cloud : BOOLEAN]
Pool    == [path : Path, n : Nat]
ASSUME PoolAssumption == NoPool \notin Pool

NoPair  == [priv |-> NoKey, pub |-> NoKey]
Whole(i) == [priv |-> i, pub |-> i]

\* IdentityStore::get: an entry missing means no identity.
Complete(pair) == pair.priv # NoKey /\ pair.pub # NoKey

DefaultConfig == [path |-> Home, cloud |-> FALSE]

Idle == [op |-> "none", cfg |-> DefaultConfig, pre |-> DefaultConfig, pool |-> NoPool,
         keep |-> NoPool, read |-> NoPair, signer |-> NoPair, prior |-> NoPair,
         new |-> NoPair, failed |-> FALSE]

Op == {"none", "request", "setup", "register", "restore", "bootstrap", "delete"}

TypeOK ==
    /\ config \in Config
    /\ slot = NoNode \/ slot \in [cfg : Config, signer : Pair, id : Pair, pool : Pool]
    /\ lock \in Task \cup {Free}
    /\ pool = NoPool \/ pool \in Pool
    /\ ident \in [Path -> Pair]
    /\ card \subseteq Path
    /\ disk \in Config \cup {NoConfig}
    /\ marker \in BOOLEAN
    /\ \A t \in Task : /\ local[t].op \in Op
                       /\ {local[t].cfg, local[t].pre} \subseteq Config
                       /\ {local[t].read, local[t].signer, local[t].prior,
                           local[t].new} \subseteq Pair
                       /\ lock = t => prog[t] # <<>>

\* A process that starts with a new data directory, or one set up before.
Init ==
    /\ config = DefaultConfig
    /\ slot = NoNode
    /\ lock = Free
    /\ pool = NoPool
    /\ pools = 0
    /\ \/ /\ ident = [p \in Path |-> NoPair]
          /\ card = {} /\ disk = NoConfig /\ marker = FALSE
       \/ \E i \in Fresh :
          /\ ident = [p \in Path |-> IF p = Home THEN Whole(i) ELSE NoPair]
          /\ card = {Home} /\ disk = DefaultConfig /\ marker = TRUE
    /\ prog = [t \in Task |-> <<>>]
    /\ local = [t \in Task |-> Idle]
    /\ ops = 0
    /\ crashes = 0
    /\ hist = [wiped |-> FALSE, clean |-> TRUE,
               ident |-> ident, config |-> config]

-----------------------------------------------------------------------------
(* The operations as programs                                              *)

Step(op)      == <<[op |-> op]>>
ReadConfig(edit) == <<[op |-> "config", edit |-> edit]>>
Load(use)     == <<[op |-> "public", use |-> use], [op |-> "private", use |-> use]>>
Save(undo)    == <<[op |-> "savePrivate", undo |-> undo], [op |-> "savePublic", undo |-> undo]>>
Clear         == Step("clearPrivate") \o Step("clearPublic")

\* get_or_init_sled_pool
GetPool == ReadConfig("keep") \o Step("pool")

\* get_node with create_node: the identity is loaded for the signer, and once
\* more when the FoldNode is assembled.
GetNode ==
    Step("fast") \o Step("slow") \o GetPool \o Load("signer") \o Load("node") \o Step("build")

\* update_config, with the configuration just edited or the one kept before.
UpdateConfig(which) ==
    <<[op |-> "newConfig", which |-> which]>> \o Step("dropPool") \o Step("dropNode")

\* ensure_default_identity; whoever ignores its error passes "try".
EnsureDefaultIdentity(use) == GetPool \o Load(use) \o GetNode

SignedRegister == EnsureDefaultIdentity("need") \o GetPool \o Load("need") \o Step("network")

EnableCloudSync == ReadConfig("cloud") \o Step("saveConfig") \o UpdateConfig("edited")

ApplySetup(edit) == ReadConfig(edit) \o Step("saveConfig") \o UpdateConfig("edited")

FinalizeRestore ==
    GetPool \o Save(FALSE) \o EnsureDefaultIdentity("try") \o UpdateConfig("pre")
        \o SignedRegister \o EnableCloudSync

RestoreFromPhrase == ReadConfig("pre") \o GetPool \o Load("prior") \o FinalizeRestore

\* Faulty variant: the node built meanwhile is kept.
RestoreRollbackKeepsNode(prior) == IF Complete(prior) THEN Save(TRUE) ELSE Clear

\* Faulty variant: the identity is not put back.
RestoreRollbackForgetsIdentity(prior) == UpdateConfig("pre")

\* The error branch of restore_from_phrase: its writes' errors are ignored.
RestoreRollback(prior) ==
    (IF Complete(prior) THEN Save(TRUE) ELSE Clear) \o UpdateConfig("pre")

Bootstrap(i, edit) ==
    Step("marked") \o GetPool
        \o (IF i = NoKey THEN Load("mint") ELSE <<>>) \o Save(FALSE)
        \o (IF edit = "cloud" THEN Step("network") ELSE <<>>)
        \o ReadConfig(edit) \o Step("saveConfig") \o UpdateConfig("edited")
        \o GetNode \o Step("card") \o Step("mark")

BootstrapRollback == Clear \o Step("unmark") \o Step("dropConfig")

DeleteAccount ==
    GetPool \o Load("any") \o Step("dropNode") \o Clear \o Step("clearProfile") \o Step("unmark")

Operators == {"setup", "register", "restore", "bootstrap", "delete"}

Begin(t, op, new, program) ==
    /\ prog[t] = <<>>
    /\ op \in Operators => op \in Ops /\ t \in Admin /\ ops < MaxOps
    /\ prog' = [prog EXCEPT ![t] = program]
    /\ local' = [local EXCEPT ![t] = [Idle EXCEPT !.op = op, !.new = new]]
    /\ ops' = IF op \in Operators THEN ops + 1 ELSE ops
    /\ hist' = IF op \notin Operators THEN hist
               ELSE [hist EXCEPT !.ident = ident, !.config = config,
                        !.clean = @ /\ \A u \in Task \ {t} : local[u].op \notin Operators]
    /\ UNCHANGED <<memVars, diskVars, crashes>>

Serve(t) ==
    \/ Begin(t, "request", NoPair, GetNode)
    \/ \E edit \in Path \cup {"cloud"} : Begin(t, "setup", NoPair, ApplySetup(edit))
    \/ Begin(t, "register", NoPair, SignedRegister \o EnableCloudSync)
    \/ \E i \in Identity : Begin(t, "restore", Whole(i), RestoreFromPhrase)
    \/ \E i \in Identity \cup {NoKey}, edit \in {"cloud", "local"} :
          Begin(t, "bootstrap", Whole(i), Bootstrap(i, edit))
    \/ Begin(t, "delete", NoPair, DeleteAccount)

-----------------------------------------------------------------------------
(* One action per kind of step                                             *)

At(t, op) == prog[t] # <<>> /\ Head(prog[t]).op = op

\* What a task goes on with; the last step ends the operation.
Continue(t, rest, read) ==
    /\ prog' = [prog EXCEPT ![t] = rest]
    /\ local' = [local EXCEPT ![t] = IF rest = <<>> THEN Idle ELSE read]

Advance(t, read) == Continue(t, Tail(prog[t]), read)

AfterNode(t) ==
    SubSeq(prog[t], 1 + SelectInSeq(prog[t], LAMBDA s : s.op = "build"), Len(prog[t]))

\* An error is returned.  restore_from_phrase and run_bootstrap undo their
\* work once they have something to undo.
Abort(t) ==
    LET l == [local[t] EXCEPT !.pool = local[t].keep, !.failed = TRUE] IN
    IF local[t].keep = NoPool
    THEN Continue(t, <<>>, Idle)
    ELSE CASE local[t].op = "restore"   -> Continue(t, RestoreRollback(l.prior),
                                                    [l EXCEPT !.new = l.prior])
           [] local[t].op = "bootstrap" -> Continue(t, BootstrapRollback, l)

\* get_node fails: only bootstrap and the request itself take notice.
LeaveGetNode(t) ==
    IF local[t].op = "bootstrap" THEN Abort(t) ELSE Continue(t, AfterNode(t), local[t])

Edited(c, edit) ==
    CASE edit \in {"keep", "pre"} -> c
      [] edit = "cloud"           -> [c EXCEPT !.cloud = TRUE]
      [] edit = "local"           -> [c EXCEPT !.cloud = FALSE]
      [] OTHER                    -> [path |-> edit, cloud |-> FALSE]

GetBaseConfig(t) ==
    LET edit == Head(prog[t]).edit IN
    /\ At(t, "config")
    /\ Advance(t, [local[t] EXCEPT !.cfg = Edited(config, edit),
                                   !.pre = IF edit = "pre" THEN config ELSE @])
    /\ UNCHANGED <<memVars, diskVars, countVars, hist>>

\* get_or_create_pool: the pool cached for the path, else a new one.
GetOrCreatePool(t) ==
    LET path == local[t].cfg.path
        hit  == pool # NoPool /\ pool.path = path
    IN
    /\ At(t, "pool")
    /\ pool' = IF hit THEN pool ELSE [path |-> path, n |-> pools + 1]
    /\ pools' = IF hit THEN pools ELSE pools + 1
    /\ Advance(t, [local[t] EXCEPT !.pool = pool'])
    /\ UNCHANGED <<config, slot, lock, diskVars, countVars, hist>>

GetNodeFast(t) ==
    /\ At(t, "fast")
    /\ lock = Free
    /\ IF slot # NoNode
       THEN Continue(t, AfterNode(t), [local[t] EXCEPT !.pool = slot.pool])
       ELSE Advance(t, local[t])
    /\ UNCHANGED <<memVars, diskVars, countVars, hist>>

GetNodeSlow(t) ==
    /\ At(t, "slow")
    /\ lock = Free
    /\ IF slot # NoNode
       THEN /\ lock' = lock
            /\ Continue(t, AfterNode(t), [local[t] EXCEPT !.pool = slot.pool])
       ELSE lock' = t /\ Advance(t, local[t])
    /\ UNCHANGED <<config, slot, pool, pools, diskVars, countVars, hist>>

LoadPublic(t) ==
    /\ At(t, "public")
    /\ Advance(t, [local[t] EXCEPT !.read = [priv |-> NoKey,
                                             pub |-> ident[local[t].pool.path].pub]])
    /\ UNCHANGED <<memVars, diskVars, countVars, hist>>

\* The second read, and what the caller does with the identity.
LoadPrivate(t) ==
    LET use  == Head(prog[t]).use
        pair == [local[t].read EXCEPT !.priv = ident[local[t].pool.path].priv]
        l    == [local[t] EXCEPT !.read = pair]
        some == Complete(pair)
        none == ~some
    IN
    /\ At(t, "private")
    /\ CASE use = "any"                -> Advance(t, l)
         [] use = "need" /\ none        -> Abort(t)
         [] use = "try" /\ none         -> Continue(t, AfterNode(t), l)
         [] use \in {"need", "try"} /\ some -> Advance(t, l)
         [] use = "prior"              -> Advance(t, [l EXCEPT !.prior = pair, !.keep = l.pool])
         [] use = "mint" /\ none        -> \E i \in Fresh : Advance(t, [l EXCEPT !.new = Whole(i)])
         [] use = "mint" /\ some        -> Continue(t, SubSeq(prog[t], 4, Len(prog[t])),
                                                   [l EXCEPT !.new = pair, !.keep = l.pool])
         [] use = "signer" /\ none      -> LeaveGetNode(t)
         [] use = "signer" /\ some      -> Advance(t, [l EXCEPT !.signer = pair])
         [] use = "node" /\ none        -> Continue(t, Save(FALSE) \o Tail(prog[t]),
                                             [l EXCEPT !.read = Whole(Ghost), !.new = Whole(Ghost)])
         [] use = "node" /\ some        -> Advance(t, l)
    /\ lock' = IF use = "signer" /\ none THEN Free ELSE lock
    /\ UNCHANGED <<config, slot, pool, pools, diskVars, countVars, hist>>

\* The FoldNode is assembled and cached.
Build(t) ==
    /\ At(t, "build")
    /\ slot' = [cfg |-> local[t].cfg, signer |-> local[t].signer,
                id |-> local[t].read, pool |-> local[t].pool]
    /\ lock' = Free
    /\ Advance(t, local[t])
    /\ UNCHANGED <<config, pool, pools, diskVars, countVars, hist>>

SavePrivate(t) ==
    /\ At(t, "savePrivate")
    /\ ident' = [ident EXCEPT ![local[t].pool.path].priv = local[t].new.priv]
    /\ Advance(t, local[t])
    /\ UNCHANGED <<memVars, card, disk, marker, countVars, hist>>

\* From here on run_bootstrap has something to undo.
SavePublic(t) ==
    /\ At(t, "savePublic")
    /\ ident' = [ident EXCEPT ![local[t].pool.path].pub = local[t].new.pub]
    /\ Advance(t, [local[t] EXCEPT !.keep = IF local[t].op = "bootstrap" /\ lock # t
                                            THEN local[t].pool ELSE @])
    /\ UNCHANGED <<memVars, card, disk, marker, countVars, hist>>

ClearPrivate(t) ==
    /\ At(t, "clearPrivate")
    /\ ident' = [ident EXCEPT ![local[t].pool.path].priv = NoKey]
    /\ hist' = [hist EXCEPT !.wiped = TRUE]
    /\ Advance(t, local[t])
    /\ UNCHANGED <<memVars, card, disk, marker, countVars>>

ClearPublic(t) ==
    /\ At(t, "clearPublic")
    /\ ident' = [ident EXCEPT ![local[t].pool.path].pub = NoKey]
    /\ Advance(t, local[t])
    /\ UNCHANGED <<memVars, card, disk, marker, countVars, hist>>

\* update_config takes the slot's write lock and writes the configuration.
NewConfig(t) ==
    LET c == IF Head(prog[t]).which = "pre" THEN local[t].pre ELSE local[t].cfg IN
    /\ At(t, "newConfig")
    /\ lock = Free
    /\ lock' = t
    /\ config' = c
    /\ Advance(t, [local[t] EXCEPT !.cfg = c])
    /\ UNCHANGED <<slot, pool, pools, diskVars, countVars, hist>>

DropPool(t) ==
    /\ At(t, "dropPool")
    /\ pool' = IF pool # NoPool /\ pool.path # local[t].cfg.path THEN NoPool ELSE pool
    /\ Advance(t, local[t])
    /\ UNCHANGED <<config, slot, lock, pools, diskVars, countVars, hist>>

\* The end of update_config, and invalidate_all_nodes.
DropNode(t) ==
    /\ At(t, "dropNode")
    /\ lock \in {t, Free}
    /\ slot' = NoNode
    /\ lock' = Free
    /\ Advance(t, local[t])
    /\ UNCHANGED <<config, pool, pools, diskVars, countVars, hist>>

SaveNodeConfig(t) ==
    /\ At(t, "saveConfig")
    /\ disk' = local[t].cfg
    /\ Advance(t, local[t])
    /\ UNCHANGED <<memVars, ident, card, marker, countVars, hist>>

\* The registration with Exemem succeeds.  An answer without an API key or
\* user hash leaves cloud sync as it is.
Network(t) ==
    /\ At(t, "network")
    /\ \/ Advance(t, local[t])
       \/ local[t].op \in {"register", "restore"} /\ Continue(t, <<>>, Idle)
    /\ UNCHANGED <<memVars, diskVars, countVars, hist>>

\* The marker check at the top of bootstrap: 410 once it is there.
CheckMarker(t) ==
    /\ At(t, "marked")
    /\ Continue(t, IF marker THEN <<>> ELSE Tail(prog[t]), local[t])
    /\ UNCHANGED <<memVars, diskVars, countVars, hist>>

\* The identity card goes to the database of the node get_node returned.
SaveCard(t) ==
    /\ At(t, "card")
    /\ card' = card \cup {local[t].pool.path}
    /\ Advance(t, local[t])
    /\ UNCHANGED <<memVars, ident, disk, marker, countVars, hist>>

ClearProfile(t) ==
    /\ At(t, "clearProfile")
    /\ card' = card \ {local[t].pool.path}
    /\ Advance(t, local[t])
    /\ UNCHANGED <<memVars, ident, disk, marker, countVars, hist>>

SetMarker(t) ==
    /\ At(t, "mark") \/ At(t, "unmark")
    /\ marker' = At(t, "mark")
    /\ Advance(t, local[t])
    /\ UNCHANGED <<memVars, ident, card, disk, countVars, hist>>

DropConfig(t) ==
    /\ At(t, "dropConfig")
    /\ disk' = NoConfig
    /\ Advance(t, local[t])
    /\ UNCHANGED <<memVars, ident, card, marker, countVars, hist>>

\* A tree or file access, the registration or the database factory fails.
\* Rollbacks and the account deletion only log errors of their own writes.
Fail(t) ==
    LET s == Head(prog[t])
        ignored == IF s.op \in {"savePrivate", "savePublic"} THEN s.undo
                   ELSE s.op = "clearPrivate"
        tried   == s.op = "public" /\ s.use = "try"
    IN
    /\ \E op \in {"public", "savePrivate", "savePublic", "clearPrivate", "build",
                  "saveConfig", "network", "card", "mark"} : At(t, op)
    /\ CASE ignored  -> Continue(t, SubSeq(prog[t], IF s.op = "savePublic" THEN 2 ELSE 3,
                                                    Len(prog[t])), local[t])
         [] lock = t /\ ~ignored -> LeaveGetNode(t)
         [] tried /\ lock # t    -> Continue(t, AfterNode(t), local[t])
         [] OTHER                -> Abort(t)
    /\ lock' = IF lock = t /\ ~ignored THEN Free ELSE lock
    /\ hist' = [hist EXCEPT !.clean = @ /\ ~ignored,
                    !.wiped = @ \/ s.op = "clearPrivate"
                                \/ (s.op = "savePublic" /\ local[t].keep = NoPool)]
    /\ UNCHANGED <<config, slot, pool, pools, diskVars, countVars>>

\* The process dies and starts again: configuration from the file, and the
\* migration of old installations, which marks a node that has an identity.
Restart ==
    /\ crashes < MaxCrashes
    /\ crashes' = crashes + 1
    /\ config' = IF disk = NoConfig THEN DefaultConfig ELSE disk
    /\ slot' = NoNode /\ lock' = Free /\ pool' = NoPool /\ pools' = 0
    /\ marker' \in {marker, marker \/ ident[config'.path].priv # NoKey}
    /\ prog' = [t \in Task |-> <<>>]
    /\ local' = [t \in Task |-> Idle]
    /\ hist' = [hist EXCEPT !.clean = FALSE]
    /\ UNCHANGED <<ident, card, disk, ops>>

TaskStep(t) ==
    \/ Serve(t) \/ Fail(t)
    \/ GetBaseConfig(t) \/ GetOrCreatePool(t)
    \/ GetNodeFast(t) \/ GetNodeSlow(t) \/ Build(t)
    \/ LoadPublic(t) \/ LoadPrivate(t) \/ SavePrivate(t) \/ SavePublic(t)
    \/ ClearPrivate(t) \/ ClearPublic(t) \/ SaveCard(t) \/ ClearProfile(t)
    \/ NewConfig(t) \/ DropPool(t) \/ DropNode(t)
    \/ SaveNodeConfig(t) \/ DropConfig(t) \/ Network(t) \/ CheckMarker(t) \/ SetMarker(t)

Next == Restart \/ \E t \in Task : TaskStep(t)

Spec == Init /\ [][Next]_vars

-----------------------------------------------------------------------------
(* Correctness                                                             *)

\* No task is changing identities.
Quiet == \A t \in Task : local[t].op \notin {"restore", "bootstrap", "delete"}

\* Until some identity is to be cleared, or bootstrap breaks off between the
\* two entries of one (which it does not undo), the cached node signs with the identity it
\* presents and both are what the tree holds, however restores, failed
\* restores and node creations interleaved.
NodeMatchesIdentity ==
    (~hist.wiped /\ Quiet /\ lock = Free /\ slot # NoNode) =>
        slot.signer = slot.id /\ slot.id = ident[slot.cfg.path]

\* restore_from_phrase, undisturbed by other administrative operations and
\* with no identity cleared: it ends with the restored identity, or
\* with the identity and the configuration it found, although
\* requests create nodes all the while.
RestoreAllOrNothing ==
    [][\A t \in Task :
          LET l == local[t] IN
          (/\ l.op = "restore" /\ prog'[t] = <<>>
           /\ l.keep # NoPool /\ hist'.clean /\ ~hist'.wiped) =>
              IF l.failed
              THEN ident' = hist.ident /\ config' = hist.config
              ELSE /\ ident' = [hist.ident EXCEPT ![l.keep.path] = l.new]
                   /\ config' \in {hist.config, [hist.config EXCEPT !.cloud = TRUE]}]_vars

\* "only the bootstrap route may mint identities, every other caller must
\* propagate this error rather than silently generate a fresh keypair".
OnlyBootstrapMints == \A p \in Path : Ghost \notin {ident[p].priv, ident[p].pub}
=============================================================================
