---------------------------- MODULE CloudAccount ----------------------------
(***************************************************************************)
(* The node's account in the cloud: the key of the account and how it is   *)
(* renewed, the download of the account after a restore, organisations and *)
(* the targets their data is synchronised to, and the reset of the         *)
(* database with the migration to the cloud.                               *)
(*                                                                         *)
(* The cloud, the synchronisation engine and the list of memberships are   *)
(* outside this repository; they appear as the handlers use them.          *)
(***************************************************************************)
EXTENDS Integers, FiniteSets, Sequences, FiniteSetsExt

CONSTANTS
    MAX_ATTEMPTS, MAX_BACKOFF, EXHAUSTION_COOLDOWN,   \* of the throttle, in seconds
    MaxClock,      \* seconds of one behaviour
    MaxKeys,       \* keys the cloud hands out in one behaviour
    CloudOrgs,     \* organisations the restored account belongs to
    MaxCrashes,    \* crashes of one behaviour
    Org,           \* organisations
    Me, Other,     \* public keys of this node and of another member
    OrgRequest,    \* requests: [kind, org, who]
    OrgOverlap,    \* may two of them be at work together?
    MaxOrgRequests,   \* requests of one behaviour
    Row,           \* rows a user may write
    MigrateBesideReset   \* may a migration run beside a reset?

ASSUME CloudAssumption ==
    /\ {MAX_ATTEMPTS, MAX_BACKOFF, EXHAUSTION_COOLDOWN, MaxClock, MaxKeys, MaxCrashes, MaxOrgRequests} \subseteq Nat
    /\ MAX_ATTEMPTS > 0 /\ MAX_BACKOFF <= EXHAUSTION_COOLDOWN
    /\ \A r \in OrgRequest : r.kind \in {"create", "join", "add", "remove", "delete"} => r.org \in Org

VARIABLES
    keyStored,      \* the key in the credentials file, 0 for none
    keyIssued,      \* keys the cloud has issued
    lastReturned,   \* the key last given to the engine
    throttle,       \* [consecutive_failures, last_attempt_at]
    refreshing,     \* refresh_auth_inner: [pc, now]
    clock,
    tries,          \* history: times of the registrations since a key was last handed over
    marker,         \* .bootstrap_pending: "none", "sealed" or "plain"
    bootStatus,     \* .bootstrap_status.json: "none", "in_progress", "complete" or "failed"
    booting,        \* bootstrap_from_cloud: where it is
    downloaded,     \* targets whose data is here
    begun,          \* history: a marker was written for the restore
    crashes,
    orgs,           \* org_memberships: orgs[o] is the set of members, {} when not a member
    orgData,        \* organisations whose data is on this node
    syncTargets,    \* targets of the engine
    roster,         \* the cloud's list: roster[o] of [who, status]
    inbox,          \* invites in this account's inbox
    orgAt,          \* orgAt[r]: [pc, read] of a request
    joinedOk,       \* history: organisations whose create or join answered
    shown,          \* the last membership an answer showed
    tree,           \* node_identity and org_memberships: [id, orgs], each "old", "none" or "new"
    localRows, cloudRows,   \* rows on the node, in the cloud
    engine,         \* "none", "on" or "stopped"
    resetting,      \* perform_database_reset: [pc, stash, rows]
    migrating,      \* migrate_to_cloud: [pc, rows]
    devLock,        \* who holds the device lock
    job,            \* the job of the reset or migration
    wiped           \* history: rows a finished reset removed

refreshVars == <<keyStored, keyIssued, lastReturned, throttle, refreshing, clock, tries>>
bootVars == <<marker, bootStatus, booting, downloaded, begun>>
orgVars == <<orgs, orgData, syncTargets, roster, inbox, orgAt, joinedOk, shown>>
resetVars == <<tree, localRows, cloudRows, engine, resetting, migrating, devLock, job, wiped>>
cloudVars == <<refreshVars, bootVars, crashes, orgVars, resetVars>>

NoTry == -1
RefreshThrottle == [consecutive_failures |-> 0, last_attempt_at |-> NoTry]
NoReset == [pc |-> "idle", stash |-> [id |-> "none", orgs |-> "none"], rows |-> {}]
CloudInit ==
    /\ keyStored \in {0, 1} /\ keyIssued = 1 /\ lastReturned = 0 /\ throttle = RefreshThrottle
    /\ refreshing = [pc |-> "idle", now |-> 0] /\ clock = 0 /\ tries = <<>>
    /\ marker \in {"none", "plain"} /\ begun = (marker = "plain")
    /\ bootStatus = (IF begun THEN "in_progress" ELSE "none")
    /\ booting = (IF begun THEN "boot" ELSE "none") /\ downloaded = {} /\ crashes = 0
    /\ orgs = [o \in Org |-> {}] /\ orgData = {} /\ syncTargets = {}
    /\ roster = [o \in Org |-> {}] /\ inbox = {}
    /\ orgAt = [r \in OrgRequest |-> [pc |-> "idle", read |-> {}]] /\ joinedOk = {} /\ shown = {}
    /\ tree = [id |-> "old", orgs |-> "old"]
    /\ localRows = {} /\ cloudRows = {} /\ engine \in {"none", "on"}
    /\ resetting = NoReset /\ migrating = [pc |-> "idle", rows |-> {}]
    /\ devLock = "free" /\ job = "none" /\ wiped = {}

-----------------------------------------------------------------------------
(* The key. The engine asks for one when the cloud refuses the last.       *)

required_wait(t) ==
    IF t.consecutive_failures = 0 THEN 0
    ELSE IF t.consecutive_failures >= MAX_ATTEMPTS THEN EXHAUSTION_COOLDOWN
    ELSE Min({2 ^ (t.consecutive_failures - 1), MAX_BACKOFF})
remaining_cooldown(t, now) ==
    IF t.last_attempt_at = NoTry \/ now - t.last_attempt_at >= required_wait(t) THEN 0
    ELSE required_wait(t) - (now - t.last_attempt_at)
(* Faulty variant: the time of the attempt is not kept.                   *)
record_attempt_Timeless(t, now) == t
record_attempt(t, now) == [t EXCEPT !.last_attempt_at = now]
record_failure(t) == [t EXCEPT !.consecutive_failures = @ + 1]
record_success == RefreshThrottle

(* One call of the callback at a time: the engine waits for the answer.    *)
(* A key stored by somebody else since is handed over without asking.      *)
HandOver(k) == lastReturned' = k /\ throttle' = record_success /\ tries' = <<>>
refresh_auth_inner ==
    /\ refreshing.pc = "idle"
    /\ \/ /\ keyStored # 0 /\ keyStored # lastReturned /\ HandOver(keyStored)
          /\ UNCHANGED refreshing
       \/ /\ keyStored = 0 \/ keyStored = lastReturned
          /\ remaining_cooldown(throttle, clock) = 0
          /\ refreshing' = [pc |-> "gated", now |-> clock]
          /\ UNCHANGED <<lastReturned, throttle, tries>>
    /\ UNCHANGED <<keyStored, keyIssued, clock>>
(* The attempt is recorded under a lock of its own, at the time the gate   *)
(* was asked.                                                              *)
RecordAttempt ==
    /\ refreshing.pc = "gated" /\ refreshing' = [refreshing EXCEPT !.pc = "register"]
    /\ throttle' = record_attempt(throttle, refreshing.now)
    /\ tries' = Append(tries, refreshing.now)
    /\ UNCHANGED <<keyStored, keyIssued, lastReturned, clock>>
(* The registration fails, or the cloud's answer cannot be stored: both    *)
(* are failures, in the second the cloud has issued a key nobody keeps.    *)
reregister_and_store ==
    /\ refreshing.pc = "register" /\ refreshing' = [refreshing EXCEPT !.pc = "idle"]
    /\ \/ /\ keyIssued < MaxKeys /\ keyIssued' = keyIssued + 1
          /\ \/ keyStored' = keyIssued' /\ HandOver(keyIssued')
             \/ throttle' = record_failure(throttle) /\ UNCHANGED <<keyStored, lastReturned, tries>>
       \/ throttle' = record_failure(throttle) /\ UNCHANGED <<keyIssued, keyStored, lastReturned, tries>>
    /\ UNCHANGED clock
(* The same registration by a request of the user or at start-up, with no  *)
(* throttle.                                                               *)
token_refresh ==
    /\ keyIssued < MaxKeys /\ keyIssued' = keyIssued + 1
    /\ keyStored' \in {keyStored, keyIssued'}
    /\ UNCHANGED <<lastReturned, throttle, refreshing, clock, tries>>
Second == clock < MaxClock /\ clock' = clock + 1 /\ UNCHANGED <<keyStored, keyIssued, lastReturned, throttle, refreshing, tries>>
(* A new node has a new callback with a throttle of its own. *)
build_auth_refresh_callback ==
    /\ refreshing.pc = "idle" /\ crashes < MaxCrashes /\ crashes' = crashes + 1
    /\ lastReturned' = 0 /\ throttle' = RefreshThrottle /\ tries' = <<>>
    /\ UNCHANGED <<keyStored, keyIssued, refreshing, clock, bootVars>>

RefreshNext ==
    \/ (refresh_auth_inner \/ RecordAttempt \/ reregister_and_store \/ token_refresh \/ Second) /\ UNCHANGED <<bootVars, crashes>>
    \/ build_auth_refresh_callback

-----------------------------------------------------------------------------
(* The download after a restore. The task is spawned once the restore has  *)
(* answered and is lost in a crash; the marker brings it back.             *)

Targets == {"personal"} \cup CloudOrgs
finalize_restore ==
    /\ booting = "none" /\ booting' = "spawned"
    /\ UNCHANGED <<marker, bootStatus, downloaded, begun, crashes>>
write_bootstrap_status(s) == bootStatus' \in {s, bootStatus}
write_bootstrap_marker ==
    /\ booting = "spawned"
    /\ \/ marker' = "sealed" /\ booting' = "marked" /\ begun' = TRUE
       \/ booting' = "failed" /\ UNCHANGED <<marker, begun>>
    /\ UNCHANGED <<bootStatus, downloaded, crashes>>
(* Phase 1: the personal data, and with it the list of organisations. *)
bootstrap_target ==
    /\ booting = "marked"
    /\ \/ /\ downloaded' = downloaded \cup {"personal"}
          /\ booting' = (IF CloudOrgs = {} THEN "clear" ELSE "orgs")
       \/ downloaded' = downloaded /\ booting' = "error"
    /\ write_bootstrap_status("in_progress") /\ UNCHANGED <<marker, begun, crashes>>
(* Phase 2: target by target. *)
bootstrap_all ==
    /\ booting = "orgs"
    /\ \/ \E t \in Targets \ downloaded :
             /\ downloaded' = downloaded \cup {t}
             /\ booting' = (IF downloaded' = Targets THEN "clear" ELSE "orgs")
       \/ Targets \subseteq downloaded /\ booting' = "clear" /\ UNCHANGED downloaded
       \/ booting' = "error" /\ UNCHANGED downloaded
    /\ UNCHANGED <<marker, bootStatus, begun, crashes>>
(* Faulty variant: the marker goes whatever the outcome. *)
bootstrap_from_cloud_AlwaysClears ==
    /\ \/ booting \in {"clear", "error"} /\ marker' = "none" /\ UNCHANGED bootStatus
          /\ booting' = (IF booting = "clear" THEN "status" ELSE "failed")
       \/ booting = "status" /\ write_bootstrap_status("complete") /\ booting' = "done" /\ UNCHANGED marker
    /\ UNCHANGED <<downloaded, begun, crashes>>

(* The marker goes first, then the status says so; a failure keeps it. *)
bootstrap_from_cloud ==
    /\ \/ booting = "clear" /\ marker' = "none" /\ booting' = "status" /\ UNCHANGED bootStatus
       \/ booting = "status" /\ write_bootstrap_status("complete") /\ booting' = "done" /\ UNCHANGED marker
       \/ booting = "error" /\ write_bootstrap_status("failed") /\ booting' = "failed" /\ UNCHANGED marker
    /\ UNCHANGED <<downloaded, begun, crashes>>
(* A restart looks for the marker; a plain one of an older version is      *)
(* sealed on the way.                                                      *)
check_bootstrap_pending == marker # "none"
resume_bootstrap ==
    /\ booting = "boot"
    /\ \/ check_bootstrap_pending /\ marker' = "sealed" /\ booting' = "spawned"
       \/ ~check_bootstrap_pending /\ booting' = "lost" /\ UNCHANGED marker
    /\ UNCHANGED <<bootStatus, downloaded, begun, crashes>>
BootCrash ==
    /\ booting \notin {"none", "boot"} /\ crashes < MaxCrashes /\ crashes' = crashes + 1
    /\ booting' = "boot" /\ UNCHANGED <<marker, bootStatus, downloaded, begun>>
restore_status ==
    IF bootStatus # "none" THEN bootStatus ELSE IF marker # "none" THEN "in_progress" ELSE "complete"

BootstrapNext ==
    /\ \/ finalize_restore \/ write_bootstrap_marker \/ bootstrap_target \/ bootstrap_all
       \/ bootstrap_from_cloud \/ resume_bootstrap \/ BootCrash
    /\ UNCHANGED refreshVars

-----------------------------------------------------------------------------
(* Organisations. A request changes the list of memberships, then the      *)
(* cloud, and last the engine, which it gives the list it read before.     *)

Memberships == {o \in Org : orgs[o] # {}}
Org_Busy == \E r \in OrgRequest : orgAt[r].pc \notin {"idle", "done", "failed"}
OrgStep(r, pc) == orgAt' = [orgAt EXCEPT ![r].pc = pc]
Begin(r, kind) ==
    /\ r.kind = kind /\ orgAt[r].pc = "idle" /\ (OrgOverlap \/ ~Org_Busy)
    /\ Cardinality({q \in OrgRequest : orgAt[q].pc # "idle"}) < MaxOrgRequests
Cloud(r, from, to) == orgAt[r].pc = from /\ OrgStep(r, to)
(* There is a client for the cloud when the node has an account. *)
auth_client_for_node == engine # "none"
Roster(o, who, status) ==
    auth_client_for_node /\ roster' = [roster EXCEPT ![o] = {m \in @ : m.who # who} \cup {[who |-> who, status |-> status]}]

(* The cloud's refusal is the answer, and the engine is not told. *)
create_org(r) ==
    \/ /\ Begin(r, "create") /\ orgs[r.org] = {} /\ OrgStep(r, "cloud")
       /\ orgs' = [orgs EXCEPT ![r.org] = {Me}] /\ orgData' = orgData \cup {r.org}
       /\ UNCHANGED <<syncTargets, roster, inbox, joinedOk, shown>>
    \/ /\ r.kind = "create"
       /\ \/ Cloud(r, "cloud", "read") /\ Roster(r.org, Me, "active")
          \/ auth_client_for_node /\ Cloud(r, "cloud", "done") /\ UNCHANGED roster
          \/ ~auth_client_for_node /\ Cloud(r, "cloud", "read") /\ UNCHANGED roster
       /\ UNCHANGED <<orgs, orgData, syncTargets, inbox, joinedOk, shown>>
delete_inbox_file(o) == inbox' \in {inbox, inbox \ {o}}
(* Here a refusal is only logged. *)
join_org(r) ==
    \/ /\ Begin(r, "join") /\ r.org \in inbox /\ orgs[r.org] = {} /\ OrgStep(r, "cloud")
       /\ orgs' = [orgs EXCEPT ![r.org] = {Me, Other}] /\ orgData' = orgData \cup {r.org}
       /\ UNCHANGED <<syncTargets, roster, inbox, joinedOk, shown>>
    \/ /\ r.kind = "join" /\ Cloud(r, "cloud", "read") /\ delete_inbox_file(r.org)
       /\ (Roster(r.org, Me, "active") \/ UNCHANGED roster)
       /\ UNCHANGED <<orgs, orgData, syncTargets, joinedOk, shown>>
add_member(r) ==
    \/ /\ Begin(r, "add") /\ Me \in orgs[r.org] /\ OrgStep(r, "cloud")
       /\ orgs' = [orgs EXCEPT ![r.org] = @ \cup {r.who}]
       /\ UNCHANGED <<orgData, syncTargets, roster, inbox, joinedOk, shown>>
    \/ /\ r.kind = "add" /\ Cloud(r, "cloud", "done")
       /\ (Roster(r.org, r.who, "pending") \/ UNCHANGED roster)
       /\ UNCHANGED <<orgs, orgData, syncTargets, inbox, joinedOk, shown>>
(* Another node's add_member brought the invite. *)
InviteArrives(o) ==
    /\ o \notin inbox /\ orgs[o] = {} /\ ~Org_Busy /\ inbox' = inbox \cup {o}
    /\ Roster(o, Me, "pending") /\ UNCHANGED <<orgs, orgData, syncTargets, orgAt, joinedOk, shown>>
(* leave_org is the removal of this node. The cloud is asked to remove the *)
(* public key, which its list does not hold: it knows members by the hash  *)
(* of the key.                                                             *)
remove_member(r) ==
    \/ /\ Begin(r, "remove") /\ r.who \in orgs[r.org]
       /\ OrgStep(r, IF r.who = Me THEN "purge" ELSE "cloud")
       /\ orgs' = [orgs EXCEPT ![r.org] = @ \ {r.who}]
       /\ joinedOk' = (IF r.who = Me THEN joinedOk \ {r.org} ELSE joinedOk)
       /\ UNCHANGED <<orgData, syncTargets, roster, inbox, shown>>
    \/ r.kind = "remove" /\ Cloud(r, "cloud", "done")
       /\ UNCHANGED <<orgs, orgData, syncTargets, roster, inbox, joinedOk, shown>>
(* The cloud is not told. *)
delete_org(r) ==
    /\ Begin(r, "delete") /\ orgs[r.org] # {} /\ OrgStep(r, "purge")
    /\ orgs' = [orgs EXCEPT ![r.org] = {}] /\ joinedOk' = joinedOk \ {r.org}
    /\ UNCHANGED <<orgData, syncTargets, roster, inbox, shown>>
(* A failed purge is the answer, and the engine is not told.               *)
purge_org_locally(r) ==
    /\ orgAt[r].pc = "purge"
    /\ \/ OrgStep(r, "read") /\ orgData' = orgData \ {r.org}
       \/ OrgStep(r, "failed") /\ orgData' \in {orgData, orgData \ {r.org}}
    /\ UNCHANGED <<orgs, syncTargets, roster, inbox, joinedOk, shown>>
decline_invite(r) ==
    /\ Begin(r, "decline") /\ auth_client_for_node /\ OrgStep(r, "done")
    /\ \/ Roster(r.org, Me, "declined") /\ delete_inbox_file(r.org)
       \/ UNCHANGED <<roster, inbox>>
    /\ UNCHANGED <<orgs, orgData, syncTargets, joinedOk, shown>>

(* What an answer shows: the local members and those only the cloud knows. *)
apply_cloud_roster(o, list) == orgs[o] \cup {m.who : m \in {x \in list : x.status # "declined"}}
list_orgs(r) ==
    /\ Begin(r, "list") /\ OrgStep(r, "done")
    /\ \/ shown' = {<<o, apply_cloud_roster(o, roster[o])>> : o \in Memberships}
       \/ shown' = {<<o, orgs[o]>> : o \in Memberships}
    /\ UNCHANGED <<orgs, orgData, syncTargets, roster, inbox, joinedOk>>
get_org(r) ==
    /\ Begin(r, "get") /\ orgs[r.org] # {} /\ OrgStep(r, "done")
    /\ shown' \in {{<<r.org, orgs[r.org]>>}, {<<r.org, apply_cloud_roster(r.org, roster[r.org])>>}}
    /\ UNCHANGED <<orgs, orgData, syncTargets, roster, inbox, joinedOk>>
get_pending_invites(r) ==
    /\ Begin(r, "pending") /\ OrgStep(r, "done")
    /\ \E opened \in SUBSET inbox : shown' = {<<o, {Me}>> : o \in opened}
    /\ UNCHANGED <<orgs, orgData, syncTargets, roster, inbox, joinedOk>>

(* The list of memberships is read, then given to the engine with what     *)
(* the node shares. There is nothing to give when both are empty.          *)
build_org_sync_config_from_sled(r) ==
    /\ orgAt[r].pc = "read"
    /\ \E shares \in BOOLEAN :
          orgAt' = [orgAt EXCEPT ![r] = [pc |-> IF Memberships = {} /\ ~shares THEN "skip" ELSE "install",
                                         read |-> Memberships]]
    /\ UNCHANGED <<orgs, orgData, syncTargets, roster, inbox, joinedOk, shown>>
Answered(r) ==
    /\ OrgStep(r, "done")
    /\ joinedOk' = (IF r.kind \in {"create", "join"} THEN joinedOk \cup {r.org} ELSE joinedOk)
    /\ UNCHANGED <<orgs, orgData, roster, inbox, shown>>
(* Faulty variant: the engine keeps the targets it has. *)
configure_org_sync_if_needed_OnlyFirst(r) ==
    /\ orgAt[r].pc \in {"install", "skip"} /\ Answered(r)
    /\ syncTargets' = (IF engine # "on" \/ orgAt[r].pc = "skip" \/ syncTargets # {} THEN syncTargets ELSE orgAt[r].read)

configure_org_sync_if_needed(r) ==
    \/ /\ orgAt[r].pc = "install" /\ Answered(r)
       /\ syncTargets' = (IF engine = "on" THEN orgAt[r].read ELSE syncTargets)
    \/ orgAt[r].pc = "skip" /\ Answered(r) /\ UNCHANGED syncTargets

(* A restart loses the requests and configures the engine again. *)
OrgRestart ==
    /\ crashes < MaxCrashes /\ crashes' = crashes + 1
    /\ orgAt' = [r \in OrgRequest |->
                 IF orgAt[r].pc \in {"idle", "failed"} THEN orgAt[r] ELSE [pc |-> "done", read |-> {}]]
    /\ syncTargets' = (IF engine = "on" THEN Memberships ELSE {})
    /\ UNCHANGED <<orgs, orgData, roster, inbox, joinedOk, shown>>

OrgNext ==
    \/ OrgRestart
    \/ /\ \E r \in OrgRequest :
          \/ create_org(r) \/ join_org(r) \/ add_member(r) \/ remove_member(r) \/ delete_org(r)
          \/ purge_org_locally(r) \/ decline_invite(r) \/ list_orgs(r) \/ get_org(r) \/ get_pending_invites(r)
          \/ build_org_sync_config_from_sled(r) \/ configure_org_sync_if_needed(r)
       /\ UNCHANGED crashes
    \/ \E o \in Org : InviteArrives(o) /\ UNCHANGED crashes

(* Organisations alone. *)
OrgSpec ==
    /\ CloudInit /\ marker = "none" /\ keyStored = 1
    /\ [][OrgNext /\ UNCHANGED <<refreshVars, bootVars, resetVars>>]_cloudVars

-----------------------------------------------------------------------------
(* The reset of the database, a job of its own.                            *)

(* The engine uploads what is new here and downloads what is new there. *)
SyncCycle ==
    /\ engine = "on" /\ devLock = "free" /\ tree.id # "none"
    /\ localRows' = localRows \cup cloudRows /\ cloudRows' = localRows'
    /\ UNCHANGED <<tree, engine, resetting, migrating, devLock, job, wiped, crashes>>
WriteRow(r) ==
    /\ r \notin localRows \cup wiped /\ resetting.pc \notin {"create", "restore", "swap"}
    /\ localRows' = localRows \cup {r}
    /\ UNCHANGED <<tree, cloudRows, engine, resetting, migrating, devLock, job, wiped, crashes>>

JobBusy == resetting.pc # "idle" \/ migrating.pc # "idle"
JobMayStart == MigrateBesideReset \/ ~JobBusy
ResetStep(pc) == resetting' = [resetting EXCEPT !.pc = pc]
ResetFails == resetting' = NoReset /\ job' = "failed"
create_async_job == job' \in {"running", job}
reset_database ==
    /\ resetting.pc = "idle" /\ JobMayStart /\ create_async_job
    /\ (IF job' = "running" THEN ResetStep("stash") ELSE UNCHANGED resetting)
    /\ UNCHANGED <<tree, localRows, cloudRows, engine, migrating, devLock, wiped, crashes>>
read_tree_raw ==
    /\ resetting.pc = "stash"
    /\ resetting' = [resetting EXCEPT !.pc = IF engine = "none" THEN "wipe" ELSE "stop", !.stash = tree]
    /\ UNCHANGED <<tree, localRows, cloudRows, engine, migrating, devLock, job, wiped, crashes>>
(* The timer stops; the last upload may fail. *)
stop_sync ==
    /\ resetting.pc = "stop" /\ ResetStep("purge") /\ engine' = "stopped"
    /\ cloudRows' \in {cloudRows, cloudRows \cup localRows}
    /\ UNCHANGED <<tree, localRows, migrating, devLock, job, wiped, crashes>>
(* Faulty variant: a failed purge is logged and the reset goes on. *)
purge_personal_log_Warns ==
    /\ resetting.pc = "purge" /\ ResetStep("wipe")
    /\ cloudRows' \in (IF devLock = "free" THEN {{}, cloudRows} ELSE {cloudRows})
    /\ UNCHANGED <<tree, localRows, engine, migrating, devLock, job, wiped, crashes>>

(* A failed purge ends the reset with the local data as it was, and with   *)
(* the timer stopped.                                                      *)
purge_personal_log ==
    /\ resetting.pc = "purge"
    /\ \/ devLock = "free" /\ cloudRows' = {} /\ ResetStep("wipe") /\ UNCHANGED job
       \/ ResetFails /\ UNCHANGED cloudRows
    /\ UNCHANGED <<tree, localRows, engine, migrating, devLock, wiped, crashes>>
(* The directory goes as a whole, or stops half way. *)
perform_database_reset ==
    /\ resetting.pc = "wipe"
    /\ \/ /\ resetting' = [resetting EXCEPT !.pc = "restore", !.rows = localRows]
          /\ localRows' = {} /\ tree' = [id |-> "none", orgs |-> "none"] /\ UNCHANGED job
       \/ /\ ResetFails /\ localRows' \in SUBSET localRows
          /\ tree' \in {tree, [id |-> "none", orgs |-> "none"]}
    /\ UNCHANGED <<cloudRows, engine, migrating, devLock, wiped, crashes>>
write_tree_raw ==
    /\ resetting.pc = "restore"
    /\ \/ \E n \in {"id", "orgs"} :
             /\ n = "orgs" => tree.id = resetting.stash.id
             /\ tree[n] # resetting.stash[n] /\ tree' = [tree EXCEPT ![n] = resetting.stash[n]]
             /\ UNCHANGED <<resetting, job>>
       \/ tree = resetting.stash /\ ResetStep("swap") /\ UNCHANGED <<tree, job>>
       \/ ResetFails /\ UNCHANGED tree
    /\ UNCHANGED <<localRows, cloudRows, engine, migrating, devLock, wiped, crashes>>
(* The nodes are dropped, and the next one has an engine again. *)
reset_complete ==
    /\ resetting.pc = "swap" /\ resetting' = NoReset /\ job' = "complete"
    /\ engine' = (IF engine = "stopped" THEN "on" ELSE engine)
    /\ wiped' = wiped \cup resetting.rows
    /\ UNCHANGED <<tree, localRows, cloudRows, migrating, devLock, crashes>>
(* A crash loses the job; a start without an identity makes a new one. *)
ResetCrash ==
    /\ crashes < MaxCrashes /\ crashes' = crashes + 1
    /\ resetting' = NoReset /\ migrating' = [pc |-> "idle", rows |-> {}]
    /\ engine' = (IF engine = "stopped" THEN "on" ELSE engine)
    /\ tree' = [tree EXCEPT !.id = IF @ = "none" THEN "new" ELSE @]
    /\ UNCHANGED <<localRows, cloudRows, devLock, job, wiped>>

(* The job of a migration. *)
migrate_start ==
    /\ migrating.pc = "idle" /\ JobMayStart /\ create_async_job
    /\ migrating' = [migrating EXCEPT !.pc = IF job' = "running" THEN "lock" ELSE "idle"]
    /\ UNCHANGED <<tree, localRows, cloudRows, engine, resetting, devLock, wiped, crashes>>
(* A snapshot of everything, under the lock: a failure keeps the lock. *)
migrate_to_cloud ==
    /\ \/ /\ migrating.pc = "lock" /\ devLock = "free" /\ devLock' = "migrate"
          /\ migrating' = [migrating EXCEPT !.pc = "snapshot"] /\ UNCHANGED <<job, cloudRows>>
       \/ /\ migrating.pc = "snapshot" /\ migrating' = [pc |-> "upload", rows |-> localRows]
          /\ UNCHANGED <<devLock, job, cloudRows>>
       \/ /\ migrating.pc = "upload" /\ cloudRows' = migrating.rows /\ devLock' = "free"
          /\ migrating' = [pc |-> "idle", rows |-> {}] /\ job' = "complete"
       \/ /\ migrating.pc # "idle" /\ job' = "failed"
          /\ migrating' = [pc |-> "idle", rows |-> {}] /\ UNCHANGED <<devLock, cloudRows>>
    /\ UNCHANGED <<tree, localRows, engine, resetting, wiped, crashes>>

ResetNext ==
    \/ SyncCycle \/ reset_database \/ read_tree_raw \/ stop_sync \/ purge_personal_log
    \/ perform_database_reset \/ write_tree_raw \/ reset_complete \/ ResetCrash \/ migrate_start \/ migrate_to_cloud
    \/ \E r \in Row : WriteRow(r)

(* The key, the download and the reset side by side. *)
AccountSpec ==
    CloudInit /\ [][\/ RefreshNext /\ UNCHANGED <<orgVars, resetVars>>
                    \/ BootstrapNext /\ UNCHANGED <<orgVars, resetVars>>
                    \/ ResetNext /\ UNCHANGED <<refreshVars, bootVars, orgVars>>]_cloudVars

-----------------------------------------------------------------------------
(* Properties.                                                             *)

(* A cloud that keeps refusing is asked at most MAX_ATTEMPTS times in any  *)
(* EXHAUSTION_COOLDOWN seconds: refresh_auth_inner's throttle holds over   *)
(* the failures, the keys others store and the time each attempt takes.    *)
AttemptsThrottled ==
    \A i \in DOMAIN tries :
        i + MAX_ATTEMPTS \in DOMAIN tries => tries[i + MAX_ATTEMPTS] - tries[i] >= EXHAUSTION_COOLDOWN

(* Once bootstrap_from_cloud has begun, the download is over only when     *)
(* everything is here: until then, through failures and crashes, the       *)
(* marker stays for the next start to find, and restore_status does not    *)
(* say that the restore is complete.                                       *)
RestoreResumable ==
    begun /\ ~(Targets \subseteq downloaded) => check_bootstrap_pending /\ restore_status # "complete"

(* An organisation that create_org or join_org answered for is a target of *)
(* the engine as long as this node belongs to it, whatever other requests, *)
(* refusals of the cloud and restarts come between.                        *)
JoinedOrgSynced == engine = "on" => joinedOk \subseteq syncTargets

(* What purge_org_locally promises: once an organisation is gone from the  *)
(* memberships and the request has answered, unless with an error, the     *)
(* engine has no target for it.                                            *)
LeftOrgNotSynced ==
    Org_Busy \/ \A o \in syncTargets \ Memberships :
        \E r \in OrgRequest : r.org = o /\ r.kind \in {"remove", "delete"} /\ orgAt[r].pc = "failed"

(* The rows a finished reset removed do not come back from the cloud: the  *)
(* order of stop, purge and wipe holds through failed purges, crashes and  *)
(* later synchronisations.                                                 *)
ResetNotUndone == localRows \cap wiped = {}
====
