# TLA+ verification of fold_db_node

fold_db_node is the node process around the fold_db database: a Rust server (and
CLI) through which a user ingests files and exports into schemas with the help of
an AI provider, asks questions, and meets, trusts and exchanges data with the nodes
of other people through a bulletin board. Everything durable lies in fold_db's
stores (sled trees, synchronised through encrypted logs); most of the logic that can
go wrong lies in request handlers, polls and background tasks that read a record,
await something, and write it back.

This directory models those parts as state machines, model-checks them with TLC on
small instances, shows that the batch coordinator implements an abstract contract, and
proves most of the safety properties with TLAPS for every instance. `PROJECT.json` maps each definition to
the lines it was translated from, and lists the components, runs, mutants, hazards,
findings and theorems.

## Inventory

| component | state | operations | hard behaviour | correct when |
|---|---|---|---|---|
| Smart-folder batch ingestion (`ingestion/batch_controller.rs`, `smart_folder/batch.rs`, handler and route) | `BatchController` (queue, in-flight set, counters, cost, limit, status), resume `Notify`, progress jobs | start, pop, charge, fail, pause, resume with a new limit, cancel, clean-up | one coordinator, N workers and the user interleave; a worker can fail or panic; a pause sleeps on a permit | no file is lost or counted twice; a batch settles; cancel is final |
| Discovery connection (`handlers/discovery/{mod,inbound,util}.rs`, `discovery/connection.rs`) | sent and received requests, dedup markers, poll cursor, contact book, trust map, bulletin board | opt in/out, connect, respond, poll, dispatch of each payload kind, data shares, revocation | messages are delivered again, out of order, after failures; a handler is many writes; replies of old clients carry no request id | trust and data come only along a handshake; an accepted request was answered; every message is applied in the end |
| Contacts, trust domains and invites (`trust/*.rs`, `operation_processor/{trust,identity}_ops.rs`) | contact book, one trust map per domain, sent invites, used and declined lists | invite, accept, decline, assign/remove role, grant, revoke | whole-structure read-modify-write without a lock; failures between stores | used and declined invites stay so; a revoked contact has no trust left |
| Asynchronous queries (`discovery/async_query.rs`, `server/routes/remote.rs`, `inbound.rs`) | rows of asked queries, markers of both nodes | ask, poll and execute, answer, poll and apply, delete | a post can fail after delivery; polls overlap and fail | the row shows what was answered; the answer arrives |
| Node manager, identity and onboarding (`server/node_manager.rs`, `fold_node/node.rs`, `identity.rs`, `handlers/auth.rs`, `routes/setup.rs`, `startup.rs`) | configuration, node slot, pools, identity tree, config file, markers | get/create node, change path, invalidate, register, restore, bootstrap, delete account, restart | lazily created node against operations that replace its inputs; roll-backs; crashes | the cached node agrees with configuration and identity; a failed restore leaves the old state |
| AI configuration and secrets (`ingestion/config.rs`, `anthropic_key_store.rs`, `roles.rs`, `ai/`, `secure_store.rs`, `utils/fs_atomic.rs`) | config file, sealed key, master key, two running services, counters | load with migration, save, reload, call with retries | crash between sealing and stripping; overlapping saves; failing writes | no key stays in the clear; no accepted key is lost |
| Ingestion service (`ingestion/ingestion_service/*.rs`, `decomposer.rs`, `mutation_generator.rs`, schema registration of `node.rs`) | shared structure cache, loaded/approved/blocked schemas, registration cache, records, file dedup marks, schema service | decompose, propose, register, expand, remap to an organisation, write children and parents, mark the file | proposals are awaited; expansion replaces a schema other tasks hold; a failure at every write | a file marked ingested is stored; an expansion never leaves data without a schema |
| Fingerprint graph (`fingerprints/`, `handlers/fingerprints/`, `ingestion/fingerprint_hook.rs`) | fingerprint, edge, mention and junction records, face index, error rows, sweep clock | ingest photos/text/contacts, rebuild the index, link similar faces, resolve, propose personas | records written one by one beside a walk; a lazily rebuilt index; restarts | no row leads nowhere; a resolution lies between two clean ones; a later photo is linked |
| Personas, identities and received cards (`handlers/fingerprints/{personas,self_identity,...}.rs`, `discovery/received_card.rs`) | personas, identities, receipts, inbox rows | patch, merge, delete, propose, import, accept, dismiss, re-issue, Me bootstrap | read-modify-write of personas; check-then-create; sequential writes without roll-back | one Me persona; merging loses nothing |
| Apple import and its scheduler (`ingestion/apple_import/`, `routes/apple_import.rs`) | sync configuration and its file, the scheduler loop, an import with heartbeat, progress job | five imports by hand, five scheduled, update, restart | updates while a round is under way; failing saves; heartbeat against the final row; batches are ingested in the background | the schedule is armed exactly while enabled; what is reported was handed over; a final row stays; a failure is shown |
| Uploads and folder scan (`routes/file_upload.rs`, `smart_folder/{scanner,classify,mod}.rs`, `progress.rs`) | encrypted store, temporary files, dedup marks, progress rows | upload, scan, adjust, ingest a folder | reports of a scan are tasks of their own; the model's answer is arbitrary | the answer covers the folder; a scan gets an outcome |
| Discovery publishing (`discovery/{publisher,config,interests,field_privacy}.rs`) | opt-ins, tracking rows, interest profile, the service's rows | opt in, publish, opt out, detect and toggle interests, similar profiles | publishing and opting out are many calls, through two store handles; records deleted meanwhile | what was uploaded has its row; an answered opt-out took everything back |
| Sharing with contacts (`discovery/{calendar_sharing,moments}.rs`, `handlers/sharing.rs`, `inbound.rs`) | calendar events, moment hashes, connection request with vouches, rules, invites, subscriptions, received shares | opt in/out, sync, detect, ask and answer referrals, invite, accept, dispatch a share | rows read before an await and written after it; redelivery | an opt-out leaves no event; a marked share is stored |
| Queries, mutations and schemas (`handlers/query.rs`, `operation_processor/{query,mutation,schema,trust}_ops.rs`, `feed.rs`) | schemas with state, organisation and policies; rows | paged query, mutation (batch), approve, block, tag, set policy, list keys, search, feed | pages over an unordered store; whole-schema writes | pages miss and repeat nothing; an owner's policy stays until defaults are forced |
| LLM query service (`fold_node/llm_query/`, `handlers/llm.rs`) | sessions, agent requests, jobs, stored turns | agent loop with tools, index query, chat, follow-up, expiry | time-out against a tool under way; a panic between two messages; sessions expire under a running agent | the session hears every message; no call that changed something is missing from the answer; job and answer agree |
| Cloud account (`handlers/{auth,org}.rs`, `fold_node/node.rs`, `admin_ops.rs`, `routes/{org,admin}.rs`) | key, refresh throttle, restore marker and status, memberships, sync targets, jobs | refresh, restore and resume, organisations, reset, migrate | crashes between marker, download and status; refusing cloud; synchronisation beside a wipe | throttle holds; a restore is resumable; joined organisations are synchronised; a reset is not undone |
| File conversion, HTTP server, CLI, MCP, logging, memory, migrations, UI | see Not modelled | | | |

How the parts meet: the HTTP routes call handlers, which get the node from the node
manager and call its operation processor; the operation processor and the discovery
handlers share the contact book and trust maps; a discovery poll dispatches bulletin
messages to connection requests, async queries, cards, shares and referrals; batch
ingestion, uploads, Apple import and the sync scheduler call the ingestion service
per file or record; a successful ingestion batch calls the fingerprint hook, whose
graph the persona sweep and the resolver read; the agent's tools use queries, schemas,
ingestion and discovery; every AI call goes through the AI configuration.

## Modules and the code

Common reading: an action is what the code does between two points at which another
task can run or the process can die (an await on a store, the network or a lock), so a
handler with five store accesses is five actions, and a failing access is an
alternative at each of them. Values are abstracted to what the properties compare:
messages, files, keys and names are model values or small numbers. Definitions
introduced as "Faulty variant" are deliberately wrong versions used to confirm that a
property would notice.

**BatchIngestion.** `status`, `pending_files`, `in_flight_files`, the counters,
`accumulated_cost` and `spend_limit` are the `BatchController`; `pc`, `join_set`,
`joined`, `all_popped` are the locals of `spawn_batch_coordinator`; `permit` is the one
stored permit of `Notify`; `jobs` the progress job of each file. `PopFile`,
`SpendLimitHit`, `NothingToPop` are `try_pop_file`; `JoinNext`, `RecordCompleted`,
`RecordFailed` the join loop; `TaskOk`, `TaskErr`, `TaskPanic` the worker's outcomes;
`ResumeBatch` and `CancelBatch` the handlers. Costs are numbers, `None` for the limit is
`NoLimit`, and a local provider charges nothing.

**BatchContract** is the abstract specification of a batch as its user sees it: files
wait, are worked on and settle; none is started while the batch is paused or after it was
cancelled; complete means that nothing waits and nothing is worked on. `BatchIngestion`
maps its status to the phase, the queue to the waiting files, and the join set with the
file being recorded to the files at work; `ImplementsContract` is the implementation.

**DiscoveryConnection.** Each node has its sent and received requests, processed
markers, contact book, trust map and polls in progress; the board is a sequence, and
every poll may see any message of it again. `Connect`, `Respond*`, `PollStart`, the
dispatch of each payload kind and the data-share steps are separate actions; encryption
is the fact that only the addressed node dispatches a message; a message refused by its
handler stays unmarked and is retried, one `Skipped` is marked.

**ContactTrust.** A request is a program, a sequence of store accesses built from the
operation's body (`AcceptTrustInvite`, `RevokeContact`, ...); one action per kind of
access executes it. Maps are loaded and stored whole; the book is written back contact
by contact, as `ContactBook::save` does.

**AsyncQuery.** The asking node's post and row, the contact's execution and the asking
node's update, each with its own markers; `MaxResponses` bounds how often a request is
executed again.

**NodeLifecycle.** Operations are programs of lock sections and tree or file accesses.
An identity is a pair of tree entries, so torn identities are visible. `Crash` keeps
the disk and drops memory.

**AiConfig.** `cfgFile`, `sealed` and `master` are ingestion_config.json, the key store
and the master key; `aiService` and `llmService` what the two running services loaded. A
load is `BeginLoad`, `LoadKey`, `strip_legacy_api_key_from_disk`, `LoadEnds`; a save is
the file, the key, the reload of each service; a call is attempts with the classified
errors. Roles and providers are `resolve` and `build_backend`.

**IngestionPipeline.** A schema is its descriptive name, fields and organisation. The
AI's proposal is any member of `Proposals`; the schema service keeps the active schema
per name, expands it and answers with what it replaced. Reuse goes by descriptive name: two
structures proposed under one name share one verdict (`CheckReuse`). Records are named by file and
position; references name child records.

**FingerprintGraph.** The extractors are operators from a text, contact or photo to a
sequence of records in the code's order (`plan_text_extraction`, `import_contacts`,
`plan_face_extraction`); `write_record` stores the next one or fails; for photos
`ensure_cache_ready`, `search_face`, `add_face` and `emit_similarity_edges_for_faces`
follow. The resolver is a walk whose every access is a step (`visit_fingerprint`,
`follow_edge`, `collect_mentions`), the sweep a claim, a load, a walk and a write.
Identifiers are hashes in the code, so a record stands for its contents; similarities are
thousandths given by `Sim`. A history variable keeps which edges passed throughout and at
some time of a resolution.

**Personas.** Persona, Identity and IdentityReceipt records and the inbox rows, with one
process per request plus one for the start of the node. Patches, merges, re-issues read
a record and write the whole copy. Signature verification is membership in `Valid`;
fold_db's Update and Delete are modelled as overwriting and removing the record.
Clusters are a constant here; `FingerprintGraph` has the walk that finds them.

**AppleImport.** `import` is the import by hand with its heartbeat, `sched` the loop of
`run_sync_scheduler`, `cfg` and `disk` the shared configuration and its file. What
osascript answers goes through `run_extract`, the records through the shape of each
source. `process_json` refuses no list of records and answers at once; the ingestion
(`IngestionPipeline`'s) is a task of its own, which may end after the import and tells its
failure in a job of its own (`BatchEnds`). The history `handed` keeps the list of the
import and, of every batch, which positions of it went in and what became of them.

**FileIntake.** An upload is parse, save, decrypted temporary copy, dedup check,
conversion, image bytes, task; the ingestion behind it runs through the phases of
`IngestionPhase`. A scan is walk, image directories, dedup, classification by rules and
by the model (which may omit, repeat or invent), answer; every progress report is a task
that loads and saves the row.

**DiscoveryPublishing.** A publish pass works through the opted-in schemas: scan of the
index, privacy and interest rules, upload, tracking rows. `opt_out` removes the
configuration, lists the tracked rows, unpublishes and answers. Publishing reads and records
through the native index's store, opting out through the metadata store; whether these are
one key space is fold_db's choice, so `oneStore` is drawn from the constant `StoreLayouts`
and stays. A pseudonym is named by the bytes of its embedding, so two schemas can share one.
The history `gaps` holds what was uploaded and has no row: the answer was lost, a row could
not be written, or the schema's opt-out had already listed its rows.

**PeerSharing.** Five independent stories over one store: calendar sharing, photo
moments (time buckets and neighbouring cells as in `generate_moment_hashes`), referral
queries, share rules with invites, and the receipt of a data share record by record.

**DataQueries.** Name resolution, access, filtering, sorting and paging as in
`execute_query`; mutations and their batches; schema edits as read and write of a whole
schema, with the defaults of the data classes applied on approval (`approve_schema`) or on
request to all approved schemas, forced or not (`apply_defaults_all`,
`apply_classification_defaults_with_force`). A field without a class goes to the
schema's trust domain, which follows its organisation (`trust_domain`) and is "personal" at
the start. Listings, search with hydration, feed.

**AgentQuery** extends `DataQueries` with sessions, the agent loop (`call_llm`, one action
per tool, `answer_found`, `max_iterations`, `run_agent_query_timeout`), index queries,
chat, follow-ups and the stored turns. What the model says is any member of `Response`.
`tool_error` is the result of a call that failed: the error alone, whatever the tool did
before, so `create_view` may leave a registered view, `ingest_json` a part of its records
and `ingest_files` a part of a file. The history `changes` says which call changed what.
`slice_panics` stands for the five places that cut a text at a byte (the question at 100,
the model's answer and a tool's result at 200 for the log, a result at its limit in the next
prompt, and at 500 in the session): a request may break at any of them. `clock_set` sets the
wall clock, by which sessions expire at once when it goes back (`is_expired`).

**CloudAccount.** The refresh throttle (`required_wait`, `refresh_auth_inner`,
`RecordAttempt`, `reregister_and_store`: the gate, the record of the attempt and the
registration are three steps), the resumable download (`write_bootstrap_marker`,
`bootstrap_target`, `bootstrap_from_cloud`, `resume_bootstrap`), organisations with the
cloud's roster and the engine's targets, and reset and migration jobs. A purge may fail,
and then nothing is reconfigured; whether the node shares anything is arbitrary each time
the configuration is built, and with no membership and no share there is none.

**MC modules** instantiate these. `MCPeople` (contacts and personas), `MCIntake`
(pipeline, graph and imports; the first two in `MCIngestion`), `MCBackground` (batches,
uploads and scans, queries of contacts), `MCNode` (lifecycle and AI
configuration) and `MCNodeServices` (the smaller services) choose at the start which of
their components a behaviour is about: the components in one such module share no
variable, so exploring their product would show nothing that exploring each does not.
`MCBatchIngestion`, `MCIngestion`, `MCDiscoveryPublishing` and `MCAgentQuery` hold the
constants of their modules, for these and for the runs of findings.
`MCDiscoveryConnection` starts in one of three scenes: opting in and out around a
handshake, shares and revocation around one, and two nodes already connected.

**Proof modules.** `BatchIngestionProofs`, `AsyncQueryProofs` and
`DiscoveryConnectionProofs` extend the module they are named after; `PeopleProofs` is about
`ContactTrust` and `Personas`, `NodeProofs` about `NodeLifecycle` and `AiConfig`,
`IngestionProofs` about `IngestionPipeline`, `IntakeProofs`
about `AppleImport` and `FileIntake`, `ServicesProofs` about `CloudAccount`,
`DiscoveryPublishing`, `PeerSharing`, `DataQueries` and `AgentQuery`. Two habits of the
models come from the provers: a record is never updated with `@` inside another update
that uses `@`, which tlapm expands twice, and `IngestionPipeline` combines functions with
its own `Overlay` and `With`, because `@@` and `:>` of module TLC have no definition the
provers can expand.

## Runs

| run | instance | distinct states | what it shows |
|---|---|---|---|
| `background` | batch: 3 files of cost 1, 2, 2 in three orders, limits 1, 2, 4, none, 1 or 2 workers; files: 4 in a folder, 2 uploads, 1 scan; query: 1, with 1 executing and 2 updating polls, 2 executions | 437,375 | counters, queue and jobs of a batch add up; a pause stands before a file that does not fit; complete means drained; cancel is final; the batch settles; its contract is implemented; a scan's listing covers the folder, and every scan gets an outcome; a query's row shows an answer that was given, and the answer arrives |
| `discovery` | 2 nodes, 1 schema, 3 messages, a peer without request ids, a failure at every step | 85,340 | trust and data come along a handshake only; an accepted request was answered so; every message to a polled pseudonym is applied in the end |
| `people` | trust: 2 requests on 1 domain or 1 on 2, 1 invite; personas: 2 tasks, 3 requests, 2 personas, 3 cards (good, unverifiable, forwarded) | 1.22 M | used and declined invites stay refused; a revocation clears every domain first; one Me, written last; merges lose nothing |
| `node` | 2 requests (1 administrative), 2 paths, 2 operations, 1 crash; 2 savers, a legacy key, 1 failing write, 1 restart | 1.55 M | the node agrees with configuration and identity tree; a restore is all or nothing; no key in the clear after a load, none lost; no deadlock |
| `ingestion` | 2 tasks, a nested and a flat file meeting in one schema, 1 organisation, 1 restart; 3 photos, notes, contacts and the hook beside a resolution and a sweep; 5 Apple sources, 3 records in batches of 2, 2 imports, 2 synchronisations, 2 updates, 1 restart | 1.56 M | what is marked ingested is stored; expansions leave no data without a schema; no dangling row; bracketed resolutions; later photos are linked; the schedule is armed exactly while enabled; the batches of a finished import are its records, each once, and its row stays |
| `node_services` | 19 scenes: publishing (1 pass, 2 opt-outs, both layouts of the stores), interests, calendar, moments, referrals, invites, received share, queries, listings, schema edits, 5 casts of agent and index requests, refresh, restore, organisations, reset | 1.15 M | the twelve properties of the smaller services named in the inventory |
| `discovery_share_key`, `node_ghost`, `ingestion_scope`, `org_left_sync`, `opt_out_stores`, `agent_panic` | | violation | see Findings |

Why the bounds are enough. The properties concern at most two requests on one record
and one failure or restart between two accesses; each instance contains every pair of
operations on shared data, with room for a third party (a third file, a second path, a
redelivery). Counts that matter in the code only through a comparison are kept at the
smallest value that makes both sides of it reachable: two workers and three files for
the spend limit, two responses for re-execution, three messages for request, answer and
contradicting answer, three attempts and a cool-down longer than the longest back-off for
the throttle, two failures for the receipt of a share, three records for a full and a short
batch, a second opt-out for the retry of the first, a scan limit below the number of
files, two neighbours (`K`) for three similar faces. Deadlock checking is off where the
modelled system may come to rest, and on for `node`, where a request can always be made.

Restrictions the properties need and the code does not enforce, set by the runs:

* `RevokedAfterTrustGone` looks at requests that ran alone; one task at a time edits
  personas and saves the card; one administrative operation on the node at a time.
* `HeldIsTracked` leaves out what is in `gaps`, and holds in both layouts of the stores. What
  an opt-out then really takes back is the subject of a finding.
* `RowTellsImport` leaves out a save of the heartbeat that was under way when the extraction
  ended: it may land on the final row (see Observations).
* `TurnRemembered` leaves out requests at work while the wall clock was set (`disturbed`).
  In the casts of one agent and of two that follow each other the clock is set between
  requests only; the others set it at any time.
* `CalendarPurged` leaves out a write whose check preceded the opt-out (`calLate`), and
  opt-outs come one at a time;
  `PolicyKept` schemas with overlapping edits (`overlapped`), and speaks of a policy until
  the owner has the defaults forced; `KeyKept` a key that went
  with a file that was never migrated (`dropped`).
* `AttemptsThrottled`: one caller of the refresh callback at a time. The callback itself
  holds no lock while it registers (`handlers/auth.rs:613`); that the engine waits for the
  answer before it asks again is fold_db's.
* `LeftOrgNotSynced` excuses an organisation whose removal failed in the purge: the request
  is then answered with an error. A list of memberships that cannot be read, and a
  membership whose key cannot be used, are outside (`fold_node/node.rs:984-991`, 1071-1078).
* `OrgOverlap` is FALSE, one organisation request at a time; `MigrateBesideReset` is
  FALSE; `Together` is FALSE, an import by hand and the schedule do not meet (they share
  only the export directory, see Observations).

What happens without each is under Observations.

## Fairness

* Batches (`background`): weak fairness of the coordinator and of each worker. tokio runs a ready task
  eventually, and a worker ends because its AI calls carry time-outs. Nothing is assumed
  of the user, so a paused batch may stay paused; `BatchSettles` says it pauses or ends.
* `discovery` and the queries of `background`: weak fairness of each poll's progress (the client polls
  periodically) and that poll failures eventually stop, without which a message can fail
  for ever.
* Scans (`background`): weak fairness of the scan task and of its report tasks (`IntakeFairness`),
  all spawned on tokio; none of uploads or users.
* `background` assumes the three together. In a behaviour about one of its components the
  others rest in their initial states, in which none of their fair actions is enabled, so
  their fairness asks for nothing and takes no behaviour away.

## Proofs

Every theorem is about a specification of the model with its constants arbitrary, up to
the named assumptions of the modules: sizes, limits and bounds are naturals, sentinels are
not ordinary values, a batch or a share is a sequence, files and domains are finite sets.
The bounds of an instance (`MaxMessages`, `MaxFailures`, ...) are arbitrary too, so they
restrict nothing. Each inductive invariant was checked by TLC on the instance of its run
before it was proved.

### Batch ingestion (`BatchIngestionProofs`)

For every finite set of files, cost function, set of limits and concurrency from 1 to 100,
the clamp of the code:

* `TypeCorrect`. `TypeOK` is not inductive: recording a result charges `Cost[joined]`,
  so `TypeInv` adds that the coordinator holds a file whenever it is about to record.
* `CoordinatorCorrect`. `CoordinatorInv` ties the coordinator's position to the status:
  it leaves its loop only with everything popped, and only its last step writes
  Completed. Without it a worker or handler step could not be told from one that runs
  after the end.
* `CompletedCorrect` follows: Completed implies an empty queue and join set.
* `PausedCorrect`: a paused batch stands before a file that does not fit. The step that
  matters is `RecordCompleted` under a pause: charging only raises the cost, so the head
  of the queue fits even less.
* `PauseHolds`, `CancelHolds`: as step properties, no file leaves the queue of a paused
  batch and cancelled is final; both from `TypeInv` and the invariants above.
* `FilesCorrect`: the counters add up. `PlaceInv` says that every file is in one place
  (queued, with a worker, in the coordinator's hand, recorded, or left behind by a panic),
  `JobInv` and `FailedInv` what its progress job says in each, `CountInv` that the
  counters are the cardinalities of the recorded files; the sum is then one of disjoint
  sets (`FiniteSetTheorems`).
* `ContractImplemented`: `Spec` implements `BatchContract` under the mapping above, one
  step of the coordinator, a worker or a handler at a time.

### Asynchronous queries (`AsyncQueryProofs`)

`TypeCorrect`, and `RowsCorrect`: a row shows an answer that was given. The property says
nothing of what a poll holds between its get and its put, so `RowInv` says the same of
those copies, and `HandInv` that a response in hand is on the board.

### Discovery connection (`DiscoveryConnectionProofs`)

For any number of nodes, polls, schemas and messages. `TypeCorrect` needs `PointerInv`
(a handler that is not idle works on a message the board has). `RowsInv` says which rows
name which messages, `BoardInv` that an acceptance echoing a request id names a request
from its target to its sender; from these `AnsweredCorrect`. `HandshakeCorrect` rests on
`HandshakeInv`: every grant has its handshake, every contact filed under a node key comes
from an acceptance of that node, and no step undoes a handshake (`RecordStays`).

### Contacts and trust (`PeopleProofs`)

A request is a program, so the proof is about programs first: `Guarded(p, C, D)` says that
in `p` every access giving trust for an invite of `C` comes after its replay check, for one
of `D` after its decline check. `AcceptProgram` and `PlainPrograms` show it of every
program a request starts with, `GuardedTail` and `GuardedAfter` that executing or extending
a program keeps it. `TypeCorrect` and `ReplayCorrect` follow with `RecordInv`: the used and
declined lists a request began with only grow while it runs. `DomainAssumption` (finitely
many domains) is what makes the program of a revocation a sequence.

`RevokeCorrect`: a revocation that no request overlaps marks the contact only when it has no
trust left. `Shape(p)` says that only listings and revocations of the same contact come
before the access that marks it, `Swept(p, trust)` that each domain's grant is gone or still
has its revocation ahead; `ListingSwept` is the step that turns the list of domains into
revocations, complete because a domain without a trust map has no grants (`MapsInv`).
`AloneInv` is what makes the rest local: while a request is on its own no other has a
program. No hypothesis: a request that is overlapped loses `start.alone`, as in the property.

### Personas (`PeopleProofs`)

Over `PersonaSpec`: any number of tasks, personas, cards and fingerprints, every task
between any two accesses of any other.

* `PersonaTypes`, from `PersonaInv`. What a task holds between a read and a write is a copy
  that may be stale, so `LocalInv` says what stays true of it: it agrees with the store on
  which personas are built in, its ids were handed out before, and what a Me persona is
  about to stand on is already written. `Kept` is the other half: no step of any task takes
  those facts away.
* `MeCorrect`: at most one Me persona, never without the Identity it names. The hypothesis
  `OneCardSaver`, that one task at a time saves the node's own card, is explicit because the
  code does not enforce it (see Observations: two savers make two Me personas). `MeInv`:
  past its probe, the bootstrap finds no Me until it writes its own.
* `MergeCorrect`: a merge deletes a persona only when all it knew is in the survivor. The
  hypothesis `OneEditor`, one task at a time edits personas, is again one the code leaves
  open. `EditInv`: a merge holds current copies of both personas (`Fresh`), the survivor it
  writes covers the absorbed one (`Covers`), and only then is it entitled to the delete
  (`Entitled`).

The instance of the run `people` satisfies both hypotheses. The assumptions on the
constants are `CardAssumption` (what is forwarded or pasted comes from peers),
`PersonaBoundAssumption` and `RecordAssumption` (kinds of constants).

### Node lifecycle (`NodeProofs`)

`NodeCorrect`: `NodeMatchesIdentity` for any number of requests, databases, identities and
administrative operations that overlap as they like (the run takes one at a time), with
every step failing and any number of crashes. The state of a task is the rest of its
program, so most of the proof is about programs.

* `Flow` says which step follows which, wherever a program is cut (`FlowRest`), `Inside`
  which steps belong to get_node's critical section. `NormalAt`: an operation saves an
  identity once, before it creates any node, and drops the node afterwards, a restore before
  it asks the network; `Undoing`: a rollback ends by dropping the node. `EasyPrograms`,
  `RestoreProgram`, `BootstrapProgram`, `RollbackSound` and `UnbootSound` show this of each
  program an operation starts or breaks off with, `SoundRest` that cuts keep it.
* `Owes(p, l)` is why the property holds between operations only: a task that has begun to
  write an identity, or undoes one, still has to drop the node, and no step but that drop
  takes the debt away (`OwesRest`).
* `Good`, the inductive part: a task inside the section holds the slot's lock (`Held`), what
  it has read of the identity is what the tree holds unless somebody owes (`Agrees`), and so
  the cached node agrees with the tree unless somebody owes (`SlotGood`). `NodeInv` says this
  until something is cleared (`hist.wiped`), as the property does: from then on a
  request may mint (see Findings).

`AllOrNothingCorrect`: `RestoreAllOrNothing`, as generally, over `RestoreInv` beside `NodeInv`.

* `Framed` is the order restore_from_phrase rests on, wherever its program is cut: the
  configuration to go back to is read first, the identity to go back to key after key and
  before any configuration is written, and the new one is saved before the network is asked.
  `Noted`: what the task has read so far is what it found.
* `Phase` is one of two. `Forward`: the trees are what was found until the save, and differ
  afterwards by the new identity at the database's path only. `Backward`: a restore that
  failed has still to put back what differs, keys first and then the configuration.
* `Alone`: while the history says the restore is undisturbed, every other task is idle or a
  request, and a request (`Serving`) writes neither an identity nor a configuration
  (`RequestKept`); that is where the rest of the node comes in.
* Each step of the restore keeps the phase or goes from the first to the second
  (`RestoreOpens`, `RestoreStep`), so `RestoreInv` is inductive (`RestoreKept`), and an empty
  program in either phase is what the property says (`PhaseEnds`, `RestoreSettles`).

The assumptions on the constants are that the sentinels are no ordinary values
(`LockAssumption`, `KeyAssumption`, `PoolAssumption`).

### AI configuration (`NodeProofs`)

`AiTypes` over `StoreInv`, `ServiceInv` and `CallInv`. `ClearedCorrect`: what a load
under way has read is no more in the clear than the file is (`ClearInv`), because nothing
writes a key back into the file. `KeptCorrect`: the accepted key is the sealed one or, as
long as nothing is sealed, the one in the file and in a load that will seal it (`KeyInv`);
the file is stripped only when the store holds a key (`StripInv`).

### Ingestion pipeline (`IngestionProofs`)

Over the specification of the pipeline, any number of requests interleaved at each access
to the schema service, the caches and the store, and restarts between any two of them.

* `IngestionTypes`: the types, with `IngestInv`.
* `IngestedCorrect`: a file marked as ingested has all its records stored. `JobsInv` says
  of each request, by its position: what it ingests is in the document it was given
  (`InDoc`), the schemas it uses were proposed (`Proposed`) and are located in its cache
  (`Located`), installed before anything is written to them (`Installed`), and the records
  it is past are stored (`Saved`). All of it is stable: other requests and restarts only
  ever see stores, caches and records grow (`Grown`, `Kept`).
* `SupersededCorrect`: an expansion leaves no data under a schema without a successor.
  `StoreInv` with `Chain`: a schema is blocked only by a step that has its successor
  installed.

### Apple import and file intake (`IntakeProofs`)

`ArmedCorrect` needs `ConfigInv`, that the file is armed as well as the memory, since a
restart reads it. `TypeCorrect` includes that percentages and counts stay in range, whose
arithmetic is in `BatchPercentage`, `PhotoPercentage` and `RecordCounts`. `CountedCorrect`
says that the batches handed over make up the list. `ImportInv` says it of a list half way:
the batches are disjoint and their union is the first records, as many as the import counts,
so that the next chunk, which starts where these end, joins nothing twice and the last one,
short or not, leaves nothing out (the `MakeUp` lemmas); the end of a batch's ingestion
changes no batch's records. `EndedRowCorrect`, a step property: an idle import has no step
of its own, and the heartbeat of one that ended is silent or aborted. `RowCorrect` joins
the two.

`ScanCorrect`: the listing of a scan covers the folder. `ScanInv` says that at each stage
(walk, dedup, classification in pieces, reply or fallback) what is recommended or skipped
together with what is still a candidate is what the walk found, so that no early return and
no fallback loses a file.

### Cloud account (`ServicesProofs`)

Over `AccountSpec`, key renewal, download and reset side by side:

* `ThrottleCorrect`. `ThrottleInv` ties the history of attempts to the throttle: as many
  failures counted as attempts since the last success, but for the one under way, which
  between the gate and the registration (`gated`) is not yet recorded.
* `RestoreCorrect`. `BootInv`: the marker goes, and the status says complete, only with
  everything downloaded.
* `ResetCorrect`, with the hypothesis `~MigrateBesideReset` that the code does not enforce
  (see Observations). `ResetInv` follows the rows through stop, purge, wipe and restore.

Over `OrgSpec`, organisations alone (a reset restarts the engine, whose reconfiguration is
not part of the reset's model): `JoinedCorrect`, with the hypothesis `~OrgOverlap`, one
organisation request at a time. `OrgInv` says that what a request read is then still the
list when it gives it to the engine.

### Services (`ServicesProofs`)

* `PurgeCorrect` over `SharingSpec`, all of `PeerSharing` interleaved. `PurgeInv`: what a
  purge has still to delete is in its list, and what it has passed is gone, unless the
  flag is on again or something was written late.
* `ShareCorrect` over `SharingSpec`. `DispatchInv` counts how far a dispatch is in records
  that are stored for good; a dispatch that fails starts again with all of them kept.
* `TrackedCorrect` over `PublishSpec`, for any layout of the stores: what the service holds
  has its row, or the pass is about to write it, or it is in `gaps`. A step of the opt-out
  deletes rows only after the service has forgotten their pseudonyms; an upload meanwhile is
  in `gaps`. `TakenBack` says so of each stage: what the opt-out asks the service to forget
  is all it holds of the schema, gaps aside, so that the rows may go.
* `PolicyCorrect` over `DataQuerySpec`. `CopyCurrent`: what a change of a schema has read
  is what is stored, but for the policy it sets; `HeldAlone`: unless two overlapped, only
  one change is at work; `TodoNamed`: a request for all schemas works through schemas there
  are. The defaults replace no policy that is set unless they are forced, which ends what the
  owner set, and a request to set one carries one (`DataQueriesAssumption`).
* `TurnCorrect`, `CallsCorrect` and `JobCorrect` over `AgentSpec`: all requests, with the
  other uses of the data interleaved. `AgentInv` says of each request: its job runs as
  long as its loop does; the session of a working agent has been unused for no longer than
  the agent has worked, which is at most one tick, and no time passes between the answer
  and its last message, unless the clock was set; every change is by a call that is recorded,
  with a result that names it or an error, or by the tool at work (`ChangesKnown`), and between
  two calls there is none. The
  step of one request disturbs another only through a session, and no step makes a live
  session older or drops it (`RequestStep`, `SessionsKept`). Nothing is assumed of what
  the model says; of the constants, that a session outlives one tick (`AgentAssumption`).

### Only model-checked

* The liveness properties (`BatchSettles`, `EventuallyProcessed`, `EventuallyAnswered`,
  `ScanAnswers`): fairness and ENABLED are outside the prover.
* `PagesComplete`: that two sorted enumerations of one set are equal needs induction over
  sequences, which the installed provers cannot instantiate. `LateSimilarLinked` and
  `ResolveBracketed` rest on folds and walks, for the same reason, and so does
  `NoDanglingEdge`: what an extraction writes is a plan flattened from nested sequences.

## Plan

The modelling plan is carried out, and so is the plan of proofs: the properties left to TLC
are those "Only model-checked" lists, which are out of the provers' reach.

## Findings

Each is a run whose property quotes the repository and fails.

* `discovery_share_key` (`handlers/discovery/mod.rs:800`): the acceptor files the
  requester under its pseudonym's key; shares carry the node key and are dropped.
* `node_ghost` (`fold_node/node.rs:109`): a request creating the node while the account
  is deleted generates and stores a fresh identity, which only bootstrap may do.
* `ingestion_scope` (`ingestion/ingestion_service/mod.rs:562`): an organisation's request
  whose structures another request cached writes into the personal schemas.
* `org_left_sync` (`fold_node/node.rs:1064`): after the only organisation is left or
  deleted, and the node shares nothing, the engine keeps it as a target, since an empty
  configuration is not installed.
* `opt_out_stores` (`handlers/discovery/mod.rs:342`): publishing records uploads in the
  index's store, opting out looks for them in the metadata store. Where these are two, the
  opt-out finds neither rows nor embeddings, asks the service for nothing and succeeds.
  Which it is lies in fold_db; nothing in src/ makes them one, and
  `discovery/tests.rs:221-222` opens two namespaces.
* `agent_panic` (`handlers/llm.rs:522`): a tool's result is cut at byte 500 for the session; if
  that is within a character the request breaks, its job completed and the session without
  the tool calls and the answer.

## Observations

Met while modelling; not runs of their own.

* Contacts: every edit of the book writes back all contacts it loaded, so a request
  about one contact undoes the concurrent revocation of another (`contact_book.rs:157`,
  against the comment at 151-154). Two concurrent accepts both pass the replay check.
  An unreadable decline list counts as empty. A role can be assigned to unknown or
  revoked keys. The last pending invite is marked accepted whoever it went to.
* Batch: a panicking worker's file stays in `in_flight_files`; `can_proceed` ignores the
  cost of running files, so the limit can be overshot by the files already running; a
  provider that is not ready fails the job but the file counts as completed
  (`helpers.rs:301`).
* Discovery: an acceptance polled before the sent row is saved matches nothing; a
  re-dispatched request resets an answered row to pending and drops its vouches; a
  retried accept loses the preferred role; declines are never sent, so the requester
  waits for ever; opting out drops the pseudonyms of sent requests from polling.
* Async queries: a response polled before the row is saved is skipped for good; a
  deletion between get and put brings the row back.
* Node: a crash during bootstrap lets the next start synthesise the marker, after which
  bootstrap refuses; overlapping bootstraps roll each other back; `delete_account`
  removes `home/.bootstrap_pending` where the marker is `home/data/.bootstrap_pending`;
  moving the path away and back can open a second pool.
* AI configuration: a save beside a file that was never migrated drops its key
  (`config.rs:731`); the temporary file of an atomic write has one fixed name, so
  overlapping saves share it (`fs_atomic.rs:30`); errors are counted before calls.
* Ingestion: `replaced_schema` is cleared from the registration cache before it is
  handled, so a retry leaves two approved versions; a stale registration cache answers
  with a superseded schema; the dedup record is written for `auto_execute = false` and
  ignores the organisation; `update_ref_fields` loses concurrent references.
* Fingerprints: the extraction status is written first, so a batch cut short looks
  extracted; writing an edge again replaces its weight and evidence; a face indexed twice
  crowds out neighbours; concurrent photo batches miss each other's faces; resolving an
  error row writes over a failure that came meanwhile; the sweep's debounce loads and
  then stores its clock, so two sweeps can run (`auto_propose.rs:108-122`).
* Personas: two concurrent card saves make two Me personas (`self_identity.rs:200`); a
  merge, patch or re-issue loses what another request wrote to the same persona; merging
  personas of two clusters the graph does not connect leaves seeds that cover neither
  (`suggestions.rs:476`), so the next sweep proposes both again; a deleted tentative
  persona comes back the same way; a failure after the Identity is written makes every
  retry skip the receipt and the face; the identity_face edge is in no junction and so
  invisible to the resolver; a redelivered card resets an accepted or dismissed row
  (`received_card.rs:10`, "replay = no-op"), and accept racing dismiss can leave a
  dismissed row whose Identity is stored; `link_identity_id` can point Me at another's
  identity; `set_identity_card` after the bootstrap renames neither Me nor the Identity.
* Imports and files: a batch's ingestion fails in the background, where the import does not
  see it, so an import of reminders all of whose batches fail ends as completed, against
  `routes/apple_import.rs:419-422` ("rather than a green `Imported 0 reminders` checkmark");
  two photo imports share one export directory (`photos.rs:25`); a
  heartbeat that is saving when it is aborted can overwrite a later row
  (`routes/apple_import.rs:371`); updates re-arm from the last successful
  synchronisation; a custom schedule of 0 hours runs at every tick; a refused or
  duplicate upload leaves its decrypted temporary file; a late report can cover the final
  row of a scan; files the model omits vanish from the scan, others come twice;
  `truncated` does not tell of a cut at the depth; running jobs are not recovered after a
  restart.
* Publishing: a pass read the opt-ins once (`handlers/discovery/mod.rs:391-393`), so it
  uploads a schema whose opt-out has listed what it takes back meanwhile, and that upload
  stays on the service after the opt-out's success; `opt_out_all` and the agent's `discovery_opt_out` do not unpublish; a
  pseudonym two schemas share goes with either opt-out.
* Sharing: the secret of moments comes from the local master key (`moments.rs:168`), so
  two nodes derive different hashes; a moment hash seen again keeps its old place;
  detecting again duplicates moments; a revoked contact keeps its moment opt-in; a
  referral response before the query row is saved is skipped; saving the query can bring
  back "pending"; redelivery duplicates vouches, which can exceed the contacts asked; an
  invite accepted out of band stores the sealed secret; invites of inactive rules and to
  revoked contacts go out; a share with a malformed file is retried for ever, and a
  retried share is notified again.
* Queries: unsorted pages may repeat or miss rows; at the fetch cap `has_more` is false
  (`handlers/query.rs:27-31` says true); the processor's name resolution takes any schema
  of a label; overlapping schema edits lose updates.
* Agent: the question, the model's answer and the tools' results are cut at a byte in four
  more places, so the request may break there too and leave its job running; an error of the
  model leaves the job running; a failed call does not tell what it had done; two turns within one second share
  a row; what the tools of a timed-out request changed is not told; messages of two
  requests of one session interleave; the short cut for an empty store works once
  (`handlers/llm.rs:74-97`, `conversation_store.rs:104`); `strip_html` still counts
  as in a tag after a script or style element and drops the text up to the next `>`
  (`web_tools.rs:231-242`).
* Cloud: checking and recording a refresh are two lock sections, so a second caller would
  pass the gate meanwhile; a registration whose key
  cannot be stored issues a key nobody keeps; a crash between clearing the marker and
  writing "complete" leaves "in_progress" for ever, one between the spawn and the marker
  loses the download; the first bootstrap does not invalidate nodes although its
  resumption does.
* Organisations: `create_org` refused by the cloud leaves a local organisation without a
  target until a restart; `remove_member` passes the public key where `add_member` passes
  the user hash; a removed member's invite stays in its inbox; `delete_org` does not tell
  the cloud; overlapping configurations can install the older list.
* Reset: a crash between the wipe and the restored trees loses the identity
  (`admin_ops.rs:176`); a failed purge leaves the engine stopped; a purge with a failed
  wipe leaves local data with an empty cloud log; a migration beside a reset can upload
  wiped rows again; a failed migration keeps the device lock.

## Not modelled

* Of modelled components: the connection sentinel and the pruning of processed markers,
  subscription, billing and e-mail endpoints (requests passed on to the cloud), view and
  transform endpoints beside the agent's `create_view` (passed on to fold_db).
* AI prompts and the repair of JSON answers, file conversion and key extraction: text and
  format code without shared state; the models start from what it yields.
* HTTP server and middleware, MCP server, command line client and daemon: pass-through,
  argument parsing, output. Logging, metrics and observability observe only.
* Agent memory and data migrations: registration at start-up and one-shot scripts.
* The cryptography and the operating system's keychain; the React interface and desktop
  shell, whose actions are the arbitrary requests of the models; fold_db itself, whose
  store operations are the atomic steps of every module here.
