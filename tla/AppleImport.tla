----------------------------- MODULE AppleImport -----------------------------
(***************************************************************************)
(* Import from the macOS applications: the routes that start an import by  *)
(* hand, the background task that carries it out with its heartbeat and    *)
(* progress job, and the scheduler that synchronises the enabled sources.  *)
(*                                                                         *)
(* An extractor is what osascript may answer.  A batch handed to           *)
(* process_json is accepted at once and ingested by a task of its own,     *)
(* which ends, or fails, in a job of its own: the import may end first.    *)
(* What those tasks do is the subject of IngestionPipeline.  One import by *)
(* hand runs beside the scheduler.  Times are in a coarse unit.            *)
(***************************************************************************)
EXTENDS Integers, Sequences, FiniteSets, FiniteSetsExt

CONSTANTS
    Source,         \* the sources a user may import or enable
    MaxRecords,     \* bound on the records an extractor returns
    BatchSize,      \* records per ingestion request (10)
    Daily, Weekly,  \* the fixed schedules, in units of time
    CustomHours,    \* durations a custom schedule may have
    MaxTime,        \* bound on the clock
    MaxImports,     \* bound on the imports by hand
    MaxSyncs,       \* bound on the scheduled synchronisations
    MaxUpdates,     \* bound on updates of the configuration
    MaxCrashes,     \* bound on restarts
    Together,       \* do imports by hand and a schedule meet in one behaviour?
    Never           \* an absent time

AppleSource == {"notes", "reminders", "photos", "calendar", "contacts"}

ASSUME AppleSourceAssumption == Source \subseteq AppleSource
ASSUME AppleBoundAssumption ==
    /\ {MaxRecords, Daily, Weekly, MaxTime, MaxImports, MaxSyncs, MaxUpdates, MaxCrashes} \subseteq Nat
    /\ CustomHours \subseteq Nat
    /\ BatchSize \in Nat \ {0}
    /\ Never \notin Nat
    /\ Together \in BOOLEAN

VARIABLES
    now,            \* the clock
    cfg,            \* the AppleSyncConfig the scheduler and the routes share
    disk,           \* apple_sync_config.json
    sched,          \* the scheduler loop
    import,         \* the import started by hand
    importJob,      \* the progress job of that import
    handed,         \* how many records that import has to hand over (kept), and
                    \* the batches it handed over, each with its ingestion
    budget          \* imports, synchronisations, updates and crashes so far

appleVars == <<now, cfg, disk, sched, import, importJob, handed, budget>>

Schedule == [kind : {"daily", "weekly"}, hours : {0}] \cup [kind : {"custom"}, hours : CustomHours]
Time == Nat \cup {Never}

\* SyncSchedule::as_duration.
as_duration(schedule) ==
    CASE schedule.kind = "daily"  -> Daily
      [] schedule.kind = "weekly" -> Weekly
      [] schedule.kind = "custom" -> schedule.hours

\* AppleSyncConfig and its default: switched off, daily, photos not included.
AppleSyncConfig == [enabled : BOOLEAN, schedule : Schedule, sources : SUBSET Source,
                    last_sync : Time, next_sync : Time, last_error : BOOLEAN]
DefaultConfig == [enabled |-> FALSE, schedule |-> [kind |-> "daily", hours |-> 0],
                  sources |-> Source \ {"photos"}, last_sync |-> Never,
                  next_sync |-> Never, last_error |-> FALSE]

JobRow == [status : {"none", "running", "completed", "failed"}, pct : 0..100,
           ingested : 0..MaxRecords, total : 0..MaxRecords]
NoJob == [status |-> "none", pct |-> 0, ingested |-> 0, total |-> 0]
\* A batch holds the positions of its records in the list of the import.
Batch == [source : AppleSource, records : SUBSET (1..MaxRecords),
          state : {"running", "completed", "failed", "lost"}]
NothingHanded == [kept |-> 0, batches |-> << >>]
IdleImport == [pc |-> "idle", source |-> "notes", left |-> 0, beat |-> "off",
               ingested |-> 0, total |-> 0]
Asleep == [pc |-> "sleep", todo |-> {}, errors |-> {}]

AppleTypeOK ==
    /\ now \in 0..MaxTime
    /\ cfg \in AppleSyncConfig /\ disk \in AppleSyncConfig
    /\ sched \in [pc : {"sleep", "read", "node", "sync"}, todo : SUBSET Source,
                  errors : SUBSET Source]
    /\ import \in [pc : {"idle", "extract", "ingest", "photos"}, source : AppleSource,
                   left : 0..MaxRecords, beat : {"off", "on", "saving", "aborted"},
                   ingested : 0..MaxRecords, total : 0..MaxRecords]
    /\ importJob \in JobRow
    /\ handed \in [kept : 0..MaxRecords, batches : Seq(Batch)]
    /\ budget \in [imports : 0..MaxImports, syncs : 0..MaxSyncs,
                   updates : 0..MaxUpdates, crashes : 0..MaxCrashes]

AppleInit ==
    /\ now = 0
    /\ cfg = DefaultConfig /\ disk = DefaultConfig
    /\ sched = Asleep
    /\ import = IdleImport
    /\ importJob = NoJob
    /\ handed = NothingHanded
    /\ budget = [imports |-> 0, syncs |-> 0, updates |-> 0, crashes |-> 0]

-----------------------------------------------------------------------------
(* Talking to an application.                                              *)

\* run_osascript_once: output, a script error, the error -609 of a lost
\* connection, or the kill at the time-out.
run_osascript_once == {"output", "error", "invalid_connection", "timed_out"}

\* run_osascript_inner: -609 revives the application and tries once more.
is_invalid_connection_error(answer) == answer = "invalid_connection"
run_osascript_inner(first, second) ==
    IF ~ is_invalid_connection_error(first) THEN first
    ELSE IF is_invalid_connection_error(second) THEN "unreachable" ELSE second

\* format_timeout_message: what a time-out is blamed on.
format_timeout_message(probed) == IF probed THEN "unresponsive" ELSE "permission_or_unresponsive"

\* preflight_permission: only applications with a probe are probed.
tcc_probe_script(source) == source \in AppleSource
preflight_permission(source, probe) == ~ tcc_probe_script(source) \/ probe = "output"

\* run_extract, and run_extract_with_timeout of the contacts: what the caller
\* sees of the probe and of the two attempts.
run_extract(source, probe, first, second) ==
    IF ~ preflight_permission(source, probe) THEN "not_granted"
    ELSE LET answer == run_osascript_inner(first, second)
         IN  IF answer = "timed_out" THEN format_timeout_message(source = "contacts")
             ELSE answer

Extracted(source) ==
    {run_extract(source, p, a, b) : p, a, b \in run_osascript_once}

(* A record of the output is so many separated fields, the first of which  *)
(* may be blank; each source takes the shape its script writes.            *)
RawRecord == [fields : {0, 5, 6, 8, 9}, named : BOOLEAN]

NoteShape(r) == r.fields = 5
ReminderShape(r) == r.fields = 5
EventShape(r) == r.fields \in 8..9
ContactShape(r) == r.fields = 6 /\ r.named
Shape(source, r) ==
    CASE source = "notes" -> NoteShape(r) [] source = "reminders" -> ReminderShape(r)
      [] source = "calendar" -> EventShape(r) [] source = "contacts" -> ContactShape(r)

\* parse_records: the records the parser of the source takes.
parse_records(source, raw) == {i \in DOMAIN raw : Shape(source, raw[i])}

\* to_json_records of the notes leaves out those without an id; the other
\* sources keep every record.
to_json_records(source, raw, items) ==
    IF source = "notes" THEN {i \in items : raw[i].named} ELSE items

\* truncate_to_limit: the first items up to the limit of the request.
truncate_to_limit(items, limit) ==
    {i \in items : Cardinality({j \in items : j < i}) < limit}

-----------------------------------------------------------------------------
(* The configuration.                                                      *)

recompute_next_sync(c) ==
    [c EXCEPT !.next_sync =
        IF ~ c.enabled THEN Never
        ELSE (IF c.last_sync = Never THEN now ELSE c.last_sync) + as_duration(c.schedule)]

mark_sync_complete(c) ==
    recompute_next_sync([c EXCEPT !.last_sync = now, !.last_error = FALSE])

\* Faulty variant: a failure arms a schedule that was switched off meanwhile.
MarkErrorRearms(c) ==
    [c EXCEPT !.last_error = TRUE, !.next_sync = now + as_duration(c.schedule)]

mark_sync_error(c) ==
    [c EXCEPT !.last_error = TRUE,
              !.next_sync = IF c.enabled THEN now + as_duration(c.schedule) ELSE Never]

\* AppleSyncConfig::save may fail; what is in memory then stands alone.
save(c) == disk' \in {c, disk}

\* update_sync_config: any of the four settings, under the write lock.
update_sync_config ==
    /\ budget.updates < MaxUpdates
    /\ Together \/ budget.imports = 0
    /\ \E on \in BOOLEAN, s \in Schedule, chosen \in {Source, DefaultConfig.sources} :
        cfg' = recompute_next_sync([cfg EXCEPT !.enabled = on, !.schedule = s,
                                               !.sources = chosen])
    /\ save(cfg')
    /\ budget' = [budget EXCEPT !.updates = @ + 1]
    /\ UNCHANGED <<now, sched, import, importJob, handed>>

-----------------------------------------------------------------------------
(* process_json: it refuses no list of records; a job is started and the   *)
(* ingestion runs in a task of its own.                                    *)
process_json(source, records) ==
    handed' = [handed EXCEPT !.batches =
                  Append(@, [source |-> source, records |-> records, state |-> "running"])]

WithEnd(batches, i, end) == [batches EXCEPT ![i] = [batches[i] EXCEPT !.state = end]]

\* That task ends; a failure is told in the job of the batch alone.
BatchEnds ==
    /\ \E i \in DOMAIN handed.batches, end \in {"completed", "failed"} :
        /\ handed.batches[i].state = "running"
        /\ handed' = [handed EXCEPT !.batches = WithEnd(@, i, end)]
    /\ UNCHANGED <<now, cfg, disk, sched, import, importJob, budget>>

\* A restart ends the tasks that were still ingesting.
LoseBatches(batches) ==
    [i \in DOMAIN batches |->
        [batches[i] EXCEPT !.state = IF @ = "running" THEN "lost" ELSE @]]

-----------------------------------------------------------------------------
(* An import by hand.                                                      *)

\* init_apple_import_job: the job exists before the request is answered.
init_apple_import_job(source) ==
    /\ import.pc = "idle"
    /\ import.beat # "aborted"
    /\ budget.imports < MaxImports
    /\ Together \/ budget.updates = 0
    /\ budget' = [budget EXCEPT !.imports = @ + 1]
    /\ importJob' = [NoJob EXCEPT !.status = "running", !.pct = 5]

\* spawn_apple_import_task: the work goes on in the background.
spawn_apple_import_task(source) ==
    import' = [IdleImport EXCEPT !.pc = "extract", !.source = source, !.beat = "on"]

StartImport(source) ==
    /\ source \in Source
    /\ init_apple_import_job(source)
    /\ spawn_apple_import_task(source)
    /\ handed' = NothingHanded
    /\ UNCHANGED <<now, cfg, disk, sched>>

apple_import_notes == StartImport("notes")
apple_import_reminders == StartImport("reminders")
apple_import_photos == StartImport("photos")
apple_import_calendar == StartImport("calendar")
apple_import_contacts == StartImport("contacts")

\* with_extraction_heartbeat: every two seconds a job made anew is saved.  An
\* abort stops the task at its next await, so a save under way still lands.
HeartbeatTick ==
    /\ import.beat = "on"
    /\ import' = [import EXCEPT !.beat = "saving"]
    /\ UNCHANGED <<now, cfg, disk, sched, importJob, handed, budget>>

HeartbeatSave ==
    /\ import.beat \in {"saving", "aborted"}
    /\ importJob' = [NoJob EXCEPT !.status = "running", !.pct = 5]
    /\ import' = [import EXCEPT !.beat = IF @ = "saving" THEN "on" ELSE "off"]
    /\ UNCHANGED <<now, cfg, disk, sched, handed, budget>>

\* Faulty variant: the heartbeat is not aborted.
AbortBeat_Left(beat) == beat

AbortBeat(beat) == IF beat = "saving" THEN "aborted" ELSE "off"

\* mark_failed with mark_terminal; mark_terminal alone ends the others.
mark_failed(row) == [row EXCEPT !.status = "failed"]
mark_terminal(row) == [row EXCEPT !.status = IF @ = "failed" THEN @ ELSE "completed"]

\* The extraction fails or panics, or finds nothing: the job ends here.
ExtractionEnds ==
    /\ import.pc = "extract"
    /\ \/ \E r \in Extracted(import.source) \cup {"panicked"} :
            /\ r # "output"
            /\ importJob' = mark_failed(NoJob)
       \/ importJob' = mark_terminal([NoJob EXCEPT !.pct = 100])
    /\ import' = [IdleImport EXCEPT !.beat = AbortBeat(import.beat)]
    /\ UNCHANGED <<now, cfg, disk, sched, handed, budget>>

\* run_record_batch_import up to its loop.
ExtractionYields ==
    /\ import.pc = "extract"
    /\ import.source # "photos"
    /\ \E raw \in [1..MaxRecords -> RawRecord], limit \in 1..MaxRecords :
        LET items == truncate_to_limit(parse_records(import.source, raw), limit)
        IN  /\ items # {}
            /\ import' = [import EXCEPT
                    !.pc = "ingest", !.total = Cardinality(items), !.beat = AbortBeat(@),
                    !.left = Cardinality(to_json_records(import.source, raw, items))]
    /\ handed' = [handed EXCEPT !.kept = import'.left]
    /\ importJob' = [NoJob EXCEPT !.status = "running", !.pct = 10]
    /\ UNCHANGED <<now, cfg, disk, sched, budget>>

ingestion_progress_pct(ingested, total) ==
    LET t == Max({total, 1})
    IN  Min({100, 10 + (Min({ingested, t}) * 90) \div t})

\* emit_batch_progress.
emit_batch_progress(ingested, total) ==
    importJob' = [NoJob EXCEPT !.status = "running",
                               !.pct = ingestion_progress_pct(ingested, total)]

\* Faulty variant: only full batches, as chunks_exact would give them.
MoreChunks_Exact(left) == left >= BatchSize

\* records.chunks(BatchSize): as long as there are records, and the last batch
\* may be short.  The records left are the last ones of the list.
MoreChunks(left) == left > 0
Chunk(left) ==
    LET done == handed.kept - left IN done + 1 .. done + Min({left, BatchSize})

\* One turn of the loop of run_record_batch_import: what was accepted counts.
ImportBatch ==
    /\ import.pc = "ingest"
    /\ MoreChunks(import.left)
    /\ LET chunk == Chunk(import.left)
       IN  /\ process_json(import.source, chunk)
           /\ import' = [import EXCEPT !.left = @ - Cardinality(chunk),
                                       !.ingested = @ + Cardinality(chunk)]
    /\ emit_batch_progress(import'.ingested, import.total)
    /\ UNCHANGED <<now, cfg, disk, sched, budget>>

\* error_policy of the four configurations of run_record_batch_import.
error_policy(source) == IF source = "reminders" THEN "LogAndCaptureFirstError" ELSE "LogAndContinue"

\* The end of run_record_batch_import.  process_json refuses no list of
\* records, so build_reminders_final_job is called without an error.
build_reminders_final_job(row) == mark_terminal(row)

ImportFinishes ==
    /\ import.pc = "ingest"
    /\ ~ MoreChunks(import.left)
    /\ LET row == [NoJob EXCEPT !.pct = 100, !.ingested = import.ingested,
                                !.total = import.total]
       IN  importJob' = IF error_policy(import.source) = "LogAndCaptureFirstError"
                        THEN build_reminders_final_job(row)
                        ELSE mark_terminal(row)
    /\ import' = [IdleImport EXCEPT !.beat = import.beat]
    /\ UNCHANGED <<now, cfg, disk, sched, handed, budget>>

-----------------------------------------------------------------------------
(* Photos are exported to a directory and ingested one by one, each        *)
(* awaited: run_one_apple_batch.                                           *)
collect_and_convert == 1..MaxRecords

ExportYields ==
    /\ import.pc = "extract"
    /\ import.source = "photos"
    /\ \E n \in collect_and_convert :
        import' = [import EXCEPT !.pc = "photos", !.left = n, !.total = n,
                                 !.beat = AbortBeat(@)]
    /\ importJob' = [NoJob EXCEPT !.status = "running", !.pct = 30]
    /\ UNCHANGED <<now, cfg, disk, sched, handed, budget>>

\* merge_batch_outcome: only what was ingested counts.
merge_batch_outcome(ingested, outcome) == ingested + (IF outcome = "ingested" THEN 1 ELSE 0)

PhotoProgress(i, total) == 30 + Min({70, (i * 70) \div total})

\* A photo is ingested, fails to convert or to be ingested, or cannot be read;
\* the last leaves the loop's body before the progress is saved.
ImportPhoto ==
    /\ import.pc = "photos"
    /\ import.left > 0
    /\ \E outcome \in {"ingested", "failed", "unreadable"} :
        /\ import' = [import EXCEPT !.left = @ - 1,
                                    !.ingested = merge_batch_outcome(@, outcome)]
        /\ importJob' = IF outcome = "unreadable" THEN importJob
                        ELSE [NoJob EXCEPT !.status = "running",
                                  !.pct = PhotoProgress(import.total - import'.left, import.total)]
    /\ UNCHANGED <<now, cfg, disk, sched, handed, budget>>

PhotosFinish ==
    /\ import.pc = "photos"
    /\ import.left = 0
    /\ importJob' = mark_terminal([NoJob EXCEPT !.pct = 100, !.ingested = import.ingested,
                                                !.total = import.total])
    /\ import' = [IdleImport EXCEPT !.beat = import.beat]
    /\ UNCHANGED <<now, cfg, disk, sched, handed, budget>>

-----------------------------------------------------------------------------
(* run_sync_scheduler: it looks every minute; the sources, the node and    *)
(* the ingestion service are read one after the other.                     *)
Due == cfg.enabled /\ cfg.next_sync # Never /\ now >= cfg.next_sync

SchedulerTick ==
    /\ sched.pc = "sleep"
    /\ Due
    /\ sched' = [Asleep EXCEPT !.pc = "read"]
    /\ UNCHANGED <<now, cfg, disk, import, importJob, handed, budget>>

SchedulerReads ==
    /\ sched.pc = "read"
    /\ sched' = [Asleep EXCEPT !.pc = "node", !.todo = cfg.sources]
    /\ UNCHANGED <<now, cfg, disk, import, importJob, handed, budget>>

\* No node, or no ingestion service: try again at the next tick.
SchedulerSkips ==
    /\ sched.pc = "node"
    /\ sched' = Asleep
    /\ UNCHANGED <<now, cfg, disk, import, importJob, handed, budget>>

StartSync ==
    /\ sched.pc = "node"
    /\ budget.syncs < MaxSyncs
    /\ sched' = [sched EXCEPT !.pc = "sync"]
    /\ budget' = [budget EXCEPT !.syncs = @ + 1]
    /\ UNCHANGED <<now, cfg, disk, import, importJob, handed>>

\* run_sync: the enabled sources in turn, errors collected.
SyncOrder == <<"notes", "reminders", "photos", "calendar", "contacts">>
NextSource ==
    SyncOrder[Min({i \in DOMAIN SyncOrder : SyncOrder[i] \in sched.todo})]

run_sync(source) ==
    /\ sched.pc = "sync"
    /\ sched.todo # {}
    /\ source = NextSource
    /\ UNCHANGED <<now, cfg, disk, import, importJob, handed, budget>>

SyncDone(source, failed) ==
    sched' = [sched EXCEPT !.todo = @ \ {source},
                           !.errors = IF failed THEN @ \cup {source} ELSE @]

\* An extractor that fails, or finds nothing.
SyncExtracts(source) ==
    /\ run_sync(source)
    /\ \E r \in Extracted(source) \cup {"panicked", "nothing"} :
        r # "output" /\ SyncDone(source, r # "nothing")

\* Notes, calendar and contacts go in batches; process_json refuses none.
SyncInBatches(source) == run_sync(source) /\ SyncDone(source, FALSE)

sync_notes == SyncInBatches("notes")
sync_calendar == SyncInBatches("calendar")
sync_contacts == SyncInBatches("contacts")

\* All the reminders go in one request.
sync_reminders == run_sync("reminders") /\ SyncDone("reminders", FALSE)

\* Each photo is converted, read, stored and handed over; the ones that could
\* not be are the error of the source.
sync_photos ==
    /\ run_sync("photos")
    /\ \E n \in collect_and_convert, failed \in 0..MaxRecords :
        failed <= n /\ SyncDone("photos", failed > 0)

\* The end of a round: the outcome is recorded under the write lock and saved.
SchedulerMarks ==
    /\ sched.pc = "sync"
    /\ sched.todo = {}
    /\ cfg' = IF sched.errors = {} THEN mark_sync_complete(cfg) ELSE mark_sync_error(cfg)
    /\ save(cfg')
    /\ sched' = Asleep
    /\ UNCHANGED <<now, import, importJob, handed, budget>>

TimePasses ==
    /\ now < MaxTime
    /\ now' = now + 1
    /\ UNCHANGED <<cfg, disk, sched, import, importJob, handed, budget>>

\* The process dies and starts again: create_sync_config_state loads the file,
\* an unreadable one being the default; the tasks are gone.
create_sync_config_state ==
    /\ budget.crashes < MaxCrashes
    /\ budget' = [budget EXCEPT !.crashes = @ + 1]
    /\ cfg' \in {disk, DefaultConfig}
    /\ sched' = Asleep
    /\ import' = IdleImport
    /\ handed' = [handed EXCEPT !.batches = LoseBatches(@)]
    /\ UNCHANGED <<now, disk, importJob>>

-----------------------------------------------------------------------------
Import ==
    \/ apple_import_notes \/ apple_import_reminders \/ apple_import_photos
    \/ apple_import_calendar \/ apple_import_contacts
    \/ HeartbeatTick \/ HeartbeatSave
    \/ ExtractionEnds \/ ExtractionYields \/ ImportBatch \/ ImportFinishes
    \/ ExportYields \/ ImportPhoto \/ PhotosFinish
    \/ BatchEnds

Sync ==
    \/ SchedulerTick \/ SchedulerReads \/ SchedulerSkips \/ StartSync
    \/ \E s \in Source : SyncExtracts(s)
    \/ sync_notes \/ sync_reminders \/ sync_photos \/ sync_calendar \/ sync_contacts
    \/ SchedulerMarks

AppleNext ==
    \/ Import \/ Sync \/ update_sync_config
    \/ TimePasses \/ create_sync_config_state

AppleSpec == AppleInit /\ [][AppleNext]_appleVars

-----------------------------------------------------------------------------

\* A time is set for the next synchronisation exactly while the schedule is
\* enabled, however a round that is under way ends and whenever the user
\* switches it off.
ArmedWhenEnabled == (cfg.next_sync # Never) <=> cfg.enabled

\* The batches of a finished import, the short last one included, make up the
\* list of its records: every record is in one batch and in no second one, and
\* the import reports as many (run_record_batch_import).
Batched == UNION {handed.batches[i].records : i \in DOMAIN handed.batches}
CountedWasHandedOver ==
    importJob.status = "completed" =>
        /\ importJob.ingested <= importJob.total
        /\ Batched = 1..handed.kept
        /\ \A i, j \in DOMAIN handed.batches :
              i # j => handed.batches[i].records \cap handed.batches[j].records = {}
        /\ handed.kept > 0 => importJob.ingested = handed.kept

\* The row of an import that ended stays as it is, its heartbeat and its
\* batches notwithstanding; only a save of the heartbeat that was under way
\* when the extraction ended may land on it (with_extraction_heartbeat).
EndedRowStays ==
    [][(import.pc = "idle" /\ import'.pc = "idle" /\ importJob.status \in {"completed", "failed"})
         => (importJob' = importJob \/ import.beat = "aborted")]_appleVars

\* What the row of a finished import says is so, and it stays: the user reads
\* it whenever he polls.
RowTellsImport == []CountedWasHandedOver /\ EndedRowStays

=============================================================================
