--------------------------- MODULE BatchIngestion ---------------------------
(***************************************************************************)
(* Smart-folder batch ingestion: one BatchController (spend limit, queue,  *)
(* counters, status), the coordinator task that feeds it to at most        *)
(* max_concurrent worker tasks, the worker tasks themselves, and the HTTP  *)
(* handlers that resume or cancel the batch while it runs.                 *)
(*                                                                         *)
(* The controller is only touched under the map lock and the controller    *)
(* lock, taken in that order, so each critical section is one action; the  *)
(* coordinator's position between critical sections is pc.  Costs are      *)
(* integers (the code's f64 dollars in some unit).                         *)
(***************************************************************************)
EXTENDS Integers, Sequences, FiniteSets, FiniteSetsExt

CONSTANTS
    File,           \* progress ids of the files a batch may contain
    Batches,        \* the queues an ingest request may submit
    Cost,           \* estimated_cost of every file
    Limits,         \* spend limits a request may carry
    NoLimit,        \* spend_limit = None
    Concurrency,    \* values of max_concurrent after clamp(1, 100)
    NoFile          \* no file joined yet

ASSUME FileAssumption == IsFiniteSet(File) /\ NoFile \notin File
ASSUME CostAssumption == Cost \in [File -> Nat]
ASSUME LimitAssumption == Limits \subseteq Nat /\ NoLimit \notin Nat
ASSUME ConcurrencyAssumption == Concurrency \subseteq 1..100

\* A queue is not empty and, progress ids being fresh UUIDs, repeats no file.
ASSUME BatchAssumption ==
    \A q \in Batches :
        /\ q \in Seq(File)
        /\ q # <<>>
        /\ \A i, j \in DOMAIN q : q[i] = q[j] => i = j

VARIABLES
    registered,        \* the controller is in the BatchControllerMap
    status,            \* BatchStatus
    spend_limit,
    accumulated_cost,
    files_total,
    files_completed,
    files_failed,
    pending_files,
    in_flight_files,
    is_local_provider,
    permit,            \* the stored permit of resume_notify (tokio Notify)
    pc,                \* where the coordinator is
    all_popped,
    max_concurrent,
    join_set,          \* worker tasks spawned and not yet joined
    outcome,           \* how far each worker task has come
    joined,            \* the file whose result the coordinator is recording
    jobs               \* per-file progress job of the ProgressTracker

ctrlVars  == <<registered, status, spend_limit, accumulated_cost, files_total,
               files_completed, files_failed, pending_files, in_flight_files,
               is_local_provider, permit>>
coordVars == <<pc, all_popped, max_concurrent, join_set, joined>>
taskVars  == <<outcome, jobs>>
vars      == <<ctrlVars, coordVars, taskVars>>

Status  == {"None", "Running", "Paused", "Completed", "Cancelled"}
Outcome == {"none", "running", "ok", "err", "panic"}
Job     == {"none", "started", "completed", "failed"}
PC      == {"idle", "fill", "await", "woken", "join", "record", "finish", "done"}

TypeOK ==
    /\ registered \in BOOLEAN
    /\ status \in Status
    /\ spend_limit \in Limits \cup {NoLimit}
    /\ accumulated_cost \in Nat
    /\ files_total \in Nat
    /\ files_completed \in Nat
    /\ files_failed \in Nat
    /\ pending_files \in Seq(File)
    /\ in_flight_files \subseteq File
    /\ is_local_provider \in BOOLEAN
    /\ permit \in BOOLEAN
    /\ pc \in PC
    /\ all_popped \in BOOLEAN
    /\ max_concurrent \in 1..100
    /\ join_set \subseteq File
    /\ outcome \in [File -> Outcome]
    /\ joined \in File \cup {NoFile}
    /\ jobs \in [File -> Job]

Init ==
    /\ registered = FALSE
    /\ status = "None"
    /\ spend_limit = NoLimit
    /\ accumulated_cost = 0
    /\ files_total = 0
    /\ files_completed = 0
    /\ files_failed = 0
    /\ pending_files = <<>>
    /\ in_flight_files = {}
    /\ is_local_provider = FALSE
    /\ permit = FALSE
    /\ pc = "idle"
    /\ all_popped = FALSE
    /\ max_concurrent = 1
    /\ join_set = {}
    /\ outcome = [f \in File |-> "none"]
    /\ joined = NoFile
    /\ jobs = [f \in File |-> "none"]

QueueFiles(q) == {q[i] : i \in DOMAIN q}

-----------------------------------------------------------------------------
(* The ingest request: a progress job per file, the controller registered, *)
(* the coordinator spawned.                                                *)

SmartFolderIngest(q, limit, conc, isLocal) ==
    /\ pc = "idle"
    /\ registered' = TRUE
    /\ status' = "Running"
    /\ spend_limit' = limit
    /\ files_total' = Len(q)
    /\ pending_files' = q
    /\ is_local_provider' = isLocal
    /\ max_concurrent' = conc
    /\ jobs' = [f \in File |-> IF f \in QueueFiles(q) THEN "started" ELSE jobs[f]]
    /\ pc' = "fill"
    /\ UNCHANGED <<accumulated_cost, files_completed, files_failed,
                   in_flight_files, permit, all_popped, join_set, outcome, joined>>

-----------------------------------------------------------------------------
(* The coordinator                                                         *)

CanProceed(cost) ==
    spend_limit # NoLimit => accumulated_cost + cost <= spend_limit

Filling ==
    /\ pc = "fill"
    /\ ~all_popped
    /\ Cardinality(join_set) < max_concurrent

\* Faulty variant: a cancelled batch offers its files too.
FileOfferedAlways == registered /\ pending_files # <<>>

\* The queue still offers a file to a batch nobody cancelled.
FileOffered ==
    /\ registered
    /\ status # "Cancelled"
    /\ pending_files # <<>>

\* PopResult::File: pop, enter in_flight_files and spawn the worker.
PopFile ==
    /\ Filling
    /\ FileOffered
    /\ CanProceed(Cost[Head(pending_files)])
    /\ LET f == Head(pending_files) IN
        /\ pending_files' = Tail(pending_files)
        /\ in_flight_files' = in_flight_files \cup {f}
        /\ join_set' = join_set \cup {f}
        /\ outcome' = [outcome EXCEPT ![f] = "running"]
    /\ UNCHANGED <<registered, status, spend_limit, accumulated_cost, files_total,
                   files_completed, files_failed, is_local_provider, permit,
                   pc, all_popped, max_concurrent, joined, jobs>>

\* PopResult::SpendLimitHit: pause, then block on the notifier only when no
\* worker is left to wait for.
SpendLimitHit ==
    /\ Filling
    /\ FileOffered
    /\ ~CanProceed(Cost[Head(pending_files)])
    /\ status' = "Paused"
    /\ pc' = IF join_set = {} THEN "await" ELSE "join"
    /\ UNCHANGED <<registered, spend_limit, accumulated_cost, files_total,
                   files_completed, files_failed, pending_files, in_flight_files,
                   is_local_provider, permit, all_popped, max_concurrent, join_set,
                   joined, taskVars>>

\* PopResult::Done and PopResult::Cancelled.
NothingToPop ==
    /\ Filling
    /\ ~FileOffered
    /\ all_popped' = TRUE
    /\ UNCHANGED <<ctrlVars, pc, max_concurrent, join_set, joined, taskVars>>

\* The inner loop is over: leave when everything is popped and joined,
\* otherwise wait for a worker.
FillOver ==
    /\ pc = "fill"
    /\ all_popped \/ Cardinality(join_set) >= max_concurrent
    /\ pc' = IF join_set = {} THEN "finish" ELSE "join"
    /\ UNCHANGED <<ctrlVars, all_popped, max_concurrent, join_set, joined, taskVars>>

\* wait_for_resume, first half: notified() takes the stored permit or blocks.
Notified ==
    /\ pc = "await"
    /\ permit
    /\ permit' = FALSE
    /\ pc' = "woken"
    /\ UNCHANGED <<registered, status, spend_limit, accumulated_cost, files_total,
                   files_completed, files_failed, pending_files, in_flight_files,
                   is_local_provider, all_popped, max_concurrent, join_set, joined,
                   taskVars>>

\* Faulty variant: a wake-up always ends the loop (the former unconditional
\* break on an empty join_set).
CheckAfterResumeBreaks ==
    /\ pc = "woken"
    /\ all_popped' = (~registered \/ status = "Cancelled")
    /\ pc' = "finish"
    /\ UNCHANGED <<ctrlVars, max_concurrent, join_set, joined, taskVars>>

\* wait_for_resume, second half: look at the status under the lock.
CheckAfterResume ==
    /\ pc = "woken"
    /\ LET cancelled == ~registered \/ status = "Cancelled" IN
        /\ all_popped' = cancelled
        /\ pc' = IF cancelled THEN "finish" ELSE "fill"
    /\ UNCHANGED <<ctrlVars, max_concurrent, join_set, joined, taskVars>>

\* join_next().await: any finished worker; a panicked one yields Err, which
\* the coordinator drops without recording anything.
JoinNext(f) ==
    /\ pc = "join"
    /\ f \in join_set
    /\ outcome[f] \in {"ok", "err", "panic"}
    /\ join_set' = join_set \ {f}
    /\ IF outcome[f] = "panic"
         THEN pc' = "fill" /\ joined' = joined
         ELSE pc' = "record" /\ joined' = f
    /\ UNCHANGED <<ctrlVars, all_popped, max_concurrent, taskVars>>

Charge(f) == IF is_local_provider THEN 0 ELSE Cost[f]

\* record_file_result, the worker returned Ok.
RecordCompleted ==
    /\ pc = "record"
    /\ outcome[joined] = "ok"
    /\ accumulated_cost' = accumulated_cost + Charge(joined)
    /\ files_completed' = files_completed + 1
    /\ in_flight_files' = in_flight_files \ {joined}
    /\ joined' = NoFile
    /\ pc' = "fill"
    /\ UNCHANGED <<registered, status, spend_limit, files_total, files_failed,
                   pending_files, is_local_provider, permit, all_popped,
                   max_concurrent, join_set, taskVars>>

\* Faulty variant: record_failed forgets remove_in_flight.
RecordFailedKeepsInFlight ==
    /\ pc = "record"
    /\ outcome[joined] = "err"
    /\ jobs' = [jobs EXCEPT ![joined] = "failed"]
    /\ files_failed' = files_failed + 1
    /\ joined' = NoFile
    /\ pc' = "fill"
    /\ UNCHANGED <<registered, status, spend_limit, accumulated_cost, files_total,
                   files_completed, pending_files, in_flight_files,
                   is_local_provider, permit, all_popped, max_concurrent,
                   join_set, outcome>>

\* record_file_result, the worker returned Err: fail_progress, then count it.
RecordFailed ==
    /\ pc = "record"
    /\ outcome[joined] = "err"
    /\ jobs' = [jobs EXCEPT ![joined] = "failed"]
    /\ files_failed' = files_failed + 1
    /\ in_flight_files' = in_flight_files \ {joined}
    /\ joined' = NoFile
    /\ pc' = "fill"
    /\ UNCHANGED <<registered, status, spend_limit, accumulated_cost, files_total,
                   files_completed, pending_files, is_local_provider, permit,
                   all_popped, max_concurrent, join_set, outcome>>

\* Faulty variant: Completed whatever the status.
FinishAlwaysCompletes ==
    /\ pc = "finish"
    /\ status' = "Completed"
    /\ pc' = "done"
    /\ UNCHANGED <<registered, spend_limit, accumulated_cost, files_total,
                   files_completed, files_failed, pending_files, in_flight_files,
                   is_local_provider, permit, all_popped, max_concurrent, join_set,
                   joined, taskVars>>

\* The loop is left: Completed unless somebody changed the status.
Finish ==
    /\ pc = "finish"
    /\ status' = IF registered /\ status = "Running" THEN "Completed" ELSE status
    /\ pc' = "done"
    /\ UNCHANGED <<registered, spend_limit, accumulated_cost, files_total,
                   files_completed, files_failed, pending_files, in_flight_files,
                   is_local_provider, permit, all_popped, max_concurrent, join_set,
                   joined, taskVars>>

\* The deferred task that removes the controller five minutes later.
Cleanup ==
    /\ pc = "done"
    /\ registered
    /\ registered' = FALSE
    /\ UNCHANGED <<status, spend_limit, accumulated_cost, files_total,
                   files_completed, files_failed, pending_files, in_flight_files,
                   is_local_provider, permit, coordVars, taskVars>>

-----------------------------------------------------------------------------
(* Worker tasks: process_single_file_via_smart_folder returns Ok after it  *)
(* settled the progress job, returns Err, or panics.                       *)

\* The job is completed, unless no AI provider is ready: then it is failed
\* and the failure response is still an Ok.
TaskOk(f) ==
    /\ f \in join_set
    /\ outcome[f] = "running"
    /\ outcome' = [outcome EXCEPT ![f] = "ok"]
    /\ \E result \in {"completed", "failed"} : jobs' = [jobs EXCEPT ![f] = result]
    /\ UNCHANGED <<ctrlVars, coordVars>>

TaskErr(f) ==
    /\ f \in join_set
    /\ outcome[f] = "running"
    /\ outcome' = [outcome EXCEPT ![f] = "err"]
    /\ UNCHANGED <<ctrlVars, coordVars, jobs>>

TaskPanic(f) ==
    /\ f \in join_set
    /\ outcome[f] = "running"
    /\ outcome' = [outcome EXCEPT ![f] = "panic"]
    /\ UNCHANGED <<ctrlVars, coordVars, jobs>>

-----------------------------------------------------------------------------
(* HTTP handlers                                                           *)

\* notify_one: wake the waiter, or leave one permit for the next one.
NotifyOne == permit' = TRUE

\* Faulty variant: the limit is raised and the coordinator woken, but the
\* status stays Paused.
ResumeBatchKeepsPaused(limit) ==
    /\ registered
    /\ status = "Paused"
    /\ spend_limit' = limit
    /\ NotifyOne
    /\ UNCHANGED <<registered, status, accumulated_cost, files_total,
                   files_completed, files_failed, pending_files, in_flight_files,
                   is_local_provider, coordVars, taskVars>>

\* Faulty variant: nobody wakes the coordinator.
ResumeBatchUnnotified(limit) ==
    /\ registered
    /\ status = "Paused"
    /\ spend_limit' = limit
    /\ status' = "Running"
    /\ UNCHANGED <<registered, accumulated_cost, files_total, files_completed,
                   files_failed, pending_files, in_flight_files, is_local_provider,
                   permit, coordVars, taskVars>>

ResumeBatch(limit) ==
    /\ registered
    /\ status = "Paused"
    /\ spend_limit' = limit
    /\ status' = "Running"
    /\ NotifyOne
    /\ UNCHANGED <<registered, accumulated_cost, files_total, files_completed,
                   files_failed, pending_files, in_flight_files, is_local_provider,
                   coordVars, taskVars>>

CancelBatch ==
    /\ registered
    /\ status' = "Cancelled"
    /\ NotifyOne
    /\ UNCHANGED <<registered, spend_limit, accumulated_cost, files_total,
                   files_completed, files_failed, pending_files, in_flight_files,
                   is_local_provider, coordVars, taskVars>>

-----------------------------------------------------------------------------
Ingest ==
    \E q \in Batches, limit \in Limits \cup {NoLimit}, conc \in Concurrency,
       isLocal \in BOOLEAN : SmartFolderIngest(q, limit, conc, isLocal)

Coordinator ==
    \/ PopFile
    \/ SpendLimitHit
    \/ NothingToPop
    \/ FillOver
    \/ Notified
    \/ CheckAfterResume
    \/ \E f \in File : JoinNext(f)
    \/ RecordCompleted
    \/ RecordFailed
    \/ Finish

Worker(f) == TaskOk(f) \/ TaskErr(f) \/ TaskPanic(f)

User == CancelBatch \/ \E limit \in Limits : ResumeBatch(limit)

Next ==
    \/ Ingest
    \/ Coordinator
    \/ Cleanup
    \/ \E f \in File : Worker(f)
    \/ User

Spec == Init /\ [][Next]_vars

\* tokio polls a ready task eventually, and every worker ends (its calls to
\* the AI service carry timeouts).  Nothing is assumed of the user.
BatchFairness ==
    /\ WF_vars(Coordinator)
    /\ \A f \in File : WF_vars(Worker(f))

FairSpec == Spec /\ BatchFairness

-----------------------------------------------------------------------------
(* Properties                                                              *)

\* A Paused batch is paused at a file that does not fit: try_pop_file never
\* looks for Paused, so only this keeps it from popping under a pause.
PausedMeansTooExpensive ==
    status = "Paused" =>
        /\ pending_files # <<>>
        /\ spend_limit # NoLimit
        /\ accumulated_cost + Cost[Head(pending_files)] > spend_limit

\* While a batch is Paused no file leaves the queue, although try_pop_file has
\* no test for Paused and results of running workers keep being recorded.
NoStartWhilePaused ==
    [][status = "Paused" => pending_files' = pending_files]_vars

\* A cancelled batch stays cancelled, whatever the handlers and the
\* coordinator do next, and starts no further file.
CancelIsFinal ==
    [][status = "Cancelled" => /\ status' = "Cancelled"
                               /\ pending_files' = pending_files]_vars

\* A batch reports Completed only with nothing queued and nothing running: a
\* resume must never end the loop with files left over.
CompletedIsDrained ==
    status = "Completed" =>
        /\ pending_files = <<>>
        /\ join_set = {}
        /\ joined = NoFile

\* How the coordinator's position, its locals and the status belong together:
\* the loop is left only when everything is popped and joined, and Completed
\* is only ever written by the coordinator's last step.
CoordinatorInv ==
    /\ pc = "record" <=> joined # NoFile
    /\ pc \in {"idle", "await", "woken", "finish", "done"} => join_set = {}
    /\ pc = "idle" => ~registered /\ ~all_popped
    /\ pc \notin {"idle", "done"} => registered
    /\ pc \in {"finish", "done"} => all_popped
    /\ all_popped => status = "Cancelled" \/ pending_files = <<>>
    /\ status = "None" <=> pc = "idle"
    /\ status = "Completed" => pc = "done"

\* Every file of the batch is counted in exactly one place at all times, so
\* the status endpoint's numbers always add up to files_total; and when the
\* coordinator has ended, the progress job of every file it counted is
\* settled, none of a file it did not count is, and no file counted as failed
\* is shown to the user as ingested.
FilesConserved ==
    /\ files_total = files_completed + files_failed
                      + Cardinality(in_flight_files) + Len(pending_files)
    /\ pc = "done" =>
        /\ files_completed + files_failed
               = Cardinality({f \in File : jobs[f] \in {"completed", "failed"}})
        /\ Cardinality({f \in File : jobs[f] = "completed"}) <= files_completed

\* Left to itself, a batch that runs ends or pauses; in particular a resumed
\* batch is really woken.
BatchSettles ==
    status = "Running" ~> (status = "Paused" \/ pc = "done")

\* The status is the phase of the batch; a file is worked on from its pop until
\* its result is recorded or its panic joined.
Phase ==
    CASE status = "None"      -> "new"
      [] status = "Running"   -> "open"
      [] status = "Paused"    -> "paused"
      [] status = "Cancelled" -> "cancelled"
      [] status = "Completed" -> "complete"

Contract == INSTANCE BatchContract WITH
    phase   <- Phase,
    waiting <- QueueFiles(pending_files),
    working <- join_set \cup ({joined} \ {NoFile})

\* The controller, the coordinator and the handlers of batch_controller.rs and
\* batch.rs together keep the promise of BatchContract.
ImplementsContract == Contract!ContractSpec
=============================================================================
