----------------------------- MODULE FileIntake -----------------------------
(***************************************************************************)
(* Files on their way in: uploads, the scan of a smart folder with the     *)
(* adjustment of its result, the ingestion of a whole folder, and the      *)
(* progress rows all of them keep.                                         *)
(*                                                                         *)
(* A file stands for its contents: two uploads of one file have one hash,  *)
(* hence one encrypted copy and one unencrypted temporary file.  What an   *)
(* ingestion does with the data is the subject of IngestionPipeline; here  *)
(* it runs through its phases and succeeds or fails.  The language model   *)
(* may answer anything.                                                    *)
(***************************************************************************)
EXTENDS Integers, FiniteSets, FiniteSetsExt

CONSTANTS
    Path,         \* files, by content and by path in the scanned folder
    Ext,          \* Ext[f]: the extension of f
    Dir,          \* Dir[f]: [name, depth, hidden, project] of the directory of f
    Exported,     \* files whose path speaks of an export, a backup or a takeout
    Upload,       \* upload requests
    Uploaded,     \* the files they may bring
    MaxBeside,    \* bound on the uploads that meet a scan in one behaviour
    MaxDepth,     \* max_depth of the scan
    MaxFiles,     \* max_files of the scan
    MaxReports,   \* bound on progress reports of a scan under way at once
    MaxAdjusts    \* bound on adjustments of a scan result

ASSUME PathAssumption ==
    /\ Exported \subseteq Path /\ Uploaded \subseteq Path
    /\ {MaxBeside, MaxDepth, MaxFiles, MaxReports, MaxAdjusts} \subseteq Nat

VARIABLES
    store,        \* encrypted copies in the upload storage, by hash
    temp,         \* unencrypted temporary files folddb_proc_<hash>
    ingestedFiles,\* files recorded as ingested by this node
    upload,       \* upload[u]: the request and how far it is
    fileRow,      \* fileRow[u]: the progress row of the ingestion u started
    scan,         \* the scan task
    reports,      \* progress reports of the scan that are under way
    scanRow,      \* the progress row of the scan
    folder,       \* the files a folder ingestion has still to do
    adjusts       \* adjustments so far

intakeVars == <<store, temp, ingestedFiles, upload, fileRow, scan, reports, scanRow, folder, adjusts>>

-----------------------------------------------------------------------------
(* Extensions, one for every class the code tells apart.                   *)

DATA_EXTS == {"json", "csv", "txt"}
DOC_EXTS == {"pdf"}
CODE_EXTS == {"rs"}
CONFIG_EXTS == {"yaml"}
IMAGE_EXTS == {"jpg", "svg", "tif"}

is_ingestible_file(f) ==
    Ext[f] \in DATA_EXTS \cup DOC_EXTS \cup CODE_EXTS \cup CONFIG_EXTS \cup IMAGE_EXTS

is_image_file(f) == Ext[f] \in IMAGE_EXTS

\* apply_heuristic_filtering: the first rule that fits.
Category(f) ==
    CASE Ext[f] \in {"pdf", "csv"}         -> "personal_data"
      [] Ext[f] = "jpg"                    -> "media"
      [] f \in Exported                    -> "personal_data"
      [] Ext[f] \in {"json", "txt", "yaml"} -> "personal_data"
      [] Ext[f] = "rs"                     -> "code"
      [] Ext[f] = "svg"                    -> "media"
      [] OTHER                             -> "unknown"

FileRecommendation == [path : Path, should_ingest : BOOLEAN, already_ingested : BOOLEAN]
Recommend(f, yes) == [path |-> f, should_ingest |-> yes, already_ingested |-> FALSE]

apply_heuristic_filtering(files) == {Recommend(f, Category(f) # "unknown") : f \in files}

-----------------------------------------------------------------------------
(* Progress rows.  update_progress on a row is the job library's: it sets  *)
(* the percentage and leaves the row running.                              *)

NoRow == [status |-> "none", pct |-> 0]
Row == [status : {"none", "running", "completed", "failed"}, pct : 0..100]

update_job(row, pct) == [row EXCEPT !.status = "running", !.pct = pct]

start_progress == [status |-> "running", pct |-> 5]
update_progress_with_percentage(row, pct) == IF row = NoRow THEN row ELSE update_job(row, pct)
complete_progress(row) ==
    IF row = NoRow THEN row ELSE [status |-> "completed", pct |-> 100]
fail_progress(row) == IF row = NoRow THEN row ELSE [row EXCEPT !.status = "failed"]

\* IngestionPhase: where each phase starts and ends.
percentage_range == << <<5, 10>>, <<10, 25>>, <<25, 40>>, <<40, 55>>, <<55, 80>>, <<80, 95>> >>
Phases == DOMAIN percentage_range

enter_phase(row, phase) == update_progress_with_percentage(row, percentage_range[phase][1])
sub_progress(row, phase) == update_progress_with_percentage(row, percentage_range[phase][2])

Ended(row) == row.status \in {"completed", "failed"}

\* get_progress_summary: what the summary counts.
get_progress_summary ==
    LET rows == {u \in Upload : fileRow[u] # NoRow}
        done == {u \in rows : Ended(fileRow[u])}
        failed == {u \in done : fileRow[u].status = "failed"}
    IN  [total |-> Cardinality(rows), done |-> Cardinality(done), failed |-> Cardinality(failed),
         passed |-> Cardinality(done) - Cardinality(failed),
         running |-> Cardinality(rows) - Cardinality(done)]

-----------------------------------------------------------------------------
(* Uploads.                                                                *)

IdleUpload(f) == [pc |-> "idle", file |-> f, phase |-> 0, bytes |-> FALSE]

Started == {u \in Upload : upload[u].pc # "idle"}

\* parse_multipart: a form without a file, or one that breaks off before the
\* file, is refused and nothing is kept.
parse_multipart(u) ==
    /\ upload[u].pc = "idle"
    /\ scan.pc = "idle" \/ Cardinality(Started) < MaxBeside
    /\ \E f \in Uploaded, ok \in BOOLEAN :
          upload' = [upload EXCEPT ![u] = [IdleUpload(f) EXCEPT !.pc = IF ok THEN "save" ELSE "refused"]]
    /\ UNCHANGED <<store, temp, ingestedFiles, fileRow, scan, reports, scanRow, folder, adjusts>>

\* save_uploaded_file: too large or broken off, not stored, or stored once
\* under its hash.
save_uploaded_file(u) ==
    /\ upload[u].pc = "save"
    /\ \/ /\ upload' = [upload EXCEPT ![u].pc = "refused"]
          /\ UNCHANGED store
       \/ /\ store' = store \cup {upload[u].file}
          /\ upload' = [upload EXCEPT ![u].pc = "write"]
    /\ UNCHANGED <<temp, ingestedFiles, fileRow, scan, reports, scanRow, folder, adjusts>>

\* write_unencrypted_for_processing; a form that breaks off after its file
\* is refused with the temporary file in place.
write_unencrypted_for_processing(u) ==
    /\ upload[u].pc = "write"
    /\ \/ /\ upload' = [upload EXCEPT ![u].pc = "refused"]
          /\ UNCHANGED temp
       \/ /\ temp' = temp \cup {upload[u].file}
          /\ \/ upload' = [upload EXCEPT ![u].pc = "check"]
             \/ upload' = [upload EXCEPT ![u].pc = "refused"]
    /\ UNCHANGED <<store, ingestedFiles, fileRow, scan, reports, scanRow, folder, adjusts>>

\* is_file_ingested: a file this node has ingested is answered as a
\* duplicate; its temporary file stays.
CheckDuplicate(u) ==
    /\ upload[u].pc = "check"
    /\ upload' = [upload EXCEPT ![u].pc = IF upload[u].file \in ingestedFiles THEN "duplicate"
                                          ELSE "convert"]
    /\ UNCHANGED <<store, temp, ingestedFiles, fileRow, scan, reports, scanRow, folder, adjusts>>

\* read_file_as_json, else convert_file_to_json_http.  Both read the
\* temporary file, which another upload of the same file may have removed.
convert_file_to_json_http(u) ==
    LET f == upload[u].file
    IN  /\ upload[u].pc = "convert"
        /\ \/ /\ f \in temp
              /\ upload' = [upload EXCEPT ![u].pc = IF is_image_file(f) THEN "image" ELSE "remove"]
           \/ upload' = [upload EXCEPT ![u].pc = "refused"]
        /\ UNCHANGED <<store, temp, ingestedFiles, fileRow, scan, reports, scanRow, folder, adjusts>>

\* The bytes for face detection are read again; without them the upload
\* goes on.
ReadImageBytes(u) ==
    /\ upload[u].pc = "image"
    /\ upload' = [upload EXCEPT ![u].pc = "remove", ![u].bytes = upload[u].file \in temp]
    /\ UNCHANGED <<store, temp, ingestedFiles, fileRow, scan, reports, scanRow, folder, adjusts>>

\* Three attempts at removing the temporary file, whatever its kind; all of
\* them may fail.
RemoveTemp(u) ==
    /\ upload[u].pc = "remove"
    /\ \/ /\ temp' = temp \ {upload[u].file}
          /\ upload' = [upload EXCEPT ![u].pc = "process"]
       \/ upload' = [upload EXCEPT ![u].pc = "process"] /\ UNCHANGED temp
    /\ UNCHANGED <<store, ingestedFiles, fileRow, scan, reports, scanRow, folder, adjusts>>

\* upload_file ends: no ingestion service, data process_json refuses, or an
\* ingestion task with a progress row.
upload_file(u) ==
    /\ upload[u].pc = "process"
    /\ \/ upload' = [upload EXCEPT ![u].pc = "refused"] /\ UNCHANGED fileRow
       \/ /\ fileRow' = [fileRow EXCEPT ![u] = start_progress]
          /\ upload' = [upload EXCEPT ![u].pc = "accepted", ![u].phase = 1]
    /\ UNCHANGED <<store, temp, ingestedFiles, scan, reports, scanRow, folder, adjusts>>

\* The task process_json spawned: phase after phase, then the row is
\* completed and the file recorded, or the row is failed.
IngestionPhase(u) ==
    /\ upload[u].pc = "accepted" /\ upload[u].phase \in Phases
    /\ fileRow' = [fileRow EXCEPT ![u] = enter_phase(@, upload[u].phase)]
    /\ upload' = [upload EXCEPT ![u].phase = @ + 1]
    /\ UNCHANGED <<store, temp, ingestedFiles, scan, reports, scanRow, folder, adjusts>>

MutationProgress(u) ==
    /\ upload[u].pc = "accepted" /\ upload[u].phase = Cardinality(Phases) + 1
    /\ fileRow' = [fileRow EXCEPT ![u] = sub_progress(@, Cardinality(Phases))]
    /\ UNCHANGED <<store, temp, ingestedFiles, upload, scan, reports, scanRow, folder, adjusts>>

IngestionEnds(u) ==
    /\ upload[u].pc = "accepted"
    /\ \/ /\ upload[u].phase > Cardinality(Phases)
          /\ fileRow' = [fileRow EXCEPT ![u] = complete_progress(@)]
          /\ ingestedFiles' = ingestedFiles \cup {upload[u].file}
       \/ /\ upload[u].phase > 1
          /\ fileRow' = [fileRow EXCEPT ![u] = fail_progress(@)]
          /\ UNCHANGED ingestedFiles
    /\ upload' = [upload EXCEPT ![u].pc = "ended", ![u].phase = 0]
    /\ UNCHANGED <<store, temp, scan, reports, scanRow, folder, adjusts>>

\* serve_file: only what is in the encrypted store.
serve_file(f) == IF f \in store THEN "served" ELSE "not_found"

-----------------------------------------------------------------------------
(* The scan of a smart folder.                                             *)

\* scan_directory_recursive: hidden entries, coding projects and what lies
\* too deep are passed over; the walk stops at max_files, in the order the
\* directory happens to be read.  A directory that cannot be read fails it.
InReach(f) == Dir[f].depth <= MaxDepth /\ ~ Dir[f].hidden /\ ~ Dir[f].project

Walks ==
    LET all == {f \in Path : InReach(f) /\ is_ingestible_file(f)}
    IN  IF Cardinality(all) <= MaxFiles THEN {all} ELSE kSubset(MaxFiles, all)

IdleScan == [pc |-> "idle", found |-> {}, truncated |-> FALSE, candidates |-> {},
             recs |-> {}, omitted |-> {}, result |-> {}]

\* on_progress: a task that loads the row, sets the percentage and saves it.
Report(pct) == reports' = reports \cup {[pct |-> pct, loaded |-> FALSE, row |-> NoRow]}

CanReport == Cardinality(reports) < MaxReports

smart_folder_scan ==
    /\ scan.pc = "idle" /\ Cardinality(Started) <= MaxBeside
    /\ scanRow' = [status |-> "running", pct |-> 0]
    /\ scan' = [scan EXCEPT !.pc = "list"]
    /\ UNCHANGED <<store, temp, ingestedFiles, upload, fileRow, reports, folder, adjusts>>

\* scan_directory_tree_with_context: truncated says that max_files was met.
scan_directory_tree_with_context ==
    /\ scan.pc = "list" /\ CanReport
    /\ Report(15)
    /\ \/ scan' = [scan EXCEPT !.pc = "failed"]
       \/ \E found \in Walks :
             scan' = [scan EXCEPT !.pc = IF found = {} THEN "done" ELSE "images",
                                  !.found = found,
                                  !.truncated = Cardinality(found) >= MaxFiles,
                                  !.candidates = found]
    /\ UNCHANGED <<store, temp, ingestedFiles, upload, fileRow, scanRow, folder, adjusts>>

\* classify_image_directories: the model calls some image directories
\* assets; an unknown directory, no service or no answer skips nothing.
classify_image_directories ==
    LET images == {f \in scan.candidates : is_image_file(f)}
    IN  /\ scan.pc = "images"
        /\ \E assets \in SUBSET {Dir[f].name : f \in images} :
              LET skipped == {f \in images : Dir[f].name \in assets}
              IN  scan' = [scan EXCEPT !.pc = "dedup", !.candidates = @ \ skipped,
                                       !.recs = {Recommend(f, FALSE) : f \in skipped}]
        /\ UNCHANGED <<store, temp, ingestedFiles, upload, fileRow, reports, scanRow, folder, adjusts>>

\* Faulty variant: files found to be ingested stay candidates too.
DedupKeepsCandidates(done) == scan.candidates

\* The dedup check, file by file, here at once: what is ingested is skipped.
Remaining(done) == scan.candidates \ done

DedupCheck ==
    LET done == scan.candidates \cap ingestedFiles
    IN  /\ scan.pc = "dedup" /\ CanReport
        /\ Report(25)
        /\ scan' = [scan EXCEPT !.pc = "classify", !.candidates = Remaining(done),
                                !.recs = @ \cup {[Recommend(f, FALSE) EXCEPT !.already_ingested = TRUE] : f \in done}]
        /\ UNCHANGED <<store, temp, ingestedFiles, upload, fileRow, scanRow, folder, adjusts>>

\* parse_llm_file_recommendations: of the answer, what names a known path.
\* A path may be left out, or come twice with different advice.
parse_llm_file_recommendations(paths) ==
    SUBSET {Recommend(f, yes) : f \in paths, yes \in BOOLEAN}

\* Heuristics first, the model for what they leave unknown, heuristics again
\* when there is no service or no usable answer.
ClassifyFiles ==
    LET ambiguous == {f \in scan.candidates : Category(f) = "unknown"}
    IN  /\ scan.pc = "classify"
        /\ \E recs \in parse_llm_file_recommendations(ambiguous)
                       \cup {apply_heuristic_filtering(ambiguous)} :
              scan' = [scan EXCEPT !.pc = "finish",
                          !.omitted = ambiguous \ {r.path : r \in recs},
                          !.recs = @ \cup recs \cup apply_heuristic_filtering(scan.candidates \ ambiguous)]
        /\ UNCHANGED <<store, temp, ingestedFiles, upload, fileRow, reports, scanRow, folder, adjusts>>

perform_smart_folder_scan_with_progress ==
    /\ scan.pc = "finish" /\ CanReport
    /\ Report(99)
    /\ scan' = [scan EXCEPT !.pc = "done", !.result = scan.recs]
    /\ UNCHANGED <<store, temp, ingestedFiles, upload, fileRow, scanRow, folder, adjusts>>

\* Faulty variant: a scan that failed leaves its row alone.
FinalRowOnSuccess(ok) == IF ok THEN complete_progress(scanRow) ELSE scanRow

FinalRow(ok) == IF ok THEN complete_progress(scanRow) ELSE fail_progress(scanRow)

\* After a pause of 50 ms the task loads its row and writes the outcome.
ScanFinal ==
    /\ scan.pc \in {"done", "failed"}
    /\ scanRow' = FinalRow(scan.pc = "done")
    /\ scan' = [scan EXCEPT !.pc = IF scan.pc = "done" THEN "answered" ELSE "over"]
    /\ UNCHANGED <<store, temp, ingestedFiles, upload, fileRow, reports, folder, adjusts>>

ReportLoads ==
    \E r \in reports :
       /\ ~ r.loaded
       /\ reports' = (reports \ {r}) \cup {[r EXCEPT !.loaded = TRUE, !.row = scanRow]}
       /\ UNCHANGED <<store, temp, ingestedFiles, upload, fileRow, scan, scanRow, folder, adjusts>>

ReportSaves ==
    \E r \in reports :
       /\ r.loaded
       /\ scanRow' = update_progress_with_percentage(r.row, r.pct)
       /\ reports' = reports \ {r}
       /\ UNCHANGED <<store, temp, ingestedFiles, upload, fileRow, scan, folder, adjusts>>

\* get_scan_result: the listing a caller sees.
get_scan_result ==
    CASE scanRow.status = "failed"    -> "error"
      [] scanRow.status = "completed" -> "result"
      [] OTHER                        -> "not_found"

\* merge_adjust_results: the advice of the files the answer names changes,
\* nothing else does.  The last advice for a path counts.
merge_adjust_results(originals, updates) ==
    {IF o.path \in DOMAIN updates THEN [o EXCEPT !.should_ingest = updates[o.path]] ELSE o :
        o \in originals}

adjust_scan_results ==
    /\ scan.pc = "answered" /\ adjusts < MaxAdjusts
    /\ get_scan_result = "result"
    /\ \E paths \in SUBSET {r.path : r \in scan.result} :
          \E updates \in [paths -> BOOLEAN] :
             scan' = [scan EXCEPT !.result = merge_adjust_results(@, updates)]
    /\ adjusts' = adjusts + 1
    /\ UNCHANGED <<store, temp, ingestedFiles, upload, fileRow, reports, scanRow, folder>>

-----------------------------------------------------------------------------
(* A whole folder: its data files, one level deep, one after the other.    *)

batch_folder_ingest ==
    /\ folder = {}
    /\ folder' = {f \in Path : Dir[f].depth = 0 /\ Ext[f] \in DATA_EXTS} \ ingestedFiles
    /\ folder' # {}
    /\ UNCHANGED <<store, temp, ingestedFiles, upload, fileRow, scan, reports, scanRow, adjusts>>

\* process_single_file_via_smart_folder: stores the encrypted copy, ingests
\* and records the file, or gives up before or after the copy.
spawn_file_ingestion_tasks ==
    \E f \in folder :
       /\ folder' = folder \ {f}
       /\ \/ UNCHANGED <<store, ingestedFiles>>
          \/ store' = store \cup {f} /\ UNCHANGED ingestedFiles
          \/ store' = store \cup {f} /\ ingestedFiles' = ingestedFiles \cup {f}
       /\ UNCHANGED <<temp, upload, fileRow, scan, reports, scanRow, adjusts>>

-----------------------------------------------------------------------------
IntakeInit ==
    /\ store = {} /\ temp = {} /\ ingestedFiles = {}
    /\ upload = [u \in Upload |-> IdleUpload(CHOOSE f \in Uploaded : TRUE)]
    /\ fileRow = [u \in Upload |-> NoRow]
    /\ scan = IdleScan /\ reports = {} /\ scanRow = NoRow
    /\ folder = {} /\ adjusts = 0

UploadStep(u) ==
    \/ parse_multipart(u) \/ save_uploaded_file(u) \/ write_unencrypted_for_processing(u)
    \/ CheckDuplicate(u) \/ convert_file_to_json_http(u) \/ ReadImageBytes(u)
    \/ RemoveTemp(u) \/ upload_file(u)
    \/ IngestionPhase(u) \/ MutationProgress(u) \/ IngestionEnds(u)

ScanStep ==
    \/ scan_directory_tree_with_context \/ classify_image_directories \/ DedupCheck
    \/ ClassifyFiles \/ perform_smart_folder_scan_with_progress \/ ScanFinal

IntakeNext ==
    \/ \E u \in Upload : UploadStep(u)
    \/ smart_folder_scan \/ ScanStep \/ ReportLoads \/ ReportSaves
    \/ adjust_scan_results
    \/ batch_folder_ingest \/ spawn_file_ingestion_tasks

IntakeSpec == IntakeInit /\ [][IntakeNext]_intakeVars

\* The scan and its reports are spawned tasks: each takes its next step.
IntakeFairness ==
    WF_intakeVars(ScanStep) /\ WF_intakeVars(ReportLoads) /\ WF_intakeVars(ReportSaves)

-----------------------------------------------------------------------------
IntakeTypeOK ==
    /\ store \subseteq Path /\ temp \subseteq Path /\ ingestedFiles \subseteq Path
    /\ fileRow \in [Upload -> Row] /\ scanRow \in Row
    /\ scan.recs \subseteq FileRecommendation /\ scan.result \subseteq FileRecommendation
    /\ folder \subseteq Path /\ adjusts \in 0..MaxAdjusts

(* The answer of a scan, adjusted or not, has every file the walk found    *)
(* that the model did not leave out, and no other; a file is advised twice *)
(* only if the heuristics could not tell it, and a file marked as already  *)
(* ingested is ingested (perform_smart_folder_scan, merge_adjust_results). *)
ScanCoversFolder ==
    scan.pc \in {"done", "answered"} =>
       /\ {r.path : r \in scan.result} = scan.found \ scan.omitted
       /\ \A r, s \in scan.result : r.path = s.path /\ r # s => Category(r.path) = "unknown"
       /\ \A r \in scan.result : r.already_ingested => r.path \in ingestedFiles

(* A scan that was started gets an outcome its caller can fetch            *)
(* (smart_folder_scan), even if a late progress report covers it again.    *)
ScanAnswers == (scan.pc = "list") ~> Ended(scanRow)
=============================================================================
