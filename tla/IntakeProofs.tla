---------------------------- MODULE IntakeProofs ----------------------------
(***************************************************************************)
(* Proofs about the ways data comes in beside the batch.                   *)
(*                                                                         *)
(* AppleImport, for any sources, schedules, sizes of batches and bounds:   *)
(* the configuration and the import keep their types, the next             *)
(* synchronisation is set exactly while the schedule is on, the batches of *)
(* a finished import make up its records, and the row of an ended import   *)
(* stays.                                                                  *)
(*                                                                         *)
(* FileIntake, for any folder and any answers of the model: the result of  *)
(* a scan covers what the walk found.                                      *)
(***************************************************************************)
EXTENDS AppleImport, FileIntake, FiniteSetTheorems, TLAPS

\* What run_sync does with one source.
SyncSource ==
    \/ \E s \in Source : SyncExtracts(s)
    \/ sync_notes \/ sync_reminders \/ sync_photos \/ sync_calendar \/ sync_contacts

ImportRecord ==
    [pc : {"idle", "extract", "ingest", "photos"}, source : AppleSource, left : 0..MaxRecords,
     beat : {"off", "on", "saving", "aborted"}, ingested : 0..MaxRecords, total : 0..MaxRecords]
HandedRecord == [kept : 0..MaxRecords, batches : Seq(Batch)]
SchedRecord ==
    [pc : {"sleep", "read", "node", "sync"}, todo : SUBSET Source, errors : SUBSET Source]
BudgetRecord ==
    [imports : 0..MaxImports, syncs : 0..MaxSyncs, updates : 0..MaxUpdates, crashes : 0..MaxCrashes]

-----------------------------------------------------------------------------
(* Operators.                                                              *)

(***************************************************************************)
(* The smaller of two numbers.                                             *)
(***************************************************************************)
LEMMA MinPair ==
    ASSUME NEW a \in Int, NEW b \in Int
    PROVE  Min({a, b}) = IF a <= b THEN a ELSE b
<1> DEFINE m == IF a <= b THEN a ELSE b
<1>1. m \in {a, b} /\ \A y \in {a, b} : m <= y
  OBVIOUS
<1>2. \A x \in {a, b} : (\A y \in {a, b} : x <= y) => x = m
  OBVIOUS
<1> HIDE DEF m
<1>3. (CHOOSE x \in {a, b} : \A y \in {a, b} : x <= y) = m
  BY <1>1, <1>2
<1> QED
  BY <1>3 DEF Min, m

(***************************************************************************)
(* The larger of two numbers.                                              *)
(***************************************************************************)
LEMMA MaxPair ==
    ASSUME NEW a \in Int, NEW b \in Int
    PROVE  Max({a, b}) = IF a >= b THEN a ELSE b
<1> DEFINE m == IF a >= b THEN a ELSE b
<1>1. m \in {a, b} /\ \A y \in {a, b} : m >= y
  OBVIOUS
<1>2. \A x \in {a, b} : (\A y \in {a, b} : x >= y) => x = m
  OBVIOUS
<1> HIDE DEF m
<1>3. (CHOOSE x \in {a, b} : \A y \in {a, b} : x >= y) = m
  BY <1>1, <1>2
<1> QED
  BY <1>3 DEF Max, m

(***************************************************************************)
(* A chunk is a run of the next records, not empty, and takes no more than *)
(* what is left.                                                           *)
(***************************************************************************)
LEMMA ChunkBounds ==
    ASSUME handed.kept \in Nat, NEW left \in 1..handed.kept
    PROVE  \E n \in 1..left :
              /\ Chunk(left) = (handed.kept - left + 1)..(handed.kept - left + n)
              /\ Cardinality(Chunk(left)) = n
<1> DEFINE d == handed.kept - left
           n == Min({left, BatchSize})
<1>1. BatchSize \in Nat \ {0}
  BY AppleBoundAssumption
<1>2. n \in 1..left
  BY <1>1, MinPair
<1>3. Chunk(left) = (d + 1)..(d + n)
  BY DEF Chunk
<1> HIDE DEF n
<1>4. d \in Nat
  OBVIOUS
<1> HIDE DEF d
<1>5. Cardinality((d + 1)..(d + n)) = n
  BY <1>2, <1>4, FS_Interval
<1> QED
  BY <1>2, <1>3, <1>5 DEF d

(***************************************************************************)
(* The percentage a job shows while batches are handed over.               *)
(***************************************************************************)
LEMMA BatchPercentage ==
    ASSUME NEW i \in Nat, NEW t \in Nat
    PROVE  ingestion_progress_pct(i, t) \in 0..100
<1> DEFINE d == Max({t, 1})
           n == Min({i, d})
           q == (n * 90) \div d
<1>1. d \in Nat /\ d > 0
  BY MaxPair
<1>2. n \in Nat
  BY <1>1, MinPair
<1>3. ingestion_progress_pct(i, t) = Min({100, 10 + q})
  BY DEF ingestion_progress_pct
<1> HIDE DEF d, n
<1>4. q \in Nat
  BY <1>1, <1>2
<1> HIDE DEF q
<1>5. Min({100, 10 + q}) = IF 100 <= 10 + q THEN 100 ELSE 10 + q
  BY <1>4, MinPair
<1> QED
  BY <1>3, <1>4, <1>5

(***************************************************************************)
(* The percentage a job shows while photos are ingested.                   *)
(***************************************************************************)
LEMMA PhotoPercentage ==
    ASSUME NEW i \in Nat, NEW t \in Nat, t > 0
    PROVE  PhotoProgress(i, t) \in 0..100
<1> DEFINE q == (i * 70) \div t
<1>1. q \in Nat
  OBVIOUS
<1>2. PhotoProgress(i, t) = 30 + Min({70, q})
  BY DEF PhotoProgress
<1> HIDE DEF q
<1>3. Min({70, q}) = IF 70 <= q THEN 70 ELSE q
  BY <1>1, MinPair
<1> QED
  BY <1>1, <1>2, <1>3

(***************************************************************************)
(* The records of an import: as many as the extractor returned at most,    *)
(* and no more handed over than counted.                                   *)
(***************************************************************************)
LEMMA RecordCounts ==
    ASSUME NEW source, NEW raw \in [1..MaxRecords -> RawRecord], NEW limit
    PROVE  LET items == truncate_to_limit(parse_records(source, raw), limit)
               kept == to_json_records(source, raw, items)
           IN  /\ Cardinality(items) \in 0..MaxRecords
               /\ Cardinality(kept) \in 0..Cardinality(items)
<1> DEFINE items == truncate_to_limit(parse_records(source, raw), limit)
           kept == to_json_records(source, raw, items)
<1>1. items \in SUBSET (1..MaxRecords)
  BY DEF truncate_to_limit, parse_records
<1>2. kept \in SUBSET items
  BY DEF to_json_records
<1> HIDE DEF items, kept
<1>3. IsFiniteSet(1..MaxRecords) /\ Cardinality(1..MaxRecords) = MaxRecords /\ MaxRecords \in Nat
  BY FS_Interval, AppleBoundAssumption
<1>4. IsFiniteSet(items) /\ Cardinality(items) <= MaxRecords
  <2>1. IsFiniteSet(items) /\ Cardinality(items) <= Cardinality(1..MaxRecords)
    BY <1>1, <1>3, FS_Subset, Zenon
  <2> QED
    BY <2>1, <1>3
<1>5. IsFiniteSet(kept) /\ Cardinality(kept) <= Cardinality(items)
  BY <1>2, <1>4, FS_Subset
<1>6. Cardinality(items) \in Nat /\ Cardinality(kept) \in Nat
  BY <1>4, <1>5, FS_CardinalityType
<1>7. Cardinality(items) \in 0..MaxRecords /\ Cardinality(kept) \in 0..Cardinality(items)
  BY <1>3, <1>4, <1>5, <1>6
<1> QED
  BY <1>7 DEF items, kept

-----------------------------------------------------------------------------
(* The configuration.                                                      *)

\* A time is set exactly while the schedule is on.
Armed(c) == (c.next_sync # Never) <=> c.enabled

\* The file has to be armed as well: a restart reads it.
ConfigInv ==
    /\ now \in 0..MaxTime
    /\ cfg \in AppleSyncConfig /\ disk \in AppleSyncConfig
    /\ Armed(cfg) /\ Armed(disk)

(***************************************************************************)
(* as_duration is a number of units.                                       *)
(***************************************************************************)
LEMMA Durations ==
    ASSUME NEW s \in Schedule
    PROVE  as_duration(s) \in Nat
<1>1. /\ Daily \in Nat /\ Weekly \in Nat /\ CustomHours \subseteq Nat
      /\ s.kind \in {"daily", "weekly", "custom"}
      /\ s.kind = "custom" => s.hours \in CustomHours
  BY AppleBoundAssumption DEF Schedule
<1> QED
  BY <1>1 DEF as_duration

(***************************************************************************)
(* A configuration whose time is set by its switch is armed.               *)
(***************************************************************************)
LEMMA ArmedConfig ==
    ASSUME NEW c \in AppleSyncConfig, NEW t \in Nat, NEW d \in AppleSyncConfig,
           d = [c EXCEPT !.next_sync = IF c.enabled THEN t ELSE Never]
    PROVE  Armed(d)
<1>1. d.enabled = c.enabled /\ d.next_sync = IF c.enabled THEN t ELSE Never
  BY DEF AppleSyncConfig
<1>2. t # Never
  BY AppleBoundAssumption
<1>3. CASE c.enabled
  BY <1>1, <1>2, <1>3 DEF Armed
<1>4. CASE ~ c.enabled
  BY <1>1, <1>4 DEF Armed
<1> QED
  BY <1>3, <1>4

(***************************************************************************)
(* recompute_next_sync arms the configuration it is given.                 *)
(***************************************************************************)
LEMMA Recomputed ==
    ASSUME NEW c \in AppleSyncConfig, now \in 0..MaxTime
    PROVE  recompute_next_sync(c) \in AppleSyncConfig /\ Armed(recompute_next_sync(c))
<1> DEFINE t == (IF c.last_sync = Never THEN now ELSE c.last_sync) + as_duration(c.schedule)
           next == IF c.enabled THEN t ELSE Never
<1>1. as_duration(c.schedule) \in Nat /\ c.last_sync \in Nat \cup {Never}
  BY Durations DEF AppleSyncConfig, Time
<1>2. t \in Nat
  BY <1>1
<1>3. recompute_next_sync(c) = [c EXCEPT !.next_sync = next]
  BY DEF recompute_next_sync
<1> HIDE DEF t
<1>4. next \in Time
  BY <1>2 DEF Time
<1> HIDE DEF next
<1>5. [c EXCEPT !.next_sync = next] \in AppleSyncConfig
  BY <1>4 DEF AppleSyncConfig
<1> QED
  BY <1>2, <1>3, <1>5, ArmedConfig DEF next

(***************************************************************************)
(* The end of a round arms the configuration as it is then.                *)
(***************************************************************************)
LEMMA Marked ==
    ASSUME NEW c \in AppleSyncConfig, now \in 0..MaxTime
    PROVE  /\ mark_sync_complete(c) \in AppleSyncConfig /\ Armed(mark_sync_complete(c))
           /\ mark_sync_error(c) \in AppleSyncConfig /\ Armed(mark_sync_error(c))
<1>1. mark_sync_complete(c) \in AppleSyncConfig /\ Armed(mark_sync_complete(c))
  <2> DEFINE d == [c EXCEPT !.last_sync = now, !.last_error = FALSE]
  <2>1. now \in Time
    BY DEF Time
  <2>2. d \in AppleSyncConfig
    BY <2>1 DEF AppleSyncConfig
  <2> HIDE DEF d
  <2>3. recompute_next_sync(d) \in AppleSyncConfig /\ Armed(recompute_next_sync(d))
    BY <2>2, Recomputed
  <2> QED
    BY <2>3 DEF mark_sync_complete, d
<1>2. mark_sync_error(c) \in AppleSyncConfig /\ Armed(mark_sync_error(c))
  <2> DEFINE t == now + as_duration(c.schedule)
             d == [c EXCEPT !.last_error = TRUE]
             next == IF c.enabled THEN t ELSE Never
  <2>1. as_duration(c.schedule) \in Nat
    BY Durations DEF AppleSyncConfig
  <2>2. t \in Nat
    BY <2>1
  <2>3. d \in AppleSyncConfig /\ d.enabled = c.enabled
    BY DEF AppleSyncConfig
  <2>4. mark_sync_error(c) = [d EXCEPT !.next_sync = next]
    BY DEF mark_sync_error, AppleSyncConfig
  <2> HIDE DEF t, d
  <2>5. next \in Time
    BY <2>2 DEF Time
  <2>6. next = IF d.enabled THEN t ELSE Never
    BY <2>3
  <2> HIDE DEF next
  <2>7. [d EXCEPT !.next_sync = next] \in AppleSyncConfig
    BY <2>3, <2>5 DEF AppleSyncConfig
  <2> QED
    BY <2>2, <2>3, <2>4, <2>6, <2>7, ArmedConfig
<1> QED
  BY <1>1, <1>2

(***************************************************************************)
(* The default configuration is off, and so not armed.                     *)
(***************************************************************************)
LEMMA DefaultOff == DefaultConfig \in AppleSyncConfig /\ Armed(DefaultConfig)
<1>1. DefaultConfig.schedule \in Schedule
  BY DEF DefaultConfig, Schedule
<1>2. DefaultConfig \in AppleSyncConfig
  BY <1>1 DEF DefaultConfig, AppleSyncConfig, Time
<1>3. Armed(DefaultConfig)
  BY DEF DefaultConfig, Armed
<1> QED
  BY <1>2, <1>3

(***************************************************************************)
(* The source that is next is one of those left.                           *)
(***************************************************************************)
LEMMA NextSourceLeft ==
    ASSUME sched.todo # {}, sched.todo \subseteq AppleSource
    PROVE  NextSource \in sched.todo
<1> DEFINE S == {i \in DOMAIN SyncOrder : SyncOrder[i] \in sched.todo}
<1>1. DOMAIN SyncOrder = 1..5
  BY DEF SyncOrder
<1>2. /\ SyncOrder[1] = "notes" /\ SyncOrder[2] = "reminders" /\ SyncOrder[3] = "photos"
      /\ SyncOrder[4] = "calendar" /\ SyncOrder[5] = "contacts"
  BY DEF SyncOrder
<1>3. \E i \in 1..5 : SyncOrder[i] \in sched.todo
  BY <1>2 DEF AppleSource
<1>4. \E m \in S : \A y \in S : m <= y
  <2> DEFINE T(i) == SyncOrder[i] \in sched.todo
  <2>1. T(1) \/ T(2) \/ T(3) \/ T(4) \/ T(5)
    BY <1>2 DEF AppleSource
  <2>2. \A i : i \in S <=> i \in 1..5 /\ T(i)
    BY <1>1
  <2> HIDE DEF S, T
  <2> QED
    BY <2>1, <2>2
<1>5. Min(S) \in S
  BY <1>4 DEF Min
<1> QED
  BY <1>5 DEF NextSource

(***************************************************************************)
(* One source of a round: only what is left of the round changes.          *)
(***************************************************************************)
LEMMA SyncSourceStep ==
    ASSUME SyncSource, sched \in SchedRecord
    PROVE  /\ UNCHANGED <<now, cfg, disk, import, importJob, handed, budget>>
           /\ sched' \in SchedRecord
<1>1. /\ UNCHANGED <<now, cfg, disk, import, importJob, handed, budget>>
      /\ sched.todo # {}
  BY DEF SyncSource, SyncExtracts, sync_notes, sync_reminders, sync_photos,
         sync_calendar,
         sync_contacts, SyncInBatches, run_sync
<1>2. sched.todo \subseteq Source /\ sched.errors \subseteq Source
  BY DEF SchedRecord
<1>3. NextSource \in Source
  BY <1>1, <1>2, NextSourceLeft, AppleSourceAssumption
<1>4. \E errors \in {sched.errors, sched.errors \cup {NextSource}} :
         sched' = [sched EXCEPT !.todo = @ \ {NextSource}, !.errors = errors]
  <2>1. ASSUME NEW f, SyncDone(NextSource, f)
        PROVE  \E errors \in {sched.errors, sched.errors \cup {NextSource}} :
                  sched' = [sched EXCEPT !.todo = @ \ {NextSource}, !.errors = errors]
    <3>1. CASE f
      BY <2>1, <3>1 DEF SyncDone
    <3>2. CASE ~ f
      BY <2>1, <3>2 DEF SyncDone
    <3> QED
      BY <3>1, <3>2
  <2>2. CASE \E s \in Source : SyncExtracts(s)
    <3>1. \E s, r : s = NextSource /\ SyncDone(s, r # "nothing")
      BY <2>2 DEF SyncExtracts, run_sync
    <3> QED
      BY <2>1, <3>1
  <2>3. CASE sync_photos
    <3>1. \E n : "photos" = NextSource /\ SyncDone("photos", n > 0)
      BY <2>3 DEF sync_photos, run_sync
    <3> QED
      BY <2>1, <3>1
  <2>4. CASE sync_notes \/ sync_reminders \/ sync_calendar \/ sync_contacts
    <3>1. \E s : s = NextSource /\ SyncDone(s, FALSE)
      BY <2>4
      DEF sync_notes, sync_reminders, sync_calendar, sync_contacts, SyncInBatches, run_sync
    <3> QED
      BY <2>1, <3>1
  <2> QED
    BY <2>2, <2>3, <2>4 DEF SyncSource
<1>5. sched' \in SchedRecord
  <2>1. PICK errors \in {sched.errors, sched.errors \cup {NextSource}} :
           sched' = [sched EXCEPT !.todo = @ \ {NextSource}, !.errors = errors]
    BY <1>4
  <2>2. errors \in SUBSET Source /\ sched.todo \ {NextSource} \in SUBSET Source
    BY <1>2, <1>3
  <2> QED
    BY <2>1, <2>2 DEF SchedRecord
<1> QED
  BY <1>1, <1>5

(***************************************************************************)
(* Every step keeps the configuration armed, in memory and on disk.        *)
(***************************************************************************)
LEMMA ConfigStep ==
    ASSUME ConfigInv, sched \in SchedRecord, [AppleNext]_appleVars
    PROVE  ConfigInv'
<1> USE DEF ConfigInv
<1>0. MaxTime \in Nat
  BY AppleBoundAssumption
<1>1. ASSUME NEW x \in AppleSource, StartImport(x) PROVE ConfigInv'
  BY <1>1 DEF StartImport
<1>2. CASE HeartbeatTick
  BY <1>2 DEF HeartbeatTick
<1>3. CASE HeartbeatSave
  BY <1>3 DEF HeartbeatSave
<1>4. CASE ExtractionEnds
  BY <1>4 DEF ExtractionEnds
<1>5. CASE ExtractionYields
  BY <1>5 DEF ExtractionYields
<1>6. CASE ImportBatch
  BY <1>6 DEF ImportBatch
<1>7. CASE ImportFinishes
  BY <1>7 DEF ImportFinishes
<1>8. CASE ExportYields
  BY <1>8 DEF ExportYields
<1>9. CASE ImportPhoto
  BY <1>9 DEF ImportPhoto
<1>10. CASE PhotosFinish
  BY <1>10 DEF PhotosFinish
<1>11. CASE SchedulerTick
  BY <1>11 DEF SchedulerTick
<1>12. CASE SchedulerReads
  BY <1>12 DEF SchedulerReads
<1>13. CASE SchedulerSkips
  BY <1>13 DEF SchedulerSkips
<1>14. CASE StartSync
  BY <1>14 DEF StartSync
<1>15. CASE SyncSource
  BY <1>15, SyncSourceStep
<1>16. CASE SchedulerMarks
  <2>1. cfg' \in AppleSyncConfig /\ Armed(cfg')
    BY <1>16, Marked DEF SchedulerMarks
  <2> QED
    BY <2>1, <1>16 DEF SchedulerMarks, save
<1>17. CASE update_sync_config
  <2>1. PICK on \in BOOLEAN, s \in Schedule, chosen \in {Source, DefaultConfig.sources} :
           cfg' = recompute_next_sync([cfg EXCEPT !.enabled = on, !.schedule = s,
                                                  !.sources = chosen])
    BY <1>17 DEF update_sync_config
  <2>2. chosen \in SUBSET Source
    BY DEF DefaultConfig
  <2>3. [cfg EXCEPT !.enabled = on, !.schedule = s, !.sources = chosen] \in AppleSyncConfig
    BY <2>2 DEF AppleSyncConfig
  <2>4. cfg' \in AppleSyncConfig /\ Armed(cfg')
    BY <2>1, <2>3, Recomputed
  <2> QED
    BY <2>4, <1>17 DEF update_sync_config, save
<1>18. CASE TimePasses
  BY <1>18, <1>0 DEF TimePasses
<1>19. CASE create_sync_config_state
  BY <1>19, DefaultOff DEF create_sync_config_state
<1>20. CASE BatchEnds
  BY <1>20 DEF BatchEnds
<1>21. CASE UNCHANGED appleVars
  BY <1>21 DEF appleVars
<1> QED
  BY <1>1, <1>2, <1>3, <1>4, <1>5, <1>6, <1>7, <1>8, <1>9, <1>10, <1>11, <1>12,
     <1>13, <1>14, <1>15, <1>16, <1>17, <1>18, <1>19, <1>20, <1>21
  DEF AppleNext, Import, Sync, SyncSource, AppleSource, apple_import_notes,
      apple_import_reminders, apple_import_photos, apple_import_calendar,
      apple_import_contacts

(***************************************************************************)
(* Every step keeps the scheduler's round and the budget well formed.      *)
(***************************************************************************)
LEMMA SchedStep ==
    ASSUME ConfigInv, sched \in SchedRecord, budget \in BudgetRecord, [AppleNext]_appleVars
    PROVE  sched' \in SchedRecord /\ budget' \in BudgetRecord
<1>0. Asleep \in SchedRecord
  BY DEF Asleep, SchedRecord
<1>b. {MaxImports, MaxSyncs, MaxUpdates, MaxCrashes} \subseteq Nat
  BY AppleBoundAssumption
<1>1. ASSUME NEW x \in AppleSource, StartImport(x)
      PROVE  sched' \in SchedRecord /\ budget' \in BudgetRecord
  <2>1. /\ budget' = [budget EXCEPT !.imports = @ + 1] /\ budget.imports < MaxImports
        /\ UNCHANGED sched
    BY <1>1 DEF StartImport, init_apple_import_job
  <2> QED
    BY <2>1, <1>b DEF BudgetRecord
<1>2. CASE HeartbeatTick
  BY <1>2 DEF HeartbeatTick
<1>3. CASE HeartbeatSave
  BY <1>3 DEF HeartbeatSave
<1>4. CASE ExtractionEnds
  BY <1>4 DEF ExtractionEnds
<1>5. CASE ExtractionYields
  BY <1>5 DEF ExtractionYields
<1>6. CASE ImportBatch
  BY <1>6 DEF ImportBatch
<1>7. CASE ImportFinishes
  BY <1>7 DEF ImportFinishes
<1>8. CASE ExportYields
  BY <1>8 DEF ExportYields
<1>9. CASE ImportPhoto
  BY <1>9 DEF ImportPhoto
<1>10. CASE PhotosFinish
  BY <1>10 DEF PhotosFinish
<1>11. CASE SchedulerTick
  BY <1>11, <1>0 DEF SchedulerTick, SchedRecord
<1>12. CASE SchedulerReads
  <2>1. cfg.sources \in SUBSET Source
    BY DEF ConfigInv, AppleSyncConfig
  <2> QED
    BY <2>1, <1>12, <1>0 DEF SchedulerReads, SchedRecord
<1>13. CASE SchedulerSkips
  BY <1>13, <1>0 DEF SchedulerSkips
<1>14. CASE StartSync
  <2>1. sched' \in SchedRecord
    BY <1>14 DEF StartSync, SchedRecord
  <2>2. budget' \in BudgetRecord
    BY <1>14, <1>b DEF StartSync, BudgetRecord
  <2> QED
    BY <2>1, <2>2
<1>15. CASE SyncSource
  BY <1>15, SyncSourceStep
<1>16. CASE SchedulerMarks
  BY <1>16, <1>0 DEF SchedulerMarks
<1>17. CASE update_sync_config
  <2>1. budget' \in BudgetRecord
    BY <1>17, <1>b DEF update_sync_config, BudgetRecord
  <2> QED
    BY <2>1, <1>17, <1>0 DEF update_sync_config
<1>18. CASE TimePasses
  BY <1>18 DEF TimePasses
<1>19. CASE create_sync_config_state
  <2>1. budget' \in BudgetRecord
    BY <1>19, <1>b DEF create_sync_config_state, BudgetRecord
  <2> QED
    BY <2>1, <1>19, <1>0 DEF create_sync_config_state
<1>20. CASE BatchEnds
  BY <1>20 DEF BatchEnds
<1>21. CASE UNCHANGED appleVars
  BY <1>21 DEF appleVars
<1> QED
  BY <1>1, <1>2, <1>3, <1>4, <1>5, <1>6, <1>7, <1>8, <1>9, <1>10, <1>11, <1>12,
     <1>13, <1>14, <1>15, <1>16, <1>17, <1>18, <1>19, <1>20, <1>21
  DEF AppleNext, Import, Sync, SyncSource, AppleSource, apple_import_notes,
      apple_import_reminders, apple_import_photos, apple_import_calendar,
      apple_import_contacts

(***************************************************************************)
(* The configuration, the scheduler and the budget.                        *)
(***************************************************************************)
LEMMA ConfigInvariant ==
    AppleSpec => [](ConfigInv /\ sched \in SchedRecord /\ budget \in BudgetRecord)
<1>1. AppleInit => ConfigInv /\ sched \in SchedRecord /\ budget \in BudgetRecord
  <2> SUFFICES ASSUME AppleInit PROVE ConfigInv /\ sched \in SchedRecord /\ budget \in BudgetRecord
    OBVIOUS
  <2>1. ConfigInv
    BY DefaultOff, AppleBoundAssumption DEF AppleInit, ConfigInv
  <2>2. sched \in SchedRecord
    BY DEF AppleInit, Asleep, SchedRecord
  <2>3. budget \in BudgetRecord
    BY AppleBoundAssumption DEF AppleInit, BudgetRecord
  <2> QED
    BY <2>1, <2>2, <2>3
<1>2. ConfigInv /\ sched \in SchedRecord /\ budget \in BudgetRecord /\ [AppleNext]_appleVars
         => (ConfigInv /\ sched \in SchedRecord /\ budget \in BudgetRecord)'
  BY ConfigStep, SchedStep
<1> QED
  BY <1>1, <1>2, PTL DEF AppleSpec

(***************************************************************************)
(* ArmedWhenEnabled: next_sync is set exactly while the schedule is        *)
(* enabled, however updates of the settings, the end of a round, failing   *)
(* saves and restarts follow one another (recompute_next_sync,             *)
(* mark_sync_complete, mark_sync_error).                                   *)
(***************************************************************************)
THEOREM ArmedCorrect == AppleSpec => []ArmedWhenEnabled
<1>1. ConfigInv => ArmedWhenEnabled
  BY DEF ConfigInv, Armed, ArmedWhenEnabled
<1> QED
  BY <1>1, ConfigInvariant, PTL

-----------------------------------------------------------------------------
(* The import by hand.                                                     *)

(***************************************************************************)
(* While records are handed over the batches make up the first ones of the *)
(* list, as many as the import counts; what it counts and what is left     *)
(* make up no more than the total; its job is running, and its heartbeat   *)
(* was aborted: only a finished import shows a count.                      *)
(***************************************************************************)
MakeUp(batches, n) ==
    /\ UNION {batches[i].records : i \in DOMAIN batches} = 1..n
    /\ \A i, j \in DOMAIN batches : i # j => batches[i].records \cap batches[j].records = {}

ImportInv ==
    /\ import \in ImportRecord /\ importJob \in JobRow /\ handed \in HandedRecord
    /\ import.pc = "extract" => handed = NothingHanded /\ import.ingested = 0
    /\ import.pc = "ingest" =>
         /\ import.left <= handed.kept /\ import.ingested = handed.kept - import.left
         /\ MakeUp(handed.batches, import.ingested)
    /\ import.pc = "photos" => handed = NothingHanded /\ import.total > 0
    /\ import.pc \in {"ingest", "photos"} => import.ingested + import.left <= import.total
    /\ import.pc # "idle" => importJob.status = "running"
    /\ import.pc # "extract" => import.beat \in {"off", "aborted"}
    /\ importJob.ingested <= importJob.total
    /\ importJob.status = "completed" =>
         /\ MakeUp(handed.batches, handed.kept)
         /\ handed.kept > 0 => importJob.ingested = handed.kept

(***************************************************************************)
(* No batch makes up no records.                                           *)
(***************************************************************************)
LEMMA MakeUpNone ==
    /\ NothingHanded \in HandedRecord
    /\ NothingHanded.kept = 0
    /\ MakeUp(NothingHanded.batches, NothingHanded.kept)
<1>1. NothingHanded \in HandedRecord /\ NothingHanded.kept = 0 /\ NothingHanded.batches = << >>
  BY AppleBoundAssumption DEF NothingHanded, HandedRecord
<1>2. UNION {<< >>[i].records : i \in DOMAIN << >>} = 1..0
  OBVIOUS
<1>3. \A i, j \in DOMAIN << >> : i # j => << >>[i].records \cap << >>[j].records = {}
  OBVIOUS
<1> QED
  BY <1>1, <1>2, <1>3 DEF MakeUp

(***************************************************************************)
(* A batch of the next records makes up as many more.                      *)
(***************************************************************************)
LEMMA MakeUpMore ==
    ASSUME NEW batches \in Seq(Batch), NEW n \in Nat, NEW m \in Nat, MakeUp(batches, n),
           NEW b \in Batch, b.records = (n + 1)..(n + m)
    PROVE  MakeUp(Append(batches, b), n + m)
<1> DEFINE new == Append(batches, b)
           l == Len(batches)
<1>1. /\ l \in Nat /\ DOMAIN batches = 1..l /\ DOMAIN new = 1..(l + 1)
      /\ \A i \in 1..l : new[i] = batches[i]
      /\ new[l + 1] = b
  OBVIOUS
<1>2. /\ UNION {batches[i].records : i \in 1..l} = 1..n
      /\ \A i, j \in 1..l : i # j => batches[i].records \cap batches[j].records = {}
  BY <1>1 DEF MakeUp
<1> HIDE DEF new, l
<1>3. \A i \in 1..l : batches[i].records \subseteq 1..n
  BY <1>2
<1>4. UNION {new[i].records : i \in 1..(l + 1)} = 1..(n + m)
  <2>1. \A i \in 1..(l + 1) : new[i].records \subseteq 1..(n + m)
    <3> SUFFICES ASSUME NEW i \in 1..(l + 1) PROVE new[i].records \subseteq 1..(n + m)
      OBVIOUS
    <3>1. CASE i = l + 1
      BY <3>1, <1>1
    <3>2. CASE i \in 1..l
      BY <3>2, <1>1, <1>3
    <3> QED
      BY <3>1, <3>2, <1>1
  <2>2. ASSUME NEW r \in 1..(n + m) PROVE \E i \in 1..(l + 1) : r \in new[i].records
    <3>1. CASE r \in 1..n
      <4>1. PICK i \in 1..l : r \in batches[i].records
        BY <3>1, <1>2
      <4> QED
        BY <4>1, <1>1
    <3>2. CASE r \in (n + 1)..(n + m)
      BY <3>2, <1>1
    <3> QED
      BY <3>1, <3>2
  <2> QED
    BY <2>1, <2>2
<1>5. \A i, j \in 1..(l + 1) : i # j => new[i].records \cap new[j].records = {}
  <2> SUFFICES ASSUME NEW i \in 1..(l + 1), NEW j \in 1..(l + 1), i # j,
                      NEW r, r \in new[i].records, r \in new[j].records
               PROVE  FALSE
    OBVIOUS
  <2>1. CASE i \in 1..l /\ j \in 1..l
    BY <2>1, <1>1, <1>2
  <2>2. CASE i = l + 1 /\ j \in 1..l
    BY <2>2, <1>1, <1>3
  <2>3. CASE j = l + 1 /\ i \in 1..l
    BY <2>3, <1>1, <1>3
  <2> QED
    BY <2>1, <2>2, <2>3, <1>1
<1> QED
  BY <1>1, <1>4, <1>5 DEF MakeUp, new

(***************************************************************************)
(* What becomes of their ingestions leaves the batches as they are.        *)
(***************************************************************************)
LEMMA MakeUpStays ==
    ASSUME NEW old, NEW new, DOMAIN new = DOMAIN old,
           \A i \in DOMAIN old : new[i].records = old[i].records
    PROVE  \A n : MakeUp(old, n) => MakeUp(new, n)
BY DEF MakeUp

(***************************************************************************)
(* The empty row.                                                          *)
(***************************************************************************)
LEMMA EmptyRow ==
    /\ NoJob \in JobRow
    /\ NoJob.status = "none" /\ NoJob.ingested = 0 /\ NoJob.total = 0
BY AppleBoundAssumption DEF NoJob, JobRow

(***************************************************************************)
(* The row of a running import: made anew, without counts.                 *)
(***************************************************************************)
LEMMA RunningRow ==
    ASSUME NEW p \in 0..100, NEW r, r = [NoJob EXCEPT !.status = "running", !.pct = p]
    PROVE  r \in JobRow /\ r.status = "running" /\ r.ingested = 0 /\ r.total = 0
BY EmptyRow DEF JobRow

(***************************************************************************)
(* The row of a finished import: with counts.                              *)
(***************************************************************************)
LEMMA FinishedRow ==
    ASSUME import.ingested \in 0..MaxRecords, import.total \in 0..MaxRecords,
           importJob' = mark_terminal([NoJob EXCEPT !.pct = 100, !.ingested = import.ingested,
                                              !.total = import.total])
    PROVE  /\ importJob' \in JobRow /\ importJob'.status = "completed"
           /\ importJob'.ingested = import.ingested /\ importJob'.total = import.total
<1> DEFINE i == import.ingested
           t == import.total
           q == [NoJob EXCEPT !.pct = 100, !.ingested = i, !.total = t]
<1>0. importJob' = mark_terminal(q) /\ i \in 0..MaxRecords /\ t \in 0..MaxRecords /\ 100 \in 0..100
  OBVIOUS
<1> HIDE DEF i, t
<1>1. q \in JobRow /\ q.status = "none" /\ q.ingested = i /\ q.total = t
  BY <1>0, EmptyRow DEF JobRow
<1> HIDE DEF q
<1>2. importJob' = [q EXCEPT !.status = "completed"]
  BY <1>0, <1>1 DEF mark_terminal
<1>3. importJob' \in JobRow /\ importJob'.status = "completed" /\ importJob'.ingested = i /\ importJob'.total = t
  BY <1>1, <1>2 DEF JobRow
<1> QED
  BY <1>3 DEF i, t

(***************************************************************************)
(* The row of an import that ended with its extraction.                    *)
(***************************************************************************)
LEMMA EmptyEndRow ==
    ASSUME NEW r, r \in {mark_failed(NoJob), mark_terminal([NoJob EXCEPT !.pct = 100])}
    PROVE  r \in JobRow /\ r.ingested = 0 /\ r.total = 0
<1>1. CASE r = mark_failed(NoJob)
  BY <1>1, EmptyRow DEF mark_failed, JobRow
<1>2. CASE r = mark_terminal([NoJob EXCEPT !.pct = 100])
  <2> DEFINE q == [NoJob EXCEPT !.pct = 100]
  <2>1. q \in JobRow /\ q.status = "none" /\ q.ingested = 0 /\ q.total = 0
    BY EmptyRow DEF JobRow
  <2> HIDE DEF q
  <2>2. r = [q EXCEPT !.status = "completed"]
    BY <1>2, <2>1 DEF mark_terminal, q
  <2> QED
    BY <2>1, <2>2 DEF JobRow
<1> QED
  BY <1>1, <1>2

(***************************************************************************)
(* An import that ended, its heartbeat perhaps still saving.               *)
(***************************************************************************)
LEMMA EndedImport ==
    ASSUME NEW b \in {"off", "on", "saving", "aborted"}
    PROVE  /\ [IdleImport EXCEPT !.beat = b] \in ImportRecord
           /\ [IdleImport EXCEPT !.beat = b].pc = "idle"
<1>1. [IdleImport EXCEPT !.beat = b] = [pc |-> "idle", source |-> "notes", left |-> 0, beat |-> b,
                                        ingested |-> 0, total |-> 0]
  BY DEF IdleImport
<1> QED
  BY <1>1, AppleBoundAssumption DEF ImportRecord, AppleSource

(***************************************************************************)
(* Every step keeps the import's books.                                    *)
(***************************************************************************)
LEMMA ImportStep ==
    ASSUME ImportInv, sched \in SchedRecord, [AppleNext]_appleVars
    PROVE  ImportInv'
<1>0. MaxRecords \in Nat
  BY AppleBoundAssumption
<1>t. /\ import \in ImportRecord /\ importJob \in JobRow /\ handed \in HandedRecord
      /\ import.beat \in {"off", "on", "saving", "aborted"}
      /\ import.left \in 0..MaxRecords /\ import.ingested \in 0..MaxRecords
      /\ import.total \in 0..MaxRecords
  BY DEF ImportInv, ImportRecord
<1>a. AbortBeat(import.beat) \in {"off", "aborted"}
  BY DEF AbortBeat
<1>n. NothingHanded \in HandedRecord /\ NothingHanded.kept = 0
      /\ MakeUp(NothingHanded.batches, NothingHanded.kept)
  BY MakeUpNone
<1>p. 5 \in 0..100 /\ 10 \in 0..100 /\ 30 \in 0..100
  OBVIOUS
<1>k. ASSUME UNCHANGED <<import, importJob, handed>> PROVE ImportInv'
  BY <1>k DEF ImportInv
<1>1. ASSUME NEW x \in AppleSource, StartImport(x) PROVE ImportInv'
  <2>1. import' = [pc |-> "extract", source |-> x, left |-> 0, beat |-> "on", ingested |-> 0,
                   total |-> 0]
    BY <1>1 DEF StartImport, spawn_apple_import_task, IdleImport
  <2>2. import' \in ImportRecord
    BY <2>1, <1>0 DEF ImportRecord
  <2>3. importJob' \in JobRow /\ importJob'.status = "running" /\ importJob'.ingested = 0 /\ importJob'.total = 0
    BY <1>1, <1>p, RunningRow DEF StartImport, init_apple_import_job
  <2>4. handed' = NothingHanded
    BY <1>1 DEF StartImport
  <2> QED
    BY <2>1, <2>2, <2>3, <2>4, <1>0, <1>n DEF ImportInv
<1>2. CASE HeartbeatTick
  <2>1. /\ import' \in ImportRecord /\ import'.pc = import.pc /\ import'.left = import.left
        /\ import'.ingested = import.ingested /\ import'.total = import.total
        /\ import.pc = "extract"
    BY <1>t, <1>2 DEF HeartbeatTick, ImportRecord, ImportInv
  <2> QED
    BY <2>1, <1>2 DEF HeartbeatTick, ImportInv
<1>3. CASE HeartbeatSave
  <2>1. /\ import' \in ImportRecord /\ import'.pc = import.pc /\ import'.left = import.left
        /\ import'.ingested = import.ingested /\ import'.total = import.total
        /\ import'.pc # "extract" => import'.beat = "off"
    BY <1>t, <1>3 DEF HeartbeatSave, ImportRecord, ImportInv
  <2>2. importJob' \in JobRow /\ importJob'.status = "running" /\ importJob'.ingested = 0 /\ importJob'.total = 0
    BY <1>3, <1>p, RunningRow DEF HeartbeatSave
  <2> QED
    BY <2>1, <2>2, <1>3 DEF HeartbeatSave, ImportInv
<1>4. CASE ExtractionEnds
  <2>1. import' \in ImportRecord /\ import'.pc = "idle" /\ import'.beat \in {"off", "aborted"}
    BY <1>4, <1>a, EndedImport DEF ExtractionEnds
  <2>2. importJob' \in JobRow /\ importJob'.ingested = 0 /\ importJob'.total = 0
    BY <1>4, EmptyEndRow DEF ExtractionEnds
  <2>3. handed' = NothingHanded
    BY <1>4 DEF ExtractionEnds, ImportInv
  <2> QED
    BY <2>1, <2>2, <2>3, <1>0, <1>n DEF ImportInv
<1>5. CASE ExtractionYields
  <2>1. PICK raw \in [1..MaxRecords -> RawRecord], limit \in 1..MaxRecords :
           LET items == truncate_to_limit(parse_records(import.source, raw), limit)
           IN  import' = [import EXCEPT
                    !.pc = "ingest", !.total = Cardinality(items), !.beat = AbortBeat(@),
                    !.left = Cardinality(to_json_records(import.source, raw, items))]
    BY <1>5 DEF ExtractionYields
  <2> DEFINE total == Cardinality(truncate_to_limit(parse_records(import.source, raw), limit))
             beat == AbortBeat(import.beat)
             left == Cardinality(to_json_records(import.source, raw,
                         truncate_to_limit(parse_records(import.source, raw), limit)))
  <2>2. total \in 0..MaxRecords /\ left \in 0..total
    BY RecordCounts
  <2>3. import' = [import EXCEPT !.pc = "ingest", !.total = total,
                                 !.beat = beat, !.left = left]
    BY <2>1
  <2> HIDE DEF total, left
  <2>b. beat \in {"off", "aborted"} /\ left \in 0..MaxRecords
    BY <1>0, <1>a, <2>2
  <2> HIDE DEF beat
  <2>4. /\ import' \in ImportRecord /\ import'.pc = "ingest" /\ import'.left = left
        /\ import'.ingested = import.ingested /\ import'.total = total
        /\ import'.beat = beat
    BY <1>t, <2>b, <2>2, <2>3 DEF ImportRecord
  <2>5. importJob' \in JobRow /\ importJob'.status = "running" /\ importJob'.ingested = 0 /\ importJob'.total = 0
    BY <1>5, <1>p, RunningRow DEF ExtractionYields
  <2>6. import.ingested = 0 /\ handed = NothingHanded
    BY <1>5 DEF ExtractionYields, ImportInv
  <2>7. handed' \in HandedRecord /\ handed'.kept = left /\ MakeUp(handed'.batches, 0)
    <3>1. handed' = [handed EXCEPT !.kept = left]
      BY <1>5, <2>4 DEF ExtractionYields
    <3> QED
      BY <3>1, <2>6, <2>b, <1>n DEF HandedRecord
  <2>8. import'.ingested = 0 /\ handed'.kept - import'.left = 0 /\ import'.left <= handed'.kept
        /\ import'.ingested + import'.left <= import'.total
    BY <2>2, <2>4, <2>6, <2>7
  <2> QED
    BY <2>b, <2>4, <2>5, <2>7, <2>8 DEF ImportInv
<1>6. CASE ImportBatch
  <2>1. /\ import.pc = "ingest" /\ import.left > 0 /\ import.left <= handed.kept
        /\ import.ingested = handed.kept - import.left
        /\ import.ingested + import.left <= import.total
        /\ MakeUp(handed.batches, import.ingested)
        /\ import.beat \in {"off", "aborted"}
    BY <1>6 DEF ImportBatch, MoreChunks, ImportInv
  <2>2. handed.kept \in Nat /\ handed.batches \in Seq(Batch)
    BY <1>t, <1>0 DEF HandedRecord
  <2>3. PICK n \in 1..import.left :
           /\ Chunk(import.left) = (import.ingested + 1)..(import.ingested + n)
           /\ Cardinality(Chunk(import.left)) = n
    <3>1. import.left \in 1..handed.kept
      BY <1>t, <2>1, <2>2
    <3> QED
      BY <3>1, <2>1, <2>2, ChunkBounds
  <2>4. import' = [import EXCEPT !.left = import.left - n, !.ingested = import.ingested + n]
    BY <1>6, <2>3 DEF ImportBatch
  <2>5. import.left - n \in 0..MaxRecords /\ import.ingested + n \in 0..MaxRecords
    BY <1>0, <1>t, <2>1, <2>3
  <2>6. /\ import' \in ImportRecord /\ import'.pc = "ingest" /\ import'.left = import.left - n
        /\ import'.ingested = import.ingested + n /\ import'.total = import.total
        /\ import'.beat = import.beat
    BY <1>t, <2>1, <2>4, <2>5 DEF ImportRecord
  <2>7. importJob' \in JobRow /\ importJob'.status = "running" /\ importJob'.ingested = 0 /\ importJob'.total = 0
    <3>1. ingestion_progress_pct(import'.ingested, import.total) \in 0..100
      <4>1. import'.ingested \in Nat /\ import.total \in Nat
        BY <1>t, <2>5, <2>6
      <4> QED
        BY <4>1, BatchPercentage
    <3> QED
      BY <3>1, <1>6, RunningRow DEF ImportBatch, emit_batch_progress
  <2> DEFINE b == [source |-> import.source, records |-> Chunk(import.left), state |-> "running"]
  <2>8. b \in Batch /\ b.records = (import.ingested + 1)..(import.ingested + n)
    <3>1. (import.ingested + 1)..(import.ingested + n) \in SUBSET (1..MaxRecords)
      BY <1>0, <1>t, <2>5
    <3>2. import.source \in AppleSource
      BY DEF ImportInv, ImportRecord
    <3> QED
      BY <3>1, <3>2, <2>3 DEF Batch
  <2>9. handed' = [handed EXCEPT !.batches = Append(handed.batches, b)]
    BY <1>6 DEF ImportBatch, process_json
  <2> HIDE DEF b
  <2> DEFINE more == Append(handed.batches, b)
  <2>s. more \in Seq(Batch)
    BY <2>2, <2>8
  <2> HIDE DEF more
  <2>10. handed' \in HandedRecord /\ handed'.kept = handed.kept /\ handed'.batches = more
    BY <1>t, <2>9, <2>s DEF HandedRecord, more
  <2>11. MakeUp(handed'.batches, import'.ingested)
    BY <1>t, <2>1, <2>2, <2>3, <2>6, <2>8, <2>10, MakeUpMore DEF more
  <2>12. /\ import'.left <= handed'.kept /\ import'.ingested = handed'.kept - import'.left
         /\ import'.ingested + import'.left <= import'.total
    <3>1. import.left \in Nat /\ import.total \in Nat /\ handed.kept \in Nat /\ n \in 1..import.left
      BY <1>t, <1>0, <2>2, <2>3
    <3>2. /\ import'.left = import.left - n /\ handed'.kept = handed.kept
          /\ import'.ingested = (handed.kept - import.left) + n /\ import'.total = import.total
          /\ (handed.kept - import.left) + import.left <= import.total
          /\ import.left <= handed.kept
      BY <2>1, <2>6, <2>10
    <3> QED
      BY <3>1, <3>2
  <2> QED
    BY <2>1, <2>6, <2>7, <2>10, <2>11, <2>12 DEF ImportInv
<1>7. CASE ImportFinishes
  <2>0. import.beat \in {"off", "aborted"}
    BY <1>7 DEF ImportFinishes, ImportInv
  <2>1. import' \in ImportRecord /\ import'.pc = "idle" /\ import'.beat = import.beat
    BY <1>7, <1>t, EndedImport DEF ImportFinishes
  <2>2. /\ importJob' \in JobRow /\ importJob'.status = "completed"
        /\ importJob'.ingested = import.ingested /\ importJob'.total = import.total
    <3>1. importJob' = mark_terminal([NoJob EXCEPT !.pct = 100, !.ingested = import.ingested,
                                             !.total = import.total])
      BY <1>7 DEF ImportFinishes, build_reminders_final_job
    <3>2. import.ingested \in 0..MaxRecords /\ import.total \in 0..MaxRecords
      BY <1>t
    <3> QED
      BY <3>1, <3>2, FinishedRow
  <2>3. /\ import.ingested = handed.kept - import.left /\ import.ingested + import.left <= import.total
        /\ MakeUp(handed.batches, import.ingested)
        /\ ~ (import.left > 0) /\ UNCHANGED handed
    BY <1>7 DEF ImportFinishes, MoreChunks, ImportInv
  <2>4. import.left = 0 /\ import.ingested = handed.kept /\ import.ingested <= import.total
    <3>1. handed.kept \in Nat
      BY <1>t, <1>0 DEF HandedRecord
    <3> QED
      BY <3>1, <2>3, <1>t
  <2> QED
    BY <2>0, <2>1, <2>2, <2>3, <2>4, <1>t DEF ImportInv
<1>8. CASE ExportYields
  <2>1. PICK m \in 1..MaxRecords :
           import' = [import EXCEPT !.pc = "photos", !.left = m, !.total = m,
                                    !.beat = AbortBeat(@)]
    BY <1>8 DEF ExportYields, collect_and_convert
  <2>2. m \in 0..MaxRecords
    BY <1>0
  <2>3. /\ import' \in ImportRecord /\ import'.pc = "photos" /\ import'.left = m
        /\ import'.ingested = import.ingested /\ import'.total = m
        /\ import'.beat \in {"off", "aborted"}
    BY <1>t, <1>a, <2>1, <2>2 DEF ImportRecord
  <2>4. importJob' \in JobRow /\ importJob'.status = "running" /\ importJob'.ingested = 0 /\ importJob'.total = 0
    BY <1>8, <1>p, RunningRow DEF ExportYields
  <2>5. import.ingested = 0 /\ handed = NothingHanded /\ UNCHANGED handed
    BY <1>8 DEF ExportYields, ImportInv
  <2> QED
    BY <2>3, <2>4, <2>5, <1>0 DEF ImportInv
<1>9. CASE ImportPhoto
  <2>0. /\ import.pc = "photos" /\ handed = NothingHanded /\ UNCHANGED handed /\ import.left > 0
        /\ import.beat \in {"off", "aborted"}
        /\ import.ingested + import.left <= import.total /\ import.total > 0
        /\ importJob.status = "running" /\ importJob.ingested <= importJob.total
    BY <1>9 DEF ImportPhoto, ImportInv
  <2>1. PICK outcome \in {"ingested", "failed", "unreadable"} :
           /\ import' = [import EXCEPT !.left = @ - 1,
                                       !.ingested = merge_batch_outcome(@, outcome)]
           /\ importJob' = IF outcome = "unreadable" THEN importJob
                     ELSE [NoJob EXCEPT !.status = "running",
                               !.pct = PhotoProgress(import.total - import'.left, import.total)]
    BY <1>9 DEF ImportPhoto
  <2> DEFINE i == merge_batch_outcome(import.ingested, outcome)
  <2>2. i \in {import.ingested, import.ingested + 1}
    BY <1>t DEF merge_batch_outcome
  <2>3. import' = [import EXCEPT !.left = import.left - 1, !.ingested = i]
    BY <2>1
  <2> HIDE DEF i
  <2>4. i \in 0..MaxRecords /\ import.left - 1 \in 0..MaxRecords
        /\ i + (import.left - 1) <= import.total
    BY <1>0, <1>t, <2>0, <2>2
  <2>5. /\ import' \in ImportRecord /\ import'.pc = "photos" /\ import'.left = import.left - 1
        /\ import'.ingested = i /\ import'.total = import.total /\ import'.beat = import.beat
    BY <1>t, <2>0, <2>3, <2>4 DEF ImportRecord
  <2>6. importJob' \in JobRow /\ importJob'.status = "running" /\ importJob'.ingested <= importJob'.total
    <3>1. CASE outcome = "unreadable"
      BY <3>1, <2>0, <2>1, <1>t
    <3>2. CASE outcome # "unreadable"
      <4>0. import.total \in Nat
        BY <1>t
      <4>1. import.total - import'.left \in Nat
        BY <1>t, <2>0, <2>5
      <4>2. PhotoProgress(import.total - import'.left, import.total) \in 0..100
        BY <4>1, <4>0, <2>0, PhotoPercentage
      <4>3. importJob' = [NoJob EXCEPT !.status = "running",
                        !.pct = PhotoProgress(import.total - import'.left, import.total)]
        BY <3>2, <2>1
      <4>4. importJob' \in JobRow /\ importJob'.status = "running" /\ importJob'.ingested = 0 /\ importJob'.total = 0
        BY <4>2, <4>3, RunningRow
      <4> QED
        BY <4>4
    <3> QED
      BY <3>1, <3>2
  <2> QED
    BY <2>0, <2>4, <2>5, <2>6, <1>t DEF ImportInv
<1>10. CASE PhotosFinish
  <2>0. import.beat \in {"off", "aborted"}
    BY <1>10 DEF PhotosFinish, ImportInv
  <2>1. import' \in ImportRecord /\ import'.pc = "idle" /\ import'.beat = import.beat
    BY <1>10, <1>t, EndedImport DEF PhotosFinish
  <2>2. /\ importJob' \in JobRow /\ importJob'.status = "completed"
        /\ importJob'.ingested = import.ingested /\ importJob'.total = import.total
    <3>1. importJob' = mark_terminal([NoJob EXCEPT !.pct = 100, !.ingested = import.ingested,
                                             !.total = import.total])
      BY <1>10 DEF PhotosFinish
    <3>2. import.ingested \in 0..MaxRecords /\ import.total \in 0..MaxRecords
      BY <1>t
    <3> QED
      BY <3>1, <3>2, FinishedRow
  <2>3. /\ handed = NothingHanded /\ import.ingested + import.left <= import.total
        /\ import.left = 0 /\ UNCHANGED handed
    BY <1>10 DEF PhotosFinish, ImportInv
  <2> QED
    BY <2>0, <2>1, <2>2, <2>3, <1>t, <1>n DEF ImportInv
<1>11. CASE SchedulerTick
  BY <1>11, <1>k DEF SchedulerTick
<1>12. CASE SchedulerReads
  BY <1>12, <1>k DEF SchedulerReads
<1>13. CASE SchedulerSkips
  BY <1>13, <1>k DEF SchedulerSkips
<1>14. CASE StartSync
  BY <1>14, <1>k DEF StartSync
<1>15. CASE SyncSource
  BY <1>15, <1>k, SyncSourceStep
<1>16. CASE SchedulerMarks
  BY <1>16, <1>k DEF SchedulerMarks
<1>17. CASE update_sync_config
  BY <1>17, <1>k DEF update_sync_config
<1>18. CASE TimePasses
  BY <1>18, <1>k DEF TimePasses
<1>19. CASE create_sync_config_state
  <2>1. import' \in ImportRecord /\ import'.pc = "idle" /\ import'.beat = "off"
    BY <1>19, <1>0 DEF create_sync_config_state, IdleImport, ImportRecord, AppleSource
  <2> DEFINE old == handed.batches
             new == LoseBatches(handed.batches)
  <2>2. handed' = [handed EXCEPT !.batches = new] /\ UNCHANGED importJob
    BY <1>19 DEF create_sync_config_state
  <2>3. /\ new \in Seq(Batch) /\ DOMAIN new = DOMAIN old
        /\ \A i \in DOMAIN old : new[i].records = old[i].records
    <3>1. old \in Seq(Batch)
      BY <1>t DEF HandedRecord
    <3> HIDE DEF old
    <3>2. \A i \in DOMAIN old : old[i] \in Batch
      BY <3>1
    <3>3. \A i \in DOMAIN old : /\ [old[i] EXCEPT !.state = IF @ = "running" THEN "lost" ELSE @] \in Batch
                               /\ [old[i] EXCEPT !.state = IF @ = "running" THEN "lost" ELSE @].records
                                    = old[i].records
      BY <3>2 DEF Batch
    <3>4. new = [i \in 1..Len(old) |-> [old[i] EXCEPT !.state = IF @ = "running" THEN "lost" ELSE @]]
      BY <3>1 DEF LoseBatches, old
    <3> HIDE DEF new
    <3> QED
      BY <3>1, <3>3, <3>4
  <2> HIDE DEF new
  <2>4. handed' \in HandedRecord /\ handed'.kept = handed.kept /\ handed'.batches = new
    BY <1>t, <2>2, <2>3 DEF HandedRecord
  <2>5. \A n : MakeUp(handed.batches, n) => MakeUp(handed'.batches, n)
    BY <2>3, <2>4, MakeUpStays
  <2> QED
    BY <2>1, <2>2, <2>4, <2>5, <1>0 DEF ImportInv
<1>20. CASE UNCHANGED appleVars
  BY <1>20, <1>k DEF appleVars
<1>21. CASE BatchEnds
  <2>1. PICK i \in DOMAIN handed.batches, end \in {"completed", "failed"} :
           handed' = [handed EXCEPT !.batches = WithEnd(@, i, end)]
    BY <1>21 DEF BatchEnds
  <2>2. UNCHANGED <<import, importJob>>
    BY <1>21 DEF BatchEnds
  <2> DEFINE old == handed.batches
             new == [old EXCEPT ![i] = [old[i] EXCEPT !.state = end]]
  <2>3. handed' = [handed EXCEPT !.batches = new]
    BY <2>1 DEF WithEnd
  <2>4. old \in Seq(Batch) /\ old[i] \in Batch
    BY <1>t DEF HandedRecord
  <2> DEFINE b == [old[i] EXCEPT !.state = end]
  <2>5. b \in Batch /\ b.records = old[i].records
    BY <2>4 DEF Batch
  <2>i. i \in DOMAIN old
    OBVIOUS
  <2> HIDE DEF old
  <2>6. /\ new \in Seq(Batch) /\ DOMAIN new = DOMAIN old
        /\ \A j \in DOMAIN old : new[j].records = old[j].records
    <3>1. new = [old EXCEPT ![i] = b]
      OBVIOUS
    <3> HIDE DEF new, b
    <3>2. new \in Seq(Batch) /\ DOMAIN new = DOMAIN old
      BY <3>1, <2>4, <2>5, <2>i
    <3>3. \A j \in DOMAIN old : new[j].records = old[j].records
      BY <3>1, <2>4, <2>5, <2>i
    <3> QED
      BY <3>2, <3>3
  <2> HIDE DEF new
  <2>7. handed' \in HandedRecord /\ handed'.kept = handed.kept /\ handed'.batches = new
    BY <1>t, <2>3, <2>6 DEF HandedRecord
  <2>8. \A n : MakeUp(handed.batches, n) => MakeUp(handed'.batches, n)
    BY <2>6, <2>7, MakeUpStays DEF old
  <2>9. import.pc \notin {"extract", "photos"}
    <3>1. NothingHanded.batches = << >>
      BY DEF NothingHanded
    <3> QED
      BY <3>1, <2>1 DEF ImportInv
  <2> QED
    BY <2>2, <2>7, <2>8, <2>9 DEF ImportInv
<1> QED
  BY <1>1, <1>2, <1>3, <1>4, <1>5, <1>6, <1>7, <1>8, <1>9, <1>10, <1>11, <1>12,
     <1>13, <1>14, <1>15, <1>16, <1>17, <1>18, <1>19, <1>20, <1>21
  DEF AppleNext, Import, Sync, SyncSource, AppleSource, apple_import_notes,
      apple_import_reminders, apple_import_photos, apple_import_calendar,
      apple_import_contacts

(***************************************************************************)
(* The books of the import.                                                *)
(***************************************************************************)
LEMMA ImportInvariant == AppleSpec => []ImportInv
<1>1. AppleInit => ImportInv
  <2> SUFFICES ASSUME AppleInit PROVE ImportInv
    OBVIOUS
  <2>1. import \in ImportRecord /\ import.pc = "idle" /\ import.beat = "off"
    BY AppleBoundAssumption DEF AppleInit, IdleImport, ImportRecord, AppleSource
  <2>2. importJob \in JobRow /\ importJob.status = "none" /\ importJob.ingested = 0 /\ importJob.total = 0
    BY AppleBoundAssumption DEF AppleInit, NoJob, JobRow
  <2> QED
    BY <2>1, <2>2, MakeUpNone, AppleBoundAssumption DEF AppleInit, ImportInv
<1>2. ImportInv /\ sched \in SchedRecord /\ [AppleNext]_appleVars => ImportInv'
  BY ImportStep
<1> QED
  BY <1>1, <1>2, ConfigInvariant, PTL DEF AppleSpec

(***************************************************************************)
(* Types: the clock, the configuration, the round, the import with its     *)
(* counts within what was extracted, and a percentage between 0 and 100    *)
(* (ingestion_progress_pct, run_one_apple_batch).                          *)
(***************************************************************************)
THEOREM TypeCorrect == AppleSpec => []AppleTypeOK
<1>1. ConfigInv /\ sched \in SchedRecord /\ budget \in BudgetRecord /\ ImportInv => AppleTypeOK
  BY DEF ConfigInv, ImportInv, SchedRecord, BudgetRecord, ImportRecord,
         HandedRecord, AppleTypeOK
<1> QED
  BY <1>1, ConfigInvariant, ImportInvariant, PTL

(***************************************************************************)
(* CountedWasHandedOver: the batches of a completed job make up the list   *)
(* of its records, none twice and none left out, and the job reports as    *)
(* many and no more than were found, for any number of records and size of *)
(* batch, whatever becomes of the ingestions, late heartbeats and restarts *)
(* included (run_record_batch_import, process_json).                       *)
(***************************************************************************)
THEOREM CountedCorrect == AppleSpec => []CountedWasHandedOver
<1>1. ImportInv => CountedWasHandedOver
  BY DEF ImportInv, CountedWasHandedOver, Batched, MakeUp
<1> QED
  BY <1>1, ImportInvariant, PTL

(***************************************************************************)
(* EndedRowStays: no batch, no further tick of the heartbeat and no other  *)
(* task changes the row of an import that ended, except a save that was    *)
(* under way when the heartbeat was aborted (with_extraction_heartbeat).   *)
(***************************************************************************)
THEOREM EndedRowCorrect == AppleSpec => EndedRowStays
<1> DEFINE Stays == (import.pc = "idle" /\ import'.pc = "idle" /\ importJob.status \in {"completed", "failed"})
                       => (importJob' = importJob \/ import.beat = "aborted")
<1>1. ImportInv /\ sched \in SchedRecord /\ [AppleNext]_appleVars => [Stays]_appleVars
  <2> SUFFICES ASSUME ImportInv, sched \in SchedRecord, [AppleNext]_appleVars,
                      import.pc = "idle", import'.pc = "idle"
               PROVE  importJob' = importJob \/ import.beat = "aborted"
    OBVIOUS
  <2>1. ASSUME NEW x \in AppleSource, StartImport(x) PROVE FALSE
    BY <2>1 DEF StartImport, spawn_apple_import_task, IdleImport
  <2>2. CASE HeartbeatSave
    BY <2>2 DEF HeartbeatSave, ImportInv
  <2>3. CASE ExtractionEnds \/ ExtractionYields \/ ImportBatch \/ ImportFinishes
               \/ ExportYields \/ ImportPhoto \/ PhotosFinish
    BY <2>3 DEF ExtractionEnds, ExtractionYields, ImportBatch, ImportFinishes,
                ExportYields, ImportPhoto, PhotosFinish
  <2>4. CASE HeartbeatTick \/ BatchEnds
    BY <2>4 DEF HeartbeatTick, BatchEnds
  <2>5. CASE SyncSource
    BY <2>5, SyncSourceStep
  <2>6. CASE SchedulerTick \/ SchedulerReads \/ SchedulerSkips \/ StartSync \/ SchedulerMarks
    BY <2>6 DEF SchedulerTick, SchedulerReads, SchedulerSkips, StartSync, SchedulerMarks
  <2>7. CASE update_sync_config \/ TimePasses \/ create_sync_config_state \/ UNCHANGED appleVars
    BY <2>7 DEF update_sync_config, TimePasses, create_sync_config_state, appleVars
  <2> QED
    BY <2>1, <2>2, <2>3, <2>4, <2>5, <2>6, <2>7
    DEF AppleNext, Import, Sync, SyncSource, AppleSource, apple_import_notes,
        apple_import_reminders, apple_import_photos, apple_import_calendar,
        apple_import_contacts
<1> QED
  BY <1>1, ImportInvariant, ConfigInvariant, PTL DEF AppleSpec, EndedRowStays

(***************************************************************************)
(* RowTellsImport: what the row of a finished import says of its batches   *)
(* is so, and the row stays as it is (run_record_batch_import,             *)
(* with_extraction_heartbeat).                                             *)
(***************************************************************************)
THEOREM RowCorrect == AppleSpec => RowTellsImport
<1>1. AppleSpec => []CountedWasHandedOver
  BY CountedCorrect
<1>2. AppleSpec => EndedRowStays
  BY EndedRowCorrect
<1> QED
  BY <1>1, <1>2 DEF RowTellsImport

-----------------------------------------------------------------------------
(* Files: the scan of a folder.                                            *)

Paths(recs) == {r.path : r \in recs}

ScanRecord ==
    [pc : {"idle", "list", "images", "dedup", "classify", "finish", "done", "answered", "failed", "over"},
     found : SUBSET Path, truncated : BOOLEAN, candidates : SUBSET Path,
     recs : SUBSET FileRecommendation, omitted : SUBSET Path, result : SUBSET FileRecommendation]

\* Advice that covers the files of a set, and says twice only what the
\* heuristics cannot tell.
Covers(recs, files) ==
    /\ Paths(recs) = files
    /\ \A r, s \in recs : r.path = s.path /\ r # s => Category(r.path) = "unknown"

\* While the files found are divided into those with advice and the others,
\* every file is on one side, and advised once.
ScanInv ==
    /\ scan \in ScanRecord
    /\ scan.pc \in {"idle", "list", "images"} => scan.recs = {}
    /\ scan.pc \notin {"finish", "done", "answered"} => scan.omitted = {}
    /\ scan.pc \notin {"done", "answered"} => scan.result = {}
    /\ scan.pc = "images" => scan.candidates = scan.found
    /\ scan.pc \in {"dedup", "classify"} =>
          /\ Paths(scan.recs) \cup scan.candidates = scan.found
          /\ Paths(scan.recs) \cap scan.candidates = {}
          /\ \A r, s \in scan.recs : r.path = s.path => r = s
    /\ scan.pc = "finish" => Covers(scan.recs, scan.found \ scan.omitted)
    /\ scan.pc \in {"done", "answered"} => Covers(scan.result, scan.found \ scan.omitted)
    /\ \A r \in scan.recs \cup scan.result : r.already_ingested => r.path \in ingestedFiles

(***************************************************************************)
(* The walk returns files of the folder.                                   *)
(***************************************************************************)
LEMMA WalkFinds ==
    ASSUME NEW found \in Walks
    PROVE  found \in SUBSET Path
BY DEF Walks, kSubset

(***************************************************************************)
(* Files stay recorded as ingested.                                        *)
(***************************************************************************)
LEMMA IngestedGrows == [IntakeNext]_intakeVars => ingestedFiles \subseteq ingestedFiles'
BY DEF IntakeNext, UploadStep, parse_multipart, save_uploaded_file, write_unencrypted_for_processing,
       CheckDuplicate, convert_file_to_json_http, ReadImageBytes, RemoveTemp, upload_file,
       IngestionPhase, MutationProgress, IngestionEnds,
       smart_folder_scan, ScanStep, ReportLoads, ReportSaves, adjust_scan_results,
       batch_folder_ingest, scan_directory_tree_with_context, classify_image_directories,
       DedupCheck, ClassifyFiles, perform_smart_folder_scan_with_progress, ScanFinal, intakeVars,
       spawn_file_ingestion_tasks

(***************************************************************************)
(* Advice for one file names that file, and calls it not ingested.         *)
(***************************************************************************)
LEMMA RecommendFields ==
    ASSUME NEW f \in Path, NEW yes \in BOOLEAN
    PROVE  /\ Recommend(f, yes) \in FileRecommendation
           /\ Recommend(f, yes).path = f
           /\ Recommend(f, yes).already_ingested = FALSE
BY DEF Recommend, FileRecommendation

(***************************************************************************)
(* The advice ClassifyFiles adds: complete for the files it does not omit, *)
(* and for those the heuristics can tell, unique.                          *)
(***************************************************************************)
LEMMA ClassifyCovers ==
    ASSUME NEW amb \in SUBSET Path, NEW rest \in SUBSET Path,
           \A f \in amb : Category(f) = "unknown", amb \cap rest = {},
           NEW recs \in parse_llm_file_recommendations(amb) \cup {apply_heuristic_filtering(amb)}
    PROVE  LET new == recs \cup apply_heuristic_filtering(rest)
           IN  /\ new \in SUBSET FileRecommendation
               /\ Paths(new) = (amb \cup rest) \ (amb \ Paths(recs))
               /\ \A r, s \in new : r.path = s.path /\ r # s => Category(r.path) = "unknown"
               /\ \A r \in new : ~ r.already_ingested
<1> DEFINE Yes(f) == Category(f) # "unknown"
           heur == apply_heuristic_filtering(rest)
<1>1. /\ heur \in SUBSET FileRecommendation /\ Paths(heur) = rest
      /\ \A r, s \in heur : r.path = s.path => r = s
      /\ \A r \in heur : ~ r.already_ingested
  <2>1. heur = {Recommend(f, Yes(f)) : f \in rest} /\ \A f \in rest : Yes(f) \in BOOLEAN
    BY DEF apply_heuristic_filtering
  <2> HIDE DEF heur, Yes
  <2>2. \A f \in rest : /\ Recommend(f, Yes(f)) \in FileRecommendation
                         /\ Recommend(f, Yes(f)).path = f
                         /\ Recommend(f, Yes(f)).already_ingested = FALSE
    BY <2>1, RecommendFields
  <2> QED
    BY <2>1, <2>2 DEF Paths
<1>2. /\ recs \in SUBSET FileRecommendation /\ Paths(recs) \subseteq amb
      /\ \A r \in recs : ~ r.already_ingested
  <2>1. CASE recs \in parse_llm_file_recommendations(amb)
    <3>1. recs \subseteq {Recommend(f, yes) : f \in amb, yes \in BOOLEAN}
      BY <2>1 DEF parse_llm_file_recommendations
    <3>2. \A f \in amb, yes \in BOOLEAN :
             /\ Recommend(f, yes) \in FileRecommendation
             /\ Recommend(f, yes).path \in amb
             /\ Recommend(f, yes).already_ingested = FALSE
      BY RecommendFields
    <3>3. ASSUME NEW r \in recs
          PROVE  r \in FileRecommendation /\ r.path \in amb /\ r.already_ingested = FALSE
      <4>1. PICK f \in amb, yes \in BOOLEAN : r = Recommend(f, yes)
        BY <3>1
      <4> QED
        BY <4>1, <3>2
    <3> QED
      BY <3>3 DEF Paths
  <2>2. CASE recs = apply_heuristic_filtering(amb)
    <3>1. recs = {Recommend(f, Yes(f)) : f \in amb} /\ \A f \in amb : Yes(f) \in BOOLEAN
      BY <2>2 DEF apply_heuristic_filtering
    <3> HIDE DEF Yes
    <3>2. \A f \in amb : /\ Recommend(f, Yes(f)) \in FileRecommendation
                          /\ Recommend(f, Yes(f)).path = f
                          /\ Recommend(f, Yes(f)).already_ingested = FALSE
      BY <3>1, RecommendFields
    <3> QED
      BY <3>1, <3>2 DEF Paths
  <2> QED
    BY <2>1, <2>2
<1> HIDE DEF heur
<1>3. Paths(recs \cup heur) = (amb \cup rest) \ (amb \ Paths(recs))
  BY <1>1, <1>2 DEF Paths
<1>4. \A r, s \in recs \cup heur : r.path = s.path /\ r # s => Category(r.path) = "unknown"
  <2> SUFFICES ASSUME NEW r \in recs \cup heur, NEW s \in recs \cup heur, r.path = s.path, r # s
               PROVE  r.path \in amb
    OBVIOUS
  <2>1. ~ (r \in heur /\ s \in heur)
    BY <1>1
  <2> QED
    BY <2>1, <1>2 DEF Paths
<1> QED
  BY <1>1, <1>2, <1>3, <1>4 DEF heur

(***************************************************************************)
(* merge_adjust_results keeps the paths, whether a file was ingested, and  *)
(* what came once.                                                         *)
(***************************************************************************)
LEMMA MergeCovers ==
    ASSUME NEW recs \in SUBSET FileRecommendation, NEW files, Covers(recs, files),
           NEW paths, NEW updates \in [paths -> BOOLEAN]
    PROVE  LET new == merge_adjust_results(recs, updates)
           IN  /\ new \in SUBSET FileRecommendation
               /\ Covers(new, files)
               /\ \A r \in new : \E o \in recs : r.path = o.path /\ r.already_ingested = o.already_ingested
<1> DEFINE M(o) == IF o.path \in DOMAIN updates THEN [o EXCEPT !.should_ingest = updates[o.path]] ELSE o
           new == merge_adjust_results(recs, updates)
<1>1. \A o \in recs : /\ M(o) \in FileRecommendation /\ M(o).path = o.path
                      /\ M(o).already_ingested = o.already_ingested
  BY DEF FileRecommendation
<1>2. new = {M(o) : o \in recs}
  BY DEF merge_adjust_results
<1> HIDE DEF M, new
<1>3. Paths(new) = Paths(recs)
  BY <1>1, <1>2 DEF Paths
<1>4. \A r, s \in new : r.path = s.path /\ r # s => Category(r.path) = "unknown"
  <2> SUFFICES ASSUME NEW r \in new, NEW s \in new, r.path = s.path, r # s
               PROVE  Category(r.path) = "unknown"
    OBVIOUS
  <2>1. PICK o \in recs, q \in recs : r = M(o) /\ s = M(q)
    BY <1>2
  <2>2. o # q /\ o.path = q.path /\ o.path = r.path
    BY <2>1, <1>1
  <2> QED
    BY <2>2 DEF Covers
<1> QED
  BY <1>1, <1>2, <1>3, <1>4 DEF Covers, new

(***************************************************************************)
(* The scan keeps its books, whatever the model answers and however often  *)
(* the result is adjusted, while uploads and folder ingestions go on.      *)
(***************************************************************************)
LEMMA ScanInvStep == ScanInv /\ [IntakeNext]_intakeVars => ScanInv'
<1> SUFFICES ASSUME ScanInv, [IntakeNext]_intakeVars PROVE ScanInv'
  OBVIOUS
<1>i. ingestedFiles \subseteq ingestedFiles'
  BY IngestedGrows
<1>k. ASSUME UNCHANGED scan PROVE ScanInv'
  BY <1>k, <1>i DEF ScanInv
<1>t. scan \in ScanRecord
  BY DEF ScanInv
<1>1. CASE smart_folder_scan
  <2> DEFINE v == [scan EXCEPT !.pc = "list"]
  <2>1. /\ v \in ScanRecord /\ v.pc = "list" /\ v.recs = scan.recs /\ v.omitted = scan.omitted
        /\ v.result = scan.result
    BY <1>t DEF ScanRecord
  <2>2. scan' = v /\ scan.pc = "idle"
    BY <1>1 DEF smart_folder_scan
  <2> HIDE DEF v
  <2> QED
    BY <2>1, <2>2, <1>i DEF ScanInv
<1>2. CASE scan_directory_tree_with_context
  <2>1. CASE scan' = [scan EXCEPT !.pc = "failed"]
    <3> DEFINE v == [scan EXCEPT !.pc = "failed"]
    <3>1. /\ v \in ScanRecord /\ v.pc = "failed" /\ v.recs = scan.recs /\ v.omitted = scan.omitted
          /\ v.result = scan.result
      BY <1>t DEF ScanRecord
    <3>2. scan' = v /\ scan.pc = "list"
      BY <1>2, <2>1 DEF scan_directory_tree_with_context
    <3> HIDE DEF v
    <3> QED
      BY <3>1, <3>2, <1>i DEF ScanInv
  <2>2. ASSUME NEW found \in Walks,
               scan' = [scan EXCEPT !.pc = IF found = {} THEN "done" ELSE "images",
                                  !.found = found,
                                  !.truncated = Cardinality(found) >= MaxFiles,
                                  !.candidates = found]
        PROVE  ScanInv'
    <3>0. found \in SUBSET Path
      BY WalkFinds
    <3>1. PICK pc, tr : pc = (IF found = {} THEN "done" ELSE "images")
                        /\ tr = (Cardinality(found) >= MaxFiles)
      OBVIOUS
    <3>2. tr \in BOOLEAN
      BY <3>1
    <3>3. scan' = [scan EXCEPT !.pc = pc, !.found = found, !.truncated = tr, !.candidates = found]
      BY <2>2, <3>1
    <3>4. /\ scan' \in ScanRecord /\ scan'.pc = pc /\ scan'.recs = scan.recs /\ scan'.omitted = scan.omitted
          /\ scan'.result = scan.result /\ scan'.found = found /\ scan'.candidates = found
      BY <1>t, <3>0, <3>1, <3>2, <3>3 DEF ScanRecord
    <3>5. scan.recs = {} /\ scan.omitted = {} /\ scan.result = {}
      BY <1>2 DEF ScanInv, scan_directory_tree_with_context
    <3>6. found = {} => Covers({}, found \ {})
      BY DEF Covers, Paths
    <3> QED
      BY <3>1, <3>4, <3>5, <3>6, <1>i DEF ScanInv
  <2> QED
    BY <1>2, <2>1, <2>2 DEF scan_directory_tree_with_context
<1>3. CASE classify_image_directories
  <2> DEFINE images == {f \in scan.candidates : is_image_file(f)}
  <2>1. PICK assets \in SUBSET {Dir[f].name : f \in images} :
           LET skipped == {f \in images : Dir[f].name \in assets}
           IN  scan' = [scan EXCEPT !.pc = "dedup", !.candidates = @ \ skipped,
                                    !.recs = {Recommend(f, FALSE) : f \in skipped}]
    BY <1>3 DEF classify_image_directories
  <2>2. PICK skipped : skipped = {f \in images : Dir[f].name \in assets}
    OBVIOUS
  <2>3. skipped \subseteq scan.candidates /\ skipped \in SUBSET Path
    BY <2>2, <1>t DEF ScanRecord
  <2>4. PICK recs, cand : recs = {Recommend(f, FALSE) : f \in skipped} /\ cand = scan.candidates \ skipped
    OBVIOUS
  <2>5. /\ recs \in SUBSET FileRecommendation /\ Paths(recs) = skipped
        /\ \A r, s \in recs : r.path = s.path => r = s
        /\ \A r \in recs : ~ r.already_ingested
    <3>1. \A f \in skipped : /\ Recommend(f, FALSE) \in FileRecommendation
                              /\ Recommend(f, FALSE).path = f
                              /\ Recommend(f, FALSE).already_ingested = FALSE
      BY <2>3, RecommendFields
    <3> DEFINE D(f) == Recommend(f, FALSE)
    <3>2. recs = {D(f) : f \in skipped} /\ \A f \in skipped : D(f).path = f
      BY <3>1, <2>4
    <3>3. \A f \in skipped : D(f) \in FileRecommendation /\ D(f).already_ingested = FALSE
      BY <3>1
    <3> HIDE DEF D
    <3> QED
      BY <3>2, <3>3 DEF Paths
  <2>6. scan' = [scan EXCEPT !.pc = "dedup", !.candidates = cand, !.recs = recs]
    BY <2>1, <2>2, <2>4
  <2>7. /\ scan' \in ScanRecord /\ scan'.pc = "dedup" /\ scan'.recs = recs /\ scan'.candidates = cand
        /\ scan'.omitted = scan.omitted /\ scan'.result = scan.result /\ scan'.found = scan.found
    BY <2>4, <2>5, <2>6, <1>t DEF ScanRecord
  <2>8. scan.omitted = {} /\ scan.result = {} /\ scan.candidates = scan.found
    BY <1>3 DEF ScanInv, classify_image_directories
  <2> QED
    BY <2>3, <2>4, <2>5, <2>7, <2>8 DEF ScanInv
<1>4. CASE DedupCheck
  <2>1. PICK done, recs, cand :
           /\ done = scan.candidates \cap ingestedFiles
           /\ recs = {[Recommend(f, FALSE) EXCEPT !.already_ingested = TRUE] : f \in done}
           /\ cand = scan.candidates \ done
    OBVIOUS
  <2>2. done \in SUBSET Path
    BY <2>1, <1>t DEF ScanRecord
  <2>3. /\ recs \in SUBSET FileRecommendation /\ Paths(recs) = done
        /\ \A r, s \in recs : r.path = s.path => r = s
    <3> DEFINE D(f) == [Recommend(f, FALSE) EXCEPT !.already_ingested = TRUE]
    <3>1. \A f \in done : D(f) \in FileRecommendation /\ D(f).path = f
      BY <2>2 DEF Recommend, FileRecommendation
    <3>2. recs = {D(f) : f \in done}
      BY <2>1
    <3> HIDE DEF D
    <3> QED
      BY <3>1, <3>2 DEF Paths
  <2>4. PICK all : all = scan.recs \cup recs
    OBVIOUS
  <2>5. all \in SUBSET FileRecommendation /\ Paths(all) = Paths(scan.recs) \cup done
    BY <2>3, <2>4, <1>t DEF Paths, ScanRecord
  <2>6. scan' = [scan EXCEPT !.pc = "classify", !.candidates = cand, !.recs = all]
    BY <1>4, <2>1, <2>4 DEF DedupCheck, Remaining
  <2>7. /\ scan' \in ScanRecord /\ scan'.pc = "classify" /\ scan'.recs = all /\ scan'.candidates = cand
        /\ scan'.omitted = scan.omitted /\ scan'.result = scan.result /\ scan'.found = scan.found
    BY <2>1, <2>5, <2>6, <1>t DEF ScanRecord
  <2>8. /\ scan.omitted = {} /\ scan.result = {}
        /\ Paths(scan.recs) \cup scan.candidates = scan.found
        /\ Paths(scan.recs) \cap scan.candidates = {}
        /\ \A r, s \in scan.recs : r.path = s.path => r = s
        /\ \A r \in scan.recs : r.already_ingested => r.path \in ingestedFiles
    BY <1>4 DEF ScanInv, DedupCheck
  <2>9. \A r, s \in all : r.path = s.path => r = s
    <3> SUFFICES ASSUME NEW r \in all, NEW s \in all, r.path = s.path PROVE r = s
      OBVIOUS
    <3>1. ASSUME NEW a \in scan.recs, NEW b \in recs PROVE a.path # b.path
      <4>1. a.path \in Paths(scan.recs) /\ b.path \in Paths(recs)
        BY DEF Paths
      <4> QED
        BY <4>1, <2>1, <2>3, <2>8
    <3> QED
      BY <2>3, <2>4, <2>8, <3>1
  <2>10. \A r \in all : r.already_ingested => r.path \in ingestedFiles'
    <3>1. \A r \in recs : r.path \in done
      BY <2>3 DEF Paths
    <3> QED
      BY <3>1, <2>1, <2>4, <2>8, <1>i
  <2>11. Paths(all) \cup cand = scan.found /\ Paths(all) \cap cand = {}
    BY <2>1, <2>5, <2>8
  <2> QED
    BY <2>7, <2>8, <2>9, <2>10, <2>11 DEF ScanInv
<1>5. CASE ClassifyFiles
  <2>1. PICK amb, rest : amb = {f \in scan.candidates : Category(f) = "unknown"}
                          /\ rest = scan.candidates \ amb
    OBVIOUS
  <2>2. PICK recs \in parse_llm_file_recommendations(amb) \cup {apply_heuristic_filtering(amb)} :
           scan' = [scan EXCEPT !.pc = "finish",
                          !.omitted = amb \ {r.path : r \in recs},
                          !.recs = @ \cup recs \cup apply_heuristic_filtering(rest)]
    BY <1>5, <2>1 DEF ClassifyFiles
  <2>3. amb \in SUBSET Path /\ rest \in SUBSET Path /\ amb \cap rest = {} /\ amb \cup rest = scan.candidates
        /\ \A f \in amb : Category(f) = "unknown"
    BY <2>1, <1>t DEF ScanRecord
  <2>4. PICK new, om, all : /\ new = recs \cup apply_heuristic_filtering(rest)
                            /\ om = amb \ Paths(recs) /\ all = scan.recs \cup new
    OBVIOUS
  <2>5. /\ new \in SUBSET FileRecommendation
        /\ Paths(new) = (amb \cup rest) \ (amb \ Paths(recs))
        /\ \A r, s \in new : r.path = s.path /\ r # s => Category(r.path) = "unknown"
        /\ \A r \in new : ~ r.already_ingested
    BY <2>3, <2>4, ClassifyCovers
  <2>6. all = scan.recs \cup recs \cup apply_heuristic_filtering(rest)
    BY <2>4
  <2>7. scan' = [scan EXCEPT !.pc = "finish", !.omitted = om, !.recs = all]
    BY <2>2, <2>4, <2>6 DEF Paths
  <2>8. all \in SUBSET FileRecommendation /\ om \in SUBSET Path
    BY <2>3, <2>4, <2>5, <1>t DEF ScanRecord
  <2>9. /\ scan' \in ScanRecord /\ scan'.pc = "finish" /\ scan'.recs = all /\ scan'.omitted = om
        /\ scan'.result = scan.result /\ scan'.found = scan.found
    BY <2>7, <2>8, <1>t DEF ScanRecord
  <2>10. /\ scan.result = {}
         /\ Paths(scan.recs) \cup scan.candidates = scan.found
         /\ Paths(scan.recs) \cap scan.candidates = {}
         /\ \A r, s \in scan.recs : r.path = s.path => r = s
         /\ \A r \in scan.recs : r.already_ingested => r.path \in ingestedFiles
    BY <1>5 DEF ScanInv, ClassifyFiles
  <2>11. Paths(all) = Paths(scan.recs) \cup Paths(new)
    BY <2>4 DEF Paths
  <2>12. Paths(all) = scan.found \ om
    BY <2>3, <2>4, <2>5, <2>10, <2>11
  <2>13. \A r, s \in all : r.path = s.path /\ r # s => Category(r.path) = "unknown"
    <3>1. ASSUME NEW a \in scan.recs, NEW b \in new PROVE a.path # b.path
      <4>1. a.path \in Paths(scan.recs) /\ b.path \in Paths(new)
        BY DEF Paths
      <4> QED
        BY <4>1, <2>3, <2>5, <2>10
    <3> QED
      BY <2>4, <2>5, <2>10, <3>1
  <2>14. Covers(all, scan.found \ om)
    BY <2>12, <2>13 DEF Covers
  <2> QED
    BY <2>4, <2>5, <2>9, <2>10, <2>14, <1>i DEF ScanInv
<1>6. CASE perform_smart_folder_scan_with_progress
  <2> DEFINE v == [scan EXCEPT !.pc = "done", !.result = scan.recs]
  <2>1. /\ v \in ScanRecord /\ v.pc = "done" /\ v.recs = scan.recs /\ v.omitted = scan.omitted
        /\ v.result = scan.recs /\ v.found = scan.found
    BY <1>t DEF ScanRecord
  <2>2. scan' = v /\ scan.pc = "finish"
    BY <1>6 DEF perform_smart_folder_scan_with_progress
  <2> HIDE DEF v
  <2> QED
    BY <2>1, <2>2, <1>i DEF ScanInv
<1>7. CASE ScanFinal
  <2>1. PICK pc : pc = (IF scan.pc = "done" THEN "answered" ELSE "over")
    OBVIOUS
  <2> DEFINE v == [scan EXCEPT !.pc = pc]
  <2>2. /\ v \in ScanRecord /\ v.pc = pc /\ v.recs = scan.recs /\ v.omitted = scan.omitted
        /\ v.result = scan.result /\ v.found = scan.found
    BY <2>1, <1>t DEF ScanRecord
  <2>3. scan' = v /\ scan.pc \in {"done", "failed"}
    BY <1>7, <2>1 DEF ScanFinal
  <2> HIDE DEF v
  <2> QED
    BY <2>1, <2>2, <2>3, <1>i DEF ScanInv
<1>8. CASE adjust_scan_results
  <2>1. PICK paths \in SUBSET {r.path : r \in scan.result} :
           \E updates \in [paths -> BOOLEAN] :
             scan' = [scan EXCEPT !.result = merge_adjust_results(@, updates)]
    BY <1>8 DEF adjust_scan_results
  <2>2. PICK updates \in [paths -> BOOLEAN] :
           scan' = [scan EXCEPT !.result = merge_adjust_results(scan.result, updates)]
    BY <2>1
  <2>3. PICK new : new = merge_adjust_results(scan.result, updates)
    OBVIOUS
  <2>4. scan.pc = "answered" /\ scan.result \in SUBSET FileRecommendation
        /\ Covers(scan.result, scan.found \ scan.omitted)
    BY <1>8, <1>t DEF adjust_scan_results, ScanInv, ScanRecord
  <2>5. /\ new \in SUBSET FileRecommendation
        /\ Covers(new, scan.found \ scan.omitted)
        /\ \A r \in new : \E o \in scan.result :
               r.path = o.path /\ r.already_ingested = o.already_ingested
    BY <2>3, <2>4, MergeCovers
  <2>6. /\ scan' \in ScanRecord /\ scan'.pc = "answered" /\ scan'.recs = scan.recs
        /\ scan'.omitted = scan.omitted /\ scan'.result = new /\ scan'.found = scan.found
    BY <2>2, <2>3, <2>4, <2>5, <1>t DEF ScanRecord
  <2> QED
    BY <2>4, <2>5, <2>6, <1>i DEF ScanInv
<1>9. CASE \/ \E u \in Upload : UploadStep(u)
           \/ ReportLoads \/ ReportSaves
           \/ batch_folder_ingest \/ spawn_file_ingestion_tasks \/ UNCHANGED intakeVars
  <2>1. UNCHANGED scan
    BY <1>9 DEF UploadStep, parse_multipart, save_uploaded_file, write_unencrypted_for_processing,
       CheckDuplicate, convert_file_to_json_http, ReadImageBytes, RemoveTemp, upload_file,
       IngestionPhase, MutationProgress, IngestionEnds, ReportLoads, ReportSaves,
       batch_folder_ingest, intakeVars, spawn_file_ingestion_tasks
  <2> QED
    BY <2>1, <1>k
<1> QED
  BY <1>1, <1>2, <1>3, <1>4, <1>5, <1>6, <1>7, <1>8, <1>9 DEF IntakeNext, ScanStep

(***************************************************************************)
(* ScanCoversFolder: the answer of a scan, adjusted or not, has exactly    *)
(* the files the walk found that the model did not leave out, advises      *)
(* twice only what the heuristics could not tell, and calls ingested only  *)
(* what is, for any folder, any answers of the model and any number of     *)
(* uploads beside it (perform_smart_folder_scan, merge_adjust_results).    *)
(***************************************************************************)
THEOREM ScanCorrect == IntakeSpec => []ScanCoversFolder
<1>1. IntakeInit => ScanInv
  <2> SUFFICES ASSUME IntakeInit PROVE ScanInv
    OBVIOUS
  <2>1. IdleScan \in ScanRecord
    BY DEF IdleScan, ScanRecord
  <2> QED
    BY <2>1 DEF IntakeInit, IdleScan, ScanInv
<1>2. ScanInv /\ [IntakeNext]_intakeVars => ScanInv'
  BY ScanInvStep
<1>3. ScanInv => ScanCoversFolder
  BY DEF ScanInv, ScanCoversFolder, Covers, Paths
<1> QED
  BY <1>1, <1>2, <1>3, PTL DEF IntakeSpec
=============================================================================
