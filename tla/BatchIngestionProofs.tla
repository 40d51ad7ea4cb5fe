------------------------ MODULE BatchIngestionProofs ------------------------
(* Safety of the batch coordinator for every set of files, costs, limits   *)
(* and degree of concurrency.                                              *)
EXTENDS BatchIngestion, TLAPS, FiniteSetTheorems

\* TypeOK is inductive only together with the fact that the coordinator has a
\* file in hand whenever it records a result.
TypeInv == TypeOK /\ (pc = "record" => joined \in File)

(***************************************************************************)
(* Every critical section of BatchController, spawn_batch_coordinator and  *)
(* the resume and cancel handlers leaves the state well formed.            *)
(***************************************************************************)
LEMMA TypeInvariant == Spec => []TypeInv
<1>1. Init => TypeInv
  <2>1. Init => /\ accumulated_cost \in Nat
                /\ files_total \in Nat
                /\ files_completed \in Nat
                /\ files_failed \in Nat
                /\ max_concurrent \in 1..100
    BY DEF Init
  <2>2. Init => pending_files \in Seq(File)
    BY DEF Init
  <2> QED
    BY <2>1, <2>2 DEF Init, TypeInv, TypeOK, Status, Outcome, Job, PC
<1>2. TypeInv /\ [Next]_vars => TypeInv'
  <2> SUFFICES ASSUME TypeInv, [Next]_vars PROVE TypeInv'
    OBVIOUS
  <2> USE CostAssumption, LimitAssumption, FileAssumption, ConcurrencyAssumption
      DEF TypeInv, TypeOK, Status, Outcome, Job, PC
  <2>1. CASE Ingest
    BY <2>1, BatchAssumption DEF Ingest, SmartFolderIngest
  <2>2. CASE PopFile
    BY <2>2 DEF PopFile, FileOffered, Filling
  <2>3. CASE SpendLimitHit
    BY <2>3 DEF SpendLimitHit, FileOffered, Filling, taskVars
  <2>4. CASE NothingToPop
    BY <2>4 DEF NothingToPop, FileOffered, Filling, ctrlVars, taskVars
  <2>5. CASE FillOver
    BY <2>5 DEF FillOver, ctrlVars, taskVars
  <2>6. CASE Notified
    BY <2>6 DEF Notified, taskVars
  <2>7. CASE CheckAfterResume
    BY <2>7 DEF CheckAfterResume, ctrlVars, taskVars
  <2>8. ASSUME NEW f \in File, JoinNext(f) PROVE TypeInv'
    BY <2>8 DEF JoinNext, ctrlVars, taskVars
  <2>9. CASE RecordCompleted
    <3>1. joined \in File /\ Cost[joined] \in Nat
      BY <2>9 DEF RecordCompleted
    <3>2. accumulated_cost' \in Nat /\ files_completed' \in Nat
      BY <2>9, <3>1 DEF RecordCompleted, Charge
    <3> QED
      BY <2>9, <3>2 DEF RecordCompleted, taskVars
  <2>10. CASE RecordFailed
    <3>1. files_failed' \in Nat
      BY <2>10 DEF RecordFailed
    <3> QED
      BY <2>10, <3>1 DEF RecordFailed
  <2>11. CASE Finish
    BY <2>11 DEF Finish, taskVars
  <2>12. CASE Cleanup
    BY <2>12 DEF Cleanup, coordVars, taskVars
  <2>13. ASSUME NEW f \in File, TaskOk(f) PROVE TypeInv'
    BY <2>13 DEF TaskOk, ctrlVars, coordVars
  <2>14. ASSUME NEW f \in File, TaskErr(f) PROVE TypeInv'
    BY <2>14 DEF TaskErr, ctrlVars, coordVars
  <2>15. ASSUME NEW f \in File, TaskPanic(f) PROVE TypeInv'
    BY <2>15 DEF TaskPanic, ctrlVars, coordVars
  <2>16. CASE CancelBatch
    BY <2>16 DEF CancelBatch, NotifyOne, coordVars, taskVars
  <2>17. ASSUME NEW limit \in Limits, ResumeBatch(limit) PROVE TypeInv'
    BY <2>17 DEF ResumeBatch, NotifyOne, coordVars, taskVars
  <2>18. CASE UNCHANGED vars
    BY <2>18 DEF vars, ctrlVars, coordVars, taskVars
  <2> QED
    BY <2>1, <2>2, <2>3, <2>4, <2>5, <2>6, <2>7, <2>8, <2>9, <2>10, <2>11,
       <2>12, <2>13, <2>14, <2>15, <2>16, <2>17, <2>18
    DEF Next, Coordinator, Worker, User
<1> QED
  BY <1>1, <1>2, PTL DEF Spec

(***************************************************************************)
(* Type correctness: the batch controller, the coordinator's locals and    *)
(* the progress jobs always have the types the code declares.              *)
(***************************************************************************)
THEOREM TypeCorrect == Spec => []TypeOK
  BY TypeInvariant, PTL DEF TypeInv

(***************************************************************************)
(* The coordinator leaves its loop only when everything is popped and      *)
(* joined, and only its last step writes Completed.                        *)
(***************************************************************************)
THEOREM CoordinatorCorrect == Spec => []CoordinatorInv
<1>1. Init => CoordinatorInv
  BY DEF Init, CoordinatorInv
<1>2. TypeInv /\ CoordinatorInv /\ [Next]_vars => CoordinatorInv'
  <2> SUFFICES ASSUME TypeInv, CoordinatorInv, [Next]_vars PROVE CoordinatorInv'
    OBVIOUS
  <2> USE FileAssumption DEF CoordinatorInv, TypeInv, TypeOK
  <2>1. CASE Ingest
    BY <2>1 DEF Ingest, SmartFolderIngest
  <2>2. CASE PopFile
    BY <2>2 DEF PopFile, FileOffered, Filling
  <2>3. CASE SpendLimitHit
    BY <2>3 DEF SpendLimitHit, FileOffered, Filling, taskVars
  <2>4. CASE NothingToPop
    BY <2>4 DEF NothingToPop, FileOffered, Filling, ctrlVars, taskVars
  <2>5. CASE FillOver
    <3>1. join_set = {} => all_popped
      BY <2>5, FS_EmptySet DEF FillOver
    <3> QED
      BY <2>5, <3>1 DEF FillOver, ctrlVars, taskVars
  <2>6. CASE Notified
    BY <2>6 DEF Notified, taskVars
  <2>7. CASE CheckAfterResume
    BY <2>7 DEF CheckAfterResume, ctrlVars, taskVars
  <2>8. ASSUME NEW f \in File, JoinNext(f) PROVE CoordinatorInv'
    BY <2>8 DEF JoinNext, ctrlVars, taskVars
  <2>9. CASE RecordCompleted
    BY <2>9 DEF RecordCompleted, Charge, taskVars
  <2>10. CASE RecordFailed
    BY <2>10 DEF RecordFailed
  <2>11. CASE Finish
    BY <2>11 DEF Finish, taskVars
  <2>12. CASE Cleanup
    BY <2>12 DEF Cleanup, coordVars, taskVars
  <2>13. ASSUME NEW f \in File, TaskOk(f) PROVE CoordinatorInv'
    BY <2>13 DEF TaskOk, ctrlVars, coordVars
  <2>14. ASSUME NEW f \in File, TaskErr(f) PROVE CoordinatorInv'
    BY <2>14 DEF TaskErr, ctrlVars, coordVars
  <2>15. ASSUME NEW f \in File, TaskPanic(f) PROVE CoordinatorInv'
    BY <2>15 DEF TaskPanic, ctrlVars, coordVars
  <2>16. CASE CancelBatch
    BY <2>16 DEF CancelBatch, NotifyOne, coordVars, taskVars
  <2>17. ASSUME NEW limit \in Limits, ResumeBatch(limit) PROVE CoordinatorInv'
    BY <2>17 DEF ResumeBatch, NotifyOne, coordVars, taskVars
  <2>18. CASE UNCHANGED vars
    BY <2>18 DEF vars, ctrlVars, coordVars, taskVars
  <2> QED
    BY <2>1, <2>2, <2>3, <2>4, <2>5, <2>6, <2>7, <2>8, <2>9, <2>10, <2>11,
       <2>12, <2>13, <2>14, <2>15, <2>16, <2>17, <2>18
    DEF Next, Coordinator, Worker, User
<1> QED
  BY <1>1, <1>2, TypeInvariant, PTL DEF Spec

(***************************************************************************)
(* A batch is reported Completed only when nothing is queued, running or   *)
(* waiting to be recorded, however resumes and cancels interleave.         *)
(***************************************************************************)
THEOREM CompletedCorrect == Spec => []CompletedIsDrained
<1>1. CoordinatorInv => CompletedIsDrained
  BY DEF CoordinatorInv, CompletedIsDrained
<1> QED
  BY <1>1, CoordinatorCorrect, PTL

(***************************************************************************)
(* A Paused batch always stands before a file that does not fit its limit, *)
(* also after workers that ran on under the pause were charged.            *)
(***************************************************************************)
THEOREM PausedCorrect == Spec => []PausedMeansTooExpensive
<1>1. Init => PausedMeansTooExpensive
  BY DEF Init, PausedMeansTooExpensive
<1>2. TypeInv /\ CoordinatorInv /\ PausedMeansTooExpensive /\ [Next]_vars
      => PausedMeansTooExpensive'
  <2> SUFFICES ASSUME TypeInv, CoordinatorInv, PausedMeansTooExpensive, [Next]_vars
               PROVE  PausedMeansTooExpensive'
    OBVIOUS
  <2> USE DEF PausedMeansTooExpensive
  <2>1. CASE Ingest
    BY <2>1 DEF Ingest, SmartFolderIngest
  <2>2. CASE PopFile
    <3>1. status # "Paused"
      <4> SUFFICES ASSUME status = "Paused" PROVE FALSE
        OBVIOUS
      <4>1. Head(pending_files) \in File
        BY DEF TypeInv, TypeOK
      <4>2. /\ accumulated_cost \in Int
            /\ spend_limit \in Int
            /\ Cost[Head(pending_files)] \in Int
        BY <4>1, CostAssumption, LimitAssumption DEF TypeInv, TypeOK
      <4> QED
        BY <4>2, <2>2 DEF PopFile, CanProceed
    <3> QED
      BY <2>2, <3>1 DEF PopFile
  <2>3. CASE SpendLimitHit
    <3>1. Head(pending_files) \in File
      BY <2>3 DEF SpendLimitHit, FileOffered, TypeInv, TypeOK
    <3>2. spend_limit # NoLimit /\ ~(accumulated_cost + Cost[Head(pending_files)] <= spend_limit)
      BY <2>3 DEF SpendLimitHit, CanProceed
    <3>3. /\ accumulated_cost \in Int
          /\ spend_limit \in Int
          /\ Cost[Head(pending_files)] \in Int
      BY <3>1, <3>2, CostAssumption, LimitAssumption DEF TypeInv, TypeOK
    <3> QED
      BY <2>3, <3>2, <3>3 DEF SpendLimitHit, FileOffered
  <2>4. CASE NothingToPop
    BY <2>4 DEF NothingToPop, FileOffered, Filling, ctrlVars, taskVars
  <2>5. CASE FillOver
    BY <2>5 DEF FillOver, ctrlVars, taskVars
  <2>6. CASE Notified
    BY <2>6 DEF Notified, taskVars
  <2>7. CASE CheckAfterResume
    BY <2>7 DEF CheckAfterResume, ctrlVars, taskVars
  <2>8. ASSUME NEW f \in File, JoinNext(f) PROVE PausedMeansTooExpensive'
    BY <2>8 DEF JoinNext, ctrlVars, taskVars
  <2>9. CASE RecordCompleted
    <3>1. Charge(joined) \in Nat /\ accumulated_cost \in Nat
      BY <2>9, CostAssumption DEF RecordCompleted, Charge, TypeInv, TypeOK
    <3>2. pending_files # <<>> => Head(pending_files) \in File
      BY DEF TypeInv, TypeOK
    <3>3. status = "Paused" => spend_limit \in Int /\ Cost[Head(pending_files)] \in Int
      BY <3>2, CostAssumption, LimitAssumption DEF TypeInv, TypeOK
    <3> QED
      BY <2>9, <3>1, <3>3 DEF RecordCompleted
  <2>10. CASE RecordFailed
    BY <2>10 DEF RecordFailed
  <2>11. CASE Finish
    BY <2>11 DEF Finish, taskVars
  <2>12. CASE Cleanup
    BY <2>12 DEF Cleanup, coordVars, taskVars
  <2>13. ASSUME NEW f \in File, TaskOk(f) PROVE PausedMeansTooExpensive'
    BY <2>13 DEF TaskOk, ctrlVars, coordVars
  <2>14. ASSUME NEW f \in File, TaskErr(f) PROVE PausedMeansTooExpensive'
    BY <2>14 DEF TaskErr, ctrlVars, coordVars
  <2>15. ASSUME NEW f \in File, TaskPanic(f) PROVE PausedMeansTooExpensive'
    BY <2>15 DEF TaskPanic, ctrlVars, coordVars
  <2>16. CASE CancelBatch
    BY <2>16 DEF CancelBatch, NotifyOne, coordVars, taskVars
  <2>17. ASSUME NEW limit \in Limits, ResumeBatch(limit) PROVE PausedMeansTooExpensive'
    BY <2>17 DEF ResumeBatch, NotifyOne, coordVars, taskVars
  <2>18. CASE UNCHANGED vars
    BY <2>18 DEF vars, ctrlVars, coordVars, taskVars
  <2> QED
    BY <2>1, <2>2, <2>3, <2>4, <2>5, <2>6, <2>7, <2>8, <2>9, <2>10, <2>11,
       <2>12, <2>13, <2>14, <2>15, <2>16, <2>17, <2>18
    DEF Next, Coordinator, Worker, User
<1> QED
  BY <1>1, <1>2, TypeInvariant, CoordinatorCorrect, PTL DEF Spec

(***************************************************************************)
(* No file is started while the batch is Paused, although try_pop_file     *)
(* never tests for Paused.                                                 *)
(***************************************************************************)
THEOREM PauseHolds == Spec => NoStartWhilePaused
<1>1. TypeInv /\ CoordinatorInv /\ PausedMeansTooExpensive /\ [Next]_vars
      => [status = "Paused" => pending_files' = pending_files]_vars
  <2> SUFFICES ASSUME TypeInv, CoordinatorInv, PausedMeansTooExpensive, [Next]_vars,
                      status = "Paused"
               PROVE  pending_files' = pending_files
    OBVIOUS
  <2>1. CASE Ingest
    BY <2>1 DEF CoordinatorInv, Ingest, SmartFolderIngest
  <2>2. CASE PopFile
    <3>1. Head(pending_files) \in File
      BY DEF TypeInv, TypeOK, PausedMeansTooExpensive
    <3>2. /\ accumulated_cost \in Int
          /\ spend_limit \in Int
          /\ Cost[Head(pending_files)] \in Int
      BY <3>1, CostAssumption, LimitAssumption
      DEF TypeInv, TypeOK, PausedMeansTooExpensive
    <3> QED
      BY <2>2, <3>2 DEF PopFile, CanProceed, PausedMeansTooExpensive
  <2>3. CASE SpendLimitHit
    BY <2>3 DEF SpendLimitHit, FileOffered, Filling, taskVars
  <2>4. CASE NothingToPop
    BY <2>4 DEF NothingToPop, FileOffered, Filling, ctrlVars, taskVars
  <2>5. CASE FillOver
    BY <2>5 DEF FillOver, ctrlVars, taskVars
  <2>6. CASE Notified
    BY <2>6 DEF Notified, taskVars
  <2>7. CASE CheckAfterResume
    BY <2>7 DEF CheckAfterResume, ctrlVars, taskVars
  <2>8. ASSUME NEW f \in File, JoinNext(f) PROVE pending_files' = pending_files
    BY <2>8 DEF JoinNext, ctrlVars, taskVars
  <2>9. CASE RecordCompleted
    BY <2>9 DEF RecordCompleted, Charge, taskVars
  <2>10. CASE RecordFailed
    BY <2>10 DEF RecordFailed
  <2>11. CASE Finish
    BY <2>11 DEF Finish, taskVars
  <2>12. CASE Cleanup
    BY <2>12 DEF Cleanup, coordVars, taskVars
  <2>13. ASSUME NEW f \in File, TaskOk(f) PROVE pending_files' = pending_files
    BY <2>13 DEF TaskOk, ctrlVars, coordVars
  <2>14. ASSUME NEW f \in File, TaskErr(f) PROVE pending_files' = pending_files
    BY <2>14 DEF TaskErr, ctrlVars, coordVars
  <2>15. ASSUME NEW f \in File, TaskPanic(f) PROVE pending_files' = pending_files
    BY <2>15 DEF TaskPanic, ctrlVars, coordVars
  <2>16. CASE CancelBatch
    BY <2>16 DEF CancelBatch, NotifyOne, coordVars, taskVars
  <2>17. ASSUME NEW limit \in Limits, ResumeBatch(limit) PROVE pending_files' = pending_files
    BY <2>17 DEF ResumeBatch, NotifyOne, coordVars, taskVars
  <2>18. CASE UNCHANGED vars
    BY <2>18 DEF vars, ctrlVars, coordVars, taskVars
  <2> QED
    BY <2>1, <2>2, <2>3, <2>4, <2>5, <2>6, <2>7, <2>8, <2>9, <2>10, <2>11,
       <2>12, <2>13, <2>14, <2>15, <2>16, <2>17, <2>18
    DEF Next, Coordinator, Worker, User
<1> QED
  BY <1>1, TypeInvariant, CoordinatorCorrect, PausedCorrect, PTL
  DEF Spec, NoStartWhilePaused

(***************************************************************************)
(* A cancelled batch is never revived by resume_batch, never overwritten   *)
(* by the coordinator's last step, and starts no further file.             *)
(***************************************************************************)
THEOREM CancelHolds == Spec => CancelIsFinal
<1>1. CoordinatorInv /\ [Next]_vars
      => [status = "Cancelled" => status' = "Cancelled" /\ pending_files' = pending_files]_vars
  <2> SUFFICES ASSUME CoordinatorInv, [Next]_vars, status = "Cancelled"
               PROVE  status' = "Cancelled" /\ pending_files' = pending_files
    OBVIOUS
  <2>1. CASE Ingest
    BY <2>1 DEF CoordinatorInv, Ingest, SmartFolderIngest
  <2>2. CASE PopFile
    BY <2>2 DEF PopFile, FileOffered, Filling
  <2>3. CASE SpendLimitHit
    BY <2>3 DEF SpendLimitHit, FileOffered, Filling, taskVars
  <2>4. CASE NothingToPop
    BY <2>4 DEF NothingToPop, FileOffered, Filling, ctrlVars, taskVars
  <2>5. CASE FillOver
    BY <2>5 DEF FillOver, ctrlVars, taskVars
  <2>6. CASE Notified
    BY <2>6 DEF Notified, taskVars
  <2>7. CASE CheckAfterResume
    BY <2>7 DEF CheckAfterResume, ctrlVars, taskVars
  <2>8. ASSUME NEW f \in File, JoinNext(f) PROVE status' = "Cancelled" /\ pending_files' = pending_files
    BY <2>8 DEF JoinNext, ctrlVars, taskVars
  <2>9. CASE RecordCompleted
    BY <2>9 DEF RecordCompleted, Charge, taskVars
  <2>10. CASE RecordFailed
    BY <2>10 DEF RecordFailed
  <2>11. CASE Finish
    BY <2>11 DEF Finish, taskVars
  <2>12. CASE Cleanup
    BY <2>12 DEF Cleanup, coordVars, taskVars
  <2>13. ASSUME NEW f \in File, TaskOk(f) PROVE status' = "Cancelled" /\ pending_files' = pending_files
    BY <2>13 DEF TaskOk, ctrlVars, coordVars
  <2>14. ASSUME NEW f \in File, TaskErr(f) PROVE status' = "Cancelled" /\ pending_files' = pending_files
    BY <2>14 DEF TaskErr, ctrlVars, coordVars
  <2>15. ASSUME NEW f \in File, TaskPanic(f) PROVE status' = "Cancelled" /\ pending_files' = pending_files
    BY <2>15 DEF TaskPanic, ctrlVars, coordVars
  <2>16. CASE CancelBatch
    BY <2>16 DEF CancelBatch, NotifyOne, coordVars, taskVars
  <2>17. ASSUME NEW limit \in Limits, ResumeBatch(limit) PROVE status' = "Cancelled" /\ pending_files' = pending_files
    BY <2>17 DEF ResumeBatch, NotifyOne, coordVars, taskVars
  <2>18. CASE UNCHANGED vars
    BY <2>18 DEF vars, ctrlVars, coordVars, taskVars
  <2> QED
    BY <2>1, <2>2, <2>3, <2>4, <2>5, <2>6, <2>7, <2>8, <2>9, <2>10, <2>11,
       <2>12, <2>13, <2>14, <2>15, <2>16, <2>17, <2>18
    DEF Next, Coordinator, Worker, User
<1> QED
  BY <1>1, CoordinatorCorrect, PTL DEF Spec, CancelIsFinal

-----------------------------------------------------------------------------
(* Where the files are.                                                    *)

\* A queue that names no file twice, as the progress ids of one request do.
Distinct(q) == \A i, j \in DOMAIN q : q[i] = q[j] => i = j

\* The files whose result the coordinator has recorded: the task is over with
\* that outcome and remove_in_flight took the file out.
Recorded(o) == {f \in File : outcome[f] = o /\ f \notin in_flight_files}

\* Every file is in one place: queued, with a worker, in the coordinator's
\* hand, recorded, or left in in_flight_files by a worker that panicked.
PlaceInv ==
    /\ Distinct(pending_files)
    /\ QueueFiles(pending_files) \cap in_flight_files = {}
    /\ join_set \subseteq in_flight_files
    /\ joined # NoFile => /\ joined \in in_flight_files
                          /\ joined \notin join_set
                          /\ outcome[joined] \in {"ok", "err"}
    /\ \A f \in in_flight_files : f \in join_set \/ f = joined \/ outcome[f] = "panic"
    /\ \A f \in QueueFiles(pending_files) : outcome[f] = "none"
    /\ \A f \in File \ in_flight_files : outcome[f] \in {"none", "ok", "err"}
    /\ pc = "idle" => /\ pending_files = <<>>
                      /\ in_flight_files = {}
                      /\ \A f \in File : outcome[f] = "none"

\* The progress job of a file says what became of its task: a task that
\* returned Ok settled it, one that returned Err leaves that to
\* record_file_result, and nobody settles the job of a panicked task.
JobInv ==
    \A f \in File :
        jobs[f] \in {"completed", "failed"}
            <=> \/ outcome[f] = "ok"
                \/ outcome[f] = "err" /\ f \notin in_flight_files

\* No file counted as failed is shown as ingested.
FailedInv == \A f \in File : outcome[f] = "err" => jobs[f] # "completed"

\* The counters count the recorded files.
CountInv ==
    /\ files_total = files_completed + files_failed
                      + Cardinality(in_flight_files) + Len(pending_files)
    /\ files_completed = Cardinality(Recorded("ok"))
    /\ files_failed = Cardinality(Recorded("err"))

(***************************************************************************)
(* VecDeque::pop_front on a queue without repetitions.                     *)
(***************************************************************************)
LEMMA PopFront ==
    ASSUME NEW q \in Seq(File), q # <<>>, Distinct(q)
    PROVE  /\ Head(q) \in QueueFiles(q)
           /\ Head(q) \in File
           /\ Tail(q) \in Seq(File)
           /\ Len(Tail(q)) = Len(q) - 1
           /\ Distinct(Tail(q))
           /\ QueueFiles(Tail(q)) = QueueFiles(q) \ {Head(q)}
<1>1. /\ Len(q) \in Nat
      /\ Len(q) >= 1
      /\ DOMAIN q = 1..Len(q)
      /\ Head(q) = q[1]
  OBVIOUS
<1>2. /\ Tail(q) \in Seq(File)
      /\ Len(Tail(q)) = Len(q) - 1
      /\ DOMAIN Tail(q) = 1..(Len(q) - 1)
      /\ \A i \in 1..(Len(q) - 1) : Tail(q)[i] = q[i + 1]
  OBVIOUS
<1>3. Distinct(Tail(q))
  <2> SUFFICES ASSUME NEW i \in 1..(Len(q) - 1), NEW j \in 1..(Len(q) - 1),
                      Tail(q)[i] = Tail(q)[j]
               PROVE  i = j
    BY <1>2 DEF Distinct
  <2>1. q[i + 1] = q[j + 1] /\ i + 1 \in DOMAIN q /\ j + 1 \in DOMAIN q
    BY <1>1, <1>2
  <2>2. i + 1 = j + 1
    BY <2>1 DEF Distinct
  <2> QED
    BY <2>2
<1>4. QueueFiles(Tail(q)) = QueueFiles(q) \ {Head(q)}
  <2>1. ASSUME NEW f \in QueueFiles(Tail(q)) PROVE f \in QueueFiles(q) \ {Head(q)}
    <3>1. PICK i \in 1..(Len(q) - 1) : f = Tail(q)[i]
      BY <2>1, <1>2 DEF QueueFiles
    <3>2. f = q[i + 1] /\ i + 1 \in DOMAIN q /\ 1 \in DOMAIN q /\ i + 1 # 1
      BY <3>1, <1>1, <1>2
    <3>3. q[i + 1] # q[1]
      BY <3>2 DEF Distinct
    <3> QED
      BY <3>2, <3>3, <1>1 DEF QueueFiles
  <2>2. ASSUME NEW f \in QueueFiles(q), f # Head(q) PROVE f \in QueueFiles(Tail(q))
    <3>1. PICK i \in DOMAIN q : f = q[i]
      BY <2>2 DEF QueueFiles
    <3>2. i # 1
      BY <3>1, <2>2, <1>1
    <3>3. i - 1 \in 1..(Len(q) - 1) /\ (i - 1) + 1 = i
      BY <3>2, <1>1
    <3>4. Tail(q)[i - 1] = f
      BY <3>1, <3>3, <1>2
    <3> QED
      BY <3>3, <3>4, <1>2 DEF QueueFiles
  <2> QED
    BY <2>1, <2>2
<1>5. Head(q) \in QueueFiles(q)
  BY <1>1 DEF QueueFiles
<1> QED
  BY <1>1, <1>2, <1>3, <1>4, <1>5

(***************************************************************************)
(* A file is never in two places, and a worker's outcome tells where the   *)
(* file went: no interleaving of pops, results, panics and handlers lets   *)
(* one slip out of the queue uncounted or be handed out twice.             *)
(***************************************************************************)
LEMMA PlaceInvariant == Spec => []PlaceInv
<1>1. Init => PlaceInv
  BY FileAssumption DEF Init, PlaceInv, Distinct, QueueFiles
<1>2. TypeInv /\ CoordinatorInv /\ PlaceInv /\ [Next]_vars => PlaceInv'
  <2> SUFFICES ASSUME TypeInv, CoordinatorInv, PlaceInv, [Next]_vars PROVE PlaceInv'
    OBVIOUS
  <2> USE FileAssumption DEF PlaceInv, TypeInv, TypeOK
  <2>1. CASE Ingest
    <3>1. PICK q \in Batches, limit \in Limits \cup {NoLimit}, conc \in Concurrency,
               isLocal \in BOOLEAN : SmartFolderIngest(q, limit, conc, isLocal)
      BY <2>1 DEF Ingest
    <3>2. Distinct(q) /\ QueueFiles(q) \subseteq File
      BY BatchAssumption DEF Distinct, QueueFiles
    <3> QED
      BY <3>1, <3>2 DEF SmartFolderIngest, CoordinatorInv
  <2>2. CASE PopFile
    <3>1. /\ Head(pending_files) \in QueueFiles(pending_files)
          /\ Head(pending_files) \in File
          /\ Distinct(Tail(pending_files))
          /\ QueueFiles(Tail(pending_files))
                = QueueFiles(pending_files) \ {Head(pending_files)}
      BY <2>2, PopFront DEF PopFile, FileOffered
    <3> QED
      BY <2>2, <3>1 DEF PopFile, FileOffered, Filling, CoordinatorInv
  <2>3. CASE SpendLimitHit
    BY <2>3 DEF SpendLimitHit, FileOffered, Filling, taskVars
  <2>4. CASE NothingToPop
    BY <2>4 DEF NothingToPop, FileOffered, Filling, ctrlVars, taskVars
  <2>5. CASE FillOver
    BY <2>5 DEF FillOver, ctrlVars, taskVars
  <2>6. CASE Notified
    BY <2>6 DEF Notified, taskVars
  <2>7. CASE CheckAfterResume
    BY <2>7 DEF CheckAfterResume, ctrlVars, taskVars
  <2>8. ASSUME NEW f \in File, JoinNext(f) PROVE PlaceInv'
    BY <2>8 DEF JoinNext, ctrlVars, taskVars, CoordinatorInv
  <2>9. CASE RecordCompleted
    BY <2>9 DEF RecordCompleted, taskVars
  <2>10. CASE RecordFailed
    BY <2>10 DEF RecordFailed
  <2>11. CASE Finish
    BY <2>11 DEF Finish, taskVars
  <2>12. CASE Cleanup
    BY <2>12 DEF Cleanup, coordVars, taskVars
  <2>13. ASSUME NEW f \in File, TaskOk(f) PROVE PlaceInv'
    BY <2>13 DEF TaskOk, ctrlVars, coordVars
  <2>14. ASSUME NEW f \in File, TaskErr(f) PROVE PlaceInv'
    BY <2>14 DEF TaskErr, ctrlVars, coordVars
  <2>15. ASSUME NEW f \in File, TaskPanic(f) PROVE PlaceInv'
    BY <2>15 DEF TaskPanic, ctrlVars, coordVars
  <2>16. CASE CancelBatch
    BY <2>16 DEF CancelBatch, NotifyOne, coordVars, taskVars
  <2>17. ASSUME NEW limit \in Limits, ResumeBatch(limit) PROVE PlaceInv'
    BY <2>17 DEF ResumeBatch, NotifyOne, coordVars, taskVars
  <2>18. CASE UNCHANGED vars
    BY <2>18 DEF vars, ctrlVars, coordVars, taskVars
  <2> QED
    BY <2>1, <2>2, <2>3, <2>4, <2>5, <2>6, <2>7, <2>8, <2>9, <2>10, <2>11,
       <2>12, <2>13, <2>14, <2>15, <2>16, <2>17, <2>18
    DEF Next, Coordinator, Worker, User
<1> QED
  BY <1>1, <1>2, TypeInvariant, CoordinatorCorrect, PTL DEF Spec

(***************************************************************************)
(* The progress job of every file is settled exactly when its task is      *)
(* accounted for, also across a panic that nobody records.                 *)
(***************************************************************************)
LEMMA JobInvariant == Spec => [](JobInv /\ FailedInv)
<1>1. Init => JobInv /\ FailedInv
  BY DEF Init, JobInv, FailedInv
<1>2. TypeInv /\ CoordinatorInv /\ PlaceInv /\ JobInv /\ FailedInv /\ [Next]_vars
      => (JobInv /\ FailedInv)'
  <2> SUFFICES ASSUME TypeInv, CoordinatorInv, PlaceInv, JobInv, FailedInv, [Next]_vars
               PROVE  (JobInv /\ FailedInv)'
    OBVIOUS
  <2> USE FileAssumption DEF PlaceInv, JobInv, FailedInv, TypeInv, TypeOK
  <2>1. CASE Ingest
    BY <2>1 DEF Ingest, SmartFolderIngest
  <2>2. CASE PopFile
    <3>1. /\ Head(pending_files) \in QueueFiles(pending_files)
          /\ Head(pending_files) \in File
      BY <2>2, PopFront DEF PopFile, FileOffered, PlaceInv
    <3> QED
      BY <2>2, <3>1 DEF PopFile
  <2>3. CASE SpendLimitHit
    BY <2>3 DEF SpendLimitHit, FileOffered, Filling, taskVars
  <2>4. CASE NothingToPop
    BY <2>4 DEF NothingToPop, ctrlVars, taskVars
  <2>5. CASE FillOver
    BY <2>5 DEF FillOver, ctrlVars, taskVars
  <2>6. CASE Notified
    BY <2>6 DEF Notified, taskVars
  <2>7. CASE CheckAfterResume
    BY <2>7 DEF CheckAfterResume, ctrlVars, taskVars
  <2>8. ASSUME NEW f \in File, JoinNext(f) PROVE (JobInv /\ FailedInv)'
    BY <2>8 DEF JoinNext, ctrlVars, taskVars
  <2>9. CASE RecordCompleted
    <3>1. joined \in File /\ outcome[joined] = "ok"
      BY <2>9 DEF RecordCompleted
    <3> QED
      BY <2>9, <3>1 DEF RecordCompleted, taskVars
  <2>10. CASE RecordFailed
    BY <2>10 DEF RecordFailed
  <2>11. CASE Finish
    BY <2>11 DEF Finish, taskVars
  <2>12. CASE Cleanup
    BY <2>12 DEF Cleanup, coordVars, taskVars
  <2>13. ASSUME NEW f \in File, TaskOk(f) PROVE (JobInv /\ FailedInv)'
    BY <2>13 DEF TaskOk, ctrlVars, coordVars
  <2>14. ASSUME NEW f \in File, TaskErr(f) PROVE (JobInv /\ FailedInv)'
    BY <2>14 DEF TaskErr, ctrlVars, coordVars
  <2>15. ASSUME NEW f \in File, TaskPanic(f) PROVE (JobInv /\ FailedInv)'
    BY <2>15 DEF TaskPanic, ctrlVars, coordVars
  <2>16. CASE CancelBatch
    BY <2>16 DEF CancelBatch, NotifyOne, coordVars, taskVars
  <2>17. ASSUME NEW limit \in Limits, ResumeBatch(limit) PROVE (JobInv /\ FailedInv)'
    BY <2>17 DEF ResumeBatch, NotifyOne, coordVars, taskVars
  <2>18. CASE UNCHANGED vars
    BY <2>18 DEF vars, ctrlVars, coordVars, taskVars
  <2> QED
    BY <2>1, <2>2, <2>3, <2>4, <2>5, <2>6, <2>7, <2>8, <2>9, <2>10, <2>11,
       <2>12, <2>13, <2>14, <2>15, <2>16, <2>17, <2>18
    DEF Next, Coordinator, Worker, User
<1> QED
  BY <1>1, <1>2, TypeInvariant, CoordinatorCorrect, PlaceInvariant, PTL DEF Spec

(***************************************************************************)
(* A step that moves no file and changes the outcome of none outside       *)
(* in_flight_files leaves the counts right.                                *)
(***************************************************************************)
LEMMA Unmoved ==
    ASSUME CountInv,
           UNCHANGED <<files_total, files_completed, files_failed, in_flight_files,
                       pending_files>>,
           \A g \in File \ in_flight_files : outcome'[g] = outcome[g]
    PROVE  CountInv'
<1>1. Recorded("ok")' = Recorded("ok") /\ Recorded("err")' = Recorded("err")
  BY DEF Recorded
<1> QED
  BY <1>1 DEF CountInv

(***************************************************************************)
(* files_completed and files_failed count the recorded files, and with the *)
(* files in flight and in the queue make up files_total.                   *)
(***************************************************************************)
LEMMA CountInvariant == Spec => []CountInv
<1>1. Init => CountInv
  <2> SUFFICES ASSUME Init PROVE CountInv
    OBVIOUS
  <2>1. Recorded("ok") = {} /\ Recorded("err") = {}
    BY DEF Init, Recorded
  <2>2. Cardinality({}) = 0 /\ Len(<<>>) = 0 /\ 0 = 0 + 0 + 0 + 0
    BY FS_EmptySet
  <2> QED
    BY <2>1, <2>2, Zenon DEF Init, CountInv
<1>2. TypeInv /\ CoordinatorInv /\ PlaceInv /\ CountInv /\ [Next]_vars => CountInv'
  <2> SUFFICES ASSUME TypeInv, CoordinatorInv, PlaceInv, CountInv, [Next]_vars
               PROVE  CountInv'
    OBVIOUS
  <2>a. IsFiniteSet(in_flight_files) /\ \A o \in Outcome : IsFiniteSet(Recorded(o))
    BY FileAssumption, FS_Subset DEF Recorded, TypeInv, TypeOK
  <2> USE <2>a DEF Outcome
  <2>1. CASE Ingest
    <3>1. PICK q \in Batches, limit \in Limits \cup {NoLimit}, conc \in Concurrency,
               isLocal \in BOOLEAN : SmartFolderIngest(q, limit, conc, isLocal)
      BY <2>1 DEF Ingest
    <3>2. Recorded("ok") = {} /\ Recorded("err") = {} /\ in_flight_files = {}
      BY <3>1 DEF SmartFolderIngest, Recorded, PlaceInv
    <3>3. files_completed = 0 /\ files_failed = 0 /\ Cardinality(in_flight_files) = 0
      BY <3>2, FS_EmptySet DEF CountInv
    <3>4. Recorded("ok")' = Recorded("ok") /\ Recorded("err")' = Recorded("err")
      BY <3>1 DEF SmartFolderIngest, Recorded
    <3>5. Len(q) \in Nat
      BY BatchAssumption
    <3>6. Len(q) = 0 + 0 + 0 + Len(q)
      BY <3>5
    <3>7. /\ files_total' = Len(q)
          /\ files_completed' = 0 /\ files_failed' = 0
          /\ Cardinality(in_flight_files)' = 0
          /\ pending_files' = q
      BY <3>1, <3>3 DEF SmartFolderIngest
    <3>8. files_total' = files_completed' + files_failed'
                           + Cardinality(in_flight_files)' + Len(pending_files)'
      BY <3>6, <3>7, Zenon
    <3> QED
      BY <3>1, <3>4, <3>8 DEF SmartFolderIngest, CountInv
  <2>2. CASE PopFile
    <3> DEFINE h == Head(pending_files)
    <3>1. /\ h \in QueueFiles(pending_files)
          /\ h \in File
          /\ Len(Tail(pending_files)) = Len(pending_files) - 1
      BY <2>2, PopFront DEF PopFile, FileOffered, PlaceInv, TypeInv, TypeOK
    <3>2. h \notin in_flight_files /\ outcome[h] = "none"
      BY <3>1 DEF PlaceInv
    <3>3. Cardinality(in_flight_files \cup {h}) = Cardinality(in_flight_files) + 1
      BY <3>2, FS_AddElement
    <3>4. Recorded("ok")' = Recorded("ok") /\ Recorded("err")' = Recorded("err")
      BY <2>2, <3>1, <3>2 DEF PopFile, Recorded, TypeInv, TypeOK
    <3>5. /\ Len(pending_files) \in Nat /\ Cardinality(in_flight_files) \in Nat
          /\ files_completed \in Nat /\ files_failed \in Nat
          /\ files_total = files_completed + files_failed
                             + Cardinality(in_flight_files) + Len(pending_files)
      BY FS_CardinalityType DEF TypeInv, TypeOK, CountInv
    <3>6. /\ Cardinality(in_flight_files)' = Cardinality(in_flight_files) + 1
          /\ Len(pending_files)' = Len(pending_files) - 1
          /\ UNCHANGED <<files_total, files_completed, files_failed>>
      BY <2>2, <3>1, <3>3 DEF PopFile
    <3>7. files_total = files_completed + files_failed
                          + (Cardinality(in_flight_files) + 1) + (Len(pending_files) - 1)
      BY <3>5
    <3>8. files_total' = files_completed' + files_failed'
                           + Cardinality(in_flight_files)' + Len(pending_files)'
      BY <3>6, <3>7, Zenon
    <3> QED
      BY <3>4, <3>6, <3>8 DEF CountInv
  <2>3. CASE SpendLimitHit
    <3>1. UNCHANGED <<files_total, files_completed, files_failed, in_flight_files,
                      pending_files>>
      BY <2>3 DEF SpendLimitHit, taskVars
    <3>2. \A g \in File \ in_flight_files : outcome'[g] = outcome[g]
      BY <2>3 DEF SpendLimitHit, taskVars
    <3> QED
      BY <3>1, <3>2, Unmoved
  <2>4. CASE NothingToPop
    <3>1. UNCHANGED <<files_total, files_completed, files_failed, in_flight_files,
                      pending_files>>
      BY <2>4 DEF NothingToPop, ctrlVars, taskVars
    <3>2. \A g \in File \ in_flight_files : outcome'[g] = outcome[g]
      BY <2>4 DEF NothingToPop, ctrlVars, taskVars
    <3> QED
      BY <3>1, <3>2, Unmoved
  <2>5. CASE FillOver
    <3>1. UNCHANGED <<files_total, files_completed, files_failed, in_flight_files,
                      pending_files>>
      BY <2>5 DEF FillOver, ctrlVars, taskVars
    <3>2. \A g \in File \ in_flight_files : outcome'[g] = outcome[g]
      BY <2>5 DEF FillOver, ctrlVars, taskVars
    <3> QED
      BY <3>1, <3>2, Unmoved
  <2>6. CASE Notified
    <3>1. UNCHANGED <<files_total, files_completed, files_failed, in_flight_files,
                      pending_files>>
      BY <2>6 DEF Notified, taskVars
    <3>2. \A g \in File \ in_flight_files : outcome'[g] = outcome[g]
      BY <2>6 DEF Notified, taskVars
    <3> QED
      BY <3>1, <3>2, Unmoved
  <2>7. CASE CheckAfterResume
    <3>1. UNCHANGED <<files_total, files_completed, files_failed, in_flight_files,
                      pending_files>>
      BY <2>7 DEF CheckAfterResume, ctrlVars, taskVars
    <3>2. \A g \in File \ in_flight_files : outcome'[g] = outcome[g]
      BY <2>7 DEF CheckAfterResume, ctrlVars, taskVars
    <3> QED
      BY <3>1, <3>2, Unmoved
  <2>8. ASSUME NEW f \in File, JoinNext(f) PROVE CountInv'
    <3>1. UNCHANGED <<files_total, files_completed, files_failed, in_flight_files,
                      pending_files>>
      BY <2>8 DEF JoinNext, ctrlVars, taskVars
    <3>2. \A g \in File \ in_flight_files : outcome'[g] = outcome[g]
      BY <2>8 DEF JoinNext, ctrlVars, taskVars
    <3> QED
      BY <3>1, <3>2, Unmoved
  <2>9. CASE RecordCompleted
    <3>1. joined \in in_flight_files /\ joined \in File /\ outcome[joined] = "ok"
      BY <2>9 DEF RecordCompleted, PlaceInv, CoordinatorInv, TypeInv, TypeOK
    <3>2. Recorded("ok")' = Recorded("ok") \cup {joined} /\ joined \notin Recorded("ok")
      BY <2>9, <3>1 DEF RecordCompleted, taskVars, Recorded
    <3>3. Recorded("err")' = Recorded("err")
      BY <2>9, <3>1 DEF RecordCompleted, taskVars, Recorded
    <3>4. Cardinality(Recorded("ok") \cup {joined}) = Cardinality(Recorded("ok")) + 1
      BY <3>2, FS_AddElement
    <3>5. Cardinality(in_flight_files \ {joined}) = Cardinality(in_flight_files) - 1
      BY <3>1, FS_RemoveElement
    <3>6. /\ Len(pending_files) \in Nat /\ Cardinality(in_flight_files) \in Nat
          /\ files_completed \in Nat /\ files_failed \in Nat
          /\ files_total = files_completed + files_failed
                             + Cardinality(in_flight_files) + Len(pending_files)
      BY FS_CardinalityType DEF TypeInv, TypeOK, CountInv
    <3>7. /\ Cardinality(in_flight_files)' = Cardinality(in_flight_files) - 1
          /\ files_completed' = files_completed + 1
          /\ UNCHANGED <<files_total, files_failed, pending_files>>
      BY <2>9, <3>5 DEF RecordCompleted
    <3>8. files_total' = files_completed' + files_failed'
                           + Cardinality(in_flight_files)' + Len(pending_files)'
      BY <3>6, <3>7
    <3>9. files_completed' = Cardinality(Recorded("ok"))'
      BY <3>2, <3>4, <3>7 DEF CountInv
    <3> QED
      BY <3>3, <3>7, <3>8, <3>9 DEF CountInv
  <2>10. CASE RecordFailed
    <3>1. joined \in in_flight_files /\ joined \in File /\ outcome[joined] = "err"
      BY <2>10 DEF RecordFailed, PlaceInv, CoordinatorInv, TypeInv, TypeOK
    <3>2. Recorded("err")' = Recorded("err") \cup {joined} /\ joined \notin Recorded("err")
      BY <2>10, <3>1 DEF RecordFailed, taskVars, Recorded
    <3>3. Recorded("ok")' = Recorded("ok")
      BY <2>10, <3>1 DEF RecordFailed, taskVars, Recorded
    <3>4. Cardinality(Recorded("err") \cup {joined}) = Cardinality(Recorded("err")) + 1
      BY <3>2, FS_AddElement
    <3>5. Cardinality(in_flight_files \ {joined}) = Cardinality(in_flight_files) - 1
      BY <3>1, FS_RemoveElement
    <3>6. /\ Len(pending_files) \in Nat /\ Cardinality(in_flight_files) \in Nat
          /\ files_completed \in Nat /\ files_failed \in Nat
          /\ files_total = files_completed + files_failed
                             + Cardinality(in_flight_files) + Len(pending_files)
      BY FS_CardinalityType DEF TypeInv, TypeOK, CountInv
    <3>7. /\ Cardinality(in_flight_files)' = Cardinality(in_flight_files) - 1
          /\ files_failed' = files_failed + 1
          /\ UNCHANGED <<files_total, files_completed, pending_files>>
      BY <2>10, <3>5 DEF RecordFailed
    <3>8. files_total' = files_completed' + files_failed'
                           + Cardinality(in_flight_files)' + Len(pending_files)'
      BY <3>6, <3>7
    <3>9. files_failed' = Cardinality(Recorded("err"))'
      BY <3>2, <3>4, <3>7 DEF CountInv
    <3> QED
      BY <3>3, <3>7, <3>8, <3>9 DEF CountInv
  <2>11. CASE Finish
    <3>1. UNCHANGED <<files_total, files_completed, files_failed, in_flight_files,
                      pending_files>>
      BY <2>11 DEF Finish, taskVars
    <3>2. \A g \in File \ in_flight_files : outcome'[g] = outcome[g]
      BY <2>11 DEF Finish, taskVars
    <3> QED
      BY <3>1, <3>2, Unmoved
  <2>12. CASE Cleanup
    <3>1. UNCHANGED <<files_total, files_completed, files_failed, in_flight_files,
                      pending_files>>
      BY <2>12 DEF Cleanup, coordVars, taskVars
    <3>2. \A g \in File \ in_flight_files : outcome'[g] = outcome[g]
      BY <2>12 DEF Cleanup, coordVars, taskVars
    <3> QED
      BY <3>1, <3>2, Unmoved
  <2>13. ASSUME NEW f \in File, TaskOk(f) PROVE CountInv'
    <3>1. UNCHANGED <<files_total, files_completed, files_failed, in_flight_files,
                      pending_files>>
      BY <2>13 DEF TaskOk, ctrlVars, coordVars
    <3>2. \A g \in File \ in_flight_files : outcome'[g] = outcome[g]
      BY <2>13 DEF TaskOk, ctrlVars, coordVars, PlaceInv, TypeInv, TypeOK
    <3> QED
      BY <3>1, <3>2, Unmoved
  <2>14. ASSUME NEW f \in File, TaskErr(f) PROVE CountInv'
    <3>1. UNCHANGED <<files_total, files_completed, files_failed, in_flight_files,
                      pending_files>>
      BY <2>14 DEF TaskErr, ctrlVars, coordVars
    <3>2. \A g \in File \ in_flight_files : outcome'[g] = outcome[g]
      BY <2>14 DEF TaskErr, ctrlVars, coordVars, PlaceInv, TypeInv, TypeOK
    <3> QED
      BY <3>1, <3>2, Unmoved
  <2>15. ASSUME NEW f \in File, TaskPanic(f) PROVE CountInv'
    <3>1. UNCHANGED <<files_total, files_completed, files_failed, in_flight_files,
                      pending_files>>
      BY <2>15 DEF TaskPanic, ctrlVars, coordVars
    <3>2. \A g \in File \ in_flight_files : outcome'[g] = outcome[g]
      BY <2>15 DEF TaskPanic, ctrlVars, coordVars, PlaceInv, TypeInv, TypeOK
    <3> QED
      BY <3>1, <3>2, Unmoved
  <2>16. CASE CancelBatch
    <3>1. UNCHANGED <<files_total, files_completed, files_failed, in_flight_files,
                      pending_files>>
      BY <2>16 DEF CancelBatch, coordVars, taskVars
    <3>2. \A g \in File \ in_flight_files : outcome'[g] = outcome[g]
      BY <2>16 DEF CancelBatch, coordVars, taskVars
    <3> QED
      BY <3>1, <3>2, Unmoved
  <2>17. ASSUME NEW limit \in Limits, ResumeBatch(limit) PROVE CountInv'
    <3>1. UNCHANGED <<files_total, files_completed, files_failed, in_flight_files,
                      pending_files>>
      BY <2>17 DEF ResumeBatch, coordVars, taskVars
    <3>2. \A g \in File \ in_flight_files : outcome'[g] = outcome[g]
      BY <2>17 DEF ResumeBatch, coordVars, taskVars
    <3> QED
      BY <3>1, <3>2, Unmoved
  <2>18. CASE UNCHANGED vars
    <3>1. UNCHANGED <<files_total, files_completed, files_failed, in_flight_files,
                      pending_files>>
      BY <2>18 DEF vars, ctrlVars, coordVars, taskVars
    <3>2. \A g \in File \ in_flight_files : outcome'[g] = outcome[g]
      BY <2>18 DEF vars, ctrlVars, coordVars, taskVars
    <3> QED
      BY <3>1, <3>2, Unmoved
  <2> QED
    BY <2>1, <2>2, <2>3, <2>4, <2>5, <2>6, <2>7, <2>8, <2>9, <2>10, <2>11,
       <2>12, <2>13, <2>14, <2>15, <2>16, <2>17, <2>18
    DEF Next, Coordinator, Worker, User
<1> QED
  BY <1>1, <1>2, TypeInvariant, CoordinatorCorrect, PlaceInvariant, PTL DEF Spec

(***************************************************************************)
(* The numbers of the status endpoint always add up to files_total, and    *)
(* when the coordinator has ended they agree with the progress jobs.       *)
(***************************************************************************)
THEOREM FilesCorrect == Spec => []FilesConserved
<1>1. TypeInv /\ CoordinatorInv /\ PlaceInv /\ JobInv /\ FailedInv /\ CountInv
      => FilesConserved
  <2> SUFFICES ASSUME TypeInv, CoordinatorInv, PlaceInv, JobInv, FailedInv, CountInv,
                      pc = "done"
               PROVE  /\ files_completed + files_failed
                            = Cardinality({f \in File : jobs[f] \in {"completed", "failed"}})
                      /\ Cardinality({f \in File : jobs[f] = "completed"}) <= files_completed
    BY DEF FilesConserved, CountInv
  <2>1. IsFiniteSet(Recorded("ok")) /\ IsFiniteSet(Recorded("err"))
    BY FileAssumption, FS_Subset DEF Recorded
  <2>2. \A f \in in_flight_files : outcome[f] = "panic"
    BY FileAssumption DEF PlaceInv, CoordinatorInv, TypeInv, TypeOK
  <2>3. {f \in File : jobs[f] \in {"completed", "failed"}} = Recorded("ok") \cup Recorded("err")
    BY <2>2 DEF JobInv, Recorded
  <2>4. Recorded("ok") \cap Recorded("err") = {}
    BY DEF Recorded
  <2>5. Cardinality(Recorded("ok") \cup Recorded("err"))
          = Cardinality(Recorded("ok")) + Cardinality(Recorded("err"))
    <3>1. Cardinality(Recorded("ok") \cap Recorded("err")) = 0
      BY <2>4, FS_EmptySet
    <3>2. Cardinality(Recorded("ok")) \in Nat /\ Cardinality(Recorded("err")) \in Nat
      BY <2>1, FS_CardinalityType
    <3>3. Cardinality(Recorded("ok") \cup Recorded("err"))
            = Cardinality(Recorded("ok")) + Cardinality(Recorded("err"))
                - Cardinality(Recorded("ok") \cap Recorded("err"))
      BY <2>1, FS_Union
    <3> QED
      BY <3>1, <3>2, <3>3
  <2>6. {f \in File : jobs[f] = "completed"} \subseteq Recorded("ok")
    BY <2>2 DEF JobInv, FailedInv, Recorded
  <2>7. Cardinality({f \in File : jobs[f] = "completed"}) <= Cardinality(Recorded("ok"))
    BY <2>1, <2>6, FS_Subset
  <2> QED
    BY <2>3, <2>5, <2>7 DEF CountInv
<1> QED
  BY <1>1, TypeInvariant, CoordinatorCorrect, PlaceInvariant, JobInvariant,
     CountInvariant, PTL

-----------------------------------------------------------------------------
(* The promise of BatchContract, step by step.                             *)

\* The files somebody works on: spawned and not joined, or being recorded.
Working == join_set \cup ({joined} \ {NoFile})

(***************************************************************************)
(* A step that keeps the status, the queue and the files worked on is      *)
(* invisible to the user of a batch.                                       *)
(***************************************************************************)
LEMMA Stutter ==
    ASSUME UNCHANGED <<status, pending_files>>, Working' = Working
    PROVE  [Contract!ContractNext]_Contract!contractVars
  BY DEF Contract!contractVars, Phase, Working

(***************************************************************************)
(* The coordinator, the workers and the handlers implement the contract:   *)
(* every critical section is one of its steps or invisible to the user.    *)
(***************************************************************************)
THEOREM ContractImplemented == Spec => ImplementsContract
<1>1. Init => Contract!ContractInit
  BY DEF Init, Contract!ContractInit, Phase, QueueFiles
<1>2. TypeInv /\ CoordinatorInv /\ PausedMeansTooExpensive /\ PlaceInv /\ [Next]_vars
      => [Contract!ContractNext]_Contract!contractVars
  <2> SUFFICES ASSUME TypeInv, CoordinatorInv, PausedMeansTooExpensive, PlaceInv, [Next]_vars
               PROVE  [Contract!ContractNext]_Contract!contractVars
    OBVIOUS
  <2>1. CASE Ingest
    <3>1. PICK q \in Batches, limit \in Limits \cup {NoLimit}, conc \in Concurrency,
               isLocal \in BOOLEAN : SmartFolderIngest(q, limit, conc, isLocal)
      BY <2>1 DEF Ingest
    <3>2. QueueFiles(q) \in (SUBSET File) \ {{}}
      BY BatchAssumption DEF QueueFiles
    <3>3. Phase = "new" /\ Phase' = "open"
      BY <3>1 DEF SmartFolderIngest, CoordinatorInv, Phase
    <3>4. Contract!SubmitFiles
      BY <3>1, <3>2, <3>3 DEF SmartFolderIngest, Contract!SubmitFiles
    <3> QED
      BY <3>4 DEF Contract!ContractNext
  <2>2. CASE PopFile
    <3> DEFINE h == Head(pending_files)
    <3>1. /\ h \in QueueFiles(pending_files)
          /\ h \in File
          /\ QueueFiles(Tail(pending_files)) = QueueFiles(pending_files) \ {h}
      BY <2>2, PopFront DEF PopFile, FileOffered, PlaceInv, TypeInv, TypeOK
    <3>2. status # "Paused"
      <4> SUFFICES ASSUME status = "Paused" PROVE FALSE
        OBVIOUS
      <4>1. /\ accumulated_cost \in Int
            /\ spend_limit \in Int
            /\ Cost[h] \in Int
        BY <3>1, CostAssumption, LimitAssumption
        DEF TypeInv, TypeOK, PausedMeansTooExpensive
      <4> QED
        BY <2>2, <4>1 DEF PopFile, CanProceed, PausedMeansTooExpensive
    <3>3. status = "Running" /\ status' = "Running"
      BY <2>2, <3>2 DEF PopFile, FileOffered, Filling, CoordinatorInv, TypeInv, TypeOK, Status
    <3>4. Phase = "open" /\ Phase' = "open"
      BY <3>3 DEF Phase
    <3>5. Working' = Working \cup {h}
      BY <2>2 DEF PopFile, Working
    <3>6. Contract!StartFile(h)
      BY <2>2, <3>1, <3>4, <3>5 DEF PopFile, Contract!StartFile, Working
    <3> QED
      BY <3>1, <3>6 DEF Contract!ContractNext
  <2>3. CASE SpendLimitHit
    <3>1. /\ UNCHANGED pending_files /\ Working' = Working
          /\ QueueFiles(pending_files) # {}
          /\ status \in {"Running", "Paused"} /\ status' = "Paused"
      BY <2>3, PopFront DEF SpendLimitHit, FileOffered, Filling, CoordinatorInv, PlaceInv,
         TypeInv, TypeOK, Status, Working
    <3>2. CASE status = "Running"
      <4>1. Phase = "open" /\ Phase' = "paused"
        BY <3>1, <3>2 DEF Phase
      <4>2. Contract!Pause
        BY <3>1, <4>1 DEF Contract!Pause, Working
      <4> QED
        BY <4>2 DEF Contract!ContractNext
    <3>3. CASE status = "Paused"
      BY <3>1, <3>3, Stutter
    <3> QED
      BY <3>1, <3>2, <3>3
  <2>4. CASE NothingToPop
    <3>1. UNCHANGED <<status, pending_files>> /\ Working' = Working
      BY <2>4 DEF NothingToPop, ctrlVars, Working
    <3> QED
      BY <3>1, Stutter
  <2>5. CASE FillOver
    <3>1. UNCHANGED <<status, pending_files>> /\ Working' = Working
      BY <2>5 DEF FillOver, ctrlVars, Working
    <3> QED
      BY <3>1, Stutter
  <2>6. CASE Notified
    <3>1. UNCHANGED <<status, pending_files>> /\ Working' = Working
      BY <2>6 DEF Notified, Working
    <3> QED
      BY <3>1, Stutter
  <2>7. CASE CheckAfterResume
    <3>1. UNCHANGED <<status, pending_files>> /\ Working' = Working
      BY <2>7 DEF CheckAfterResume, ctrlVars, Working
    <3> QED
      BY <3>1, Stutter
  <2>8. ASSUME NEW f \in File, JoinNext(f) PROVE [Contract!ContractNext]_Contract!contractVars
    <3>1. joined = NoFile /\ UNCHANGED <<status, pending_files>>
      BY <2>8 DEF JoinNext, CoordinatorInv, ctrlVars
    <3>2. CASE outcome[f] = "panic"
      <4>1. Working' = Working \ {f} /\ f \in Working /\ Phase' = Phase
        BY <2>8, <3>1, <3>2 DEF JoinNext, Working, Phase
      <4>2. Contract!SettleFile(f)
        BY <3>1, <4>1 DEF Contract!SettleFile, Working
      <4> QED
        BY <4>2 DEF Contract!ContractNext
    <3>3. CASE outcome[f] # "panic"
      <4>1. Working' = Working
        BY <2>8, <3>1, <3>3, FileAssumption DEF JoinNext, Working
      <4> QED
        BY <3>1, <4>1, Stutter
    <3> QED
      BY <3>2, <3>3
  <2>9. CASE RecordCompleted
    <3>1. /\ joined \in File /\ joined \notin join_set /\ joined' = NoFile
          /\ UNCHANGED <<status, pending_files, join_set>>
      BY <2>9, FileAssumption DEF RecordCompleted, PlaceInv, CoordinatorInv, TypeInv, TypeOK
    <3>2. Working' = Working \ {joined} /\ joined \in Working /\ Phase' = Phase
      BY <3>1, FileAssumption DEF Working, Phase
    <3>3. Contract!SettleFile(joined)
      BY <3>1, <3>2 DEF Contract!SettleFile, Working
    <3> QED
      BY <3>1, <3>3 DEF Contract!ContractNext
  <2>10. CASE RecordFailed
    <3>1. /\ joined \in File /\ joined \notin join_set /\ joined' = NoFile
          /\ UNCHANGED <<status, pending_files, join_set>>
      BY <2>10, FileAssumption DEF RecordFailed, PlaceInv, CoordinatorInv, TypeInv, TypeOK
    <3>2. Working' = Working \ {joined} /\ joined \in Working /\ Phase' = Phase
      BY <3>1, FileAssumption DEF Working, Phase
    <3>3. Contract!SettleFile(joined)
      BY <3>1, <3>2 DEF Contract!SettleFile, Working
    <3> QED
      BY <3>1, <3>3 DEF Contract!ContractNext
  <2>11. CASE Finish
    <3>1. UNCHANGED pending_files /\ Working' = Working
      BY <2>11 DEF Finish, Working
    <3>2. CASE status = "Running"
      <4>1. Phase = "open" /\ Phase' = "complete"
        BY <2>11, <3>2 DEF Finish, CoordinatorInv, Phase
      <4>2. QueueFiles(pending_files) = {} /\ Working = {}
        BY <2>11, <3>2 DEF Finish, CoordinatorInv, QueueFiles, Working
      <4>3. Contract!Complete
        BY <3>1, <4>1, <4>2 DEF Contract!Complete, Working
      <4> QED
        BY <4>3 DEF Contract!ContractNext
    <3>3. CASE status # "Running"
      <4>1. status' = status
        BY <2>11, <3>3 DEF Finish
      <4> QED
        BY <3>1, <4>1, Stutter
    <3> QED
      BY <3>2, <3>3
  <2>12. CASE Cleanup
    <3>1. UNCHANGED <<status, pending_files>> /\ Working' = Working
      BY <2>12 DEF Cleanup, coordVars, Working
    <3> QED
      BY <3>1, Stutter
  <2>13. ASSUME NEW f \in File, TaskOk(f) PROVE [Contract!ContractNext]_Contract!contractVars
    <3>1. UNCHANGED <<status, pending_files>> /\ Working' = Working
      BY <2>13 DEF TaskOk, ctrlVars, coordVars, Working
    <3> QED
      BY <3>1, Stutter
  <2>14. ASSUME NEW f \in File, TaskErr(f) PROVE [Contract!ContractNext]_Contract!contractVars
    <3>1. UNCHANGED <<status, pending_files>> /\ Working' = Working
      BY <2>14 DEF TaskErr, ctrlVars, coordVars, Working
    <3> QED
      BY <3>1, Stutter
  <2>15. ASSUME NEW f \in File, TaskPanic(f) PROVE [Contract!ContractNext]_Contract!contractVars
    <3>1. UNCHANGED <<status, pending_files>> /\ Working' = Working
      BY <2>15 DEF TaskPanic, ctrlVars, coordVars, Working
    <3> QED
      BY <3>1, Stutter
  <2>16. CASE CancelBatch
    <3>1. UNCHANGED pending_files /\ Working' = Working
      BY <2>16 DEF CancelBatch, coordVars, Working
    <3>2. Phase # "new" /\ Phase' = "cancelled"
      <4>1. status # "None" /\ status \in Status /\ status' = "Cancelled"
        BY <2>16 DEF CancelBatch, CoordinatorInv, TypeInv, TypeOK
      <4> QED
        BY <4>1 DEF Phase, Status
    <3>3. Contract!Cancel
      BY <3>1, <3>2 DEF Contract!Cancel, Working
    <3> QED
      BY <3>3 DEF Contract!ContractNext
  <2>17. ASSUME NEW limit \in Limits, ResumeBatch(limit) PROVE [Contract!ContractNext]_Contract!contractVars
    <3>1. UNCHANGED pending_files /\ Working' = Working
      BY <2>17 DEF ResumeBatch, coordVars, Working
    <3>2. Phase = "paused" /\ Phase' = "open"
      BY <2>17 DEF ResumeBatch, Phase
    <3>3. Contract!Resume
      BY <3>1, <3>2 DEF Contract!Resume, Working
    <3> QED
      BY <3>3 DEF Contract!ContractNext
  <2>18. CASE UNCHANGED vars
    <3>1. UNCHANGED <<status, pending_files>> /\ Working' = Working
      BY <2>18 DEF vars, ctrlVars, coordVars, Working
    <3> QED
      BY <3>1, Stutter
  <2> QED
    BY <2>1, <2>2, <2>3, <2>4, <2>5, <2>6, <2>7, <2>8, <2>9, <2>10, <2>11,
       <2>12, <2>13, <2>14, <2>15, <2>16, <2>17, <2>18
    DEF Next, Coordinator, Worker, User
<1> QED
  BY <1>1, <1>2, TypeInvariant, CoordinatorCorrect, PausedCorrect, PlaceInvariant, PTL
  DEF Spec, ImplementsContract, Contract!ContractSpec
=============================================================================
