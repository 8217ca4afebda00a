------------------------ MODULE JobSchedulerProofs ------------------------
(***************************************************************************)
(* Theorems about JobScheduler, for every number of jobs, chunks and       *)
(* reloads and every size of the finished-job history.                     *)
(***************************************************************************)
EXTENDS JobScheduler, FiniteSetTheorems, TLAPS

(* reset() can fail every outstanding job only if its list_jobs call       *)
(* returns every record.  The theorems that depend on it assume that.      *)
ListIsLongEnough == ListLimit >= MaxJobs

---------------------------------------------------------------------------
(* The operators of the job table.                                         *)

\* create_job makes a well-formed record.
LEMMA NewJobType ==
  ASSUME NEW s \in {Queued, Absent}, NEW g \in Nat
  PROVE  NewJob(s, g) \in Job
  BY DEF NewJob, Job, Progress, StoredStatus, ActiveStatus, TerminalStatus,
         Queued, Running, Absent, Forgotten, Completed, Cancelled, Failed

(* No method of JobManager breaks the type of the table. *)
LEMMA TableTypes ==
  ASSUME NEW js \in [JobIds -> Job]
  PROVE  /\ PruneLocked(js) \in [JobIds -> Job]
         /\ \A S \in SUBSET JobIds : /\ Forget(js, S) \in [JobIds -> Job]
                                     /\ FailIfActive(js, S) \in [JobIds -> Job]
         /\ \A j \in JobIds : /\ MarkRunning(js, j) \in [JobIds -> Job]
                              /\ CancelJob(js, j) \in [JobIds -> Job]
                              /\ CompleteJob(js, j) \in [JobIds -> Job]
                              /\ FailJob(js, j) \in [JobIds -> Job]
         /\ \A j \in JobIds, p \in Progress : UpdateJob(js, j, p) \in [JobIds -> Job]
<1> USE DEF Job, Progress, StoredStatus, ActiveStatus, TerminalStatus,
            Queued, Running, Absent, Forgotten, Completed, Cancelled, Failed
<1>1. ASSUME NEW S \in SUBSET JobIds
      PROVE  Forget(js, S) \in [JobIds -> Job] /\ FailIfActive(js, S) \in [JobIds -> Job]
  <2>1. \A j \in JobIds : [js[j] EXCEPT !.status = Forgotten] \in Job
    OBVIOUS
  <2>2. \A j \in JobIds : [js[j] EXCEPT !.status = Failed, !.error = TRUE] \in Job
    OBVIOUS
  <2>3. QED
    BY <2>1, <2>2 DEF Forget, FailIfActive
<1>2. PruneLocked(js) \in [JobIds -> Job]
  <2> DEFINE old == {j \in Finished(js) :
                       Cardinality({k \in Finished(js) : k > j}) >= MaxTerminal}
  <2>1. old \in SUBSET JobIds
    BY DEF Finished
  <2>2. PruneLocked(js) = Forget(js, old)
    BY DEF PruneLocked
  <2> HIDE DEF old, Job
  <2>3. QED
    BY <1>1, <2>1, <2>2
<1>3. ASSUME NEW j \in JobIds
      PROVE  /\ MarkRunning(js, j) \in [JobIds -> Job]
             /\ CancelJob(js, j) \in [JobIds -> Job]
             /\ CompleteJob(js, j) \in [JobIds -> Job]
             /\ FailJob(js, j) \in [JobIds -> Job]
  <2> js[j] \in Job
    OBVIOUS
  <2> HIDE DEF Job
  <2>0. \A new \in Job : [js EXCEPT ![j] = new] \in [JobIds -> Job]
    OBVIOUS
  <2>1. MarkRunning(js, j) \in [JobIds -> Job]
    <3>1. [js[j] EXCEPT !.status = Running] \in Job
      BY DEF Job
    <3>2. MarkRunning(js, j) = [js EXCEPT ![j] = [js[j] EXCEPT !.status = Running]]
      BY DEF MarkRunning
    <3>3. QED
      BY <2>0, <3>1, <3>2
  <2>2. CancelJob(js, j) \in [JobIds -> Job]
    <3> DEFINE s == IF js[j].status \in ActiveStatus THEN Cancelled ELSE js[j].status
    <3>1. [js[j] EXCEPT !.cancelled = TRUE, !.status = s] \in Job
      BY DEF Job
    <3>2. CancelJob(js, j) = [js EXCEPT ![j] = [js[j] EXCEPT !.cancelled = TRUE, !.status = s]]
      BY DEF CancelJob, Job
    <3>3. QED
      BY <2>0, <3>1, <3>2
  <2>3. CompleteJob(js, j) \in [JobIds -> Job]
    <3>1. [js[j] EXCEPT !.status = Completed, !.progress = "full"] \in Job
      BY DEF Job
    <3>2. CompleteJob(js, j) \in
            {js, [js EXCEPT ![j] = [js[j] EXCEPT !.status = Completed, !.progress = "full"]]}
      BY DEF CompleteJob
    <3>3. QED
      BY <2>0, <3>1, <3>2
  <2> USE DEF Job
  <2>4. FailJob(js, j) \in [JobIds -> Job]
    BY DEF FailJob
  <2>5. QED
    BY <2>1, <2>2, <2>3, <2>4
<1>4. ASSUME NEW j \in JobIds, NEW p \in Progress
      PROVE  UpdateJob(js, j, p) \in [JobIds -> Job]
  BY DEF UpdateJob
<1>5. QED
  BY <1>1, <1>2, <1>3, <1>4

(* _cancel_cleanup keeps the type of the table. *)
LEMMA CleanupType ==
  ASSUME jobs \in [JobIds -> Job], NEW j \in JobIds, CancelCleanup(j)
  PROVE  jobs' \in [JobIds -> Job] /\ active' = None
  BY DEF CancelCleanup, Job, StoredStatus, TerminalStatus, ActiveStatus, Cancelled

(* Record k of `new` is that of js, or that of js after it was forgotten. *)
KeptOrForgotten(js, new, k) ==
  /\ new[k].cancelled = js[k].cancelled
  /\ new[k].generation = js[k].generation
  /\ \/ new[k].status = js[k].status
     \/ js[k].status \in TerminalStatus /\ new[k].status = Forgotten

\* Forgetting finished records leaves every other record alone.
LEMMA ForgetEffect ==
  ASSUME NEW js \in [JobIds -> Job], NEW old \in SUBSET Finished(js), NEW k \in JobIds
  PROVE  KeptOrForgotten(js, Forget(js, old), k)
  BY DEF KeptOrForgotten, Forget, Finished, Job

(* A submission adds the new record and may only forget finished ones. *)
LEMMA CreateJobEffect ==
  ASSUME NEW js \in [JobIds -> Job], NEW j \in JobIds, NEW g \in Nat
  PROVE  /\ CreateJob(js, j, g) \in [JobIds -> Job]
         /\ CreateJob(js, j, g)[j].status = Queued
         /\ ~CreateJob(js, j, g)[j].cancelled
         /\ \A k \in JobIds \ {j} : KeptOrForgotten(js, CreateJob(js, j, g), k)
<1> DEFINE mid == [js EXCEPT ![j] = NewJob(Queued, g)]
           old == {k \in Finished(mid) :
                     Cardinality({i \in Finished(mid) : i > k}) >= MaxTerminal}
<1>1. mid \in [JobIds -> Job] /\ mid[j] = NewJob(Queued, g)
  BY NewJobType
<1>2. j \notin old /\ old \in SUBSET Finished(mid)
  BY <1>1 DEF Finished, NewJob, TerminalStatus, Queued, Completed, Cancelled, Failed
<1>3. \A k \in JobIds \ {j} : mid[k] = js[k]
  OBVIOUS
<1>4. CreateJob(js, j, g) = Forget(mid, old) /\ CreateJob(js, j, g) = PruneLocked(mid)
  BY DEF CreateJob, PruneLocked
<1> HIDE DEF mid, old
<1>5. CreateJob(js, j, g) \in [JobIds -> Job]
  BY <1>1, <1>4, TableTypes
<1>6. CreateJob(js, j, g)[j] = NewJob(Queued, g)
  BY <1>1, <1>2, <1>4 DEF Forget
<1>7. ASSUME NEW k \in JobIds \ {j}
      PROVE  KeptOrForgotten(js, CreateJob(js, j, g), k)
  <2>1. KeptOrForgotten(mid, CreateJob(js, j, g), k)
    BY <1>1, <1>2, <1>4, ForgetEffect
  <2>2. QED
    BY <1>3, <2>1 DEF KeptOrForgotten
<1>8. QED
  BY <1>5, <1>6, <1>7 DEF NewJob

(* With a long enough limit list_jobs leaves no record out. *)
LEMMA ListedIsStored ==
  ASSUME ListIsLongEnough, NEW js \in [JobIds -> Job]
  PROVE  Listed(js) = Stored(js)
<1>1. SUFFICES ASSUME NEW j \in Stored(js)
               PROVE  Cardinality({k \in Stored(js) : k > j}) < ListLimit
  BY DEF Listed
<1> DEFINE newer == {k \in Stored(js) : k > j}
<1>2. j \in JobIds /\ newer \subseteq JobIds \ {j}
  BY DEF Stored, JobIds
<1>3. IsFiniteSet(JobIds) /\ Cardinality(JobIds) = MaxJobs
  BY FS_Interval, JobManagerAssumption DEF JobIds
<1>4. IsFiniteSet(JobIds \ {j}) /\ Cardinality(JobIds \ {j}) = MaxJobs - 1
  BY <1>2, <1>3, FS_RemoveElement
<1>5. Cardinality(newer) <= MaxJobs - 1 /\ Cardinality(newer) \in Nat
  BY <1>2, <1>4, FS_Subset, FS_CardinalityType
<1>6. QED
  BY <1>5, JobManagerAssumption DEF ListIsLongEnough
---------------------------------------------------------------------------
(* Type correctness.                                                       *)

(* Every step keeps the variables in their types: no operation of either   *)
(* thread leaves a record that the job tools could not show.               *)
THEOREM TypeCorrect == Spec => []TypeOK
<1> USE DEF TypeOK, None
<1>1. Init => TypeOK
  BY JobManagerAssumption, JobSchedulerAssumption, NewJobType DEF Init, NoJobs
<1>2. TypeOK /\ [Next]_vars => TypeOK'
  <2> SUFFICES ASSUME TypeOK, [Next]_vars PROVE TypeOK'
    OBVIOUS
  <2> USE JobManagerAssumption, JobSchedulerAssumption
  <2>1. CASE SubmitRead
    BY <2>1 DEF SubmitRead
  <2>2. CASE SubmitCreate
    BY <2>2, CreateJobEffect DEF SubmitCreate
  <2>3. CASE PumpIdle
    BY <2>3 DEF PumpIdle, vars
  <2>4. CASE PumpStale
    BY <2>4, TableTypes DEF PumpStale, Progress
  <2>5. CASE PumpStart
    BY <2>5, TableTypes DEF PumpStart, Progress
  <2>6. CASE PumpResume
    BY <2>6 DEF PumpResume
  <2>7. CASE PumpDrop
    BY <2>7, CleanupType DEF PumpDrop
  <2>8. CASE ChunkYield
    BY <2>8 DEF ChunkYield
  <2>9. CASE ChunkReturn
    <3>1. chunk \in JobIds
      BY <2>9 DEF ChunkReturn, InChunk
    <3>2. jobs' \in [JobIds -> Job] /\ active' = None
      BY <2>9, <3>1, TableTypes, CleanupType DEF ChunkReturn
    <3>3. QED
      BY <2>9, <3>2 DEF ChunkReturn
  <2>10. CASE ChunkRaise
    BY <2>10, TableTypes DEF ChunkRaise, InChunk, Progress
  <2>11. CASE Report
    <3>1. chunk \in JobIds /\ {"some", "full"} \subseteq Progress
      BY <2>11 DEF Report, InChunk, Progress
    <3>2. jobs' \in [JobIds -> Job]
      BY <2>11, <3>1, TableTypes DEF Report
    <3>3. QED
      BY <2>11, <3>2 DEF Report
  <2>12. CASE CancelTool
    BY <2>12, TableTypes DEF CancelTool, Stored, Progress
  <2>13. CASE DeleteTool
    <3>1. PICK j \in Finished(jobs) : jobs' = Forget(jobs, {j})
      BY <2>13 DEF DeleteTool
    <3>2. {j} \in SUBSET JobIds
      BY DEF Finished
    <3>3. QED
      BY <2>13, <3>1, <3>2, TableTypes DEF DeleteTool
  <2>14. CASE PruneTool
    <3>1. Finished(jobs) \in SUBSET JobIds
      BY DEF Finished
    <3>2. QED
      BY <2>14, <3>1, TableTypes DEF PruneTool
  <2>15. CASE Unregister
    <3>1. Listed(jobs) \in SUBSET JobIds
      BY DEF Listed, Stored
    <3>2. jobs' \in [JobIds -> Job]
      BY <2>15, <3>1, TableTypes DEF Unregister, Reset
    <3>3. QED
      BY <2>15, <3>2 DEF Unregister, Reset
  <2>16. CASE StopServer
    BY <2>16 DEF StopServer
  <2>17. CASE Register
    BY <2>17 DEF Register
  <2>18. CASE UNCHANGED vars
    BY <2>18 DEF vars
  <2>19. QED
    BY <2>1, <2>2, <2>3, <2>4, <2>5, <2>6, <2>7, <2>8, <2>9, <2>10, <2>11, <2>12,
       <2>13, <2>14, <2>15, <2>16, <2>17, <2>18 DEF Next, Pump, ChunkEnd, JobTool
<1>3. QED
  BY <1>1, <1>2, PTL DEF Spec
---------------------------------------------------------------------------
(* The inductive invariant.                                                *)

IInv == TypeOK /\ GeneratorIsCurrent /\ Bookkeeping

\* No step of either thread breaks the tie between table and scheduler.
LEMMA SchedulerStep ==
  ASSUME IInv, TypeOK', [Next]_vars
  PROVE  IInv'
<1> USE DEF IInv, TypeOK, GeneratorIsCurrent, Bookkeeping, None,
            StoredStatus, ActiveStatus, TerminalStatus,
            Queued, Running, Absent, Forgotten, Completed, Cancelled, Failed
<1>0. JobIds \subseteq Nat \ {0}
  BY JobManagerAssumption DEF JobIds
<1>1. CASE SubmitRead
  BY <1>1 DEF SubmitRead
<1>2. CASE SubmitCreate
  <2>1. PICK j \in JobIds : /\ jobs[j].status = Absent
                            /\ \A k \in JobIds : k < j => jobs[k].status # Absent
                            /\ jobs' = CreateJob(jobs, j, submitting)
    BY <1>2 DEF SubmitCreate
  <2>2. submitting \in Nat
    BY <1>2 DEF SubmitCreate
  <2>3. jobs'[j].status = Queued /\ ~jobs'[j].cancelled
    BY <2>1, <2>2, CreateJobEffect
  <2>4. ASSUME NEW k \in JobIds \ {j} PROVE KeptOrForgotten(jobs, jobs', k)
    BY <2>1, <2>2, CreateJobEffect
  <2>5. UNCHANGED <<generation, addon, active, chunk, lastStarted>>
    BY <1>2 DEF SubmitCreate
  <2>6. GeneratorIsCurrent'
    BY <2>1, <2>3, <2>4, <2>5 DEF KeptOrForgotten
  <2>7. Bookkeeping'
    <3>1. ASSUME NEW i \in JobIds
          PROVE  /\ jobs'[i].status \in ActiveStatus => ~jobs'[i].cancelled
                 /\ jobs'[i].status \in {Absent, Queued} => lastStarted < i
      BY <2>1, <2>3, <2>4 DEF KeptOrForgotten
    <3>2. ASSUME NEW i \in JobIds, NEW k \in JobIds, k > i, jobs'[i].status = Absent
          PROVE  jobs'[k].status = Absent
      BY <1>0, <2>1, <2>3, <2>4, <3>2 DEF KeptOrForgotten
    <3>3. chunk # None => /\ jobs'[chunk].status \notin {Absent, Queued}
                          /\ active \in {None, chunk}
      BY <2>1, <2>4 DEF KeptOrForgotten
    <3>4. QED
      BY <2>5, <3>1, <3>2, <3>3
  <2>8. QED
    BY <2>6, <2>7
<1>3. CASE PumpIdle
  BY <1>3 DEF PumpIdle, vars
<1>4. CASE PumpStale
  BY <1>4 DEF PumpStale, PumpTick, IsNextQueued, FailJob, Settles, Stored
<1>5. CASE PumpStart
  <2>1. PICK j \in JobIds : /\ IsNextQueued(jobs, j)
                            /\ jobs[j].generation = generation
                            /\ jobs' = MarkRunning(jobs, j)
                            /\ active' = j /\ chunk' = j /\ lastStarted' = j
    BY <1>5 DEF PumpStart
  <2>2. addon = "enabled" /\ active = None /\ UNCHANGED <<generation, addon>>
    BY <1>5 DEF PumpStart, PumpTick
  <2>3. /\ jobs'[j].status = Running
        /\ jobs'[j].cancelled = jobs[j].cancelled
        /\ jobs'[j].generation = jobs[j].generation
        /\ \A k \in JobIds \ {j} : jobs'[k] = jobs[k]
    <3>1. jobs[j] \in Job /\ jobs' = [jobs EXCEPT ![j].status = Running]
      BY <2>1 DEF MarkRunning
    <3>2. QED
      BY <3>1 DEF Job
  <2>4. GeneratorIsCurrent'
    BY <1>0, <2>1, <2>2, <2>3
  <2>5. Bookkeeping'
    <3>1. ASSUME NEW i \in JobIds
          PROVE  jobs'[i].status \in ActiveStatus => ~jobs'[i].cancelled
      BY <2>1, <2>3 DEF IsNextQueued
    <3>2. ASSUME NEW i \in JobIds, NEW k \in JobIds, k > i, jobs'[i].status = Absent
          PROVE  jobs'[k].status = Absent
      BY <2>1, <2>3, <3>2 DEF IsNextQueued
    <3>3. ASSUME NEW i \in JobIds, jobs'[i].status \in {Absent, Queued}
          PROVE  j < i
      BY <1>0, <2>1, <2>3, <3>3 DEF IsNextQueued
    <3>4. QED
      BY <2>1, <2>3, <3>1, <3>2, <3>3
  <2>6. QED
    BY <2>4, <2>5
<1>6. CASE PumpResume
  BY <1>6 DEF PumpResume, PumpTick, Dropped, Stored
<1>7. CASE PumpDrop
  BY <1>7 DEF PumpDrop, PumpTick, Dropped, CancelCleanup, Stored
<1>8. CASE ChunkYield
  BY <1>8 DEF ChunkYield
<1>9. CASE ChunkReturn
  <2>1. chunk \in JobIds /\ active \in {None, chunk} /\ active' = None /\ chunk' = None
    BY <1>9 DEF ChunkReturn, InChunk, CancelCleanup
  <2>2. \A k \in JobIds \ {chunk} : jobs'[k] = jobs[k]
    BY <1>9 DEF ChunkReturn, CancelCleanup, CompleteJob
  <2>3. /\ jobs'[chunk].status \in TerminalStatus \cup {Forgotten}
        /\ jobs'[chunk].cancelled = jobs[chunk].cancelled
    <3>1. /\ jobs[chunk] \in Job
          /\ jobs[chunk].status \in StoredStatus \cup {Forgotten}
      <4>1. jobs[chunk] \in Job
        BY <2>1
      <4>2. jobs[chunk].status \in StoredStatus \cup {Absent, Forgotten}
        BY <4>1 DEF Job
      <4>3. jobs[chunk].status # Absent
        BY <1>9 DEF ChunkReturn, InChunk
      <4>4. QED
        BY <4>1, <4>2, <4>3
    <3>2. chunk \in Stored(jobs) <=> jobs[chunk].status \in StoredStatus
      BY <2>1 DEF Stored
    <3>3. CASE jobs[chunk].cancelled
      <4>1. jobs' = IF chunk \in Stored(jobs) THEN [jobs EXCEPT ![chunk].status = Cancelled]
                                              ELSE jobs
        BY <1>9, <3>3 DEF ChunkReturn, CancelCleanup
      <4>2. CASE chunk \in Stored(jobs)
        BY <2>1, <3>1, <4>1, <4>2 DEF Job
      <4>3. CASE chunk \notin Stored(jobs)
        BY <3>1, <3>2, <4>1, <4>3
      <4>4. QED
        BY <4>2, <4>3
    <3>4. CASE ~jobs[chunk].cancelled
      <4>1. jobs' = IF chunk \in Stored(jobs)
                    THEN [jobs EXCEPT ![chunk].status = Completed,
                                      ![chunk].progress = "full"]
                    ELSE jobs
        BY <1>9, <3>4 DEF ChunkReturn, CompleteJob, Settles
      <4>2. CASE chunk \in Stored(jobs)
        BY <2>1, <3>1, <4>1, <4>2 DEF Job
      <4>3. CASE chunk \notin Stored(jobs)
        BY <3>1, <3>2, <4>1, <4>3
      <4>4. QED
        BY <4>2, <4>3
    <3>5. QED
      BY <3>3, <3>4
  <2>4. UNCHANGED <<generation, addon, lastStarted>>
    BY <1>9 DEF ChunkReturn
  <2>5. GeneratorIsCurrent'
    BY <2>1, <2>2, <2>3
  <2>6. Bookkeeping'
    <3>1. ASSUME NEW j \in JobIds
          PROVE  /\ jobs'[j].status \in ActiveStatus => ~jobs'[j].cancelled
                 /\ jobs'[j].status \in {Absent, Queued} => lastStarted < j
      BY <2>1, <2>2, <2>3
    <3>2. ASSUME NEW j \in JobIds, NEW k \in JobIds, k > j, jobs'[j].status = Absent
          PROVE  jobs'[k].status = Absent
      BY <1>0, <2>1, <2>2, <2>3, <3>2
    <3>3. QED
      BY <2>1, <2>4, <3>1, <3>2
  <2>7. QED
    BY <2>5, <2>6
<1>10. CASE ChunkRaise
  BY <1>10 DEF ChunkRaise, InChunk, FailJob, Settles, Stored
<1>11. CASE Report
  BY <1>11 DEF Report, InChunk, UpdateJob
<1>12. CASE CancelTool
  BY <1>12 DEF CancelTool, CancelJob, Stored
<1>13. CASE DeleteTool \/ PruneTool
  <2>1. PICK old \in SUBSET Finished(jobs) : jobs' = Forget(jobs, old)
    BY <1>13 DEF DeleteTool, PruneTool
  <2>2. ASSUME NEW k \in JobIds PROVE KeptOrForgotten(jobs, jobs', k)
    BY <2>1, ForgetEffect
  <2>3. UNCHANGED <<generation, addon, active, chunk, lastStarted>>
    BY <1>13 DEF DeleteTool, PruneTool
  <2>4. GeneratorIsCurrent'
    BY <2>2, <2>3 DEF KeptOrForgotten
  <2>5. Bookkeeping'
    BY <2>2, <2>3 DEF KeptOrForgotten
  <2>6. QED
    BY <2>4, <2>5
<1>14. CASE Unregister
  <2>1. jobs' = FailIfActive(jobs, Listed(jobs)) /\ active' = None
    BY <1>14 DEF Unregister, Reset
  <2>2. ASSUME NEW k \in JobIds
        PROVE  \/ jobs'[k] = jobs[k]
               \/ jobs'[k].status = Failed /\ jobs'[k].cancelled = jobs[k].cancelled
    <3>1. jobs'[k] = IF k \in Listed(jobs) /\ jobs[k].status \in ActiveStatus
                     THEN [jobs[k] EXCEPT !.status = Failed, !.error = TRUE]
                     ELSE jobs[k]
      BY <2>1 DEF FailIfActive
    <3>2. jobs[k] \in Job
      OBVIOUS
    <3>3. QED
      BY <3>1, <3>2 DEF Job
  <2>3. UNCHANGED <<chunk, lastStarted>>
    BY <1>14 DEF Unregister
  <2>4. GeneratorIsCurrent'
    BY <2>1, <2>2
  <2>5. Bookkeeping'
    <3>1. ASSUME NEW i \in JobIds
          PROVE  /\ jobs'[i].status \in ActiveStatus => ~jobs'[i].cancelled
                 /\ jobs'[i].status \in {Absent, Queued} => lastStarted < i
      BY <2>2
    <3>2. ASSUME NEW i \in JobIds, NEW k \in JobIds, k > i, jobs'[i].status = Absent
          PROVE  jobs'[k].status = Absent
      <4>1. jobs[k].status = Absent
        BY <2>2, <3>2
      <4>2. jobs'[k] = jobs[k]
        BY <2>1, <4>1 DEF FailIfActive
      <4>3. QED
        BY <4>1, <4>2
    <3>3. chunk # None => jobs'[chunk].status \notin {Absent, Queued}
      BY <2>2
    <3>4. QED
      BY <2>1, <2>3, <3>1, <3>2, <3>3
  <2>6. QED
    BY <2>4, <2>5
<1>15. CASE StopServer
  BY <1>15 DEF StopServer
<1>16. CASE Register
  BY <1>16 DEF Register
<1>17. CASE UNCHANGED vars
  BY <1>17 DEF vars
<1>18. QED
  BY <1>1, <1>2, <1>3, <1>4, <1>5, <1>6, <1>7, <1>8, <1>9, <1>10, <1>11, <1>12,
     <1>13, <1>14, <1>15, <1>16, <1>17 DEF Next, Pump, ChunkEnd, JobTool

(* A record says RUNNING only while the pump holds its generator.  This    *)
(* needs reset() to see every record, and the rest of the invariant.       *)
LEMMA RunningStep ==
  ASSUME ListIsLongEnough, IInv, RunningIsActive, [Next]_vars
  PROVE  RunningIsActive'
<1> USE DEF IInv, TypeOK, RunningIsActive, Bookkeeping, None
<1> USE DEF StoredStatus, ActiveStatus, TerminalStatus,
            Queued, Running, Absent, Forgotten, Completed, Cancelled, Failed
<1>0. JobIds \subseteq Nat \ {0}
  BY JobManagerAssumption DEF JobIds
<1>1. CASE SubmitRead
  BY <1>1 DEF SubmitRead
<1>2. CASE SubmitCreate
  <2>1. PICK j \in JobIds : jobs' = CreateJob(jobs, j, submitting)
    BY <1>2 DEF SubmitCreate
  <2>2. submitting \in Nat
    BY <1>2 DEF SubmitCreate
  <2>3. jobs'[j].status = Queued
    BY <2>1, <2>2, CreateJobEffect
  <2>4. ASSUME NEW k \in JobIds \ {j} PROVE KeptOrForgotten(jobs, jobs', k)
    BY <2>1, <2>2, CreateJobEffect
  <2>5. QED
    BY <1>2, <2>3, <2>4 DEF SubmitCreate, KeptOrForgotten
<1>3. CASE PumpIdle
  BY <1>3 DEF PumpIdle, vars
<1>4. CASE PumpStale
  BY <1>4 DEF PumpStale, FailJob, Settles, Job
<1>5. CASE PumpStart
  <2>1. PICK j \in JobIds : jobs' = [jobs EXCEPT ![j].status = Running] /\ active' = j
    BY <1>5 DEF PumpStart, MarkRunning
  <2>2. active = None /\ \A k \in JobIds \ {j} : jobs'[k] = jobs[k]
    BY <1>5, <2>1 DEF PumpStart
  <2>3. QED
    BY <1>0, <2>1, <2>2
<1>6. CASE PumpResume
  BY <1>6 DEF PumpResume
<1>7. CASE PumpDrop
  <2>1. active \in JobIds /\ (jobs[active].status = Running => active \in Stored(jobs))
    BY <1>7 DEF PumpDrop, Stored
  <2>2. /\ \A k \in JobIds \ {active} : jobs'[k] = jobs[k]
        /\ jobs'[active].status # Running
    BY <1>7, <2>1 DEF PumpDrop, CancelCleanup
  <2>3. QED
    BY <1>0, <2>1, <2>2
<1>8. CASE ChunkYield
  BY <1>8 DEF ChunkYield
<1>9. CASE ChunkReturn
  <2>1. chunk \in JobIds /\ active \in {None, chunk}
    BY <1>9 DEF ChunkReturn, InChunk
  <2>2. \A k \in JobIds \ {chunk} : jobs'[k] = jobs[k]
    BY <1>9 DEF ChunkReturn, CancelCleanup, CompleteJob
  <2>3. jobs'[chunk].status # Running
    <3>1. jobs[chunk] \in Job /\ (jobs[chunk].status = Running => chunk \in Stored(jobs))
      BY <2>1 DEF Stored
    <3>2. CASE jobs[chunk].cancelled
      <4>1. jobs' = IF chunk \in Stored(jobs) THEN [jobs EXCEPT ![chunk].status = Cancelled]
                                              ELSE jobs
        BY <1>9, <3>2 DEF ChunkReturn, CancelCleanup
      <4>2. QED
        BY <2>1, <3>1, <4>1
    <3>3. CASE ~jobs[chunk].cancelled
      <4>1. jobs' = IF chunk \in Stored(jobs)
                    THEN [jobs EXCEPT ![chunk].status = Completed,
                                      ![chunk].progress = "full"]
                    ELSE jobs
        BY <1>9, <3>3 DEF ChunkReturn, CompleteJob, Settles
      <4>2. CASE chunk \in Stored(jobs)
        BY <2>1, <3>1, <4>1, <4>2 DEF Job
      <4>3. CASE chunk \notin Stored(jobs)
        BY <3>1, <4>1, <4>3
      <4>4. QED
        BY <4>2, <4>3
    <3>4. QED
      BY <3>2, <3>3
  <2>4. QED
    BY <1>0, <2>1, <2>2, <2>3
<1>10. CASE ChunkRaise
  <2>1. chunk \in JobIds /\ active \in {None, chunk}
    BY <1>10 DEF ChunkRaise, InChunk
  <2>2. \A k \in JobIds \ {chunk} : jobs'[k] = jobs[k]
    BY <1>10 DEF ChunkRaise, FailJob
  <2>3. jobs'[chunk].status # Running
    <3>1. jobs[chunk] \in Job /\ (jobs[chunk].status = Running => chunk \in Stored(jobs))
      BY <2>1 DEF Stored
    <3>2. jobs[chunk].status = Running => ~jobs[chunk].cancelled
      BY <2>1
    <3>3. CASE Settles(jobs, chunk)
      BY <1>10, <2>1, <3>1, <3>3 DEF ChunkRaise, FailJob
    <3>4. CASE ~Settles(jobs, chunk)
      BY <1>10, <2>1, <3>1, <3>2, <3>4 DEF ChunkRaise, FailJob, Settles
    <3>5. QED
      BY <3>3, <3>4
  <2>4. QED
    BY <1>0, <2>1, <2>2, <2>3
<1>11. CASE Report
  BY <1>11 DEF Report, InChunk, UpdateJob
<1>12. CASE CancelTool
  BY <1>12 DEF CancelTool, CancelJob, Stored
<1>13. CASE DeleteTool \/ PruneTool
  <2>1. PICK old \in SUBSET Finished(jobs) : jobs' = Forget(jobs, old)
    BY <1>13 DEF DeleteTool, PruneTool
  <2>2. ASSUME NEW k \in JobIds PROVE KeptOrForgotten(jobs, jobs', k)
    BY <2>1, ForgetEffect
  <2>3. QED
    BY <1>13, <2>2 DEF DeleteTool, PruneTool, KeptOrForgotten
<1>14. CASE Unregister
  <2>1. jobs' = FailIfActive(jobs, Stored(jobs))
    BY <1>14, ListedIsStored DEF Unregister, Reset
  <2>2. ASSUME NEW k \in JobIds PROVE jobs'[k].status # Running
    <3>1. jobs'[k] = IF k \in Stored(jobs) /\ jobs[k].status \in ActiveStatus
                     THEN [jobs[k] EXCEPT !.status = Failed, !.error = TRUE]
                     ELSE jobs[k]
      BY <2>1 DEF FailIfActive
    <3>2. jobs[k] \in Job /\ (jobs[k].status = Running => k \in Stored(jobs))
      BY DEF Stored
    <3>3. QED
      BY <3>1, <3>2 DEF Job
  <2>3. QED
    BY <2>2
<1>15. CASE StopServer
  BY <1>15 DEF StopServer
<1>16. CASE Register
  BY <1>16 DEF Register
<1>17. CASE UNCHANGED vars
  BY <1>17 DEF vars
<1>18. QED
  BY <1>1, <1>2, <1>3, <1>4, <1>5, <1>6, <1>7, <1>8, <1>9, <1>10, <1>11, <1>12,
     <1>13, <1>14, <1>15, <1>16, <1>17 DEF Next, Pump, ChunkEnd, JobTool

(* For every number of jobs, chunks and reloads: the invariant that ties   *)
(* the job table to what the pump holds.                                   *)
THEOREM SchedulerInvariant == Spec => []IInv
<1>1. Init => IInv
  <2> SUFFICES ASSUME Init PROVE IInv
    OBVIOUS
  <2>1. TypeOK
    BY JobManagerAssumption, JobSchedulerAssumption, NewJobType
    DEF Init, NoJobs, TypeOK, None
  <2>2. JobIds \subseteq Nat \ {0}
    BY JobManagerAssumption DEF JobIds
  <2>3. \A j \in JobIds : jobs[j].status = Absent
    BY DEF Init, NoJobs, NewJob
  <2>4. QED
    BY <2>1, <2>2, <2>3
    DEF Init, IInv, GeneratorIsCurrent, Bookkeeping, None,
        ActiveStatus, Absent, Queued, Running
<1>2. IInv /\ TypeOK' /\ [Next]_vars => IInv'
  BY SchedulerStep
<1>3. QED
  BY <1>1, <1>2, TypeCorrect, PTL DEF Spec

(* Jobs are submitted and started oldest first, one that can still run is  *)
(* not flagged, and the generator on the stack is of a started job.        *)
THEOREM BookkeepingHolds == Spec => []Bookkeeping
  BY SchedulerInvariant, PTL DEF IInv

(* The pump never holds a generator of an earlier load of the add-on, nor  *)
(* one whose job ended otherwise than by being cancelled.                  *)
THEOREM GeneratorIsCurrentHolds == Spec => []GeneratorIsCurrent
  BY SchedulerInvariant, PTL DEF IInv

(* With a long enough list_jobs in reset(), no job stays RUNNING with      *)
(* nothing left to advance it.                                             *)
THEOREM RunningIsActiveHolds ==
  ASSUME ListIsLongEnough PROVE Spec => []RunningIsActive
<1>1. Init => RunningIsActive
  BY DEF Init, NoJobs, NewJob, RunningIsActive, Absent, Running
<1>2. IInv /\ RunningIsActive /\ [Next]_vars => RunningIsActive'
  BY RunningStep
<1>3. QED
  BY <1>1, <1>2, SchedulerInvariant, PTL DEF Spec

(* Table and scheduler agree through every cancel, deletion and reload.    *)
THEOREM SchedulerMatchesTableHolds ==
  ASSUME ListIsLongEnough PROVE Spec => []SchedulerMatchesTable
  BY RunningIsActiveHolds, GeneratorIsCurrentHolds, BookkeepingHolds, PTL
     DEF SchedulerMatchesTable
---------------------------------------------------------------------------
(* What a step may do: the action properties, and that the scheduler       *)
(* implements JobService.                                                  *)

\* All that new changes in js, but for job j, is that finished jobs are forgotten.
OnlyForgets(js, new, j) ==
  \E old \in SUBSET (Finished(js) \ {j}) :
    \A k \in JobIds \ {j} :
      new[k] = IF k \in old THEN [js[k] EXCEPT !.status = Forgotten] ELSE js[k]

(* A submission writes its own record; the pruning that comes with it only *)
(* forgets jobs that ended.                                                *)
LEMMA CreateJobForgets ==
  ASSUME NEW js \in [JobIds -> Job], NEW j \in JobIds, NEW g \in Nat
  PROVE  /\ CreateJob(js, j, g)[j] = NewJob(Queued, g)
         /\ OnlyForgets(js, CreateJob(js, j, g), j)
<1> DEFINE mid == [js EXCEPT ![j] = NewJob(Queued, g)]
           old == {k \in Finished(mid) :
                     Cardinality({i \in Finished(mid) : i > k}) >= MaxTerminal}
<1>1. CreateJob(js, j, g) = Forget(mid, old)
  BY DEF CreateJob, PruneLocked
<1>2. mid[j] = NewJob(Queued, g) /\ \A k \in JobIds \ {j} : mid[k] = js[k]
  OBVIOUS
<1>3. j \notin Finished(mid)
  BY <1>2 DEF Finished, NewJob, TerminalStatus, Queued, Completed, Cancelled, Failed
<1>4. Finished(mid) \subseteq Finished(js) \ {j}
  BY <1>2, <1>3 DEF Finished
<1>5. old \in SUBSET (Finished(js) \ {j})
  BY <1>4
<1>6. \A k \in JobIds :
        Forget(mid, old)[k] = IF k \in old THEN [mid[k] EXCEPT !.status = Forgotten]
                                           ELSE mid[k]
  BY DEF Forget
<1> HIDE DEF mid, old
<1>7. QED
  BY <1>1, <1>2, <1>5, <1>6 DEF OnlyForgets

(* A chunk begins only for a stored, running, uncancelled job of the       *)
(* present generation, whoever cancelled, deleted or reloaded what before. *)
LEMMA LicensedStep ==
  ASSUME IInv, [Next]_vars, chunk' # None, chunk = None
  PROVE  /\ jobs'[chunk'].status = Running
         /\ ~jobs[chunk'].cancelled
         /\ jobs[chunk'].generation = generation
<1> USE DEF IInv, TypeOK, Bookkeeping, None
<1>1. PumpStart \/ PumpResume
  BY DEF Next, vars, SubmitRead, SubmitCreate, Pump, PumpIdle, PumpStale, PumpDrop,
         ChunkEnd, ChunkYield, ChunkReturn, ChunkRaise, InChunk, Report,
         JobTool, CancelTool, DeleteTool, PruneTool, Unregister, StopServer, Register
<1>2. CASE PumpStart
  BY <1>2 DEF PumpStart, IsNextQueued, MarkRunning, ActiveStatus, Job
<1>3. CASE PumpResume
  BY <1>3 DEF PumpResume, Dropped, Stored, GeneratorIsCurrent, StoredStatus,
              ActiveStatus, TerminalStatus, Running, Cancelled, Forgotten,
              Queued, Completed, Failed
<1>4. QED
  BY <1>1, <1>2, <1>3

(* A job that starts is younger than every job that started before.        *)
LEMMA OrderStep ==
  ASSUME IInv, [Next]_vars, active = None, active' # None
  PROVE  active' > lastStarted
<1>1. PumpStart
  BY DEF Next, vars, SubmitRead, SubmitCreate, Pump, PumpIdle, PumpStale, PumpDrop,
         PumpResume, CancelCleanup, ChunkEnd, ChunkYield, ChunkReturn, ChunkRaise,
         Report, JobTool, CancelTool, DeleteTool, PruneTool, Unregister, Reset,
         StopServer, Register, None
<1>2. JobIds \subseteq Nat \ {0}
  BY JobManagerAssumption DEF JobIds
<1>3. QED
  BY <1>1, <1>2 DEF PumpStart, IsNextQueued, IInv, TypeOK, Bookkeeping, None

(* With a long enough list_jobs, reset() leaves no job queued or running.  *)
LEMMA ResetStep ==
  ASSUME ListIsLongEnough, IInv, [Next]_vars, addon = "enabled", addon' = "stopping",
         NEW j \in JobIds
  PROVE  jobs'[j].status \notin ActiveStatus
<1> USE DEF IInv, TypeOK
<1>1. Unregister
  BY DEF Next, vars, SubmitRead, SubmitCreate, Pump, PumpIdle, PumpStale, PumpDrop,
         PumpStart, PumpResume, ChunkEnd, ChunkYield, ChunkReturn, ChunkRaise,
         Report, JobTool, CancelTool, DeleteTool, PruneTool, StopServer, Register
<1>2. jobs' = FailIfActive(jobs, Stored(jobs))
  BY <1>1, ListedIsStored DEF Unregister, Reset
<1>3. jobs'[j] = IF j \in Stored(jobs) /\ jobs[j].status \in ActiveStatus
                 THEN [jobs[j] EXCEPT !.status = Failed, !.error = TRUE]
                 ELSE jobs[j]
  BY <1>2 DEF FailIfActive
<1>4. jobs[j] \in Job /\ (jobs[j].status \in ActiveStatus => j \in Stored(jobs))
  BY DEF Stored, StoredStatus
<1>5. QED
  BY <1>3, <1>4 DEF Job, ActiveStatus, Failed, Queued, Running

(* No step rewrites the outcome of a job that ended, but the end of a      *)
(* chunk that reset() took from the scheduler.                             *)
LEMMA OutcomeStep ==
  ASSUME IInv, [Next]_vars, NEW j \in JobIds, jobs[j].status \in TerminalStatus
  PROVE  \/ Outcome(j)' = Outcome(j)
         \/ jobs'[j].status = Forgotten
         \/ chunk = j /\ active # j
<1> USE DEF IInv, TypeOK, Outcome, None
<1> USE DEF TerminalStatus, StoredStatus, ActiveStatus,
            Queued, Running, Absent, Forgotten, Completed, Cancelled, Failed
<1>0. JobIds \subseteq Nat \ {0} /\ jobs[j] \in Job
  BY JobManagerAssumption DEF JobIds
<1>1. CASE jobs'[j] = jobs[j]
  BY <1>1
<1>2. CASE jobs'[j] = [jobs[j] EXCEPT !.status = Forgotten]
  BY <1>0, <1>2 DEF Job
<1>3. CASE SubmitCreate
  <2>1. submitting \in Nat
    BY <1>3 DEF SubmitCreate
  <2>2. PICK n \in JobIds : n # j /\ jobs' = CreateJob(jobs, n, submitting)
    BY <1>3 DEF SubmitCreate
  <2>3. OnlyForgets(jobs, jobs', n)
    BY <2>1, <2>2, CreateJobForgets
  <2>4. QED
    BY <1>1, <1>2, <2>2, <2>3 DEF OnlyForgets
<1>4. CASE PumpStale \/ PumpStart \/ Report \/ Unregister
  BY <1>0, <1>1, <1>4 DEF PumpStale, PumpStart, IsNextQueued, FailJob, MarkRunning,
                          Report, InChunk, UpdateJob, Unregister, Reset, FailIfActive
<1>5. CASE PumpDrop
  <2>1. CASE active # j
    BY <1>1, <1>5, <2>1 DEF PumpDrop, CancelCleanup
  <2>2. CASE active = j
    <3>1. jobs[j].status = Cancelled
      BY <1>0, <2>2 DEF GeneratorIsCurrent
    <3>2. jobs'[j] = [jobs[j] EXCEPT !.status = Cancelled]
      BY <1>5, <2>2, <3>1 DEF PumpDrop, CancelCleanup, Stored
    <3>3. QED
      BY <1>0, <3>1, <3>2 DEF Job
  <2>3. QED
    BY <2>1, <2>2
<1>6. CASE ChunkReturn \/ ChunkRaise
  <2>1. CASE chunk # j
    BY <1>1, <1>6, <2>1
    DEF ChunkReturn, ChunkRaise, InChunk, CancelCleanup, CompleteJob, FailJob
  <2>2. CASE chunk = j /\ active = j
    <3>1. jobs[j].status = Cancelled /\ jobs[j].cancelled
      BY <1>0, <2>2 DEF GeneratorIsCurrent
    <3>2. jobs'[j] = jobs[j] \/ jobs'[j] = [jobs[j] EXCEPT !.status = Cancelled]
      BY <1>6, <2>2, <3>1
      DEF ChunkReturn, ChunkRaise, CancelCleanup, FailJob, Settles, Stored
    <3>3. QED
      BY <1>0, <1>1, <3>1, <3>2 DEF Job
  <2>3. QED
    BY <2>1, <2>2
<1>7. CASE CancelTool
  <2>1. PICK n \in JobIds : jobs' = CancelJob(jobs, n)
    BY <1>7 DEF CancelTool, Stored
  <2>2. CASE n # j
    BY <1>1, <2>1, <2>2 DEF CancelJob
  <2>3. CASE n = j
    <3>1. jobs'[j].status = jobs[j].status /\ jobs'[j].error = jobs[j].error
          /\ jobs'[j].progress = jobs[j].progress
      BY <1>0, <2>1, <2>3 DEF CancelJob, Job
    <3>2. QED
      BY <3>1
  <2>4. QED
    BY <2>2, <2>3
<1>8. CASE DeleteTool \/ PruneTool
  <2>1. jobs'[j] = jobs[j] \/ jobs'[j] = [jobs[j] EXCEPT !.status = Forgotten]
    BY <1>8 DEF DeleteTool, PruneTool, Forget
  <2>2. QED
    BY <1>1, <1>2, <2>1
<1>9. CASE jobs' = jobs
  BY <1>1, <1>9
<1>10. QED
  BY <1>3, <1>4, <1>5, <1>6, <1>7, <1>8, <1>9
  DEF Next, Pump, ChunkEnd, JobTool, vars, SubmitRead, PumpIdle, PumpResume,
      ChunkYield, StopServer, Register

(* For every number of jobs, chunks and reloads: what the pump puts on the *)
(* main thread's stack may run.                                            *)
THEOREM ChunksAreLicensedHolds == Spec => ChunksAreLicensed
<1>1. IInv /\ [Next]_vars =>
        (chunk' # None /\ chunk = None =>
           /\ jobs'[chunk'].status = Running
           /\ ~jobs[chunk'].cancelled
           /\ jobs[chunk'].generation = generation)
  BY LicensedStep
<1>2. QED
  BY <1>1, SchedulerInvariant, PTL DEF Spec, ChunksAreLicensed

(* Jobs start in the order of their submission, none twice.                *)
THEOREM StartsInOrderHolds == Spec => StartsInOrder
<1>1. IInv /\ [Next]_vars =>
        (chunk' # None /\ active = None /\ active' # None => active' > lastStarted)
  BY OrderStep
<1>2. QED
  BY <1>1, SchedulerInvariant, PTL DEF Spec, StartsInOrder

(* reset() fails everything outstanding, as its docstring promises, as     *)
(* long as list_jobs returns every record.                                 *)
THEOREM ResetFailsAllHolds ==
  ASSUME ListIsLongEnough PROVE Spec => ResetFailsAll
<1>1. IInv /\ [Next]_vars =>
        (addon = "enabled" /\ addon' = "stopping" =>
           \A j \in JobIds : jobs'[j].status \notin ActiveStatus)
  BY ResetStep
<1>2. QED
  BY <1>1, SchedulerInvariant, PTL DEF Spec, ResetFailsAll

(* Once a job ended its outcome is final until it is forgotten, but for    *)
(* the chunk that was running when its add-on was disabled under it.       *)
THEOREM OutcomesAreFinalHolds == Spec => OutcomesAreFinal
<1>1. IInv /\ [Next]_vars =>
        \A j \in JobIds :
          jobs[j].status \in TerminalStatus =>
            \/ Outcome(j)' = Outcome(j)
            \/ jobs'[j].status = Forgotten
            \/ chunk = j /\ active # j
  BY OutcomeStep
<1>2. QED
  BY <1>1, SchedulerInvariant, PTL DEF Spec, OutcomesAreFinal
---------------------------------------------------------------------------
(* The scheduler implements JobService.                                    *)

Phases == [j \in JobIds |-> PhaseOf(jobs[j].status)]

(* The phase of a job, read off its record.                                *)
LEMMA PhaseIs ==
  ASSUME NEW j \in JobIds, jobs \in [JobIds -> Job]
  PROVE  /\ Phases[j] = PhaseOf(jobs[j].status)
         /\ Phases[j] = "absent" <=> jobs[j].status = Absent
         /\ Phases[j] = "waiting" <=> jobs[j].status = Queued
         /\ Phases[j] = "working" <=> jobs[j].status = Running
         /\ Phases[j] = "ended" <=> jobs[j].status \in TerminalStatus
<1>1. jobs[j].status \in {Absent, Queued, Running, Forgotten,
                          Completed, Cancelled, Failed}
  BY DEF Job, StoredStatus, ActiveStatus, TerminalStatus
<1>2. QED
  BY <1>1 DEF Phases, PhaseOf, TerminalStatus, Queued, Running, Absent, Forgotten,
              Completed, Cancelled, Failed

(* A step that may only take stored records to a terminal status is an End *)
(* of the service: of the jobs that were still waiting or working.         *)
LEMMA EndOfSome ==
  ASSUME TypeOK,
         \A j \in JobIds : \/ jobs'[j].status = jobs[j].status
                           \/ /\ jobs[j].status \in StoredStatus
                              /\ jobs'[j].status \in TerminalStatus
  PROVE  Service!End
<1> DEFINE S == {j \in JobIds : Phases'[j] # Phases[j]}
<1>1. \A j \in JobIds : Phases'[j] # Phases[j] =>
        Phases[j] \in {"waiting", "working"} /\ Phases'[j] = "ended"
  BY DEF Phases, PhaseOf, StoredStatus, ActiveStatus, TerminalStatus, Queued,
         Running, Absent, Forgotten, Completed, Cancelled, Failed
<1>2. S \in SUBSET (Service!In("waiting") \cup Service!In("working"))
  BY <1>1 DEF Service!In, Service!JobIds, JobIds, Phases
<1>3. Phases' = [k \in JobIds |-> IF k \in S THEN "ended" ELSE Phases[k]]
  BY <1>1 DEF Phases
<1> HIDE DEF S
<1>4. QED
  BY <1>2, <1>3 DEF Service!End, Service!JobIds, JobIds, Phases

(* Forgetting finished records is an Expire of the service.                *)
LEMMA ExpiryOfSome ==
  ASSUME TypeOK, NEW old \in SUBSET Finished(jobs), jobs' = Forget(jobs, old)
  PROVE  Service!Expire
<1>1. \A j \in JobIds : jobs[j] \in Job /\ jobs'[j].status =
                          IF j \in old THEN Forgotten ELSE jobs[j].status
  BY DEF TypeOK, Forget, Job
<1>2. old \in SUBSET Service!In("ended")
  BY PhaseIs DEF TypeOK, Finished, Service!In, Service!JobIds, JobIds, Phases
<1>3. Phases' = [k \in JobIds |-> IF k \in old THEN "forgotten" ELSE Phases[k]]
  BY <1>1 DEF Phases, PhaseOf, Absent, Queued, Running, Forgotten
<1>4. QED
  BY <1>2, <1>3 DEF Service!Expire, Service!JobIds, JobIds, Phases

(* Making a record is a Submit, the pruning that comes with it included.   *)
LEMMA SubmitCreateSubmits ==
  ASSUME TypeOK, SubmitCreate
  PROVE  Service!Submit
<1>1. submitting \in Nat /\ jobs \in [JobIds -> Job]
  BY DEF SubmitCreate, TypeOK
<1>2. PICK j \in JobIds : /\ jobs[j].status = Absent
                          /\ \A k \in JobIds : k < j => jobs[k].status # Absent
                          /\ jobs' = CreateJob(jobs, j, submitting)
  BY DEF SubmitCreate
<1>3. jobs'[j].status = Queued /\ OnlyForgets(jobs, jobs', j)
  <2>1. jobs'[j] = NewJob(Queued, submitting) /\ OnlyForgets(jobs, jobs', j)
    BY <1>1, <1>2, CreateJobForgets
  <2>2. QED
    BY <2>1 DEF NewJob
<1>4. PICK old \in SUBSET (Finished(jobs) \ {j}) :
        \A k \in JobIds \ {j} :
          jobs'[k] = IF k \in old THEN [jobs[k] EXCEPT !.status = Forgotten] ELSE jobs[k]
  BY <1>3 DEF OnlyForgets
<1>5. \A k \in JobIds \ {j} :
        jobs'[k].status = IF k \in old THEN Forgotten ELSE jobs[k].status
  BY <1>1, <1>4 DEF Job
<1>6. j \in Service!In("absent") /\ \A k \in Service!In("absent") : j <= k
  BY <1>1, <1>2, PhaseIs DEF Service!In, Service!JobIds, JobIds, Phases
<1>7. old \in SUBSET Service!In("ended")
  BY <1>1, PhaseIs DEF Finished, Service!In, Service!JobIds, JobIds, Phases
<1>8. Phases' = [k \in JobIds |-> IF k = j THEN "waiting"
                                  ELSE IF k \in old THEN "forgotten" ELSE Phases[k]]
  BY <1>3, <1>5 DEF Phases, PhaseOf, Absent, Queued, Running, Forgotten
<1>9. QED
  BY <1>6, <1>7, <1>8 DEF Service!Submit, Service!JobIds, JobIds, Phases

(* The pump starts a job only while no other job is RUNNING, because a     *)
(* RUNNING job is the one it holds.                                        *)
LEMMA PumpStartStarts ==
  ASSUME TypeOK, RunningIsActive, PumpStart
  PROVE  Service!Start
<1>1. PICK j \in JobIds : IsNextQueued(jobs, j) /\ jobs' = MarkRunning(jobs, j)
  BY DEF PumpStart
<1>2. jobs'[j].status = Running /\ \A k \in JobIds \ {j} : jobs'[k] = jobs[k]
  BY <1>1 DEF MarkRunning, TypeOK, Job
<1>3. JobIds \subseteq Nat \ {0}
  BY JobManagerAssumption DEF JobIds
<1>4. \A k \in JobIds : jobs[k].status # Running
  BY <1>3 DEF PumpStart, RunningIsActive, None
<1>5. Service!In("working") = {}
  BY <1>4, PhaseIs DEF TypeOK, Service!In, Service!JobIds, JobIds, Phases
<1>6. j \in Service!In("waiting") /\ \A k \in Service!In("waiting") : j <= k
  BY <1>1, PhaseIs DEF IsNextQueued, TypeOK, Service!In, Service!JobIds, JobIds, Phases
<1>7. Phases' = [Phases EXCEPT ![j] = "working"]
  <2>1. PhaseOf(Running) = "working"
    BY DEF PhaseOf, Absent, Queued, Running, Forgotten
  <2>2. Phases'[j] = "working" /\ \A k \in JobIds \ {j} : Phases'[k] = Phases[k]
    BY <1>2, <2>1 DEF Phases
  <2>3. Phases \in [JobIds -> {Phases[k] : k \in JobIds}] /\ Phases' = [k \in JobIds |-> Phases'[k]]
    BY DEF Phases
  <2>4. QED
    BY <2>2, <2>3
<1>8. QED
  BY <1>5, <1>6, <1>7 DEF Service!Start, Service!JobIds, JobIds, Phases

(* Every step of the scheduler is a step of the service or changes nothing *)
(* the service speaks of.                                                  *)
LEMMA SchedulerRefines ==
  ASSUME IInv, RunningIsActive, [Next]_vars
  PROVE  [Service!Next]_(Phases)
<1> USE DEF IInv, TypeOK
<1> USE DEF StoredStatus, ActiveStatus, TerminalStatus,
            Queued, Running, Absent, Forgotten, Completed, Cancelled, Failed
<1>1. CASE jobs' = jobs
  BY <1>1 DEF Phases
<1>2. CASE SubmitCreate
  BY <1>2, SubmitCreateSubmits DEF Service!Next
<1>3. CASE PumpStart
  BY <1>3, PumpStartStarts DEF Service!Next
<1>4. CASE DeleteTool \/ PruneTool
  <2>1. PICK old \in SUBSET Finished(jobs) : jobs' = Forget(jobs, old)
    BY <1>4 DEF DeleteTool, PruneTool
  <2>2. QED
    BY <2>1, ExpiryOfSome DEF Service!Next
<1>5. CASE \A j \in JobIds : \/ jobs'[j].status = jobs[j].status
                             \/ /\ jobs[j].status \in StoredStatus
                                /\ jobs'[j].status \in TerminalStatus
  BY <1>5, EndOfSome DEF Service!Next
<1>6. CASE PumpStale
  BY <1>5, <1>6 DEF PumpStale, FailJob, Settles, Stored, Job
<1>7. CASE PumpDrop
  BY <1>5, <1>7 DEF PumpDrop, CancelCleanup, Stored, Job
<1>8. CASE ChunkReturn
  BY <1>5, <1>8 DEF ChunkReturn, InChunk, CancelCleanup, CompleteJob, Settles, Stored, Job
<1>9. CASE ChunkRaise
  BY <1>5, <1>9 DEF ChunkRaise, InChunk, FailJob, Settles, Stored, Job
<1>10. CASE Report
  BY <1>5, <1>10 DEF Report, InChunk, UpdateJob, Job
<1>11. CASE CancelTool
  BY <1>5, <1>11 DEF CancelTool, CancelJob, Stored, Job
<1>12. CASE Unregister
  BY <1>5, <1>12 DEF Unregister, Reset, Listed, Stored, FailIfActive, Job
<1>13. QED
  BY <1>1, <1>2, <1>3, <1>4, <1>6, <1>7, <1>8, <1>9, <1>10, <1>11, <1>12
  DEF Next, Pump, ChunkEnd, JobTool, vars, SubmitRead, PumpIdle, PumpResume,
      ChunkYield, StopServer, Register

(* The table starts empty, and so does the service.                        *)
LEMMA ServiceInit == Init => Service!Init
<1>1. Init => \A j \in JobIds : jobs[j].status = Absent
  BY DEF Init, NoJobs, NewJob
<1>2. PhaseOf(Absent) = "absent"
  BY DEF PhaseOf, Absent, Queued, Running, Forgotten
<1>3. QED
  BY <1>1, <1>2 DEF Service!Init, Service!JobIds, JobIds

(* With a long enough list_jobs the scheduler serves its clients as        *)
(* JobService says, however many jobs, chunks and reloads there are: one   *)
(* job at a time, oldest first, none twice, none forgotten before it ended. *)
THEOREM JobServiceImplemented ==
  ASSUME ListIsLongEnough PROVE Spec => ImplementsJobService
<1>1. IInv /\ RunningIsActive /\ [Next]_vars => [Service!Next]_(Phases)
  BY SchedulerRefines
<1>2. IInv /\ RunningIsActive /\ [Next]_vars =>
        [Service!Next]_([j \in JobIds |-> PhaseOf(jobs[j].status)])
  BY <1>1 DEF Phases
<1>3. QED
  BY <1>2, ServiceInit, SchedulerInvariant, RunningIsActiveHolds, PTL
  DEF Spec, ImplementsJobService, Service!Spec
---------------------------------------------------------------------------
(* What JobService promises its clients, and so what the scheduler does.   *)

\* The phases stay in order at every step of the service.
LEMMA ServiceKeeps ==
  ASSUME Service!TypeOK, Service!EarlierJobsAreOver, [Service!Next]_(Phases)
  PROVE  Service!TypeOK' /\ Service!EarlierJobsAreOver'
<1>1. /\ Phases \in [JobIds -> Service!Phase]
      /\ \A i, j \in JobIds :
           i < j => /\ Phases[j] # "absent" => Phases[i] # "absent"
                    /\ Phases[j] = "working" => Phases[i] \in {"ended", "forgotten"}
  BY DEF Service!TypeOK, Service!EarlierJobsAreOver, Service!JobIds, JobIds, Phases
<1>2. JobIds \subseteq Nat
  BY JobManagerAssumption DEF JobIds
<1> DEFINE Order(p) == /\ p \in [JobIds -> Service!Phase]
                       /\ \A i, j \in JobIds :
                            i < j => /\ p[j] # "absent" => p[i] # "absent"
                                     /\ p[j] = "working" => p[i] \in {"ended", "forgotten"}
<1>3. ASSUME Service!Submit PROVE Order(Phases')
  <2>1. PICK j \in JobIds, old \in SUBSET {k \in JobIds : Phases[k] = "ended"} :
          /\ Phases[j] = "absent"
          /\ \A k \in JobIds : Phases[k] = "absent" => j <= k
          /\ Phases' = [k \in JobIds |-> IF k = j THEN "waiting"
                                         ELSE IF k \in old THEN "forgotten" ELSE Phases[k]]
    BY <1>3, ZenonT(60) DEF Service!Submit, Service!In, Service!JobIds, JobIds, Phases
  <2>2. QED
    BY <1>1, <1>2, <2>1 DEF Service!Phase
<1>4. ASSUME Service!Start PROVE Order(Phases')
  <2>1. PICK j \in JobIds :
          /\ Phases[j] = "waiting"
          /\ \A k \in JobIds : Phases[k] # "working"
          /\ \A k \in JobIds : Phases[k] = "waiting" => j <= k
          /\ Phases' = [Phases EXCEPT ![j] = "working"]
    BY <1>4 DEF Service!Start, Service!In, Service!JobIds, JobIds, Phases
  <2>2. QED
    BY <1>1, <1>2, <2>1 DEF Service!Phase
<1>5. ASSUME Service!End PROVE Order(Phases')
  <2>1. PICK S \in SUBSET {k \in JobIds : Phases[k] \in {"waiting", "working"}} :
          Phases' = [k \in JobIds |-> IF k \in S THEN "ended" ELSE Phases[k]]
    BY <1>5 DEF Service!End, Service!In, Service!JobIds, JobIds, Phases
  <2>2. QED
    BY <1>1, <2>1 DEF Service!Phase
<1>6. ASSUME Service!Expire PROVE Order(Phases')
  <2>1. PICK old \in SUBSET {k \in JobIds : Phases[k] = "ended"} :
          Phases' = [k \in JobIds |-> IF k \in old THEN "forgotten" ELSE Phases[k]]
    BY <1>6 DEF Service!Expire, Service!In, Service!JobIds, JobIds, Phases
  <2>2. QED
    BY <1>1, <2>1 DEF Service!Phase
<1>7. Order(Phases')
  <2>1. CASE Phases' = Phases
    BY <1>1, <2>1
  <2>2. QED
    BY <1>3, <1>4, <1>5, <1>6, <2>1 DEF Service!Next
<1>8. QED
  BY <1>7 DEF Service!TypeOK, Service!EarlierJobsAreOver, Service!JobIds,
              JobIds, Phases

\* The service in any behaviour of the scheduler: its phases are in order.
LEMMA ServiceInvariant ==
  ASSUME ListIsLongEnough PROVE Spec => [](Service!TypeOK /\ Service!EarlierJobsAreOver)
<1>1. Service!Init => Service!TypeOK /\ Service!EarlierJobsAreOver
  BY DEF Service!Init, Service!TypeOK, Service!EarlierJobsAreOver, Service!Phase
<1>2. Service!TypeOK /\ Service!EarlierJobsAreOver /\ [Service!Next]_(Phases)
        => Service!TypeOK' /\ Service!EarlierJobsAreOver'
  BY ServiceKeeps
<1>3. Service!TypeOK /\ Service!EarlierJobsAreOver
        /\ [Service!Next]_([j \in JobIds |-> PhaseOf(jobs[j].status)])
        => Service!TypeOK' /\ Service!EarlierJobsAreOver'
  BY <1>2 DEF Phases
<1>4. QED
  BY <1>1, <1>3, JobServiceImplemented, PTL DEF ImplementsJobService, Service!Spec

Ended == TerminalStatus \cup {Forgotten}

\* While a job runs, every job submitted before it has ended: the queue is never
\* overtaken, and no second job runs, whatever is cancelled, deleted or reloaded.
THEOREM OldestRunsAlone ==
  ASSUME ListIsLongEnough
  PROVE  Spec => [](\A i, j \in JobIds :
                      i < j /\ jobs[j].status = Running => jobs[i].status \in Ended)
<1>1. TypeOK /\ Service!EarlierJobsAreOver =>
        \A i, j \in JobIds : i < j /\ jobs[j].status = Running => jobs[i].status \in Ended
  <2>1. SUFFICES ASSUME TypeOK, Service!EarlierJobsAreOver,
                        NEW i \in JobIds, NEW j \in JobIds, i < j, jobs[j].status = Running
                 PROVE  jobs[i].status \in Ended
    OBVIOUS
  <2>2. Phases[j] = "working"
    BY <2>1, PhaseIs DEF TypeOK
  <2>3. Phases[i] \in {"ended", "forgotten"}
    BY <2>1, <2>2 DEF Service!EarlierJobsAreOver, Service!JobIds, JobIds, Phases
  <2>4. jobs[i].status \in StoredStatus \cup {Absent, Forgotten}
    BY <2>1 DEF TypeOK, Job
  <2>5. QED
    BY <2>3, <2>4
    DEF Phases, PhaseOf, Ended, StoredStatus, ActiveStatus, TerminalStatus, Queued, Running,
        Absent, Forgotten, Completed, Cancelled, Failed
<1>2. QED
  BY <1>1, TypeCorrect, ServiceInvariant, PTL

\* A submission writes its own record, unspoilt, and forgets others at most.
LEMMA SubmitWrites ==
  ASSUME TypeOK, SubmitCreate
  PROVE  \E n \in JobIds :
           /\ jobs[n].status = Absent /\ jobs'[n].status = Queued /\ ~jobs'[n].error
           /\ \A k \in JobIds \ {n} : jobs'[k] = jobs[k] \/ jobs'[k].status = Forgotten
<1>1. submitting \in Nat /\ jobs \in [JobIds -> Job]
  BY DEF SubmitCreate, TypeOK
<1>2. PICK n \in JobIds : jobs[n].status = Absent /\ jobs' = CreateJob(jobs, n, submitting)
  BY DEF SubmitCreate
<1>3. jobs'[n] = NewJob(Queued, submitting) /\ OnlyForgets(jobs, jobs', n)
  BY <1>1, <1>2, CreateJobForgets
<1>4. jobs'[n].status = Queued /\ ~jobs'[n].error
  BY <1>3 DEF NewJob
<1>5. \A k \in JobIds \ {n} : \/ jobs'[k] = jobs[k]
                              \/ jobs'[k] = [jobs[k] EXCEPT !.status = Forgotten]
  BY <1>3 DEF OnlyForgets
<1>6. \A k \in JobIds \ {n} : jobs'[k] = jobs[k] \/ jobs'[k].status = Forgotten
  BY <1>1, <1>5 DEF Job
<1>7. QED
  BY <1>2, <1>4, <1>6

\* No step takes a job that has ended back.
LEMMA EndedStep ==
  ASSUME IInv, [Next]_vars, NEW i \in JobIds, jobs[i].status \in Ended
  PROVE  jobs'[i].status \in Ended
<1> USE DEF IInv, TypeOK
<1> USE DEF Ended, StoredStatus, ActiveStatus, TerminalStatus, Queued, Running, Absent,
            Forgotten, Completed, Cancelled, Failed
<1>1. CASE jobs' = jobs
  BY <1>1
<1>2. CASE SubmitCreate
  BY <1>2, SubmitWrites
<1>3. CASE PumpStart
  BY <1>3 DEF PumpStart, IsNextQueued, MarkRunning, Job
<1>4. CASE DeleteTool \/ PruneTool
  BY <1>4 DEF DeleteTool, PruneTool, Forget, Job
<1>5. CASE PumpStale
  BY <1>5 DEF PumpStale, FailJob, Settles, Stored, Job
<1>6. CASE PumpDrop
  BY <1>6 DEF PumpDrop, CancelCleanup, Stored, Job
<1>7. CASE ChunkReturn
  BY <1>7 DEF ChunkReturn, InChunk, CancelCleanup, CompleteJob, Settles, Stored, Job
<1>8. CASE ChunkRaise
  BY <1>8 DEF ChunkRaise, InChunk, FailJob, Settles, Stored, Job
<1>9. CASE Report
  BY <1>9 DEF Report, InChunk, UpdateJob, Job
<1>10. CASE CancelTool
  BY <1>10 DEF CancelTool, CancelJob, Stored, Job
<1>11. CASE Unregister
  BY <1>11 DEF Unregister, Reset, Listed, Stored, FailIfActive, Job
<1>12. QED
  BY <1>1, <1>2, <1>3, <1>4, <1>5, <1>6, <1>7, <1>8, <1>9, <1>10, <1>11
  DEF Next, Pump, ChunkEnd, JobTool, vars, SubmitRead, PumpIdle, PumpResume,
      ChunkYield, StopServer, Register

\* A job that has ended is never waiting or running again: no late completion, report or
\* submission revives it, however short the list that reset() reads.
THEOREM EndedIsForEver ==
  Spec => \A i \in JobIds : [](jobs[i].status \in Ended => [](jobs[i].status \in Ended))
<1> SUFFICES ASSUME NEW i \in JobIds
             PROVE  Spec => [](jobs[i].status \in Ended => [](jobs[i].status \in Ended))
  OBVIOUS
<1>1. IInv /\ [Next]_vars => (jobs[i].status \in Ended => (jobs[i].status \in Ended)')
  BY EndedStep
<1>2. QED
  BY <1>1, SchedulerInvariant, PTL DEF Spec
---------------------------------------------------------------------------
(* What becomes of jobs that a reload or a client ended under their chunk. *)

\* A job that ended between its chunks is not put on the stack again.
LEMMA LetGoStep ==
  ASSUME IInv, [Next]_vars, NEW i \in JobIds, jobs[i].status \in Ended, chunk # i
  PROVE  chunk' # i
<1> USE DEF IInv, TypeOK, None
<1> USE DEF Ended, StoredStatus, ActiveStatus, TerminalStatus, Queued, Running, Absent,
            Forgotten, Completed, Cancelled, Failed
<1>0. JobIds \subseteq Nat \ {0}
  BY JobManagerAssumption DEF JobIds
<1>1. CASE chunk' = chunk
  BY <1>1
<1>2. CASE PumpStart
  BY <1>2 DEF PumpStart, IsNextQueued
<1>3. CASE PumpResume
  <2>1. active # None /\ ~jobs[active].cancelled /\ chunk' = active
    BY <1>3 DEF PumpResume, Dropped
  <2>2. jobs[active].status = Running
    BY <2>1 DEF GeneratorIsCurrent
  <2>3. QED
    BY <2>1, <2>2
<1>4. CASE ChunkEnd
  BY <1>0, <1>4 DEF ChunkEnd, ChunkYield, ChunkReturn, ChunkRaise
<1>5. QED
  BY <1>1, <1>2, <1>3, <1>4
  DEF Next, Pump, JobTool, vars, SubmitRead, SubmitCreate, PumpIdle, PumpStale, PumpDrop,
      Report, CancelTool, DeleteTool, PruneTool, Unregister, StopServer, Register

\* A job that was cancelled, failed or deleted while its generator waited between two
\* chunks, or before it began, never runs another line: "the pump drops remaining chunks
\* before the next one starts", for ever.
THEOREM EndedNeverRunsAgain ==
  Spec => \A i \in JobIds :
            [](jobs[i].status \in Ended /\ chunk # i => [](chunk # i))
<1> SUFFICES ASSUME NEW i \in JobIds
             PROVE  Spec => [](jobs[i].status \in Ended /\ chunk # i => [](chunk # i))
  OBVIOUS
<1>1. IInv /\ [Next]_vars =>
        (jobs[i].status \in Ended /\ chunk # i => (jobs[i].status \in Ended /\ chunk # i)')
  BY EndedStep, LetGoStep
<1>2. QED
  BY <1>1, SchedulerInvariant, PTL DEF Spec

\* A job that can still run carries no error text.
Unspoilt == \A j \in JobIds : jobs[j].status \in {Absent, Queued, Running} => ~jobs[j].error

LEMMA UnspoiltStep ==
  ASSUME IInv, Unspoilt, [Next]_vars
  PROVE  Unspoilt'
<1> USE DEF IInv, TypeOK
<1> USE DEF Unspoilt, StoredStatus, ActiveStatus, TerminalStatus, Queued, Running, Absent,
            Forgotten, Completed, Cancelled, Failed
<1>1. CASE jobs' = jobs
  BY <1>1
<1>2. CASE SubmitCreate
  BY <1>2, SubmitWrites
<1>3. CASE PumpStart
  BY <1>3 DEF PumpStart, IsNextQueued, MarkRunning, Job
<1>4. CASE DeleteTool \/ PruneTool
  BY <1>4 DEF DeleteTool, PruneTool, Forget, Job
<1>5. CASE PumpStale
  BY <1>5 DEF PumpStale, FailJob, Settles, Stored, Job
<1>6. CASE PumpDrop
  BY <1>6 DEF PumpDrop, CancelCleanup, Stored, Job
<1>7. CASE ChunkReturn
  BY <1>7 DEF ChunkReturn, InChunk, CancelCleanup, CompleteJob, Settles, Stored, Job
<1>8. CASE ChunkRaise
  BY <1>8 DEF ChunkRaise, InChunk, FailJob, Settles, Stored, Job
<1>9. CASE Report
  BY <1>9 DEF Report, InChunk, UpdateJob, Job
<1>10. CASE CancelTool
  BY <1>10 DEF CancelTool, CancelJob, Stored, Job
<1>11. CASE Unregister
  BY <1>11 DEF Unregister, Reset, Listed, Stored, FailIfActive, Job
<1>12. QED
  BY <1>1, <1>2, <1>3, <1>4, <1>5, <1>6, <1>7, <1>8, <1>9, <1>10, <1>11
  DEF Next, Pump, ChunkEnd, JobTool, vars, SubmitRead, PumpIdle, PumpResume,
      ChunkYield, StopServer, Register

(* A job that is reported as completed although it carries an error text   *)
(* (the run jobs_reload_in_chunk finds one) was completed by a chunk that  *)
(* reloaded the add-on above itself, and in no other way.                  *)
THEOREM OnlyReloadersCompleteWithError ==
  Spec => [][\A j \in JobIds :
               jobs'[j].status = Completed /\ jobs'[j].error =>
                 \/ jobs[j].status = Completed /\ jobs[j].error
                 \/ chunk = j /\ active # j]_vars
<1> DEFINE Caught == \A j \in JobIds :
                       jobs'[j].status = Completed /\ jobs'[j].error =>
                         \/ jobs[j].status = Completed /\ jobs[j].error
                         \/ chunk = j /\ active # j
<1>1. ASSUME IInv, Unspoilt, [Next]_vars PROVE Caught
  <2> SUFFICES ASSUME NEW j \in JobIds, jobs'[j].status = Completed, jobs'[j].error,
                      ~(chunk = j /\ active # j)
               PROVE  jobs[j].status = Completed /\ jobs[j].error
    OBVIOUS
  <2>1. CASE jobs[j].status \in TerminalStatus
    BY <1>1, <2>1, OutcomeStep DEF Outcome, Completed, Forgotten
  <2>2. CASE jobs[j].status \notin TerminalStatus
    <3> USE <1>1 DEF IInv, TypeOK, None
    <3> USE DEF Unspoilt, StoredStatus, ActiveStatus, TerminalStatus, Queued, Running,
                Absent, Forgotten, Completed, Cancelled, Failed
    <3>1. CASE ChunkReturn
      BY <2>2, <3>1 DEF ChunkReturn, InChunk, CancelCleanup, CompleteJob, Settles, Stored, Job
    <3>2. CASE SubmitCreate
      BY <1>1, <2>2, <3>2, SubmitWrites
    <3>3. CASE jobs' = jobs
      BY <2>2, <3>3
    <3>4. CASE PumpStale \/ PumpStart
      <4>1. CASE PumpStale
        BY <2>2, <4>1 DEF PumpStale, FailJob, Settles, Stored, Job
      <4>2. CASE PumpStart
        BY <2>2, <4>2 DEF PumpStart, IsNextQueued, MarkRunning, Stored, Job
      <4>3. QED
        BY <3>4, <4>1, <4>2
    <3>5. CASE PumpDrop \/ ChunkRaise
      BY <2>2, <3>5 DEF PumpDrop, CancelCleanup, ChunkRaise, InChunk, FailJob, Settles,
                        Stored, Job
    <3>6. CASE Report \/ CancelTool
      <4>1. CASE Report
        BY <2>2, <4>1 DEF Report, InChunk, UpdateJob, Stored, Job
      <4>2. CASE CancelTool
        BY <2>2, <4>2 DEF CancelTool, CancelJob, Stored, Job
      <4>3. QED
        BY <3>6, <4>1, <4>2
    <3>7. CASE DeleteTool \/ PruneTool
      BY <2>2, <3>7 DEF DeleteTool, PruneTool, Forget, Job
    <3>8. CASE Unregister
      <4>1. jobs'[j].status = jobs[j].status \/ jobs'[j].status = Failed
        BY <3>8 DEF Unregister, Reset, FailIfActive, Job
      <4>2. QED
        BY <2>2, <4>1
    <3>9. QED
      BY <3>1, <3>2, <3>3, <3>4, <3>5, <3>6, <3>7, <3>8
      DEF Next, Pump, ChunkEnd, JobTool, vars, SubmitRead, PumpIdle, PumpResume,
          ChunkYield, StopServer, Register
  <2>3. QED
    BY <2>1, <2>2
<1>2. Init => Unspoilt
  BY DEF Init, Unspoilt, NoJobs, NewJob
<1>3. IInv /\ Unspoilt /\ [Next]_vars => Unspoilt'
  BY UnspoiltStep
<1>4. IInv /\ Unspoilt /\ [Next]_vars => Caught
  BY <1>1
<1>5. QED
  BY <1>2, <1>3, <1>4, SchedulerInvariant, PTL DEF Spec
---------------------------------------------------------------------------
(* The history of finished jobs.                                           *)

\* The members of S that are newer than j.
Newer(S, j) == {k \in S : k > j}

\* The younger of two has fewer that are newer.
LEMMA FewerAreNewer ==
  ASSUME NEW S \in SUBSET JobIds, NEW j \in S, NEW k \in S, j < k
  PROVE  /\ Cardinality(Newer(S, k)) \in Nat /\ Cardinality(Newer(S, j)) \in Nat
         /\ Cardinality(Newer(S, k)) < Cardinality(Newer(S, j))
<1>1. IsFiniteSet(JobIds)
  BY FS_Interval, JobManagerAssumption DEF JobIds
<1>0. \A i \in S : i \in Nat
  BY JobManagerAssumption DEF JobIds
<1>2. IsFiniteSet(S)
  BY <1>1, FS_Subset
<1>3. Newer(S, j) \in SUBSET S
  BY DEF Newer
<1>4. IsFiniteSet(Newer(S, j))
  BY <1>2, <1>3, FS_Subset
<1>5. Newer(S, k) \in SUBSET Newer(S, j) /\ k \in Newer(S, j) /\ k \notin Newer(S, k)
  <2>1. \A i \in S : i > k => i > j
    BY <1>0
  <2>2. k > j /\ ~(k > k)
    BY <1>0
  <2>3. QED
    BY <2>1, <2>2 DEF Newer
<1>6. /\ IsFiniteSet(Newer(S, k))
      /\ Cardinality(Newer(S, k)) <= Cardinality(Newer(S, j))
      /\ Cardinality(Newer(S, k)) # Cardinality(Newer(S, j))
  BY <1>4, <1>5, FS_Subset
<1>7. Cardinality(Newer(S, k)) \in Nat /\ Cardinality(Newer(S, j)) \in Nat
  BY <1>4, <1>6, FS_CardinalityType
<1>8. QED
  BY <1>6, <1>7

\* Those that have fewer than n newer ones are at most n: each has a number of its own.
LEMMA FewAreNewest ==
  ASSUME NEW S \in SUBSET JobIds, NEW n \in Nat
  PROVE  Cardinality({k \in S : Cardinality(Newer(S, k)) < n}) <= n
<1> DEFINE K == {k \in S : Cardinality(Newer(S, k)) < n}
           rank == [k \in K |-> Cardinality(Newer(S, k))]
<1>1. JobIds \subseteq Nat /\ IsFiniteSet(JobIds)
  BY FS_Interval, JobManagerAssumption DEF JobIds
<1>2. ASSUME NEW k \in K PROVE rank[k] \in 0..(n - 1)
  <2>1. IsFiniteSet(S) /\ Newer(S, k) \in SUBSET S
    BY <1>1, FS_Subset DEF Newer
  <2>2. Cardinality(Newer(S, k)) \in Nat
    BY <2>1, FS_Subset, FS_CardinalityType
  <2>3. QED
    BY <2>2
<1>3. ASSUME NEW j \in K, NEW k \in K, rank[j] = rank[k] PROVE j = k
  <2>1. ~(j < k) /\ ~(k < j)
    BY <1>3, FewerAreNewer
  <2>2. j \in Nat /\ k \in Nat
    BY <1>1
  <2>3. QED
    BY <2>1, <2>2
<1>4. rank \in Injection(K, 0..(n - 1))
  <2>1. rank \in [K -> 0..(n - 1)]
    BY <1>2
  <2>2. QED
    BY <1>3, <2>1 DEF Injection, IsInjective
<1>5. IsFiniteSet(0..(n - 1)) /\ Cardinality(0..(n - 1)) = n
  BY FS_Interval
<1> HIDE DEF K, rank
<1>6. Cardinality(K) <= n
  BY <1>4, <1>5, FS_Injection
<1>7. QED
  BY <1>6 DEF K

\* _prune_locked keeps the newest finished records and no others.
LEMMA PruneForgetsOldest ==
  ASSUME NEW js \in [JobIds -> Job]
  PROVE  ForgetsOldest(Finished(js), Finished(PruneLocked(js)))
<1> DEFINE before == Finished(js)
           after == {k \in before : Cardinality(Newer(before, k)) < MaxTerminal}
<1>0. before \in SUBSET JobIds /\ JobIds \subseteq Nat /\ MaxTerminal \in Nat
  BY JobManagerAssumption DEF JobIds, Finished
<1>1. IsFiniteSet(JobIds)
  BY FS_Interval, JobManagerAssumption DEF JobIds
<1>2. IsFiniteSet(before)
  BY <1>0, <1>1, FS_Subset
<1>3. ASSUME NEW k \in before
      PROVE  /\ IsFiniteSet(Newer(before, k)) /\ Cardinality(Newer(before, k)) \in Nat
             /\ Cardinality(Newer(before, k)) < Cardinality(before)
  <2>1. k \in Nat
    <3>1. k \in JobIds
      BY <1>0
    <3>2. QED
      BY <1>0, <3>1
  <2>2. Newer(before, k) \in SUBSET before /\ k \notin Newer(before, k)
    BY <2>1 DEF Newer
  <2>3. /\ IsFiniteSet(Newer(before, k))
        /\ Cardinality(Newer(before, k)) <= Cardinality(before)
        /\ Cardinality(Newer(before, k)) # Cardinality(before)
    BY <1>2, <2>2, FS_Subset
  <2>4. Cardinality(Newer(before, k)) \in Nat /\ Cardinality(before) \in Nat
    BY <1>2, <2>3, FS_CardinalityType
  <2>5. QED
    BY <2>3, <2>4
<1>4. Finished(PruneLocked(js)) = after
  <2> DEFINE old == {j \in Finished(js) :
                       Cardinality({k \in Finished(js) : k > j}) >= MaxTerminal}
  <2>1. PruneLocked(js) = Forget(js, old)
    BY DEF PruneLocked
  <2>2. \A k \in JobIds : Forget(js, old)[k].status =
                            IF k \in old THEN Forgotten ELSE js[k].status
    BY DEF Forget, Job
  <2>3. \A k \in before : k \in old <=> ~(Cardinality(Newer(before, k)) < MaxTerminal)
    <3>1. \A k \in before : k \in old <=> Cardinality(Newer(before, k)) >= MaxTerminal
      BY DEF Newer
    <3>2. QED
      BY <1>0, <1>3, <3>1
  <2>4. \A k \in JobIds :
          k \in Finished(Forget(js, old)) <=> k \in Finished(js) /\ k \notin old
    BY <2>2 DEF Finished, TerminalStatus, Forgotten, Completed, Cancelled, Failed
  <2>5. Finished(Forget(js, old)) \in SUBSET JobIds
    BY DEF Finished
  <2> HIDE DEF old
  <2>6. QED
    BY <1>0, <2>1, <2>3, <2>4, <2>5
<1>5. Cardinality(after) <= MaxTerminal
  BY <1>0, FewAreNewest
<1>6. ASSUME NEW k \in after, NEW f \in before \ after PROVE f < k
  <2>1. /\ Cardinality(Newer(before, k)) < MaxTerminal
        /\ ~(Cardinality(Newer(before, f)) < MaxTerminal)
    OBVIOUS
  <2>2. f # k /\ f \in Nat /\ k \in Nat
    BY <1>0, <2>1
  <2>3. ~(k < f)
    <3> SUFFICES ASSUME k < f PROVE FALSE
      OBVIOUS
    <3>1. Cardinality(Newer(before, f)) < Cardinality(Newer(before, k))
      BY <1>0, FewerAreNewer
    <3>2. QED
      BY <1>0, <1>3, <2>1, <3>1
  <2>4. QED
    BY <2>2, <2>3
<1>7. Cardinality(before) <= MaxTerminal => after = before
  <2> SUFFICES ASSUME Cardinality(before) <= MaxTerminal,
                      NEW k \in before
               PROVE  Cardinality(Newer(before, k)) < MaxTerminal
    OBVIOUS
  <2>1. Cardinality(before) \in Nat
    BY <1>2, FS_CardinalityType
  <2>2. QED
    BY <1>0, <1>3, <2>1
<1> HIDE DEF before, after
<1>8. ForgetsOldest(before, after)
  <2>1. after \subseteq before
    BY DEF after
  <2>2. QED
    BY <1>5, <1>6, <1>7, <2>1 DEF ForgetsOldest
<1>9. QED
  BY <1>4, <1>8 DEF before

\* The finished jobs one can still ask for are the newest, at most MaxTerminal of them
\* after every submission (create_job, _prune_locked), whatever ended meanwhile.
THEOREM HistoryIsBoundedHolds == Spec => HistoryIsBounded
<1>1. ASSUME TypeOK, [Next]_vars, submitting # -1, submitting' = -1
      PROVE  ForgetsOldest(Finished(jobs), Finished(jobs'))
  <2>1. SubmitCreate
    BY <1>1 DEF TypeOK, Next, Pump, ChunkEnd, JobTool, vars, SubmitRead, PumpIdle, PumpStale,
       PumpStart, PumpResume, PumpDrop, ChunkYield, ChunkReturn, ChunkRaise, Report,
       CancelTool, DeleteTool, PruneTool, Unregister, StopServer, Register
  <2>2. PICK j \in JobIds : jobs[j].status = Absent /\ jobs' = CreateJob(jobs, j, submitting)
    BY <2>1 DEF SubmitCreate
  <2> DEFINE mid == [jobs EXCEPT ![j] = NewJob(Queued, submitting)]
  <2>3. submitting \in Nat
    BY <1>1 DEF TypeOK
  <2>4. mid \in [JobIds -> Job] /\ jobs' = PruneLocked(mid)
    BY <1>1, <2>2, <2>3, NewJobType DEF TypeOK, CreateJob
  <2>5. \A k \in JobIds : k \in Finished(mid) <=> k \in Finished(jobs)
    <3>1. \A k \in JobIds \ {j} : mid[k] = jobs[k]
      OBVIOUS
    <3>2. mid[j].status = Queued
      BY <1>1 DEF TypeOK, NewJob
    <3> HIDE DEF mid
    <3>3. QED
      BY <2>2, <3>1, <3>2
         DEF Finished, TerminalStatus, Queued, Absent, Completed, Cancelled, Failed
  <2>6. Finished(mid) = Finished(jobs)
    <3>1. Finished(mid) \subseteq JobIds /\ Finished(jobs) \subseteq JobIds
      BY DEF Finished
    <3> HIDE DEF mid
    <3>2. QED
      BY <2>5, <3>1
  <2> HIDE DEF mid
  <2>7. QED
    BY <2>4, <2>6, PruneForgetsOldest
<1>2. TypeOK /\ [Next]_vars =>
        (submitting # -1 /\ submitting' = -1 =>
           ForgetsOldest(Finished(jobs), Finished(jobs')))
  BY <1>1
<1>3. QED
  BY <1>2, TypeCorrect, PTL DEF Spec, HistoryIsBounded
===========================================================================
