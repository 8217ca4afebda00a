--------------------------- MODULE JobScheduler ---------------------------
(***************************************************************************)
(* The cooperative job scheduler of the Blender add-on                     *)
(* (src/extension/bridge/scheduler.py), the job tools that act on its      *)
(* records (src/extension/tools/job_ops.py) and the add-on lifecycle that  *)
(* resets it (register and unregister in src/extension/__init__.py).       *)
(*                                                                         *)
(* Two threads share the job table.  The WebSocket thread submits jobs; it *)
(* reads the generation and makes the record in two steps, and anything    *)
(* may happen between them.  The main thread does everything else: the     *)
(* pump timer begins one chunk of one job at a time, and while no chunk is *)
(* on its stack it serves the job tools, the panel's buttons and the       *)
(* add-on preferences.  A chunk is tool code: execute_batch,               *)
(* execute_blender_python and manage_addons let it call the same job tools *)
(* and even disable or enable the add-on whose scheduler is running it.    *)
(***************************************************************************)
EXTENDS JobManager

CONSTANTS
  MaxChunks,   \* bound: how many times one job's generator yields
  MaxReloads   \* bound: how many times the add-on is disabled

ASSUME JobSchedulerAssumption ==
  /\ MaxChunks \in Nat
  /\ MaxReloads \in Nat

None == 0      \* no job

VARIABLES
  jobs,        \* JobManager._jobs and the records the pump still references
  generation,  \* dispatch._generation
  addon,       \* is the add-on registered (its timers and its server)?
  submitting,  \* the generation an unfinished submit_job has read, or -1
  active,      \* _active_job_id, with _active_gen and the status card
  chunk,       \* the job whose generator is on the main thread's stack
  yields,      \* how often the active job's generator has yielded
  lastStarted  \* history: the job that was started last

vars == <<jobs, generation, addon, submitting, active, chunk, yields, lastStarted>>

Init ==
  /\ jobs = NoJobs
  /\ generation = 1
  /\ addon = "enabled"
  /\ submitting = -1
  /\ active = None
  /\ chunk = None
  /\ yields = 0
  /\ lastStarted = None
---------------------------------------------------------------------------
(* The WebSocket thread: submit_job.                                       *)

\* The server thread lives from register to the stop_server of unregister.
SubmitRead ==
  /\ addon \in {"enabled", "stopping"}
  /\ submitting = -1
  /\ \E j \in JobIds : jobs[j].status = Absent
  /\ submitting' = generation
  /\ UNCHANGED <<jobs, generation, addon, active, chunk, yields, lastStarted>>

SubmitCreate ==
  /\ submitting # -1
  /\ \E j \in JobIds :
       /\ jobs[j].status = Absent
       /\ \A k \in JobIds : k < j => jobs[k].status # Absent
       /\ jobs' = CreateJob(jobs, j, submitting)
  /\ submitting' = -1
  /\ UNCHANGED <<generation, addon, active, chunk, yields, lastStarted>>
---------------------------------------------------------------------------
(* The main thread: one tick of pump_jobs, up to the generator's next().   *)

PumpTick == addon = "enabled" /\ chunk = None

\* Nothing is queued: the timer asks to be called again later.
PumpIdle ==
  /\ PumpTick /\ active = None
  /\ \A j \in JobIds : jobs[j].status # Queued
  /\ UNCHANGED vars

\* A job submitted under an older generation is failed instead of started.
PumpStale ==
  /\ PumpTick /\ active = None
  /\ \E j \in JobIds :
       /\ IsNextQueued(jobs, j)
       /\ jobs[j].generation # generation
       /\ jobs' = FailJob(jobs, j)
  /\ UNCHANGED <<generation, addon, submitting, active, chunk, yields, lastStarted>>

PumpStart ==
  /\ PumpTick /\ active = None
  /\ \E j \in JobIds :
       /\ IsNextQueued(jobs, j)
       /\ jobs[j].generation = generation
       /\ jobs' = MarkRunning(jobs, j)
       /\ active' = j
       /\ chunk' = j
       /\ lastStarted' = j
  /\ yields' = 0
  /\ UNCHANGED <<generation, addon, submitting>>

\* Fault: the flag is not looked at between chunks.
DroppedIfDeleted(j) == j \notin Stored(jobs)

\* get_job finds no record, or one that cancel_job flagged.
Dropped(j) == j \notin Stored(jobs) \/ jobs[j].cancelled

PumpResume ==
  /\ PumpTick /\ active # None
  /\ ~Dropped(active)
  /\ chunk' = active
  /\ UNCHANGED <<jobs, generation, addon, submitting, active, yields, lastStarted>>

\* Fault: the generator is kept.
CancelCleanupRecordOnly(j) ==
  /\ jobs' = IF j \in Stored(jobs) THEN [jobs EXCEPT ![j].status = Cancelled] ELSE jobs
  /\ UNCHANGED active

\* _cancel_cleanup writes the record, if there is one, and forgets the generator.
CancelCleanup(j) ==
  /\ jobs' = IF j \in Stored(jobs) THEN [jobs EXCEPT ![j].status = Cancelled] ELSE jobs
  /\ active' = None

PumpDrop ==
  /\ PumpTick /\ active # None
  /\ Dropped(active)
  /\ CancelCleanup(active)
  /\ UNCHANGED <<generation, addon, submitting, chunk, yields, lastStarted>>
---------------------------------------------------------------------------
(* The main thread: the end of a chunk.  A chunk cannot end inside the     *)
(* unregister it called.                                                   *)

InChunk == chunk # None /\ addon # "stopping"

ChunkYield ==
  /\ InChunk
  /\ yields < MaxChunks
  /\ yields' = yields + 1
  /\ chunk' = None
  /\ UNCHANGED <<jobs, generation, addon, submitting, active, lastStarted>>

\* StopIteration: the flag is read from the record itself, deleted or not.
ChunkReturn ==
  /\ InChunk
  /\ IF jobs[chunk].cancelled
     THEN CancelCleanup(chunk)
     ELSE jobs' = CompleteJob(jobs, chunk) /\ active' = None
  /\ chunk' = None
  /\ UNCHANGED <<generation, addon, submitting, yields, lastStarted>>

ChunkRaise ==
  /\ InChunk
  /\ jobs' = FailJob(jobs, chunk)
  /\ active' = None
  /\ chunk' = None
  /\ UNCHANGED <<generation, addon, submitting, yields, lastStarted>>

\* JobCtx.report, called by the chunk for its own job.
Report ==
  /\ InChunk
  /\ \E p \in {"some", "full"} : jobs' = UpdateJob(jobs, chunk, p)
  /\ UNCHANGED <<generation, addon, submitting, active, chunk, yields, lastStarted>>
---------------------------------------------------------------------------
(* The main thread: job tools, from drain_queue, the panel or a chunk.     *)

ToolMayRun == addon = "enabled" \/ InChunk

CancelTool ==
  /\ ToolMayRun
  /\ \E j \in Stored(jobs) : jobs' = CancelJob(jobs, j)
  /\ UNCHANGED <<generation, addon, submitting, active, chunk, yields, lastStarted>>

\* delete_job refuses a QUEUED or RUNNING record.
DeleteTool ==
  /\ ToolMayRun
  /\ \E j \in Finished(jobs) : jobs' = Forget(jobs, {j})
  /\ UNCHANGED <<generation, addon, submitting, active, chunk, yields, lastStarted>>

\* prune_older_than: which finished records are old is up to the clock.
PruneTool ==
  /\ ToolMayRun
  /\ \E old \in SUBSET Finished(jobs) : old # {} /\ jobs' = Forget(jobs, old)
  /\ UNCHANGED <<generation, addon, submitting, active, chunk, yields, lastStarted>>
---------------------------------------------------------------------------
(* The add-on's lifecycle, from the preferences or from a chunk.           *)

\* Fault: the generator survives the reload.
ResetKeepsGenerator ==
  /\ jobs' = FailIfActive(jobs, Listed(jobs))
  /\ UNCHANGED active

\* reset(): forget the generator, fail every listed record that is active.
Reset ==
  /\ jobs' = FailIfActive(jobs, Listed(jobs))
  /\ active' = None

\* unregister up to stop_server: the server still answers meanwhile.
Unregister ==
  /\ addon = "enabled"
  /\ generation < 2 * MaxReloads
  /\ generation' = generation + 1
  /\ Reset
  /\ addon' = "stopping"
  /\ UNCHANGED <<submitting, chunk, yields, lastStarted>>

\* The rest of unregister.  join(timeout=2) may leave a submission unfinished.
StopServer ==
  /\ addon = "stopping"
  /\ addon' = "disabled"
  /\ UNCHANGED <<jobs, generation, submitting, active, chunk, yields, lastStarted>>

Register ==
  /\ addon = "disabled"
  /\ generation' = generation + 1
  /\ addon' = "enabled"
  /\ UNCHANGED <<jobs, submitting, active, chunk, yields, lastStarted>>
---------------------------------------------------------------------------
Pump     == PumpIdle \/ PumpStale \/ PumpStart \/ PumpResume \/ PumpDrop
ChunkEnd == ChunkYield \/ ChunkReturn \/ ChunkRaise
JobTool  == CancelTool \/ DeleteTool \/ PruneTool

Next ==
  \/ SubmitRead \/ SubmitCreate
  \/ Pump \/ ChunkEnd \/ Report
  \/ JobTool
  \/ Unregister \/ StopServer \/ Register

Spec == Init /\ [][Next]_vars

(* A registered timer keeps firing, tool code ends or yields, a call of    *)
(* submit_job that has begun ends, and so does unregister.  Nobody has to  *)
(* submit, cancel or enable anything.                                      *)
Fairness ==
  /\ WF_vars(Pump)
  /\ WF_vars(ChunkEnd)
  /\ WF_vars(SubmitCreate)
  /\ WF_vars(StopServer)

FairSpec == Spec /\ Fairness
---------------------------------------------------------------------------
(* Properties.                                                             *)

TypeOK ==
  /\ jobs \in [JobIds -> Job]
  /\ generation \in Nat
  /\ addon \in {"enabled", "stopping", "disabled"}
  /\ submitting \in Nat \cup {-1}
  /\ active \in JobIds \cup {None}
  /\ chunk \in JobIds \cup {None}
  /\ yields \in 0..MaxChunks
  /\ lastStarted \in JobIds \cup {None}

\* A record says RUNNING only while the scheduler holds its generator, so no
\* client polls a job for ever that nothing will advance (pump_jobs, reset).
RunningIsActive ==
  \A j \in JobIds : jobs[j].status = Running => active = j

\* The generator the scheduler holds belongs to the add-on as it is loaded now
\* and to a job that runs or was cancelled: reset() leaves no generator that
\* refers to modules of an earlier load.
GeneratorIsCurrent ==
  active # None =>
    /\ addon = "enabled"
    /\ jobs[active].generation = generation
    /\ \/ jobs[active].status = Running
       \/ jobs[active].status \in {Cancelled, Forgotten} /\ jobs[active].cancelled

\* The rest of what ties the table to the scheduler: a job that can still run is
\* not flagged, jobs are submitted and started oldest first, and the generator
\* on the stack is of a started job, the scheduler's own unless reset() ran.
Bookkeeping ==
  /\ \A j \in JobIds :
       /\ jobs[j].status \in ActiveStatus => ~jobs[j].cancelled
       /\ jobs[j].status = Absent =>
            \A k \in JobIds : k > j => jobs[k].status = Absent
       /\ jobs[j].status \in {Absent, Queued} => lastStarted < j
  /\ chunk # None =>
       /\ jobs[chunk].status \notin {Absent, Queued}
       /\ active \in {None, chunk}

\* Job table and scheduler agree, through every cancel, deletion and reload: nothing
\* runs without a generator, and no generator outlives its job or its load of the
\* add-on.
SchedulerMatchesTable == RunningIsActive /\ GeneratorIsCurrent /\ Bookkeeping

\* What the pump puts on the stack is a stored, running, uncancelled job of the
\* present generation: "the pump drops remaining chunks before the next one
\* starts" after a cancel_job, whoever called it and whenever.
ChunksAreLicensed ==
  [][chunk' # None /\ chunk = None =>
       /\ jobs'[chunk'].status = Running
       /\ ~jobs[chunk'].cancelled
       /\ jobs[chunk'].generation = generation]_vars

Outcome(j) == <<jobs[j].status, jobs[j].error, jobs[j].progress>>

\* The outcome of an ended job is final: no late report, cancel, completion or
\* failure rewrites it until it is forgotten.  The one exception is the job
\* whose own chunk is on the stack although reset() took it from the scheduler.
OutcomesAreFinal ==
  [][\A j \in JobIds :
       jobs[j].status \in TerminalStatus =>
         \/ Outcome(j)' = Outcome(j)
         \/ jobs'[j].status = Forgotten
         \/ chunk = j /\ active # j]_vars

\* Jobs start in the order they were submitted, none twice, whatever is
\* cancelled, reloaded, deleted or submitted meanwhile (ImplementsJobService says
\* so too).
StartsInOrder ==
  [][chunk' # None /\ active = None /\ active' # None => active' > lastStarted]_vars

\* reset(): "Fail everything outstanding".
ResetFailsAll ==
  [][addon = "enabled" /\ addon' = "stopping" =>
       \A j \in JobIds : jobs'[j].status \notin ActiveStatus]_vars

\* The history that get_job_result can still be asked for is bounded, and it is the
\* newest: a submission leaves at most MaxTerminal finished records, forgets none that
\* is newer than one it keeps, and none at all while there is room for all.
ForgetsOldest(before, after) ==
  /\ after \subseteq before
  /\ Cardinality(after) <= MaxTerminal
  /\ \A k \in after, f \in before \ after : f < k
  /\ Cardinality(before) <= MaxTerminal => after = before

HistoryIsBounded ==
  [][submitting # -1 /\ submitting' = -1 => ForgetsOldest(Finished(jobs), Finished(jobs'))]_vars

\* A job that ended well carries no error text: a job that reset() failed
\* because the add-on was reloaded is not reported as completed.
CompletedHasNoError ==
  \A j \in JobIds : jobs[j].status = Completed => ~jobs[j].error

\* Every submitted job ends, unless the add-on stays disabled.
EveryJobEnds ==
  \A j \in JobIds :
    jobs[j].status \in ActiveStatus ~>
      (jobs[j].status \notin ActiveStatus \/ addon = "disabled")

\* A cancelled job gives up the main thread, unless the add-on stays disabled
\* with its chunk gone; its generator is not kept alive behind the record.
CancelledJobLetsGo ==
  \A j \in JobIds : (active = j /\ jobs[j].cancelled) ~> active # j

\* Both: no job stays under way for ever, in the table or on the main thread.
NoJobHoldsOn == EveryJobEnds /\ CancelledJobLetsGo

\* The service this implements.
PhaseOf(s) == CASE s = Absent -> "absent"
                [] s = Queued -> "waiting"
                [] s = Running -> "working"
                [] s = Forgotten -> "forgotten"
                [] OTHER -> "ended"

Service == INSTANCE JobService WITH phase <- [j \in JobIds |-> PhaseOf(jobs[j].status)]

\* Jobs are served one at a time, oldest first, at most once, and are never
\* forgotten before they ended.
ImplementsJobService == Service!Spec
===========================================================================
