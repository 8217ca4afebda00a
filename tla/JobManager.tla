---------------------------- MODULE JobManager ----------------------------
(***************************************************************************)
(* The table of background jobs of the Blender add-on                      *)
(* (src/extension/bridge/jobs.py, class JobManager), as operators that     *)
(* take the table and return the table.  Every method holds the manager's  *)
(* lock for its whole effect, so one application of an operator is one     *)
(* indivisible step of the thread that calls it.                           *)
(*                                                                         *)
(* A job is identified by its rank in submission order: start_time is      *)
(* stamped when the record is made, on the one asyncio thread that makes   *)
(* records, so "older" is "<".  A record that was removed from the dict    *)
(* keeps its entry with status FORGOTTEN, because the pump may still hold  *)
(* a reference to the object.                                              *)
(***************************************************************************)
EXTENDS Integers, FiniteSets

CONSTANTS
  MaxJobs,      \* bound: how many jobs are submitted
  MaxTerminal,  \* JobManager._max_terminal: finished records kept at a submit
  ListLimit     \* how many records reset() asks list_jobs for

ASSUME JobManagerAssumption ==
  /\ MaxJobs \in Nat \ {0}
  /\ MaxTerminal \in Nat
  /\ ListLimit \in Nat \ {0}

JobIds == 1..MaxJobs

Queued    == "QUEUED"
Running   == "RUNNING"
Completed == "COMPLETED"
Cancelled == "CANCELLED"
Failed    == "FAILED"
Absent    == "ABSENT"     \* not submitted yet
Forgotten == "FORGOTTEN"  \* deleted from the dict

ActiveStatus   == {Queued, Running}
TerminalStatus == {Completed, Cancelled, Failed}
StoredStatus   == ActiveStatus \cup TerminalStatus

\* The fraction a job reports, as far as anyone distinguishes it.
Progress == {"none", "some", "full"}

\* error: the record carries an error text.
Job == [status     : StoredStatus \cup {Absent, Forgotten},
        cancelled  : BOOLEAN,
        error      : BOOLEAN,
        progress   : Progress,
        generation : Nat]

NewJob(s, g) == [status |-> s, cancelled |-> FALSE, error |-> FALSE,
                 progress |-> "none", generation |-> g]

NoJobs == [j \in JobIds |-> NewJob(Absent, 0)]

Stored(js)   == {j \in JobIds : js[j].status \in StoredStatus}
Finished(js) == {j \in JobIds : js[j].status \in TerminalStatus}

Forget(js, old) ==
  [j \in JobIds |-> IF j \in old THEN [js[j] EXCEPT !.status = Forgotten]
                                 ELSE js[j]]
---------------------------------------------------------------------------
\* A definition whose comment begins with "Fault:" is not part of the model: it
\* is a defective variant of the definition that follows it.

\* Fault: the cap counts every record and drops the oldest, active or not.
PruneLockedAny(js) ==
  LET newer(j) == {k \in Stored(js) : k > j}
  IN  Forget(js, {j \in Stored(js) : Cardinality(newer(j)) > MaxTerminal})

\* _prune_locked: only the MaxTerminal newest finished records survive.
PruneLocked(js) ==
  LET newer(j) == {k \in Finished(js) : k > j}
  IN  Forget(js, {j \in Finished(js) : Cardinality(newer(j)) >= MaxTerminal})

CreateJob(js, j, g) == PruneLocked([js EXCEPT ![j] = NewJob(Queued, g)])

\* next_queued: the QUEUED record with the least start_time.
IsNextQueued(js, j) ==
  /\ js[j].status = Queued
  /\ \A k \in JobIds : js[k].status = Queued => j <= k

\* Fault: a status that JobStatus does not have.
MarkStarted(js, j) == [js EXCEPT ![j].status = "STARTED"]

\* mark_running on a record that is stored and not cancelled.
MarkRunning(js, j) == [js EXCEPT ![j].status = Running]

\* Fault: a progress report lands on a record whatever its status.
UpdateAnyJob(js, j, p) == [js EXCEPT ![j].progress = p]

\* update_job: a late report does not touch a record that is not RUNNING.
UpdateJob(js, j, p) ==
  IF js[j].status = Running THEN [js EXCEPT ![j].progress = p] ELSE js

\* The flag is raised on any stored record, the status changes only while active.
CancelJob(js, j) ==
  [js EXCEPT ![j].cancelled = TRUE,
             ![j].status = IF @ \in ActiveStatus THEN Cancelled ELSE @]

\* complete_job, fail_job: any stored record that is not flagged cancelled.
Settles(js, j) == j \in Stored(js) /\ ~js[j].cancelled

CompleteJob(js, j) ==
  IF Settles(js, j)
  THEN [js EXCEPT ![j].status = Completed, ![j].progress = "full"]
  ELSE js

FailJob(js, j) ==
  IF Settles(js, j)
  THEN [js EXCEPT ![j].status = Failed, ![j].error = TRUE]
  ELSE js

\* The records list_jobs(limit) returns: the newest ones.
Listed(js) ==
  {j \in Stored(js) : Cardinality({k \in Stored(js) : k > j}) < ListLimit}

\* Fault: only the RUNNING records are failed.
FailIfRunning(js, S) ==
  [j \in JobIds |-> IF j \in S /\ js[j].status = Running
                    THEN [js[j] EXCEPT !.status = Failed, !.error = TRUE]
                    ELSE js[j]]

\* fail_if_active on each record of S.
FailIfActive(js, S) ==
  [j \in JobIds |-> IF j \in S /\ js[j].status \in ActiveStatus
                    THEN [js[j] EXCEPT !.status = Failed, !.error = TRUE]
                    ELSE js[j]]
===========================================================================
