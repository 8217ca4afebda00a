---------------------------- MODULE Generation ----------------------------
(***************************************************************************)
(* Generating a model with an AI provider from the viewport panel:         *)
(* MCP_OT_ai_generate and MCP_OT_ai_generate_refresh_meshy                 *)
(* (src/extension/panels/viewport_panel.py) over the generation jobs of    *)
(* src/extension/tools/super_import_ops.py.                                *)
(*                                                                         *)
(* Every run of an operator is a modal on the main thread and a worker     *)
(* thread that creates a task at the provider, polls it and downloads its  *)
(* model.  Esc closes the modal, sets the worker's cancel event and sends  *)
(* a DELETE from a third thread.  A poll that runs into its deadline       *)
(* leaves the task behind as _pending_resume, which the refresh operator   *)
(* takes up.  Loading a file kills modals but no threads.                  *)
(*                                                                         *)
(* All runs of one mode ask for the same file: prompts that begin alike,   *)
(* or the same picture.                                                    *)
(***************************************************************************)
EXTENDS Naturals, FiniteSets

CONSTANTS
  MaxRuns,   \* bound: how often the two operators are run
  MaxTasks,  \* bound: how many tasks the providers are asked for
  MaxBusy,   \* bound: how many runs are under way at a time
  Modes      \* what is generated from what: a subset of ModeNames

ModeNames == {"text", "image", "tripo"}

ASSUME GenerationAssumption ==
  /\ MaxRuns \in Nat
  /\ MaxTasks \in Nat
  /\ MaxBusy \in Nat
  /\ Modes \subseteq ModeNames

VARIABLES
  run,       \* the operators' instances with their workers and their job dicts
  pending,   \* MCP_OT_ai_generate._pending_resume
  task,      \* the tasks at the providers
  deletes,   \* tasks a cancel_meshy_task thread was started for
  file,      \* the downloaded model.glb of each mode
  imported,  \* history: what the operators imported
  forsaken,  \* history: requests somebody or something gave up
  met        \* history: a run was started while another was under way

vars == <<run, pending, task, deletes, file, imported, forsaken, met>>

\* Runs are numbered in the order they start.
Runs == 1..MaxRuns
NoRun == 0

TaskIds == 1..MaxTasks
NoTask == 0

\* The label that a task of each kind is polled and cancelled under.
Stages == {"preview", "refine", "image", "tripo"}

\* Fault: text jobs are labelled like the others, by what they are made from.
FirstStageIsMode(mode) == mode

FirstStage(mode) == IF mode = "text" THEN "preview" ELSE mode

\* origin is the run that asked for the model, shown what job["task_id"] holds.
Run ==
  [kind : {"unused", "generate", "refresh"}, mode : ModeNames, origin : Runs \cup {NoRun},
   modal : {"open", "closed", "escaped", "lost"}, cancelled : BOOLEAN,
   pc : {"lookup", "submit", "sent", "first", "again", "asked", "download", "writing",
         "done", "dead"},
   stage : Stages, task : TaskIds \cup {NoTask}, shown : TaskIds \cup {NoTask},
   result : {"none", "path", "error", "timeout", "cancelled"}]

Unused ==
  [kind |-> "unused", mode |-> "text", origin |-> NoRun, modal |-> "closed",
   cancelled |-> FALSE, pc |-> "done", stage |-> "preview", task |-> NoTask,
   shown |-> NoTask, result |-> "none"]

\* What the timeout of a poll leaves: the task, and whose settings the import takes.
Pending ==
  [task : TaskIds \cup {NoTask}, stage : Stages, mode : ModeNames,
   origin : Runs \cup {NoRun}, settings : Runs \cup {NoRun}]

NoPending ==
  [task |-> NoTask, stage |-> "preview", mode |-> "text", origin |-> NoRun, settings |-> NoRun]

Task ==
  [status : {"unmade", "running", "succeeded", "failed", "deleted"}, stage : Stages,
   origin : Runs \cup {NoRun}]

Unmade == [status |-> "unmade", stage |-> "preview", origin |-> NoRun]

\* partial: being written, or left when that raised; cut: closed, but its body ended early.
File ==
  [state : {"absent", "partial", "mixed", "cut", "whole"}, origin : Runs \cup {NoRun}]

Init ==
  /\ run = [i \in Runs |-> Unused]
  /\ pending = NoPending
  /\ task = [t \in TaskIds |-> Unmade]
  /\ deletes = {}
  /\ file = [m \in ModeNames |-> [state |-> "absent", origin |-> NoRun]]
  /\ imported = {}
  /\ forsaken = {}
  /\ met = FALSE

Working(i) == run[i].pc \notin {"done", "dead"}
UnderWay(i) == Working(i) \/ run[i].modal = "open"
Busy == {i \in Runs : UnderWay(i)}

IsNext(i) == \A j \in Runs : run[j].kind = "unused" <=> j >= i

\* Whose task is pending, if any.
PendingOrigin == {pending.origin} \ {NoRun}
---------------------------------------------------------------------------
(* The main thread: the operators' execute.                                *)

\* Every click on Generate forgets the pending task, even one whose input is refused.
RefuseInput ==
  /\ pending' = NoPending
  /\ forsaken' = forsaken \cup PendingOrigin
  /\ UNCHANGED <<run, task, deletes, file, imported, met>>

Generate(i, m) ==
  /\ IsNext(i)
  /\ Cardinality(Busy) < MaxBusy
  /\ run' = [run EXCEPT ![i] =
       [Unused EXCEPT !.kind = "generate", !.mode = m, !.origin = i, !.modal = "open",
                      !.pc = IF m = "text" THEN "submit" ELSE "lookup",
                      !.stage = FirstStage(m)]]
  /\ pending' = NoPending
  /\ forsaken' = forsaken \cup PendingOrigin
  /\ met' = (met \/ Busy # {})
  /\ UNCHANGED <<task, deletes, file, imported>>

\* Fault: the refresh submits the prompt again.
TakenUpAtSubmit == "submit"

\* Where a resumed job begins: at the poll of the task it was left with.
TakenUpAt == "first"

\* A task of any mode is taken up as a text-to-3D task.
RefreshMeshy(i) ==
  /\ IsNext(i)
  /\ pending # NoPending
  /\ Cardinality(Busy) < MaxBusy
  /\ run' = [run EXCEPT ![i] =
       [Unused EXCEPT !.kind = "refresh", !.mode = pending.mode, !.origin = pending.origin,
                      !.modal = "open", !.pc = TakenUpAt, !.stage = pending.stage,
                      !.task = pending.task]]
  /\ met' = (met \/ Busy # {})
  /\ UNCHANGED <<pending, task, deletes, file, imported, forsaken>>
---------------------------------------------------------------------------
(* The worker thread.                                                      *)

At(i, pcs) == run[i].kind # "unused" /\ run[i].pc \in pcs

Goes(i, to) == run' = [run EXCEPT ![i].pc = to]

Ends(i, result) == run' = [run EXCEPT ![i].pc = "done", ![i].result = result]

\* A picture, or Tripo's picture, that was generated before is reused.
LookUp(i) ==
  /\ At(i, {"lookup"})
  /\ IF file[run[i].mode].state # "absent" THEN Ends(i, "path") ELSE Goes(i, "submit")
  /\ UNCHANGED <<pending, task, deletes, file, imported, forsaken, met>>

\* The POST arrives: the provider makes, and bills, a task.
Submit(i) ==
  /\ At(i, {"submit"})
  /\ \E t \in TaskIds :
       /\ task[t] = Unmade
       /\ \A u \in TaskIds : u < t => task[u] # Unmade
       /\ task' = [task EXCEPT ![t] =
            [status |-> "running", stage |-> run[i].stage, origin |-> run[i].origin]]
       /\ run' = [run EXCEPT ![i].pc = "sent", ![i].task = t]
  /\ UNCHANGED <<pending, deletes, file, imported, forsaken, met>>

\* No key, no network, no answer, or no task id in it.
SubmitFails(i) ==
  /\ At(i, {"submit", "sent"})
  /\ Ends(i, "error")
  /\ forsaken' = forsaken \cup {run[i].origin}
  /\ UNCHANGED <<pending, task, deletes, file, imported, met>>

\* on_task: only the generate operator passes it, and only Meshy's jobs call it.
HearTask(i) ==
  /\ At(i, {"sent"})
  /\ run' = [run EXCEPT ![i].pc = "first",
                        ![i].shown = IF run[i].kind = "generate" /\ run[i].mode # "tripo"
                                     THEN run[i].task ELSE @]
  /\ UNCHANGED <<pending, task, deletes, file, imported, forsaken, met>>

\* Fault: the event is looked at before the loop, and no more in it.
StopsPollingAtFirst(i) == run[i].cancelled /\ run[i].mode # "tripo" /\ run[i].pc = "first"

\* Tripo's loop ignores the event.
StopsPolling(i) == run[i].cancelled /\ run[i].mode # "tripo"

\* The top of the poll loop.
CheckCancel(i) ==
  /\ At(i, {"first", "again"})
  /\ IF StopsPolling(i)
     THEN Ends(i, "cancelled")
     ELSE Goes(i, "asked")
  /\ UNCHANGED <<pending, task, deletes, file, imported, forsaken, met>>

\* The deadline of the loop has passed.
Expire(i) ==
  /\ At(i, {"again"})
  /\ Ends(i, IF run[i].mode = "tripo" THEN "error" ELSE "timeout")
  /\ forsaken' = IF run[i].mode = "tripo" THEN forsaken \cup {run[i].origin} ELSE forsaken
  /\ UNCHANGED <<pending, task, deletes, file, imported, met>>

\* resume_meshy_model_job polls the text endpoint, which knows no image tasks.
Foreign(i) == run[i].kind = "refresh" /\ run[i].stage = "image"

StillRunning(i) ==
  /\ At(i, {"asked"})
  /\ ~Foreign(i)
  /\ task[run[i].task].status = "running"
  /\ Goes(i, "again")
  /\ UNCHANGED <<pending, task, deletes, file, imported, forsaken, met>>

\* Only a preview is followed by a refine; the event is not looked at in between.
ContinuesWithRefine(i) == run[i].stage = "preview"

Succeeded(i) ==
  /\ At(i, {"asked"})
  /\ ~Foreign(i)
  /\ task[run[i].task].status = "succeeded"
  /\ run' = IF ContinuesWithRefine(i)
            THEN [run EXCEPT ![i].pc = "submit", ![i].stage = "refine"]
            ELSE [run EXCEPT ![i].pc = "download"]
  /\ UNCHANGED <<pending, task, deletes, file, imported, forsaken, met>>

\* The task failed, or the lookup did.
LookupFails(i) ==
  /\ At(i, {"asked"})
  /\ Ends(i, "error")
  /\ forsaken' = forsaken \cup {run[i].origin}
  /\ UNCHANGED <<pending, task, deletes, file, imported, met>>

Writers(m) == {j \in Runs : run[j].mode = m /\ run[j].pc = "writing"}

\* The file is opened for writing, and so truncated.
OpenFile(i) ==
  /\ At(i, {"download"})
  /\ file' = [file EXCEPT ![run[i].mode] =
       [state |-> IF Writers(run[i].mode) = {} THEN "partial" ELSE "mixed",
        origin |-> run[i].origin]]
  /\ Goes(i, "writing")
  /\ UNCHANGED <<pending, task, deletes, imported, forsaken, met>>

\* read ends with the connection, and raises nothing if that is short of Content-Length.
Bodies == {"whole", "cut"}

CloseFile(i) ==
  /\ At(i, {"writing"})
  /\ \E body \in Bodies :
       file' = [file EXCEPT ![run[i].mode].state = IF @ = "mixed" THEN "mixed" ELSE body]
  /\ Ends(i, "path")
  /\ UNCHANGED <<pending, task, deletes, imported, forsaken, met>>

\* Fault: a download that raises is taken for the model.
DownloadIsTaken(i) ==
  /\ At(i, {"download", "writing"})
  /\ Ends(i, "path")
  /\ UNCHANGED <<pending, task, deletes, file, imported, forsaken, met>>

\* The request is refused, or reading or writing raises.
DownloadFails(i) ==
  /\ At(i, {"download", "writing"})
  /\ Ends(i, "error")
  /\ forsaken' = forsaken \cup {run[i].origin}
  /\ UNCHANGED <<pending, task, deletes, file, imported, met>>
---------------------------------------------------------------------------
(* The main thread: the modals' ticks, Esc, and what kills a modal.        *)

Closes(i) == run' = [run EXCEPT ![i].modal = "closed"]

Imports(i, settings) ==
  imported' = imported \cup
    {[run |-> i, settings |-> settings, mode |-> run[i].mode, file |-> file[run[i].mode]]}

Ticks(i, kind, results) ==
  /\ run[i].kind = kind
  /\ run[i].modal = "open"
  /\ run[i].pc = "done"
  /\ run[i].result \in results

\* Fault: the timeout names the task the job began with.
LeftBehindFirst(i) ==
  [task |-> CHOOSE t \in TaskIds : task[t].origin = i, stage |-> FirstStage(run[i].mode),
   mode |-> run[i].mode, origin |-> i, settings |-> i]

\* MeshyTimeout carries the task that was polled; the panel adds its settings.
LeftBehind(i) ==
  [task |-> run[i].task, stage |-> run[i].stage, mode |-> run[i].mode, origin |-> i,
   settings |-> i]

GenerateTimedOut(i) ==
  /\ Ticks(i, "generate", {"timeout"})
  /\ Closes(i)
  /\ pending' = LeftBehind(i)
  /\ UNCHANGED <<task, deletes, file, imported, forsaken, met>>

\* Fault: an error is nothing the tick reacts to.
GenerateFailsSilently(i) == Ticks(i, "generate", {"error"}) /\ UNCHANGED vars

GenerateFailed(i) ==
  /\ Ticks(i, "generate", {"error"})
  /\ Closes(i)
  /\ UNCHANGED <<pending, task, deletes, file, imported, forsaken, met>>

GenerateSucceeded(i) ==
  /\ Ticks(i, "generate", {"path"})
  /\ Closes(i)
  /\ Imports(i, i)
  /\ UNCHANGED <<pending, task, deletes, file, forsaken, met>>

\* The new task replaces the one in _pending_resume, which is there or the tick raises.
RefreshTimedOut(i) ==
  /\ Ticks(i, "refresh", {"timeout"})
  /\ Closes(i)
  /\ pending' = IF pending = NoPending THEN NoPending
                ELSE [pending EXCEPT !.task = run[i].task, !.stage = run[i].stage,
                                     !.mode = run[i].mode, !.origin = run[i].origin]
  /\ UNCHANGED <<task, deletes, file, imported, forsaken, met>>

RefreshFailed(i) ==
  /\ Ticks(i, "refresh", {"error"})
  /\ Closes(i)
  /\ pending' = NoPending
  /\ UNCHANGED <<task, deletes, file, imported, forsaken, met>>

\* Without a pending task there are no settings: the tick raises, the model is lost.
RefreshSucceeded(i) ==
  /\ Ticks(i, "refresh", {"path"})
  /\ Closes(i)
  /\ pending' = NoPending
  /\ IF pending = NoPending THEN UNCHANGED imported ELSE Imports(i, pending.settings)
  /\ UNCHANGED <<task, deletes, file, forsaken, met>>

\* Esc deletes what the worker has told of; a refresh tells of nothing.
DeletedByEsc(i) == {run[i].shown} \ {NoTask}

Esc(i) ==
  /\ run[i].modal = "open"
  /\ run' = [run EXCEPT ![i].modal = "escaped", ![i].cancelled = TRUE]
  /\ deletes' = deletes \cup DeletedByEsc(i)
  /\ forsaken' = forsaken \cup {run[i].origin}
  /\ UNCHANGED <<pending, task, file, imported, met>>

\* A file is loaded: modals are killed without notice, workers go on.
LoadFile ==
  /\ \E i \in Runs : run[i].modal = "open"
  /\ run' = [i \in Runs |-> IF run[i].modal = "open" THEN [run[i] EXCEPT !.modal = "lost"]
                            ELSE run[i]]
  /\ forsaken' = forsaken \cup {run[i].origin : i \in {j \in Runs : run[j].modal = "open"}}
  /\ UNCHANGED <<pending, task, deletes, file, imported, met>>

\* Blender ends, in the middle of a download perhaps; a later session starts anew.
Quit ==
  /\ run' = [i \in Runs |->
       [run[i] EXCEPT !.pc = IF Working(i) THEN "dead" ELSE @,
                      !.modal = IF @ = "open" THEN "lost" ELSE @]]
  /\ pending' = NoPending
  /\ forsaken' = forsaken \cup PendingOrigin
                          \cup {run[i].origin : i \in Busy}
  /\ UNCHANGED <<task, deletes, file, imported, met>>
---------------------------------------------------------------------------
(* The providers.                                                          *)

TaskEnds(t) ==
  /\ task[t].status = "running"
  /\ \E s \in {"succeeded", "failed"} : task' = [task EXCEPT ![t].status = s]
  /\ UNCHANGED <<run, pending, deletes, file, imported, forsaken, met>>

\* The DELETE of cancel_meshy_task arrives.  It may never: failures are swallowed.
Delete(t) ==
  /\ t \in deletes
  /\ task[t].status = "running"
  /\ task' = [task EXCEPT ![t].status = "deleted"]
  /\ UNCHANGED <<run, pending, deletes, file, imported, forsaken, met>>
---------------------------------------------------------------------------
Works(i) ==
  \/ LookUp(i) \/ Submit(i) \/ SubmitFails(i) \/ HearTask(i) \/ CheckCancel(i)
  \/ StillRunning(i) \/ Succeeded(i) \/ LookupFails(i)
  \/ OpenFile(i) \/ CloseFile(i) \/ DownloadFails(i)

Tick(i) ==
  \/ GenerateTimedOut(i) \/ GenerateFailed(i) \/ GenerateSucceeded(i)
  \/ RefreshTimedOut(i) \/ RefreshFailed(i) \/ RefreshSucceeded(i)

Next ==
  \/ RefuseInput
  \/ \E i \in Runs, m \in Modes : Generate(i, m)
  \/ \E i \in Runs : RefreshMeshy(i) \/ Works(i) \/ Expire(i) \/ Tick(i) \/ Esc(i)
  \/ LoadFile
  \/ Quit
  \/ \E t \in TaskIds : TaskEnds(t) \/ Delete(t)

Spec == Init /\ [][Next]_vars

\* Threads run and their requests time out, the modals' timer fires, and the clock runs;
\* but the deadline of a job that was cancelled is not what its end may wait for.
Fairness ==
  \A i \in Runs :
    WF_vars(Works(i)) /\ WF_vars(Tick(i)) /\ SF_vars(~run[i].cancelled /\ Expire(i))

FairSpec == Spec /\ Fairness
---------------------------------------------------------------------------
(* Properties.                                                             *)

TypeOK ==
  /\ run \in [Runs -> Run]
  /\ pending \in Pending
  /\ task \in [TaskIds -> Task]
  /\ deletes \subseteq TaskIds
  /\ file \in [ModeNames -> File]
  /\ imported \subseteq [run : Runs, settings : Runs, mode : ModeNames, file : File]
  /\ forsaken \subseteq Runs
  /\ met \in BOOLEAN

Watched(t) ==
  \E i \in Runs :
    /\ run[i].task = t
    /\ Working(i) \/ (run[i].modal = "open" /\ run[i].result = "timeout")

\* A task that is running, and billed, is polled by a worker or kept for a refresh,
\* however many deadlines passed, unless somebody gave its request up (Esc, a file that
\* was loaded, another click on Generate), a request to the provider failed, or two runs
\* were under way at a time.  And a task that is kept was not told to stop: Esc in a
\* refresh only stops watching.
TasksAreTracked ==
  \A t \in TaskIds :
    /\ task[t].status = "running" /\ task[t].origin \notin forsaken /\ ~met
         => Watched(t) \/ pending.task = t
    /\ pending.task = t => t \notin deletes

\* A request is submitted once, whatever times out and is resumed; a second refine is
\* paid for only after a refresh that was abandoned, or besides another one.
BilledOnce ==
  \A t, u \in TaskIds :
    t # u /\ task[t] # Unmade /\ task[u] # Unmade /\ task[t].origin = task[u].origin
          /\ task[t].stage = task[u].stage
      => /\ task[t].stage = "refine"
         /\ \/ met
            \/ \E i \in Runs : /\ run[i].kind = "refresh"
                              /\ run[i].origin = task[t].origin
                              /\ run[i].modal \in {"escaped", "lost"}

\* Unless runs overlap, what is imported is the model that was asked for and no other's,
\* with the settings it was asked for and once, also when it took several refreshes; and
\* never after a download that raised.  It may be cut short: nothing compares its length.
ImportedAsAsked ==
  ~met => \A e, f \in imported :
            e.mode = "text" /\ f.mode = "text" =>
              /\ e.file.state \in Bodies /\ e.file.origin = e.settings
              /\ e.settings = f.settings => e = f

\* After Esc the worker of a Meshy job stops without waiting for its deadline.
EscStopsTheWorker ==
  \A i \in Runs : (run[i].cancelled /\ run[i].mode # "tripo") ~> ~Working(i)

\* That takes four steps at most, and no clock: the poll under way may still go on with
\* a refine, and pay for it, but not with another poll; nor is the event ever cleared.
StepsLeft(pc) ==
  CASE pc \in {"lookup", "asked"} -> 4
    [] pc = "submit" -> 3
    [] pc \in {"sent", "download"} -> 2
    [] pc \in {"first", "again", "writing"} -> 1
    [] OTHER -> 0

WindsDown(i) ==
  /\ run'[i].cancelled /\ run'[i].mode = run[i].mode
  /\ run'[i].pc # run[i].pc => StepsLeft(run'[i].pc) < StepsLeft(run[i].pc)

CancelledWindsDown ==
  [][\A i \in Runs : run[i].cancelled /\ run[i].mode # "tripo" => WindsDown(i)]_vars

\* A modal that has ended, by its tick, Esc or a file that was loaded, stays ended, and
\* what its worker still brings is not imported.
StaysEnded(i) ==
  /\ run'[i].modal = run[i].modal
  /\ \A e \in imported' \ imported : e.run # i

EndedModalStays ==
  [][\A i \in Runs : run[i].kind # "unused" /\ run[i].modal # "open" => StaysEnded(i)]_vars

\* Every modal ends: with a model, an error, a timeout, or because it was ended.
EveryModalEnds == \A i \in Runs : (run[i].modal = "open") ~> (run[i].modal # "open")
===========================================================================
