------------------------- MODULE GenerationProofs -------------------------
(***************************************************************************)
(* Theorems about Generation, for every number of runs and of provider     *)
(* tasks: no task is lost sight of, none is paid for twice, and what is    *)
(* imported is what was asked for, however many refreshes it took.         *)
(***************************************************************************)
EXTENDS Generation, TLAPS

\* A run by itself: what its worker has reached, and what its modal knows.
RunIsSound(i) ==
  /\ run[i].kind = "unused" => run[i] = Unused
  /\ run[i].kind = "generate" => run[i].origin = i
  /\ run[i].kind = "refresh" =>
       run[i].origin \in Runs /\ run[i].task # NoTask /\ run[i].shown = NoTask
  /\ run[i].pc # "done" => run[i].result = "none"
  /\ Working(i) => run[i].modal # "closed"
  /\ run[i].pc \in {"sent", "first", "again", "asked", "download", "writing"}
       \/ run[i].result = "timeout" => run[i].task # NoTask
  /\ run[i].pc = "lookup" => run[i].task = NoTask /\ run[i].mode # "text"
  /\ run[i].pc \in {"lookup", "submit"} =>
       (run[i].task = NoTask <=> run[i].stage # "refine")
  /\ run[i].cancelled => run[i].modal = "escaped"
  /\ run[i].result = "cancelled" => run[i].cancelled

\* The tasks of a request are made by the run it is the request of, or after it ended.
Begun(o) == run[o].kind = "generate" /\ run[o].task # NoTask
LeftOpen(o) == Begun(o) /\ run[o].modal = "closed"

\* A task that was made has a request, whose run knows of it.
TaskHasRun(t) ==
  /\ task[t] = Unmade <=> task[t].origin = NoRun
  /\ task[t] = Unmade <=> task[t].status = "unmade"
  /\ task[t].origin # NoRun => Begun(task[t].origin)

\* Only what Esc ended is deleted.
DeletedIsEscaped ==
  \A t \in deletes : task[t].origin # NoRun /\ run[task[t].origin].modal = "escaped"

ImportedHasRun ==
  \A e \in imported : run[e.settings].kind # "unused"

\* What a run holds is a task of its request.
RunHasTasks(i) ==
  /\ run[i].task # NoTask => task[run[i].task].origin = run[i].origin
  /\ run[i].shown # NoTask => task[run[i].shown].origin = run[i].origin
  /\ run[i].task # NoTask
       /\ (run[i].pc \in {"submit", "download", "writing"} \/ run[i].result = "path")
       => task[run[i].task].status = "succeeded"
  /\ run[i].modal \in {"escaped", "lost"} \/ run[i].result = "error" =>
       run[i].origin \in forsaken
  /\ run[i].kind = "refresh" => LeftOpen(run[i].origin)

\* What is pending is a task of a request whose own run has ended.
PendingIsSound ==
  pending # NoPending =>
    /\ pending.task # NoTask /\ pending.origin # NoRun /\ pending.settings # NoRun
    /\ task[pending.task].origin = pending.origin
    /\ LeftOpen(pending.origin)
    /\ run[pending.settings].kind = "generate"

\* Only a refine is ever submitted twice.
FirstStageOnce ==
  \A t, u \in TaskIds :
    t # u /\ task[t] # Unmade /\ task[t].origin = task[u].origin
          /\ task[t].stage = task[u].stage
      => task[t].stage = "refine"

\* Without runs that overlap.
Alone == \A i, j \in Runs : UnderWay(i) /\ UnderWay(j) => i = j

\* A refresh knows the task that is pending, or it was given up.
RefreshKnows(i) ==
  /\ run[i].kind = "generate" /\ UnderWay(i) => pending = NoPending
  /\ run[i].kind = "refresh" /\ UnderWay(i) /\ pending # NoPending =>
       /\ pending.origin = run[i].origin
       /\ pending.task = run[i].task \/ task[pending.task].status # "running"
  /\ run[i].kind = "refresh" /\ UnderWay(i) /\ pending = NoPending => run[i].origin \in forsaken

\* A running task is watched or kept.
Tracked(t) ==
  task[t].status = "running" /\ task[t].origin \notin forsaken => Watched(t) \/ pending.task = t

Refined(o) == \E u \in TaskIds : task[u].origin = o /\ task[u].stage = "refine"

Abandoned(o) ==
  \E i \in Runs : /\ run[i].kind = "refresh" /\ run[i].origin = o
                  /\ run[i].modal \in {"escaped", "lost"}

\* The run may still submit a refine, or leave a preview that is to be refined.
Ahead(i) ==
  UnderWay(i) /\ (run[i].stage = "preview" \/ (run[i].stage = "refine" /\ run[i].pc = "submit"))

\* A refine that is still ahead is the first, unless a refresh was abandoned.
AheadIsFirst(i) == Ahead(i) /\ Refined(run[i].origin) => Abandoned(run[i].origin)

PendingIsFirst ==
  pending # NoPending /\ pending.stage = "preview" /\ Refined(pending.origin) =>
    \/ Abandoned(pending.origin)
    \/ \E i \in Runs : /\ run[i].kind = "refresh" /\ run[i].origin = pending.origin
                      /\ run[i].modal = "open" /\ run[i].stage = "refine"

RefinedOnce ==
  \A t, u \in TaskIds :
    t # u /\ task[t] # Unmade /\ task[t].origin = task[u].origin
          /\ task[t].stage = "refine" /\ task[u].stage = "refine"
      => Abandoned(task[t].origin)

SettingsAreOwn == pending.settings = pending.origin

\* The file holds what the run at work downloads, or downloaded.
FileIsOwn(i) ==
  /\ run[i].pc = "writing" =>
       file[run[i].mode] = [state |-> "partial", origin |-> run[i].origin]
  /\ run[i].mode = "text" /\ run[i].result = "path" /\ run[i].modal = "open" =>
       file["text"].state \in Bodies /\ file["text"].origin = run[i].origin

\* What was imported is its own, and its request is over.
ImportedIsOwn(e) ==
  /\ e.mode = "text" => e.file.state \in Bodies /\ e.file.origin = e.settings
  /\ pending.origin # e.settings
  /\ \A i \in Runs : run[i].origin = e.settings => run[i].modal # "open"
  /\ \A f \in imported : e.settings = f.settings => e = f

Single ==
  /\ Alone
  /\ \A i \in Runs : RefreshKnows(i) /\ AheadIsFirst(i) /\ FileIsOwn(i)
  /\ \A t \in TaskIds : Tracked(t)
  /\ PendingIsFirst /\ RefinedOnce /\ SettingsAreOwn
  /\ \A e \in imported : ImportedIsOwn(e)


\* The links between runs, tasks and what is pending.
Linked ==
  /\ \A i \in Runs : RunIsSound(i) /\ RunHasTasks(i)
  /\ \A t \in TaskIds : TaskHasRun(t)
  /\ DeletedIsEscaped /\ ImportedHasRun
  /\ PendingIsSound /\ FirstStageOnce

IInv == TypeOK /\ Linked /\ (~met => Single)
---------------------------------------------------------------------------
(* What each action does, field by field.                                  *)

\* A step of a worker leaves what the main thread keeps of a run.
Same(i) ==
  /\ \A j \in Runs : j # i => run'[j] = run[j]
  /\ run'[i].kind = run[i].kind
  /\ run'[i].mode = run[i].mode
  /\ run'[i].origin = run[i].origin
  /\ run'[i].modal = run[i].modal
  /\ run'[i].cancelled = run[i].cancelled

\* Its task, its stage and what it told of its task.
Held(i) ==
  /\ run'[i].stage = run[i].stage
  /\ run'[i].task = run[i].task
  /\ run'[i].shown = run[i].shown

PCs == {"lookup", "submit", "sent", "first", "again", "asked", "download", "writing",
         "done", "dead"}
Results == {"none", "path", "error", "timeout", "cancelled"}

\* The initial values have their types.
LEMMA TypeInit == Init => TypeOK
<1> SUFFICES ASSUME Init PROVE TypeOK
  OBVIOUS
<1>1. Unused \in Run
  BY DEF Run, Unused, Stages, ModeNames, NoRun, NoTask
<1>2. NoPending \in Pending
  BY DEF NoPending, Pending, Stages, ModeNames, NoRun, NoTask
<1>3. Unmade \in Task
  BY DEF Unmade, Task, Stages
<1>4. [state |-> "absent", origin |-> NoRun] \in File
  BY DEF File
<1> QED BY <1>1, <1>2, <1>3, <1>4 DEF Init, TypeOK

\* A field that gets a value of its type leaves a record a run.
LEMMA RunFields ==
  ASSUME NEW r \in Run
  PROVE  /\ \A v \in {"unused", "generate", "refresh"} : [r EXCEPT !.kind = v] \in Run
         /\ \A v \in ModeNames : [r EXCEPT !.mode = v] \in Run
         /\ \A v \in Runs \cup {NoRun} : [r EXCEPT !.origin = v] \in Run
         /\ \A v \in PCs : [r EXCEPT !.pc = v] \in Run
         /\ \A v \in Results : [r EXCEPT !.result = v] \in Run
         /\ \A v \in TaskIds \cup {NoTask} : [r EXCEPT !.task = v] \in Run
         /\ \A v \in TaskIds \cup {NoTask} : [r EXCEPT !.shown = v] \in Run
         /\ \A v \in Stages : [r EXCEPT !.stage = v] \in Run
         /\ \A v \in {"open", "closed", "escaped", "lost"} : [r EXCEPT !.modal = v] \in Run
         /\ \A v \in BOOLEAN : [r EXCEPT !.cancelled = v] \in Run
<1>1. \A v \in {"unused", "generate", "refresh"} : [r EXCEPT !.kind = v] \in Run
  BY DEF Run
<1>2. \A v \in ModeNames : [r EXCEPT !.mode = v] \in Run
  BY DEF Run
<1>3. \A v \in Runs \cup {NoRun} : [r EXCEPT !.origin = v] \in Run
  BY DEF Run
<1>4. \A v \in PCs : [r EXCEPT !.pc = v] \in Run
  BY DEF Run, PCs
<1>5. \A v \in Results : [r EXCEPT !.result = v] \in Run
  BY DEF Run, Results
<1>6. \A v \in TaskIds \cup {NoTask} :
        [r EXCEPT !.task = v] \in Run /\ [r EXCEPT !.shown = v] \in Run
  BY DEF Run
<1>7. \A v \in Stages : [r EXCEPT !.stage = v] \in Run
  BY DEF Run
<1>8. \A v \in {"open", "closed", "escaped", "lost"} : [r EXCEPT !.modal = v] \in Run
  BY DEF Run
<1>9. \A v \in BOOLEAN : [r EXCEPT !.cancelled = v] \in Run
  BY DEF Run
<1> QED BY <1>1, <1>2, <1>3, <1>4, <1>5, <1>6, <1>7, <1>8, <1>9

\* A run that has just been started.
Fresh(kind, mode, origin, pc, stage) ==
  [Unused EXCEPT !.kind = kind, !.mode = mode, !.origin = origin, !.modal = "open",
                 !.pc = pc, !.stage = stage]

\* It is a run.
LEMMA FreshIsRun ==
  ASSUME NEW kind \in {"generate", "refresh"}, NEW mode \in ModeNames,
         NEW origin \in Runs \cup {NoRun}, NEW pc \in PCs, NEW stage \in Stages
  PROVE  Fresh(kind, mode, origin, pc, stage) \in Run
<1> DEFINE a == [Unused EXCEPT !.kind = kind]
           b == [a EXCEPT !.mode = mode]
           c == [b EXCEPT !.origin = origin]
           d == [c EXCEPT !.modal = "open"]
           e == [d EXCEPT !.pc = pc]
           f == [e EXCEPT !.stage = stage]
<1>1. Unused \in Run
  BY DEF Unused, Run, Stages, ModeNames, NoRun, NoTask
<1>2. a \in Run
  BY <1>1, RunFields
<1>3. b \in Run
  <2> HIDE DEF a
  <2> QED BY <1>2, RunFields
<1>4. c \in Run
  <2> HIDE DEF b
  <2> QED BY <1>3, RunFields
<1>5. d \in Run
  <2> HIDE DEF c
  <2> QED BY <1>4, RunFields
<1>6. e \in Run
  <2> HIDE DEF d
  <2> QED BY <1>5, RunFields
<1>7. f \in Run
  <2> HIDE DEF e
  <2> QED BY <1>6, RunFields
<1> QED BY <1>7 DEF Fresh

\* Its fields.
LEMMA FreshFields ==
  ASSUME NEW kind, NEW mode, NEW origin, NEW pc, NEW stage
  PROVE  /\ Fresh(kind, mode, origin, pc, stage).kind = kind
         /\ Fresh(kind, mode, origin, pc, stage).mode = mode
         /\ Fresh(kind, mode, origin, pc, stage).origin = origin
         /\ Fresh(kind, mode, origin, pc, stage).modal = "open"
         /\ Fresh(kind, mode, origin, pc, stage).pc = pc
         /\ Fresh(kind, mode, origin, pc, stage).stage = stage
  BY DEF Fresh, Unused

\* The fields it has from Unused.
LEMMA FreshRest ==
  ASSUME NEW kind, NEW mode, NEW origin, NEW pc, NEW stage
  PROVE  /\ Fresh(kind, mode, origin, pc, stage).cancelled = FALSE
         /\ Fresh(kind, mode, origin, pc, stage).task = NoTask
         /\ Fresh(kind, mode, origin, pc, stage).shown = NoTask
         /\ Fresh(kind, mode, origin, pc, stage).result = "none"
  BY DEF Fresh, Unused

\* A worker that goes on keeps all but its place.
LEMMA GoesDoes ==
  ASSUME TypeOK, NEW i \in Runs, NEW to \in PCs, Goes(i, to)
  PROVE  Same(i) /\ Held(i) /\ run'[i].pc = to /\ run'[i].result = run[i].result
         /\ run' \in [Runs -> Run]
  BY DEF TypeOK, Run, Goes, Same, Held, PCs

\* A worker that ends keeps all but its place and its result.
LEMMA EndsDoes ==
  ASSUME TypeOK, NEW i \in Runs, NEW result \in Results, Ends(i, result)
  PROVE  Same(i) /\ Held(i) /\ run'[i].pc = "done" /\ run'[i].result = result
         /\ run' \in [Runs -> Run]
<1>1. run' \in [Runs -> Run]
  <2>1. [run[i] EXCEPT !.pc = "done", !.result = result] \in Run
    <3> DEFINE r == [run[i] EXCEPT !.pc = "done"]
    <3>1. run[i] \in Run /\ "done" \in PCs
      BY DEF TypeOK, PCs
    <3>2. r \in Run
      BY <3>1, RunFields
    <3> HIDE DEF r
    <3>3. [r EXCEPT !.result = result] \in Run
      BY <3>2, RunFields
    <3> QED BY <3>3 DEF r
  <2>2. run' = [run EXCEPT ![i] = [run[i] EXCEPT !.pc = "done", !.result = result]]
    BY DEF TypeOK, Run, Ends
  <2> QED BY <2>1, <2>2 DEF TypeOK
<1>2. run'[i].pc = "done" /\ run'[i].result = result
  BY DEF TypeOK, Run, Ends
<1>3. Same(i) /\ Held(i)
  BY DEF TypeOK, Run, Ends, Same, Held
<1> QED BY <1>1, <1>2, <1>3

\* A modal that closes keeps all but that.
LEMMA ClosesDoes ==
  ASSUME TypeOK, NEW i \in Runs, Closes(i)
  PROVE  /\ run' \in [Runs -> Run]
         /\ \A j \in Runs : j # i => run'[j] = run[j]
         /\ run'[i].kind = run[i].kind
         /\ run'[i].mode = run[i].mode
         /\ run'[i].origin = run[i].origin
         /\ run'[i].modal = "closed"
         /\ run'[i].cancelled = run[i].cancelled
         /\ run'[i].pc = run[i].pc
         /\ run'[i].result = run[i].result
         /\ Held(i)
  BY DEF TypeOK, Run, Closes, Held

\* What a worker's step does to its run.
Steps(i, from, to) ==
  /\ run[i].kind # "unused"
  /\ run[i].pc \in from
  /\ Same(i)
  /\ run' \in [Runs -> Run]
  /\ run'[i].pc = to

LookUpEffect(i) ==
  /\ Held(i)
  /\ \/ /\ Steps(i, {"lookup"}, "done")
        /\ run'[i].result = "path"
        /\ file[run[i].mode].state # "absent"
     \/ Steps(i, {"lookup"}, "submit") /\ run'[i].result = run[i].result
  /\ UNCHANGED <<pending, task, deletes, file, imported, forsaken, met>>

\* LookUp ends with the file that is there, or goes on to the request.
LEMMA LookUpDoes ==
  ASSUME TypeOK, NEW i \in Runs, LookUp(i)
  PROVE  LookUpEffect(i)
  BY GoesDoes, EndsDoes DEF LookUp, At, Steps, PCs, Results, LookUpEffect

SubmitEffect(i) ==
  /\ Steps(i, {"submit"}, "sent")
  /\ run'[i].result = run[i].result
  /\ run'[i].shown = run[i].shown
  /\ run'[i].stage = run[i].stage
  /\ run'[i].task \in TaskIds
  /\ task[run'[i].task] = Unmade
  /\ task'[run'[i].task] =
       [status |-> "running", stage |-> run[i].stage, origin |-> run[i].origin]
  /\ \A u \in TaskIds : u # run'[i].task => task'[u] = task[u]
  /\ task' \in [TaskIds -> Task]
  /\ UNCHANGED <<pending, deletes, file, imported, forsaken, met>>

\* Submit makes a task, and the run holds it.
LEMMA SubmitDoes ==
  ASSUME TypeOK, NEW i \in Runs, Submit(i)
  PROVE  SubmitEffect(i)
<1> PICK t \in TaskIds :
       /\ task[t] = Unmade
       /\ task' = [task EXCEPT ![t] =
            [status |-> "running", stage |-> run[i].stage, origin |-> run[i].origin]]
       /\ run' = [run EXCEPT ![i].pc = "sent", ![i].task = t]
  BY DEF Submit
<1>1. [status |-> "running", stage |-> run[i].stage, origin |-> run[i].origin] \in Task
  BY DEF TypeOK, Run, Task
<1>2. task' \in [TaskIds -> Task]
  BY <1>1 DEF TypeOK
<1>4. run' \in [Runs -> Run]
  <2>1. [run[i] EXCEPT !.pc = "sent", !.task = t] \in Run
    <3> DEFINE r == [run[i] EXCEPT !.pc = "sent"]
    <3>1. run[i] \in Run /\ "sent" \in PCs
      BY DEF TypeOK, PCs
    <3>2. r \in Run
      BY <3>1, RunFields
    <3> HIDE DEF r
    <3>3. [r EXCEPT !.task = t] \in Run
      BY <3>2, RunFields
    <3> QED BY <3>3 DEF r
  <2>2. run' = [run EXCEPT ![i] = [run[i] EXCEPT !.pc = "sent", !.task = t]]
    BY DEF TypeOK, Run
  <2> QED BY <2>1, <2>2 DEF TypeOK
<1>5. Same(i)
  BY DEF TypeOK, Run, Same
<1>6. run'[i].task = t /\ run'[i].pc = "sent" /\ run'[i].result = run[i].result
         /\ run'[i].shown = run[i].shown
         /\ run'[i].stage = run[i].stage
  BY DEF TypeOK, Run
<1>3. Steps(i, {"submit"}, "sent")
  BY <1>4, <1>5, <1>6 DEF Submit, At, Steps
<1> QED BY <1>6, <1>1, <1>2, <1>3 DEF TypeOK, Submit, SubmitEffect

\* What a failure does.
Fails(i, from) ==
  /\ Steps(i, from, "done")
  /\ Held(i)
  /\ run'[i].result = "error"
  /\ forsaken' = forsaken \cup {run[i].origin}
  /\ UNCHANGED <<pending, task, deletes, file, imported, met>>

SubmitFailsEffect(i) ==
  Fails(i, {"submit", "sent"})

\* A request that fails is given up.
LEMMA SubmitFailsDoes ==
  ASSUME TypeOK, NEW i \in Runs, SubmitFails(i)
  PROVE  SubmitFailsEffect(i)
  BY EndsDoes DEF SubmitFails, At, Steps, Results, Fails, SubmitFailsEffect

LookupFailsEffect(i) ==
  Fails(i, {"asked"})

\* So is one whose poll fails.
LEMMA LookupFailsDoes ==
  ASSUME TypeOK, NEW i \in Runs, LookupFails(i)
  PROVE  LookupFailsEffect(i)
  BY EndsDoes DEF LookupFails, At, Steps, Results, Fails, LookupFailsEffect

DownloadFailsEffect(i) ==
  Fails(i, {"download", "writing"})

\* So is one whose download fails.
LEMMA DownloadFailsDoes ==
  ASSUME TypeOK, NEW i \in Runs, DownloadFails(i)
  PROVE  DownloadFailsEffect(i)
  BY EndsDoes DEF DownloadFails, At, Steps, Results, Fails, DownloadFailsEffect

HearTaskEffect(i) ==
  /\ Steps(i, {"sent"}, "first")
  /\ run'[i].result = run[i].result
  /\ run'[i].stage = run[i].stage
  /\ run'[i].task = run[i].task
  /\ \/ run'[i].shown = run[i].shown
     \/ run'[i].shown = run[i].task /\ run[i].kind = "generate"
  /\ UNCHANGED <<pending, task, deletes, file, imported, forsaken, met>>

\* HearTask tells, at most, of the task the run holds.
LEMMA HearTaskDoes ==
  ASSUME TypeOK, NEW i \in Runs, HearTask(i)
  PROVE  HearTaskEffect(i)
<1> DEFINE told == IF run[i].kind = "generate" /\ run[i].mode # "tripo"
                   THEN run[i].task ELSE run[i].shown
<1>1. run' \in [Runs -> Run]
  <2>1. [run[i] EXCEPT !.pc = "first", !.shown = told] \in Run
    <3> DEFINE r == [run[i] EXCEPT !.pc = "first"]
    <3>1. run[i] \in Run /\ "first" \in PCs
      BY DEF TypeOK, PCs
    <3>2. r \in Run
      BY <3>1, RunFields
    <3>3. told \in TaskIds \cup {NoTask}
      BY <3>1 DEF Run
    <3> HIDE DEF r, told
    <3>4. [r EXCEPT !.shown = told] \in Run
      BY <3>2, <3>3, RunFields
    <3> QED BY <3>4 DEF r
  <2>2. run' = [run EXCEPT ![i] = [run[i] EXCEPT !.pc = "first", !.shown = told]]
    BY DEF TypeOK, Run, HearTask
  <2> QED BY <2>1, <2>2 DEF TypeOK
<1>2. Same(i)
  BY DEF TypeOK, Run, HearTask, Same
<1>3. /\ run'[i].pc = "first"
      /\ run'[i].result = run[i].result
      /\ run'[i].stage = run[i].stage
      /\ run'[i].task = run[i].task
      /\ \/ run'[i].shown = run[i].shown
         \/ run'[i].shown = run[i].task /\ run[i].kind = "generate"
  BY DEF TypeOK, Run, HearTask
<1> QED BY <1>1, <1>2, <1>3 DEF HearTask, At, Steps, HearTaskEffect

CheckCancelEffect(i) ==
  /\ Held(i)
  /\ \/ /\ Steps(i, {"first", "again"}, "done")
        /\ run'[i].result = "cancelled"
        /\ run[i].cancelled
     \/ /\ Steps(i, {"first", "again"}, "asked")
        /\ run'[i].result = run[i].result
        /\ ~StopsPolling(i)
  /\ UNCHANGED <<pending, task, deletes, file, imported, forsaken, met>>

\* CheckCancel ends only what was cancelled.
LEMMA CheckCancelDoes ==
  ASSUME TypeOK, NEW i \in Runs, CheckCancel(i)
  PROVE  CheckCancelEffect(i)
  BY GoesDoes, EndsDoes
     DEF CheckCancel, At, Steps, PCs, Results, StopsPolling, CheckCancelEffect

ExpireEffect(i) ==
  \/ Fails(i, {"again"})
  \/ /\ Steps(i, {"again"}, "done")
     /\ Held(i)
     /\ run'[i].result = "timeout"
     /\ UNCHANGED <<pending, task, deletes, file, imported, forsaken, met>>

\* Expire gives up, or leaves a timeout to the tick.
LEMMA ExpireDoes ==
  ASSUME TypeOK, NEW i \in Runs, Expire(i)
  PROVE  ExpireEffect(i)
<1>1. CASE run[i].mode = "tripo"
  BY <1>1, EndsDoes DEF Expire, At, Steps, Results, Fails, ExpireEffect
<1>2. CASE run[i].mode # "tripo"
  BY <1>2, EndsDoes DEF Expire, At, Steps, Results, Fails, ExpireEffect
<1> QED BY <1>1, <1>2 DEF ExpireEffect

StillRunningEffect(i) ==
  /\ Steps(i, {"asked"}, "again")
  /\ Held(i)
  /\ run'[i].result = run[i].result
  /\ UNCHANGED <<pending, task, deletes, file, imported, forsaken, met>>

\* StillRunning changes the place only.
LEMMA StillRunningDoes ==
  ASSUME TypeOK, NEW i \in Runs, StillRunning(i)
  PROVE  StillRunningEffect(i)
  BY GoesDoes DEF StillRunning, At, Steps, PCs, StillRunningEffect

SucceededEffect(i) ==
  /\ run'[i].result = run[i].result
  /\ run'[i].task = run[i].task
  /\ run'[i].shown = run[i].shown
  /\ task[run[i].task].status = "succeeded"
  /\ \/ /\ Steps(i, {"asked"}, "submit")
        /\ run[i].stage = "preview"
        /\ run'[i].stage = "refine"
     \/ /\ Steps(i, {"asked"}, "download")
        /\ run[i].stage # "preview"
        /\ run'[i].stage = run[i].stage
  /\ UNCHANGED <<pending, task, deletes, file, imported, forsaken, met>>

\* Succeeded goes on with a refine after a preview, or else with the download.
LEMMA SucceededDoes ==
  ASSUME TypeOK, NEW i \in Runs, Succeeded(i)
  PROVE  SucceededEffect(i)
<1>1. CASE run[i].stage = "preview"
  BY <1>1
     DEF TypeOK, Run, Succeeded, At, Steps, Same, ContinuesWithRefine, Stages,
         SucceededEffect
<1>2. CASE run[i].stage # "preview"
  BY <1>2 DEF TypeOK, Run, Succeeded, At, Steps, Same, ContinuesWithRefine, SucceededEffect
<1> QED BY <1>1, <1>2 DEF SucceededEffect

OpenFileEffect(i) ==
  /\ Steps(i, {"download"}, "writing")
  /\ Held(i)
  /\ run'[i].result = run[i].result
  /\ file' \in [ModeNames -> File]
  /\ \A m \in ModeNames : m # run[i].mode => file'[m] = file[m]
  /\ file'[run[i].mode].origin = run[i].origin
  /\ Writers(run[i].mode) = {} =>
       file'[run[i].mode] = [state |-> "partial", origin |-> run[i].origin]
  /\ UNCHANGED <<pending, task, deletes, imported, forsaken, met>>

\* OpenFile leaves the file partial, and the own one, unless another writes.
LEMMA OpenFileDoes ==
  ASSUME TypeOK, NEW i \in Runs, OpenFile(i)
  PROVE  OpenFileEffect(i)
<1>1. run[i].mode \in ModeNames /\ run[i].origin \in Runs \cup {NoRun}
  BY DEF TypeOK, Run, OpenFileEffect
<1>2. CASE Writers(run[i].mode) = {}
  BY <1>1, <1>2, GoesDoes DEF OpenFile, At, Steps, PCs, File, TypeOK, OpenFileEffect
<1>3. CASE Writers(run[i].mode) # {}
  BY <1>1, <1>3, GoesDoes DEF OpenFile, At, Steps, PCs, File, TypeOK, OpenFileEffect
<1> QED BY <1>2, <1>3 DEF OpenFileEffect

CloseFileEffect(i) ==
  /\ Steps(i, {"writing"}, "done")
  /\ Held(i)
  /\ run'[i].result = "path"
  /\ file' \in [ModeNames -> File]
  /\ \A m \in ModeNames : m # run[i].mode => file'[m] = file[m]
  /\ file'[run[i].mode].origin = file[run[i].mode].origin
  /\ file[run[i].mode].state = "partial" =>
       file'[run[i].mode].state \in Bodies
  /\ UNCHANGED <<pending, task, deletes, imported, forsaken, met>>

\* CloseFile ends a partial file, with all of the body or less.
LEMMA CloseFileDoes ==
  ASSUME TypeOK, NEW i \in Runs, CloseFile(i)
  PROVE  CloseFileEffect(i)
<1>1. run[i].mode \in ModeNames
  BY DEF TypeOK, Run, CloseFileEffect
<1>2. PICK body \in Bodies :
        file' = [file EXCEPT ![run[i].mode].state = IF @ = "mixed" THEN "mixed" ELSE body]
  BY DEF CloseFile
<1>3. CASE file[run[i].mode].state = "mixed"
  BY <1>1, <1>2, <1>3, EndsDoes
     DEF CloseFile, At, Steps, Results, File, TypeOK, CloseFileEffect
<1>4. CASE file[run[i].mode].state # "mixed"
  BY <1>1, <1>2, <1>4, EndsDoes
     DEF CloseFile, Bodies, At, Steps, Results, File, TypeOK, CloseFileEffect
<1> QED BY <1>3, <1>4 DEF CloseFileEffect

\* A run that is started was unused.
Started(i, kind) ==
  /\ \A j \in Runs : j # i => run'[j] = run[j]
  /\ run[i].kind = "unused"
  /\ \A j \in Runs : j >= i => run[j].kind = "unused"
  /\ run'[i].kind = kind
  /\ run'[i].modal = "open"
  /\ run'[i].cancelled = FALSE
  /\ run'[i].shown = NoTask
  /\ run'[i].result = "none"
  /\ run' \in [Runs -> Run]
  /\ met' = (met \/ Busy # {})

RefuseInputEffect ==
  /\ pending' = NoPending
  /\ forsaken' = forsaken \cup PendingOrigin
  /\ UNCHANGED <<run, task, deletes, file, imported, met>>

\* RefuseInput forgets what is pending.
LEMMA RefuseInputDoes ==
  ASSUME TypeOK, RefuseInput
  PROVE  RefuseInputEffect
  BY DEF RefuseInput, RefuseInputEffect

GenerateEffect(i, m) ==
  /\ Started(i, "generate")
  /\ run'[i].mode = m
  /\ run'[i].origin = i
  /\ run'[i].pc = IF m = "text" THEN "submit" ELSE "lookup"
  /\ run'[i].stage \in {"preview", "image", "tripo"}
  /\ run'[i].stage = "preview" => m = "text"
  /\ run'[i].task = NoTask
  /\ pending' = NoPending
  /\ forsaken' = forsaken \cup PendingOrigin
  /\ UNCHANGED <<task, deletes, file, imported>>

\* Generate starts a run without a task, and forgets what is pending.
LEMMA GenerateDoes ==
  ASSUME TypeOK, NEW i \in Runs, NEW m \in Modes, Generate(i, m)
  PROVE  GenerateEffect(i, m)
<1>1. m \in ModeNames /\ FirstStage(m) \in {"preview", "image", "tripo"}
      /\ (FirstStage(m) = "preview" => m = "text")
  BY GenerationAssumption DEF FirstStage, ModeNames
<1> DEFINE first == IF m = "text" THEN "submit" ELSE "lookup"
           r == Fresh("generate", m, i, first, FirstStage(m))
<1>2. run' = [run EXCEPT ![i] = r]
  BY DEF Generate, Fresh
<1>3. r \in Run
  BY <1>1, FreshIsRun DEF PCs, Stages
<1>4. run' \in [Runs -> Run]
  BY <1>2, <1>3 DEF TypeOK
<1>5. run'[i] = r /\ \A j \in Runs : j # i => run'[j] = run[j]
  BY <1>2 DEF TypeOK
<1>7. /\ r.kind = "generate" /\ r.mode = m /\ r.origin = i
      /\ r.modal = "open" /\ r.pc = first /\ r.stage = FirstStage(m)
  <2> HIDE DEF first
  <2> QED BY FreshFields
<1>8. r.cancelled = FALSE /\ r.task = NoTask /\ r.shown = NoTask /\ r.result = "none"
  <2> HIDE DEF first
  <2> QED BY FreshRest
<1> HIDE DEF r
<1>6. run[i].kind = "unused" /\ \A j \in Runs : j >= i => run[j].kind = "unused"
  BY DEF Generate, IsNext, Runs
<1> QED BY <1>1, <1>4, <1>5, <1>6, <1>7, <1>8 DEF Generate, Started, GenerateEffect

RefreshMeshyEffect(i) ==
  /\ Started(i, "refresh")
  /\ pending # NoPending
  /\ run'[i].mode = pending.mode
  /\ run'[i].origin = pending.origin
  /\ run'[i].pc = "first"
  /\ run'[i].stage = pending.stage
  /\ run'[i].task = pending.task
  /\ UNCHANGED <<pending, task, deletes, file, imported, forsaken>>

\* RefreshMeshy starts a run with the pending task, and keeps it pending.
LEMMA RefreshMeshyDoes ==
  ASSUME TypeOK, NEW i \in Runs, RefreshMeshy(i)
  PROVE  RefreshMeshyEffect(i)
<1> DEFINE f == Fresh("refresh", pending.mode, pending.origin, "first", pending.stage)
           r == [f EXCEPT !.task = pending.task]
<1>1. /\ pending.mode \in ModeNames /\ pending.origin \in Runs \cup {NoRun}
      /\ pending.stage \in Stages /\ pending.task \in TaskIds \cup {NoTask}
  BY DEF TypeOK, Pending
<1>2. run' = [run EXCEPT ![i] = r]
  BY DEF RefreshMeshy, Fresh, TakenUpAt
<1>3. f \in Run
  BY <1>1, FreshIsRun DEF PCs
<1>6. /\ f.kind = "refresh" /\ f.mode = pending.mode /\ f.origin = pending.origin
      /\ f.modal = "open" /\ f.pc = "first" /\ f.stage = pending.stage
  BY FreshFields
<1>7. f.cancelled = FALSE /\ f.shown = NoTask /\ f.result = "none"
  BY DEF Fresh, Unused
<1>8. r \in Run
  <2> HIDE DEF f
  <2> QED BY <1>1, <1>3, RunFields
<1>9. /\ r.kind = "refresh" /\ r.mode = pending.mode /\ r.origin = pending.origin
      /\ r.modal = "open" /\ r.cancelled = FALSE
      /\ r.pc = "first" /\ r.stage = pending.stage /\ r.task = pending.task
      /\ r.shown = NoTask /\ r.result = "none"
  <2> HIDE DEF f
  <2> QED BY <1>3, <1>6, <1>7 DEF Run
<1>4. run' \in [Runs -> Run]
  BY <1>2, <1>8 DEF TypeOK
<1>5. run'[i] = r /\ \A j \in Runs : j # i => run'[j] = run[j]
  BY <1>2 DEF TypeOK
<1>10. run[i].kind = "unused" /\ \A j \in Runs : j >= i => run[j].kind = "unused"
  BY DEF RefreshMeshy, IsNext, Runs
<1> HIDE DEF r
<1> QED BY <1>4, <1>5, <1>9, <1>10 DEF RefreshMeshy, Started, RefreshMeshyEffect

\* A modal that ends by itself, with the result of its worker.
Closed(i, kind, result) ==
  /\ run[i].kind = kind
  /\ run[i].modal = "open"
  /\ run[i].pc = "done"
  /\ run[i].result = result
  /\ run' \in [Runs -> Run]
  /\ \A j \in Runs : j # i => run'[j] = run[j]
  /\ run'[i].kind = run[i].kind
  /\ run'[i].mode = run[i].mode
  /\ run'[i].origin = run[i].origin
  /\ run'[i].modal = "closed"
  /\ run'[i].cancelled = run[i].cancelled
  /\ run'[i].pc = run[i].pc
  /\ run'[i].result = run[i].result
  /\ Held(i)
  /\ UNCHANGED <<task, deletes, file, forsaken, met>>

GenerateTimedOutEffect(i) ==
  /\ Closed(i, "generate", "timeout")
  /\ pending' = [task |-> run[i].task, stage |-> run[i].stage, mode |-> run[i].mode,
                 origin |-> i, settings |-> i]
  /\ pending' \in Pending
  /\ UNCHANGED imported

\* GenerateTimedOut keeps the task of the run.
LEMMA GenerateTimedOutDoes ==
  ASSUME TypeOK, NEW i \in Runs, GenerateTimedOut(i)
  PROVE  GenerateTimedOutEffect(i)
<1>1. pending' \in Pending
  BY DEF GenerateTimedOut, LeftBehind, TypeOK, Run, Pending
<1> QED BY <1>1, ClosesDoes
   DEF GenerateTimedOut, Ticks, Closed, LeftBehind, GenerateTimedOutEffect

GenerateFailedEffect(i) ==
  Closed(i, "generate", "error") /\ UNCHANGED <<pending, imported>>

\* GenerateFailed only closes the modal.
LEMMA GenerateFailedDoes ==
  ASSUME TypeOK, NEW i \in Runs, GenerateFailed(i)
  PROVE  GenerateFailedEffect(i)
  BY ClosesDoes DEF GenerateFailed, Ticks, Closed, GenerateFailedEffect

GenerateSucceededEffect(i) ==
  /\ Closed(i, "generate", "path")
  /\ imported' = imported \cup
       {[run |-> i, settings |-> i, mode |-> run[i].mode, file |-> file[run[i].mode]]}
  /\ UNCHANGED pending

\* GenerateSucceeded imports with the settings of the run.
LEMMA GenerateSucceededDoes ==
  ASSUME TypeOK, NEW i \in Runs, GenerateSucceeded(i)
  PROVE  GenerateSucceededEffect(i)
  BY ClosesDoes DEF GenerateSucceeded, Ticks, Closed, Imports, GenerateSucceededEffect

RefreshTimedOutEffect(i) ==
  /\ Closed(i, "refresh", "timeout")
  /\ \/ pending = NoPending /\ pending' = NoPending
     \/ /\ pending # NoPending
        /\ pending' = [task |-> run[i].task, stage |-> run[i].stage, mode |-> run[i].mode,
                       origin |-> run[i].origin, settings |-> pending.settings]
  /\ pending' \in Pending
  /\ UNCHANGED imported

\* RefreshTimedOut replaces the task, never the settings.
LEMMA RefreshTimedOutDoes ==
  ASSUME TypeOK, NEW i \in Runs, RefreshTimedOut(i)
  PROVE  RefreshTimedOutEffect(i)
<1>1. CASE pending = NoPending
  BY <1>1, ClosesDoes DEF RefreshTimedOut, Ticks, Closed, TypeOK, RefreshTimedOutEffect
<1>2. CASE pending # NoPending
  <2>1. pending' = [task |-> run[i].task, stage |-> run[i].stage, mode |-> run[i].mode,
                    origin |-> run[i].origin, settings |-> pending.settings]
    BY <1>2 DEF RefreshTimedOut, TypeOK, Pending
  <2>2. pending' \in Pending
    BY <2>1 DEF TypeOK, Run, Pending
  <2> QED BY <1>2, <2>1, <2>2, ClosesDoes
     DEF RefreshTimedOut, Ticks, Closed, RefreshTimedOutEffect
<1> QED BY <1>1, <1>2 DEF RefreshTimedOutEffect

RefreshFailedEffect(i) ==
  Closed(i, "refresh", "error") /\ pending' = NoPending /\ UNCHANGED imported

\* RefreshFailed forgets what is pending.
LEMMA RefreshFailedDoes ==
  ASSUME TypeOK, NEW i \in Runs, RefreshFailed(i)
  PROVE  RefreshFailedEffect(i)
  BY ClosesDoes DEF RefreshFailed, Ticks, Closed, RefreshFailedEffect

RefreshSucceededEffect(i) ==
  /\ Closed(i, "refresh", "path")
  /\ pending' = NoPending
  /\ \/ pending = NoPending /\ UNCHANGED imported
     \/ /\ pending # NoPending
        /\ imported' = imported \cup {[run |-> i, settings |-> pending.settings,
                                       mode |-> run[i].mode, file |-> file[run[i].mode]]}

\* RefreshSucceeded imports with the pending settings, if there are any.
LEMMA RefreshSucceededDoes ==
  ASSUME TypeOK, NEW i \in Runs, RefreshSucceeded(i)
  PROVE  RefreshSucceededEffect(i)
  BY ClosesDoes DEF RefreshSucceeded, Ticks, Closed, Imports, RefreshSucceededEffect

EscEffect(i) ==
  /\ run[i].modal = "open"
  /\ run' \in [Runs -> Run]
  /\ \A j \in Runs : j # i => run'[j] = run[j]
  /\ run'[i].kind = run[i].kind
  /\ run'[i].mode = run[i].mode
  /\ run'[i].origin = run[i].origin
  /\ run'[i].modal = "escaped"
  /\ run'[i].cancelled
  /\ run'[i].pc = run[i].pc
  /\ run'[i].result = run[i].result
  /\ Held(i)
  /\ deletes' = deletes \cup ({run[i].shown} \ {NoTask})
  /\ forsaken' = forsaken \cup {run[i].origin}
  /\ UNCHANGED <<pending, task, file, imported, met>>

\* Esc cancels and deletes what was told of.
LEMMA EscDoes ==
  ASSUME TypeOK, NEW i \in Runs, Esc(i)
  PROVE  EscEffect(i)
<1>1. run' \in [Runs -> Run]
  <2>1. [run[i] EXCEPT !.modal = "escaped", !.cancelled = TRUE] \in Run
    <3> DEFINE r == [run[i] EXCEPT !.modal = "escaped"]
    <3>1. run[i] \in Run
      BY DEF TypeOK
    <3>2. r \in Run
      BY <3>1, RunFields
    <3> HIDE DEF r
    <3>3. [r EXCEPT !.cancelled = TRUE] \in Run
      BY <3>2, RunFields
    <3> QED BY <3>3 DEF r
  <2>2. run' = [run EXCEPT ![i] = [run[i] EXCEPT !.modal = "escaped", !.cancelled = TRUE]]
    BY DEF TypeOK, Run, Esc
  <2> QED BY <2>1, <2>2 DEF TypeOK
<1>2. /\ \A j \in Runs : j # i => run'[j] = run[j]
      /\ run'[i].kind = run[i].kind
      /\ run'[i].mode = run[i].mode
      /\ run'[i].origin = run[i].origin
      /\ run'[i].modal = "escaped"
      /\ run'[i].cancelled
      /\ run'[i].pc = run[i].pc
      /\ run'[i].result = run[i].result
      /\ Held(i)
  BY DEF TypeOK, Run, Esc, Held
<1> QED BY <1>1, <1>2 DEF Esc, DeletedByEsc, EscEffect

LoadFileEffect ==
  /\ run' \in [Runs -> Run]
  /\ \A j \in Runs : run[j].modal # "open" => run'[j] = run[j]
  /\ \A j \in Runs : /\ run[j].modal = "open" => run'[j].modal = "lost"
                     /\ run'[j].kind = run[j].kind
                     /\ run'[j].mode = run[j].mode
                     /\ run'[j].origin = run[j].origin
                     /\ run'[j].pc = run[j].pc
                     /\ run'[j].result = run[j].result
                     /\ run'[j].cancelled = run[j].cancelled
                     /\ Held(j)
  /\ \A o : o \in forsaken' <=>
       o \in forsaken \/ \E j \in Runs : run[j].modal = "open" /\ run[j].origin = o
  /\ UNCHANGED <<pending, task, deletes, file, imported, met>>

\* LoadFile loses every modal that is open.
LEMMA LoadFileDoes ==
  ASSUME TypeOK, LoadFile
  PROVE  LoadFileEffect
  BY SMTT(30) DEF TypeOK, Run, LoadFile, Held, LoadFileEffect

QuitEffect ==
  /\ run' \in [Runs -> Run]
  /\ \A j \in Runs : /\ run'[j].modal = IF run[j].modal = "open" THEN "lost" ELSE run[j].modal
                     /\ run'[j].kind = run[j].kind
                     /\ run'[j].mode = run[j].mode
                     /\ run'[j].origin = run[j].origin
                     /\ run'[j].pc = IF Working(j) THEN "dead" ELSE run[j].pc
                     /\ run'[j].result = run[j].result
                     /\ run'[j].cancelled = run[j].cancelled
                     /\ Held(j)
                     /\ ~UnderWay(j) => run'[j] = run[j]
  /\ \A o : o \in forsaken' <=>
       o \in forsaken \/ o \in PendingOrigin \/ \E j \in Busy : run[j].origin = o
  /\ pending' = NoPending
  /\ UNCHANGED <<task, deletes, file, imported, met>>

\* Quit ends every worker and every modal.
LEMMA QuitDoes ==
  ASSUME TypeOK, Quit
  PROVE  QuitEffect
<1>1. run' \in [Runs -> Run]
  <2>1. ASSUME NEW j \in Runs
        PROVE  run'[j] \in Run
    <3> DEFINE to == IF Working(j) THEN "dead" ELSE run[j].pc
               modal == IF run[j].modal = "open" THEN "lost" ELSE run[j].modal
               r == [run[j] EXCEPT !.pc = to]
    <3>1. run[j] \in Run /\ to \in PCs /\ modal \in {"open", "closed", "escaped", "lost"}
      BY DEF TypeOK, PCs, Run
    <3>2. run'[j] = [r EXCEPT !.modal = modal]
      BY <3>1 DEF Quit, Run
    <3>3. r \in Run
      BY <3>1, RunFields
    <3> HIDE DEF r, modal
    <3> QED BY <3>1, <3>2, <3>3, RunFields
  <2> QED BY <2>1 DEF Quit
<1>2. ASSUME NEW j \in Runs
      PROVE  /\ run'[j].modal = IF run[j].modal = "open" THEN "lost" ELSE run[j].modal
             /\ run'[j].kind = run[j].kind
             /\ run'[j].mode = run[j].mode
             /\ run'[j].origin = run[j].origin
             /\ run'[j].pc = IF Working(j) THEN "dead" ELSE run[j].pc
             /\ run'[j].result = run[j].result
             /\ run'[j].cancelled = run[j].cancelled
             /\ Held(j)
  <2>1. run'[j] = [run[j] EXCEPT !.pc = IF Working(j) THEN "dead" ELSE run[j].pc,
                      !.modal = IF run[j].modal = "open" THEN "lost" ELSE run[j].modal]
    BY DEF Quit, TypeOK, Run
  <2>2. /\ run'[j].kind = run[j].kind
        /\ run'[j].mode = run[j].mode
        /\ run'[j].origin = run[j].origin
        /\ run'[j].result = run[j].result
        /\ run'[j].cancelled = run[j].cancelled
        /\ run'[j].stage = run[j].stage
        /\ run'[j].task = run[j].task
        /\ run'[j].shown = run[j].shown
    BY <2>1 DEF TypeOK, Run
  <2>3. run'[j].modal = IF run[j].modal = "open" THEN "lost" ELSE run[j].modal
    BY <2>1 DEF TypeOK, Run
  <2>4. run'[j].pc = IF Working(j) THEN "dead" ELSE run[j].pc
    BY <2>1 DEF TypeOK, Run
  <2> QED BY <2>2, <2>3, <2>4 DEF Held
<1>3. ASSUME NEW j \in Runs, ~UnderWay(j)
      PROVE  run'[j] = run[j]
  BY <1>3 DEF TypeOK, Run, Quit, UnderWay
<1>4. /\ \A o : o \in forsaken' <=>
              o \in forsaken \/ o \in PendingOrigin \/ \E j \in Busy : run[j].origin = o
      /\ pending' = NoPending
      /\ UNCHANGED <<task, deletes, file, imported, met>>
  BY DEF Quit
<1> QED BY <1>1, <1>2, <1>3, <1>4, SMTT(30) DEF QuitEffect

TaskEndsEffect(t) ==
  /\ task[t].status = "running"
  /\ task' \in [TaskIds -> Task]
  /\ \A u \in TaskIds : u # t => task'[u] = task[u]
  /\ task'[t].status \in {"succeeded", "failed", "deleted"}
  /\ task'[t].origin = task[t].origin
  /\ task'[t].stage = task[t].stage
  /\ UNCHANGED <<run, pending, deletes, file, imported, forsaken, met>>

\* A task that ends keeps its stage and its request.
LEMMA TaskEndsDoes ==
  ASSUME TypeOK, NEW t \in TaskIds, TaskEnds(t) \/ Delete(t)
  PROVE  TaskEndsEffect(t)
  BY DEF TypeOK, Task, TaskEnds, Delete, TaskEndsEffect
---------------------------------------------------------------------------
(* Every step is one of these.                                             *)

WorkerEffect(i) ==
  \/ LookUpEffect(i) \/ SubmitEffect(i) \/ SubmitFailsEffect(i)
  \/ HearTaskEffect(i) \/ CheckCancelEffect(i) \/ StillRunningEffect(i)
  \/ SucceededEffect(i) \/ LookupFailsEffect(i) \/ OpenFileEffect(i)
  \/ CloseFileEffect(i) \/ DownloadFailsEffect(i) \/ ExpireEffect(i)

TickEffect(i) ==
  \/ GenerateTimedOutEffect(i) \/ GenerateFailedEffect(i)
  \/ GenerateSucceededEffect(i) \/ RefreshTimedOutEffect(i)
  \/ RefreshFailedEffect(i) \/ RefreshSucceededEffect(i)

StepEffect ==
  \/ RefuseInputEffect
  \/ \E i \in Runs, m \in Modes : GenerateEffect(i, m)
  \/ \E i \in Runs : RefreshMeshyEffect(i)
  \/ \E i \in Runs : WorkerEffect(i)
  \/ \E i \in Runs : TickEffect(i)
  \/ \E i \in Runs : EscEffect(i)
  \/ LoadFileEffect
  \/ QuitEffect
  \/ \E t \in TaskIds : TaskEndsEffect(t)
  \/ UNCHANGED vars

\* Every step has one of these effects.
LEMMA StepDoes ==
  ASSUME TypeOK, [Next]_vars
  PROVE  StepEffect
<1>1. CASE RefuseInput
  BY <1>1, RefuseInputDoes DEF StepEffect
<1>2. ASSUME NEW i \in Runs, NEW m \in Modes, Generate(i, m)
      PROVE  StepEffect
  BY <1>2, GenerateDoes DEF StepEffect
<1>3. ASSUME NEW i \in Runs, RefreshMeshy(i)
      PROVE  StepEffect
  BY <1>3, RefreshMeshyDoes DEF StepEffect
<1>4. ASSUME NEW i \in Runs, Works(i) \/ Expire(i)
      PROVE  StepEffect
  <2>1. WorkerEffect(i)
    BY <1>4, LookUpDoes, SubmitDoes, SubmitFailsDoes, HearTaskDoes, CheckCancelDoes,
       StillRunningDoes, SucceededDoes, LookupFailsDoes, OpenFileDoes, CloseFileDoes,
       DownloadFailsDoes, ExpireDoes
       DEF Works, WorkerEffect
  <2> QED BY <2>1 DEF StepEffect
<1>5. ASSUME NEW i \in Runs, Tick(i)
      PROVE  StepEffect
  <2>1. TickEffect(i)
    BY <1>5, GenerateTimedOutDoes, GenerateFailedDoes, GenerateSucceededDoes,
       RefreshTimedOutDoes, RefreshFailedDoes, RefreshSucceededDoes
       DEF Tick, TickEffect
  <2> QED BY <2>1 DEF StepEffect
<1>6. ASSUME NEW i \in Runs, Esc(i)
      PROVE  StepEffect
  BY <1>6, EscDoes DEF StepEffect
<1>7. CASE LoadFile
  BY <1>7, LoadFileDoes DEF StepEffect
<1>8. CASE Quit
  BY <1>8, QuitDoes DEF StepEffect
<1>9. ASSUME NEW t \in TaskIds, TaskEnds(t) \/ Delete(t)
      PROVE  StepEffect
  BY <1>9, TaskEndsDoes DEF StepEffect
<1>10. CASE UNCHANGED vars
  BY <1>10 DEF StepEffect
<1> QED BY <1>1, <1>2, <1>3, <1>4, <1>5, <1>6, <1>7, <1>8, <1>9, <1>10 DEF Next

\* Nothing is no run and no task.
LEMMA Zero == NoRun \notin Runs /\ NoTask \notin TaskIds
  BY GenerationAssumption DEF NoRun, NoTask, Runs, TaskIds

\* The fields of what is unused, unmade and not pending.
LEMMA UnusedIs ==
  /\ Unused.kind = "unused" /\ Unused.pc = "done" /\ Unused.modal = "closed"
  /\ Unused.task = NoTask /\ Unused.shown = NoTask /\ Unused.origin = NoRun
  /\ Unused.result = "none"
  BY DEF Unused

LEMMA UnmadeIs == Unmade.origin = NoRun /\ Unmade.status = "unmade"
  BY DEF Unmade

LEMMA NoPendingIs ==
  NoPending.origin = NoRun /\ NoPending.task = NoTask /\ NoPending.settings = NoRun
  BY DEF NoPending

\* The types that the steps below need.
Typed ==
  /\ \A i \in Runs :
       /\ run[i].task \in TaskIds \cup {NoTask}
       /\ run[i].shown \in TaskIds \cup {NoTask}
       /\ run[i].origin \in Runs \cup {NoRun}
       /\ run[i].stage \in {"preview", "refine", "image", "tripo"}
       /\ run[i].mode \in ModeNames
       /\ run[i].pc \in PCs
       /\ run[i].kind \in {"unused", "generate", "refresh"}
       /\ run[i].result \in {"none", "path", "error", "timeout", "cancelled"}
       /\ run[i].modal \in {"open", "closed", "escaped", "lost"}
       /\ run[i].cancelled \in BOOLEAN
  /\ pending.task \in TaskIds \cup {NoTask}
  /\ pending.origin \in Runs \cup {NoRun}
  /\ pending.settings \in Runs \cup {NoRun}
  /\ deletes \subseteq TaskIds
  /\ forsaken \subseteq Runs
  /\ \A t \in TaskIds : task[t].origin \in Runs \cup {NoRun}
  /\ \A e \in imported : e.settings \in Runs /\ e.mode \in ModeNames

\* They follow from TypeOK.
LEMMA TypedHolds == TypeOK => Typed
  BY DEF TypeOK, Run, Pending, Task, Typed, Stages, PCs

\* What no step of a worker does.
WorkerKeeps(i) ==
  /\ Same(i)
  /\ Working(i)
  /\ run[i].kind # "unused"
  /\ run' \in [Runs -> Run]
  /\ run'[i].stage = run[i].stage \/ (run[i].stage = "preview" /\ run'[i].stage = "refine")
  /\ run'[i].pc = "submit" /\ run'[i].stage = "refine" => run[i].stage = "preview"
  /\ forsaken \subseteq forsaken'
  /\ UNCHANGED <<pending, deletes, imported, met>>

\* Only Submit changes tasks.
Quiet(i) == run'[i].task = run[i].task /\ UNCHANGED task

\* A worker keeps all this, and only Submit is not quiet.
LEMMA WorkerDoes ==
  ASSUME Typed, Linked, NEW i \in Runs, WorkerEffect(i)
  PROVE  WorkerKeeps(i) /\ (SubmitEffect(i) \/ Quiet(i))
<1> USE DEF WorkerKeeps, Quiet, Steps, Same, Held, Fails, Working
<1>1. CASE LookUpEffect(i)
  BY <1>1 DEF LookUpEffect, Linked, RunIsSound
<1>2. CASE SubmitEffect(i)
  BY <1>2 DEF SubmitEffect
<1>3. CASE SubmitFailsEffect(i)
  BY <1>3 DEF SubmitFailsEffect
<1>4. CASE HearTaskEffect(i)
  BY <1>4 DEF HearTaskEffect
<1>5. CASE CheckCancelEffect(i)
  BY <1>5 DEF CheckCancelEffect
<1>6. CASE StillRunningEffect(i)
  BY <1>6 DEF StillRunningEffect
<1>7. CASE SucceededEffect(i)
  BY <1>7 DEF SucceededEffect
<1>8. CASE LookupFailsEffect(i)
  BY <1>8 DEF LookupFailsEffect
<1>9. CASE OpenFileEffect(i)
  BY <1>9 DEF OpenFileEffect
<1>10. CASE CloseFileEffect(i)
  BY <1>10 DEF CloseFileEffect
<1>11. CASE DownloadFailsEffect(i)
  BY <1>11 DEF DownloadFailsEffect
<1>12. CASE ExpireEffect(i)
  BY <1>12 DEF ExpireEffect
<1> QED BY <1>1, <1>2, <1>3, <1>4, <1>5, <1>6, <1>7, <1>8, <1>9, <1>10, <1>11, <1>12
   DEF WorkerEffect

\* Every tick that does something closes a modal whose worker is done.
LEMMA TickCloses ==
  ASSUME NEW i \in Runs, TickEffect(i)
  PROVE  \E kind \in {"generate", "refresh"}, result \in {"path", "error", "timeout"} :
           Closed(i, kind, result)
  BY DEF TickEffect, GenerateTimedOutEffect, GenerateFailedEffect, GenerateSucceededEffect,
         RefreshTimedOutEffect, RefreshFailedEffect, RefreshSucceededEffect
---------------------------------------------------------------------------
(* A step keeps each part of the invariant.                                *)

\* By the place of each worker: who starts fresh, and who polls has a task.
LEMMA RunIsSoundStep ==
  ASSUME Typed, Linked, StepEffect, NEW j \in Runs
  PROVE  RunIsSound(j)'
<1> USE Zero, UnusedIs, UnmadeIs, NoPendingIs
        DEF Typed, Linked, Steps, Same, Held, Fails, Started, Closed, RunIsSound, Working,
            PendingIsSound
<1>1. CASE RefuseInputEffect
  BY <1>1 DEF RefuseInputEffect
<1>2. ASSUME NEW i \in Runs, NEW m \in Modes, GenerateEffect(i, m)
      PROVE  RunIsSound(j)'
  BY <1>2 DEF GenerateEffect
<1>3. ASSUME NEW i \in Runs, RefreshMeshyEffect(i)
      PROVE  RunIsSound(j)'
  BY <1>3 DEF RefreshMeshyEffect
<1>4. ASSUME NEW i \in Runs, WorkerEffect(i)
      PROVE  RunIsSound(j)'
  <2>1. CASE LookUpEffect(i)
    BY <2>1 DEF LookUpEffect
  <2>2. CASE SubmitEffect(i)
    BY <2>2 DEF SubmitEffect
  <2>3. CASE SubmitFailsEffect(i)
    BY <2>3 DEF SubmitFailsEffect
  <2>4. CASE HearTaskEffect(i)
    BY <2>4 DEF HearTaskEffect
  <2>5. CASE CheckCancelEffect(i)
    BY <2>5 DEF CheckCancelEffect
  <2>6. CASE StillRunningEffect(i)
    BY <2>6 DEF StillRunningEffect
  <2>7. CASE SucceededEffect(i)
    BY <2>7 DEF SucceededEffect
  <2>8. CASE LookupFailsEffect(i)
    BY <2>8 DEF LookupFailsEffect
  <2>9. CASE OpenFileEffect(i)
    BY <2>9 DEF OpenFileEffect
  <2>10. CASE CloseFileEffect(i)
    BY <2>10 DEF CloseFileEffect
  <2>11. CASE DownloadFailsEffect(i)
    BY <2>11 DEF DownloadFailsEffect
  <2>12. CASE ExpireEffect(i)
    BY <2>12, SMTT(30) DEF ExpireEffect
  <2> QED BY <1>4, <2>1, <2>2, <2>3, <2>4, <2>5, <2>6, <2>7, <2>8, <2>9, <2>10, <2>11, <2>12
     DEF WorkerEffect
<1>5. ASSUME NEW i \in Runs, TickEffect(i)
      PROVE  RunIsSound(j)'
  BY <1>5 DEF TickEffect, GenerateTimedOutEffect, GenerateFailedEffect,
           GenerateSucceededEffect, RefreshTimedOutEffect, RefreshFailedEffect,
           RefreshSucceededEffect
<1>6. ASSUME NEW i \in Runs, EscEffect(i)
      PROVE  RunIsSound(j)'
  BY <1>6 DEF EscEffect
<1>7. CASE LoadFileEffect
  BY <1>7 DEF LoadFileEffect
<1>8. CASE QuitEffect
  <2>1. CASE Working(j)
    BY <1>8, <2>1 DEF QuitEffect, UnderWay, Busy
  <2>2. CASE ~Working(j)
    BY <1>8, <2>2 DEF QuitEffect, UnderWay, Busy
  <2> QED BY <2>1, <2>2
<1>9. ASSUME NEW t \in TaskIds, TaskEndsEffect(t)
      PROVE  RunIsSound(j)'
  BY <1>9 DEF TaskEndsEffect
<1>10. CASE UNCHANGED vars
  BY <1>10, SMTT(30) DEF vars
<1> QED BY <1>1, <1>2, <1>3, <1>4, <1>5, <1>6, <1>7, <1>8, <1>9, <1>10 DEF StepEffect

\* A run holds what it submitted or took up.
LEMMA RunHasTasksStep ==
  ASSUME Typed, Linked, StepEffect, NEW j \in Runs
  PROVE  RunHasTasks(j)'
<1> USE Zero, UnusedIs, UnmadeIs, NoPendingIs
        DEF Typed, Linked, Steps, Same, Held, Fails, Started, Closed, RunHasTasks, LeftOpen,
            Begun, RunIsSound, Working, TaskHasRun, PendingIsSound
<1>1. CASE RefuseInputEffect
  BY <1>1 DEF RefuseInputEffect
<1>2. ASSUME NEW i \in Runs, NEW m \in Modes, GenerateEffect(i, m)
      PROVE  RunHasTasks(j)'
  BY <1>2 DEF GenerateEffect
<1>3. ASSUME NEW i \in Runs, RefreshMeshyEffect(i)
      PROVE  RunHasTasks(j)'
  BY <1>3, SMTT(30) DEF RefreshMeshyEffect
<1>4. ASSUME NEW i \in Runs, WorkerEffect(i)
      PROVE  RunHasTasks(j)'
  <2>1. CASE LookUpEffect(i)
    BY <2>1 DEF LookUpEffect
  <2>2. CASE SubmitEffect(i)
    BY <2>2, SMTT(30) DEF SubmitEffect
  <2>3. CASE SubmitFailsEffect(i)
    BY <2>3 DEF SubmitFailsEffect
  <2>4. CASE HearTaskEffect(i)
    BY <2>4 DEF HearTaskEffect
  <2>5. CASE CheckCancelEffect(i)
    BY <2>5 DEF CheckCancelEffect
  <2>6. CASE StillRunningEffect(i)
    BY <2>6 DEF StillRunningEffect
  <2>7. CASE SucceededEffect(i)
    BY <2>7 DEF SucceededEffect
  <2>8. CASE LookupFailsEffect(i)
    BY <2>8 DEF LookupFailsEffect
  <2>9. CASE OpenFileEffect(i)
    BY <2>9 DEF OpenFileEffect
  <2>10. CASE CloseFileEffect(i)
    BY <2>10, SMTT(30) DEF CloseFileEffect
  <2>11. CASE DownloadFailsEffect(i)
    BY <2>11 DEF DownloadFailsEffect
  <2>12. CASE ExpireEffect(i)
    BY <2>12, SMTT(30) DEF ExpireEffect
  <2> QED BY <1>4, <2>1, <2>2, <2>3, <2>4, <2>5, <2>6, <2>7, <2>8, <2>9, <2>10, <2>11, <2>12
     DEF WorkerEffect
<1>5. ASSUME NEW i \in Runs, TickEffect(i)
      PROVE  RunHasTasks(j)'
  <2>1. CASE GenerateTimedOutEffect(i)
    BY <2>1 DEF GenerateTimedOutEffect
  <2>2. CASE GenerateFailedEffect(i)
    BY <2>2 DEF GenerateFailedEffect
  <2>3. CASE GenerateSucceededEffect(i)
    BY <2>3 DEF GenerateSucceededEffect
  <2>4. CASE RefreshTimedOutEffect(i)
    BY <2>4 DEF RefreshTimedOutEffect
  <2>5. CASE RefreshFailedEffect(i)
    BY <2>5 DEF RefreshFailedEffect
  <2>6. CASE RefreshSucceededEffect(i)
    BY <2>6 DEF RefreshSucceededEffect
  <2> QED BY <1>5, <2>1, <2>2, <2>3, <2>4, <2>5, <2>6 DEF TickEffect
<1>6. ASSUME NEW i \in Runs, EscEffect(i)
      PROVE  RunHasTasks(j)'
  BY <1>6 DEF EscEffect
<1>7. CASE LoadFileEffect
  BY <1>7 DEF LoadFileEffect
<1>8. CASE QuitEffect
  <2>1. CASE Working(j)
    BY <1>8, <2>1 DEF QuitEffect, UnderWay, Busy
  <2>2. CASE ~Working(j)
    BY <1>8, <2>2 DEF QuitEffect, UnderWay, Busy
  <2> QED BY <2>1, <2>2
<1>9. ASSUME NEW t \in TaskIds, TaskEndsEffect(t)
      PROVE  RunHasTasks(j)'
  BY <1>9 DEF TaskEndsEffect
<1>10. CASE UNCHANGED vars
  BY <1>10 DEF vars
<1> QED BY <1>1, <1>2, <1>3, <1>4, <1>5, <1>6, <1>7, <1>8, <1>9, <1>10 DEF StepEffect

\* A new task is that of the run that submits it.
LEMMA TaskHasRunStep ==
  ASSUME Typed, Linked, StepEffect, NEW u \in TaskIds
  PROVE  TaskHasRun(u)'
<1> USE Zero, UnusedIs, UnmadeIs, NoPendingIs
        DEF Typed, Linked, Steps, Same, Held, Fails, Started, Closed, TaskHasRun, Begun,
            RunIsSound, RunHasTasks, Working
<1>1. CASE RefuseInputEffect
  BY <1>1 DEF RefuseInputEffect
<1>2. ASSUME NEW i \in Runs, NEW m \in Modes, GenerateEffect(i, m)
      PROVE  TaskHasRun(u)'
  BY <1>2 DEF GenerateEffect
<1>3. ASSUME NEW i \in Runs, RefreshMeshyEffect(i)
      PROVE  TaskHasRun(u)'
  BY <1>3 DEF RefreshMeshyEffect
<1>4. ASSUME NEW i \in Runs, WorkerEffect(i)
      PROVE  TaskHasRun(u)'
  <2>1. WorkerKeeps(i) /\ (SubmitEffect(i) \/ Quiet(i))
    BY <1>4, WorkerDoes, SMTT(30)
  <2>2. CASE SubmitEffect(i)
    BY <2>1, <2>2, SMTT(30) DEF WorkerKeeps, SubmitEffect
  <2>3. CASE Quiet(i)
    BY <2>1, <2>3 DEF WorkerKeeps, Quiet
  <2> QED BY <2>1, <2>2, <2>3
<1>5. ASSUME NEW i \in Runs, TickEffect(i)
      PROVE  TaskHasRun(u)'
  <2>1. CASE GenerateTimedOutEffect(i)
    BY <2>1 DEF GenerateTimedOutEffect
  <2>2. CASE GenerateFailedEffect(i)
    BY <2>2 DEF GenerateFailedEffect
  <2>3. CASE GenerateSucceededEffect(i)
    BY <2>3 DEF GenerateSucceededEffect
  <2>4. CASE RefreshTimedOutEffect(i)
    BY <2>4 DEF RefreshTimedOutEffect
  <2>5. CASE RefreshFailedEffect(i)
    BY <2>5 DEF RefreshFailedEffect
  <2>6. CASE RefreshSucceededEffect(i)
    BY <2>6 DEF RefreshSucceededEffect
  <2> QED BY <1>5, <2>1, <2>2, <2>3, <2>4, <2>5, <2>6 DEF TickEffect
<1>6. ASSUME NEW i \in Runs, EscEffect(i)
      PROVE  TaskHasRun(u)'
  BY <1>6 DEF EscEffect
<1>7. CASE LoadFileEffect
  BY <1>7 DEF LoadFileEffect
<1>8. CASE QuitEffect
  BY <1>8 DEF QuitEffect, UnderWay, Busy
<1>9. ASSUME NEW t \in TaskIds, TaskEndsEffect(t)
      PROVE  TaskHasRun(u)'
  BY <1>9 DEF TaskEndsEffect
<1>10. CASE UNCHANGED vars
  BY <1>10 DEF vars
<1> QED BY <1>1, <1>2, <1>3, <1>4, <1>5, <1>6, <1>7, <1>8, <1>9, <1>10 DEF StepEffect

\* Esc deletes what its own run told of; no closed modal opens.
LEMMA DeletedIsEscapedStep ==
  ASSUME Typed, Linked, StepEffect
  PROVE  DeletedIsEscaped'
<1> USE Zero, UnusedIs, UnmadeIs, NoPendingIs
        DEF Typed, Linked, Steps, Same, Held, Fails, Started, Closed, DeletedIsEscaped,
            TaskHasRun, Begun, RunIsSound, RunHasTasks, Working
<1>1. CASE RefuseInputEffect
  BY <1>1 DEF RefuseInputEffect
<1>2. ASSUME NEW i \in Runs, NEW m \in Modes, GenerateEffect(i, m)
      PROVE  DeletedIsEscaped'
  BY <1>2 DEF GenerateEffect
<1>3. ASSUME NEW i \in Runs, RefreshMeshyEffect(i)
      PROVE  DeletedIsEscaped'
  BY <1>3 DEF RefreshMeshyEffect
<1>4. ASSUME NEW i \in Runs, WorkerEffect(i)
      PROVE  DeletedIsEscaped'
  <2>1. WorkerKeeps(i) /\ (SubmitEffect(i) \/ Quiet(i))
    BY <1>4, WorkerDoes
  <2>2. CASE SubmitEffect(i)
    BY <2>1, <2>2 DEF WorkerKeeps, SubmitEffect
  <2>3. CASE Quiet(i)
    BY <2>1, <2>3 DEF WorkerKeeps, Quiet
  <2> QED BY <2>1, <2>2, <2>3
<1>5. ASSUME NEW i \in Runs, TickEffect(i)
      PROVE  DeletedIsEscaped'
  BY <1>5, SMTT(40) DEF TickEffect, GenerateTimedOutEffect, GenerateFailedEffect,
           GenerateSucceededEffect, RefreshTimedOutEffect, RefreshFailedEffect,
           RefreshSucceededEffect
<1>6. ASSUME NEW i \in Runs, EscEffect(i)
      PROVE  DeletedIsEscaped'
  BY <1>6 DEF EscEffect
<1>7. CASE LoadFileEffect
  BY <1>7 DEF LoadFileEffect
<1>8. CASE QuitEffect
  BY <1>8 DEF QuitEffect, UnderWay, Busy
<1>9. ASSUME NEW t \in TaskIds, TaskEndsEffect(t)
      PROVE  DeletedIsEscaped'
  BY <1>9 DEF TaskEndsEffect
<1>10. CASE UNCHANGED vars
  BY <1>10 DEF vars
<1> QED BY <1>1, <1>2, <1>3, <1>4, <1>5, <1>6, <1>7, <1>8, <1>9, <1>10 DEF StepEffect

\* Settings come from the run itself or from what is pending.
LEMMA ImportedHasRunStep ==
  ASSUME Typed, Linked, StepEffect
  PROVE  ImportedHasRun'
<1> USE Zero, UnusedIs, UnmadeIs, NoPendingIs
        DEF Typed, Linked, Steps, Same, Held, Fails, Started, Closed, Begun, RunIsSound,
            RunHasTasks, Working, PendingIsSound, LeftOpen, ImportedHasRun
<1>1. CASE RefuseInputEffect
  BY <1>1 DEF RefuseInputEffect
<1>2. ASSUME NEW i \in Runs, NEW m \in Modes, GenerateEffect(i, m)
      PROVE  ImportedHasRun'
  BY <1>2 DEF GenerateEffect
<1>3. ASSUME NEW i \in Runs, RefreshMeshyEffect(i)
      PROVE  ImportedHasRun'
  BY <1>3 DEF RefreshMeshyEffect
<1>4. ASSUME NEW i \in Runs, WorkerEffect(i)
      PROVE  ImportedHasRun'
  <2>1. WorkerKeeps(i)
    BY <1>4, WorkerDoes, SMTT(30)
  <2> QED BY <2>1 DEF WorkerKeeps
<1>5. ASSUME NEW i \in Runs, TickEffect(i)
      PROVE  ImportedHasRun'
  BY <1>5 DEF TickEffect, GenerateTimedOutEffect, GenerateFailedEffect,
           GenerateSucceededEffect, RefreshTimedOutEffect, RefreshFailedEffect,
           RefreshSucceededEffect
<1>6. ASSUME NEW i \in Runs, EscEffect(i)
      PROVE  ImportedHasRun'
  BY <1>6 DEF EscEffect
<1>7. CASE LoadFileEffect
  BY <1>7 DEF LoadFileEffect
<1>8. CASE QuitEffect
  BY <1>8 DEF QuitEffect, UnderWay, Busy
<1>9. ASSUME NEW t \in TaskIds, TaskEndsEffect(t)
      PROVE  ImportedHasRun'
  BY <1>9 DEF TaskEndsEffect
<1>10. CASE UNCHANGED vars
  BY <1>10 DEF vars
<1> QED BY <1>1, <1>2, <1>3, <1>4, <1>5, <1>6, <1>7, <1>8, <1>9, <1>10 DEF StepEffect

\* Only a modal that timed out, and closes, leaves a task.
LEMMA PendingIsSoundStep ==
  ASSUME Typed, Linked, StepEffect
  PROVE  PendingIsSound'
<1> USE Zero, UnusedIs, UnmadeIs, NoPendingIs
        DEF Typed, Linked, Steps, Same, Held, Fails, Started, Closed, PendingIsSound,
            LeftOpen, Begun, RunIsSound, RunHasTasks, TaskHasRun, Working
<1>1. CASE RefuseInputEffect
  BY <1>1 DEF RefuseInputEffect
<1>2. ASSUME NEW i \in Runs, NEW m \in Modes, GenerateEffect(i, m)
      PROVE  PendingIsSound'
  BY <1>2 DEF GenerateEffect
<1>3. ASSUME NEW i \in Runs, RefreshMeshyEffect(i)
      PROVE  PendingIsSound'
  BY <1>3 DEF RefreshMeshyEffect
<1>4. ASSUME NEW i \in Runs, WorkerEffect(i)
      PROVE  PendingIsSound'
  <2>1. WorkerKeeps(i) /\ (SubmitEffect(i) \/ Quiet(i))
    BY <1>4, WorkerDoes
  <2>2. CASE SubmitEffect(i)
    BY <2>1, <2>2 DEF WorkerKeeps, SubmitEffect
  <2>3. CASE Quiet(i)
    BY <2>1, <2>3, SMTT(30) DEF WorkerKeeps, Quiet
  <2> QED BY <2>1, <2>2, <2>3
<1>5. ASSUME NEW i \in Runs, TickEffect(i)
      PROVE  PendingIsSound'
  BY <1>5 DEF TickEffect, GenerateTimedOutEffect, GenerateFailedEffect,
           GenerateSucceededEffect, RefreshTimedOutEffect, RefreshFailedEffect,
           RefreshSucceededEffect
<1>6. ASSUME NEW i \in Runs, EscEffect(i)
      PROVE  PendingIsSound'
  BY <1>6 DEF EscEffect
<1>7. CASE LoadFileEffect
  BY <1>7 DEF LoadFileEffect
<1>8. CASE QuitEffect
  BY <1>8 DEF QuitEffect, UnderWay, Busy
<1>9. ASSUME NEW t \in TaskIds, TaskEndsEffect(t)
      PROVE  PendingIsSound'
  BY <1>9 DEF TaskEndsEffect
<1>10. CASE UNCHANGED vars
  BY <1>10 DEF vars
<1> QED BY <1>1, <1>2, <1>3, <1>4, <1>5, <1>6, <1>7, <1>8, <1>9, <1>10 DEF StepEffect

\* Who submits a first stage holds no task, so its request has none.
LEMMA FirstStageOnceStep ==
  ASSUME Typed, Linked, StepEffect
  PROVE  FirstStageOnce'
<1> USE Zero, UnusedIs, UnmadeIs, NoPendingIs
        DEF Typed, Linked, Steps, Same, Held, Fails, Started, Closed, FirstStageOnce,
            TaskHasRun, Begun, RunIsSound, RunHasTasks, Working
<1>1. CASE RefuseInputEffect
  BY <1>1 DEF RefuseInputEffect
<1>2. ASSUME NEW i \in Runs, NEW m \in Modes, GenerateEffect(i, m)
      PROVE  FirstStageOnce'
  BY <1>2 DEF GenerateEffect
<1>3. ASSUME NEW i \in Runs, RefreshMeshyEffect(i)
      PROVE  FirstStageOnce'
  BY <1>3 DEF RefreshMeshyEffect
<1>4. ASSUME NEW i \in Runs, WorkerEffect(i)
      PROVE  FirstStageOnce'
  <2>1. WorkerKeeps(i) /\ (SubmitEffect(i) \/ Quiet(i))
    BY <1>4, WorkerDoes
  <2>2. CASE SubmitEffect(i)
    BY <2>1, <2>2 DEF WorkerKeeps, SubmitEffect
  <2>3. CASE Quiet(i)
    BY <2>1, <2>3, SMTT(30) DEF WorkerKeeps, Quiet
  <2> QED BY <2>1, <2>2, <2>3
<1>5. ASSUME NEW i \in Runs, TickEffect(i)
      PROVE  FirstStageOnce'
  BY <1>5 DEF TickEffect, GenerateTimedOutEffect, GenerateFailedEffect,
           GenerateSucceededEffect, RefreshTimedOutEffect, RefreshFailedEffect,
           RefreshSucceededEffect
<1>6. ASSUME NEW i \in Runs, EscEffect(i)
      PROVE  FirstStageOnce'
  BY <1>6 DEF EscEffect
<1>7. CASE LoadFileEffect
  BY <1>7 DEF LoadFileEffect
<1>8. CASE QuitEffect
  BY <1>8 DEF QuitEffect, UnderWay, Busy
<1>9. ASSUME NEW t \in TaskIds, TaskEndsEffect(t)
      PROVE  FirstStageOnce'
  BY <1>9 DEF TaskEndsEffect
<1>10. CASE UNCHANGED vars
  BY <1>10 DEF vars
<1> QED BY <1>1, <1>2, <1>3, <1>4, <1>5, <1>6, <1>7, <1>8, <1>9, <1>10 DEF StepEffect

\* A run starts only when none is under way, or met is set.
LEMMA AloneStep ==
  ASSUME Typed, Linked, StepEffect, Single, ~met, ~met'
  PROVE  Alone'
<1> USE Zero, UnusedIs, UnmadeIs, NoPendingIs
        DEF Typed, Linked, Single, Steps, Same, Held, Fails, Started, Closed, Alone,
            UnderWay, Working, Busy, RunIsSound
<1>1. CASE RefuseInputEffect
  BY <1>1 DEF RefuseInputEffect
<1>2. ASSUME NEW i \in Runs, NEW m \in Modes, GenerateEffect(i, m)
      PROVE  Alone'
  <2>1. Busy = {}
    BY <1>2 DEF GenerateEffect, Started
  <2>2. \A a \in Runs : ~UnderWay(a)
    BY <2>1 DEF Busy
  <2>3. ASSUME NEW a \in Runs, a # i PROVE ~UnderWay(a)'
    BY <1>2, <2>2, <2>3 DEF GenerateEffect
  <2> QED BY <2>3
<1>3. ASSUME NEW i \in Runs, RefreshMeshyEffect(i)
      PROVE  Alone'
  <2>1. Busy = {}
    BY <1>3 DEF RefreshMeshyEffect, Started
  <2>2. \A a \in Runs : ~UnderWay(a)
    BY <2>1 DEF Busy
  <2>3. ASSUME NEW a \in Runs, a # i PROVE ~UnderWay(a)'
    BY <1>3, <2>2, <2>3 DEF RefreshMeshyEffect
  <2> QED BY <2>3
<1>4. ASSUME NEW i \in Runs, WorkerEffect(i)
      PROVE  Alone'
  <2>1. WorkerKeeps(i)
    BY <1>4, WorkerDoes
  <2> QED BY <2>1 DEF WorkerKeeps
<1>5. ASSUME NEW i \in Runs, TickEffect(i)
      PROVE  Alone'
  BY <1>5 DEF TickEffect, GenerateTimedOutEffect, GenerateFailedEffect,
           GenerateSucceededEffect, RefreshTimedOutEffect, RefreshFailedEffect,
           RefreshSucceededEffect
<1>6. ASSUME NEW i \in Runs, EscEffect(i)
      PROVE  Alone'
  BY <1>6 DEF EscEffect
<1>7. CASE LoadFileEffect
  BY <1>7 DEF LoadFileEffect
<1>8. CASE QuitEffect
  BY <1>8 DEF QuitEffect, UnderWay, Busy
<1>9. ASSUME NEW t \in TaskIds, TaskEndsEffect(t)
      PROVE  Alone'
  BY <1>9 DEF TaskEndsEffect
<1>10. CASE UNCHANGED vars
  BY <1>10 DEF vars
<1> QED BY <1>1, <1>2, <1>3, <1>4, <1>5, <1>6, <1>7, <1>8, <1>9, <1>10 DEF StepEffect

\* What is pending changes with the tick of the run that is under way.
LEMMA RefreshKnowsStep ==
  ASSUME Typed, Linked, StepEffect, Single, ~met, ~met', NEW j \in Runs
  PROVE  RefreshKnows(j)'
<1> USE Zero, UnusedIs, UnmadeIs, NoPendingIs
        DEF Typed, Linked, Single, Steps, Same, Held, Fails, Started, Closed, RefreshKnows,
            Alone, UnderWay, Working, Busy, RunIsSound, RunHasTasks, LeftOpen, Begun,
            PendingIsSound, PendingOrigin
<1>1. CASE RefuseInputEffect
  BY <1>1 DEF RefuseInputEffect
<1>2. ASSUME NEW i \in Runs, NEW m \in Modes, GenerateEffect(i, m)
      PROVE  RefreshKnows(j)'
  BY <1>2 DEF GenerateEffect
<1>3. ASSUME NEW i \in Runs, RefreshMeshyEffect(i)
      PROVE  RefreshKnows(j)'
  BY <1>3 DEF RefreshMeshyEffect
<1>4. ASSUME NEW i \in Runs, WorkerEffect(i)
      PROVE  RefreshKnows(j)'
  <2>1. WorkerKeeps(i) /\ (SubmitEffect(i) \/ Quiet(i))
    BY <1>4, WorkerDoes
  <2>2. CASE SubmitEffect(i)
    BY <2>1, <2>2 DEF WorkerKeeps, SubmitEffect
  <2>3. CASE Quiet(i)
    BY <2>1, <2>3, SMTT(30) DEF WorkerKeeps, Quiet
  <2> QED BY <2>1, <2>2, <2>3
<1>5. ASSUME NEW i \in Runs, TickEffect(i)
      PROVE  RefreshKnows(j)'
  <2>1. CASE GenerateTimedOutEffect(i)
    BY <2>1 DEF GenerateTimedOutEffect
  <2>2. CASE GenerateFailedEffect(i)
    BY <2>2 DEF GenerateFailedEffect
  <2>3. CASE GenerateSucceededEffect(i)
    BY <2>3 DEF GenerateSucceededEffect
  <2>4. CASE RefreshTimedOutEffect(i)
    BY <2>4 DEF RefreshTimedOutEffect
  <2>5. CASE RefreshFailedEffect(i)
    BY <2>5 DEF RefreshFailedEffect
  <2>6. CASE RefreshSucceededEffect(i)
    BY <2>6 DEF RefreshSucceededEffect
  <2> QED BY <1>5, <2>1, <2>2, <2>3, <2>4, <2>5, <2>6 DEF TickEffect
<1>6. ASSUME NEW i \in Runs, EscEffect(i)
      PROVE  RefreshKnows(j)'
  BY <1>6 DEF EscEffect
<1>7. CASE LoadFileEffect
  BY <1>7 DEF LoadFileEffect
<1>8. CASE QuitEffect
  BY <1>8 DEF QuitEffect, UnderWay, Busy
<1>9. ASSUME NEW t \in TaskIds, TaskEndsEffect(t)
      PROVE  RefreshKnows(j)'
  BY <1>9 DEF TaskEndsEffect
<1>10. CASE UNCHANGED vars
  BY <1>10 DEF vars
<1> QED BY <1>1, <1>2, <1>3, <1>4, <1>5, <1>6, <1>7, <1>8, <1>9, <1>10 DEF StepEffect

\* A task that nobody watches any more was pending, given up or ended.
LEMMA TrackedStep ==
  ASSUME Typed, Linked, StepEffect, Single, ~met, ~met', NEW u \in TaskIds
  PROVE  Tracked(u)'
<1> USE Zero, UnusedIs, UnmadeIs, NoPendingIs
        DEF Typed, Linked, Single, Steps, Same, Held, Fails, Started, Closed, Tracked,
            Watched, UnderWay, Working, Busy, RunIsSound, RunHasTasks, TaskHasRun, Begun,
            LeftOpen, PendingIsSound, RefreshKnows, PendingOrigin
<1>1. CASE RefuseInputEffect
  BY <1>1 DEF RefuseInputEffect
<1>2. ASSUME NEW i \in Runs, NEW m \in Modes, GenerateEffect(i, m)
      PROVE  Tracked(u)'
  BY <1>2 DEF GenerateEffect
<1>3. ASSUME NEW i \in Runs, RefreshMeshyEffect(i)
      PROVE  Tracked(u)'
  BY <1>3 DEF RefreshMeshyEffect
<1>4. ASSUME NEW i \in Runs, WorkerEffect(i)
      PROVE  Tracked(u)'
  <2>1. CASE LookUpEffect(i)
    BY <2>1 DEF LookUpEffect
  <2>2. CASE SubmitEffect(i)
    BY <2>2 DEF SubmitEffect
  <2>3. CASE SubmitFailsEffect(i)
    BY <2>3 DEF SubmitFailsEffect
  <2>4. CASE HearTaskEffect(i)
    BY <2>4 DEF HearTaskEffect
  <2>5. CASE CheckCancelEffect(i)
    BY <2>5 DEF CheckCancelEffect
  <2>6. CASE StillRunningEffect(i)
    BY <2>6 DEF StillRunningEffect
  <2>7. CASE SucceededEffect(i)
    BY <2>7 DEF SucceededEffect
  <2>8. CASE LookupFailsEffect(i)
    BY <2>8 DEF LookupFailsEffect
  <2>9. CASE OpenFileEffect(i)
    BY <2>9 DEF OpenFileEffect
  <2>10. CASE CloseFileEffect(i)
    BY <2>10 DEF CloseFileEffect
  <2>11. CASE DownloadFailsEffect(i)
    BY <2>11 DEF DownloadFailsEffect
  <2>12. CASE ExpireEffect(i)
    BY <2>12 DEF ExpireEffect
  <2> QED BY <1>4, <2>1, <2>2, <2>3, <2>4, <2>5, <2>6, <2>7, <2>8, <2>9, <2>10, <2>11, <2>12
     DEF WorkerEffect
<1>5. ASSUME NEW i \in Runs, TickEffect(i)
      PROVE  Tracked(u)'
  <2>1. CASE GenerateTimedOutEffect(i)
    BY <2>1 DEF GenerateTimedOutEffect
  <2>2. CASE GenerateFailedEffect(i)
    BY <2>2 DEF GenerateFailedEffect
  <2>3. CASE GenerateSucceededEffect(i)
    BY <2>3 DEF GenerateSucceededEffect
  <2>4. CASE RefreshTimedOutEffect(i)
    BY <2>4 DEF RefreshTimedOutEffect
  <2>5. CASE RefreshFailedEffect(i)
    BY <2>5 DEF RefreshFailedEffect
  <2>6. CASE RefreshSucceededEffect(i)
    BY <2>6 DEF RefreshSucceededEffect
  <2> QED BY <1>5, <2>1, <2>2, <2>3, <2>4, <2>5, <2>6 DEF TickEffect
<1>6. ASSUME NEW i \in Runs, EscEffect(i)
      PROVE  Tracked(u)'
  BY <1>6 DEF EscEffect
<1>7. CASE LoadFileEffect
  BY <1>7 DEF LoadFileEffect
<1>8. CASE QuitEffect
  BY <1>8 DEF QuitEffect, UnderWay, Busy
<1>9. ASSUME NEW t \in TaskIds, TaskEndsEffect(t)
      PROVE  Tracked(u)'
  BY <1>9 DEF TaskEndsEffect
<1>10. CASE UNCHANGED vars
  BY <1>10 DEF vars
<1> QED BY <1>1, <1>2, <1>3, <1>4, <1>5, <1>6, <1>7, <1>8, <1>9, <1>10 DEF StepEffect

\* A worker submits the refine that was ahead, and is past it.
LEMMA AheadIsFirstStep ==
  ASSUME Typed, Linked, StepEffect, Single, ~met, ~met', NEW j \in Runs
  PROVE  AheadIsFirst(j)'
<1> USE Zero, UnusedIs, UnmadeIs, NoPendingIs
        DEF Typed, Linked, Single, Steps, Same, Held, Fails, Started, Closed, AheadIsFirst,
            Ahead, Refined, Abandoned, PendingIsFirst, Alone, UnderWay, Working, Busy,
            RunIsSound, RunHasTasks, LeftOpen, Begun, PendingIsSound, TaskHasRun
<1>1. CASE RefuseInputEffect
  BY <1>1 DEF RefuseInputEffect
<1>2. ASSUME NEW i \in Runs, NEW m \in Modes, GenerateEffect(i, m)
      PROVE  AheadIsFirst(j)'
  BY <1>2 DEF GenerateEffect
<1>3. ASSUME NEW i \in Runs, RefreshMeshyEffect(i)
      PROVE  AheadIsFirst(j)'
  <2>1. Busy = {}
    BY <1>3 DEF RefreshMeshyEffect, Started
  <2>2. \A a \in Runs : ~UnderWay(a)
    BY <2>1 DEF Busy
  <2>3. CASE j = i
    BY <1>3, <2>2, <2>3 DEF RefreshMeshyEffect
  <2>4. CASE j # i
    BY <1>3, <2>2, <2>4 DEF RefreshMeshyEffect
  <2> QED BY <2>3, <2>4
<1>4. ASSUME NEW i \in Runs, WorkerEffect(i)
      PROVE  AheadIsFirst(j)'
  <2>1. WorkerKeeps(i) /\ (SubmitEffect(i) \/ Quiet(i))
    BY <1>4, WorkerDoes
  <2>2. CASE SubmitEffect(i)
    BY <2>1, <2>2 DEF WorkerKeeps, SubmitEffect
  <2>3. CASE Quiet(i)
    BY <2>1, <2>3 DEF WorkerKeeps, Quiet
  <2> QED BY <2>1, <2>2, <2>3
<1>5. ASSUME NEW i \in Runs, TickEffect(i)
      PROVE  AheadIsFirst(j)'
  <2>1. PICK kind \in {"generate", "refresh"}, result \in {"path", "error", "timeout"} :
          Closed(i, kind, result)
    BY <1>5, TickCloses
  <2> QED BY <2>1
<1>6. ASSUME NEW i \in Runs, EscEffect(i)
      PROVE  AheadIsFirst(j)'
  BY <1>6 DEF EscEffect
<1>7. CASE LoadFileEffect
  BY <1>7 DEF LoadFileEffect
<1>8. CASE QuitEffect
  BY <1>8 DEF QuitEffect, UnderWay, Busy
<1>9. ASSUME NEW t \in TaskIds, TaskEndsEffect(t)
      PROVE  AheadIsFirst(j)'
  BY <1>9 DEF TaskEndsEffect
<1>10. CASE UNCHANGED vars
  BY <1>10 DEF vars
<1> QED BY <1>1, <1>2, <1>3, <1>4, <1>5, <1>6, <1>7, <1>8, <1>9, <1>10 DEF StepEffect

\* A refresh that submits the refine of what is pending is still open.
LEMMA PendingIsFirstStep ==
  ASSUME Typed, Linked, StepEffect, Single, ~met, ~met'
  PROVE  PendingIsFirst'
<1> USE Zero, UnusedIs, UnmadeIs, NoPendingIs
        DEF Typed, Linked, Single, Steps, Same, Held, Fails, Started, Closed, AheadIsFirst,
            Ahead, Refined, Abandoned, PendingIsFirst, RefreshKnows, Alone, UnderWay,
            Working, Busy, RunIsSound, RunHasTasks, LeftOpen, Begun, PendingIsSound,
            TaskHasRun
<1>1. CASE RefuseInputEffect
  BY <1>1 DEF RefuseInputEffect
<1>2. ASSUME NEW i \in Runs, NEW m \in Modes, GenerateEffect(i, m)
      PROVE  PendingIsFirst'
  BY <1>2 DEF GenerateEffect
<1>3. ASSUME NEW i \in Runs, RefreshMeshyEffect(i)
      PROVE  PendingIsFirst'
  BY <1>3 DEF RefreshMeshyEffect
<1>4. ASSUME NEW i \in Runs, WorkerEffect(i)
      PROVE  PendingIsFirst'
  <2>1. WorkerKeeps(i) /\ (SubmitEffect(i) \/ Quiet(i))
    BY <1>4, WorkerDoes
  <2>2. CASE SubmitEffect(i)
    BY <2>1, <2>2 DEF WorkerKeeps, SubmitEffect
  <2>3. CASE Quiet(i)
    BY <2>1, <2>3 DEF WorkerKeeps, Quiet
  <2> QED BY <2>1, <2>2, <2>3
<1>5. ASSUME NEW i \in Runs, TickEffect(i)
      PROVE  PendingIsFirst'
  <2>1. CASE GenerateTimedOutEffect(i)
    BY <2>1 DEF GenerateTimedOutEffect
  <2>2. CASE GenerateFailedEffect(i)
    BY <2>2 DEF GenerateFailedEffect
  <2>3. CASE GenerateSucceededEffect(i)
    BY <2>3 DEF GenerateSucceededEffect
  <2>4. CASE RefreshTimedOutEffect(i)
    BY <2>4 DEF RefreshTimedOutEffect
  <2>5. CASE RefreshFailedEffect(i)
    BY <2>5 DEF RefreshFailedEffect
  <2>6. CASE RefreshSucceededEffect(i)
    BY <2>6 DEF RefreshSucceededEffect
  <2> QED BY <1>5, <2>1, <2>2, <2>3, <2>4, <2>5, <2>6 DEF TickEffect
<1>6. ASSUME NEW i \in Runs, EscEffect(i)
      PROVE  PendingIsFirst'
  BY <1>6 DEF EscEffect
<1>7. CASE LoadFileEffect
  BY <1>7 DEF LoadFileEffect
<1>8. CASE QuitEffect
  BY <1>8 DEF QuitEffect, UnderWay, Busy
<1>9. ASSUME NEW t \in TaskIds, TaskEndsEffect(t)
      PROVE  PendingIsFirst'
  BY <1>9 DEF TaskEndsEffect
<1>10. CASE UNCHANGED vars
  BY <1>10 DEF vars
<1> QED BY <1>1, <1>2, <1>3, <1>4, <1>5, <1>6, <1>7, <1>8, <1>9, <1>10 DEF StepEffect

\* A second refine is submitted by a run that had it ahead.
LEMMA RefinedOnceStep ==
  ASSUME Typed, Linked, StepEffect, Single, ~met, ~met'
  PROVE  RefinedOnce'
<1> USE Zero, UnusedIs, UnmadeIs, NoPendingIs
        DEF Typed, Linked, Single, Steps, Same, Held, Fails, Started, Closed, RefinedOnce,
            AheadIsFirst, Ahead, Refined, Abandoned, UnderWay, Working, RunIsSound,
            RunHasTasks, TaskHasRun, Begun, LeftOpen
<1>1. CASE RefuseInputEffect
  BY <1>1 DEF RefuseInputEffect
<1>2. ASSUME NEW i \in Runs, NEW m \in Modes, GenerateEffect(i, m)
      PROVE  RefinedOnce'
  BY <1>2 DEF GenerateEffect
<1>3. ASSUME NEW i \in Runs, RefreshMeshyEffect(i)
      PROVE  RefinedOnce'
  BY <1>3 DEF RefreshMeshyEffect
<1>4. ASSUME NEW i \in Runs, WorkerEffect(i)
      PROVE  RefinedOnce'
  <2>1. WorkerKeeps(i) /\ (SubmitEffect(i) \/ Quiet(i))
    BY <1>4, WorkerDoes
  <2>2. CASE SubmitEffect(i)
    BY <2>1, <2>2 DEF WorkerKeeps, SubmitEffect
  <2>3. CASE Quiet(i)
    BY <2>1, <2>3 DEF WorkerKeeps, Quiet
  <2> QED BY <2>1, <2>2, <2>3
<1>5. ASSUME NEW i \in Runs, TickEffect(i)
      PROVE  RefinedOnce'
  <2>1. PICK kind \in {"generate", "refresh"}, result \in {"path", "error", "timeout"} :
          Closed(i, kind, result)
    BY <1>5, TickCloses
  <2> QED BY <2>1
<1>6. ASSUME NEW i \in Runs, EscEffect(i)
      PROVE  RefinedOnce'
  BY <1>6 DEF EscEffect
<1>7. CASE LoadFileEffect
  BY <1>7 DEF LoadFileEffect
<1>8. CASE QuitEffect
  BY <1>8 DEF QuitEffect, UnderWay, Busy
<1>9. ASSUME NEW t \in TaskIds, TaskEndsEffect(t)
      PROVE  RefinedOnce'
  BY <1>9 DEF TaskEndsEffect
<1>10. CASE UNCHANGED vars
  BY <1>10 DEF vars
<1> QED BY <1>1, <1>2, <1>3, <1>4, <1>5, <1>6, <1>7, <1>8, <1>9, <1>10 DEF StepEffect

\* The refresh that replaces the task is one of the same request.
LEMMA SettingsAreOwnStep ==
  ASSUME Typed, Linked, StepEffect, Single, ~met, ~met'
  PROVE  SettingsAreOwn'
<1> USE Zero, UnusedIs, UnmadeIs, NoPendingIs
        DEF Typed, Linked, Single, Steps, Same, Held, Fails, Started, Closed,
            SettingsAreOwn, RefreshKnows, UnderWay, RunIsSound
<1>1. CASE RefuseInputEffect
  BY <1>1 DEF RefuseInputEffect
<1>2. ASSUME NEW i \in Runs, NEW m \in Modes, GenerateEffect(i, m)
      PROVE  SettingsAreOwn'
  BY <1>2 DEF GenerateEffect
<1>3. ASSUME NEW i \in Runs, RefreshMeshyEffect(i)
      PROVE  SettingsAreOwn'
  BY <1>3 DEF RefreshMeshyEffect
<1>4. ASSUME NEW i \in Runs, WorkerEffect(i)
      PROVE  SettingsAreOwn'
  <2>1. WorkerKeeps(i)
    BY <1>4, WorkerDoes
  <2> QED BY <2>1 DEF WorkerKeeps
<1>5. ASSUME NEW i \in Runs, TickEffect(i)
      PROVE  SettingsAreOwn'
  BY <1>5 DEF TickEffect, GenerateTimedOutEffect, GenerateFailedEffect,
           GenerateSucceededEffect, RefreshTimedOutEffect, RefreshFailedEffect,
           RefreshSucceededEffect
<1>6. ASSUME NEW i \in Runs, EscEffect(i)
      PROVE  SettingsAreOwn'
  BY <1>6 DEF EscEffect
<1>7. CASE LoadFileEffect
  BY <1>7 DEF LoadFileEffect
<1>8. CASE QuitEffect
  BY <1>8 DEF QuitEffect, UnderWay, Busy
<1>9. ASSUME NEW t \in TaskIds, TaskEndsEffect(t)
      PROVE  SettingsAreOwn'
  BY <1>9 DEF TaskEndsEffect
<1>10. CASE UNCHANGED vars
  BY <1>10 DEF vars
<1> QED BY <1>1, <1>2, <1>3, <1>4, <1>5, <1>6, <1>7, <1>8, <1>9, <1>10 DEF StepEffect

\* Without overlapping runs nobody else opens the file.
LEMMA FileIsOwnStep ==
  ASSUME Typed, Linked, StepEffect, Single, ~met, ~met', NEW j \in Runs
  PROVE  FileIsOwn(j)'
<1>0. FileIsOwn(j) /\ Alone /\ RunIsSound(j)
  BY DEF Single, Linked
<1> USE Zero, UnusedIs, UnmadeIs, NoPendingIs
        DEF Steps, Same, Held, Fails, Started, Closed, FileIsOwn
<1>1. CASE RefuseInputEffect
  BY <1>0, <1>1 DEF RefuseInputEffect
<1>2. ASSUME NEW i \in Runs, NEW m \in Modes, GenerateEffect(i, m)
      PROVE  FileIsOwn(j)'
  <2>1. CASE j = i
    BY <1>0, <1>2, <2>1 DEF GenerateEffect
  <2>2. CASE j # i
    BY <1>0, <1>2, <2>2 DEF GenerateEffect
  <2> QED BY <2>1, <2>2
<1>3. ASSUME NEW i \in Runs, RefreshMeshyEffect(i)
      PROVE  FileIsOwn(j)'
  <2>1. CASE j = i
    BY <1>0, <1>3, <2>1 DEF RefreshMeshyEffect
  <2>2. CASE j # i
    BY <1>0, <1>3, <2>2 DEF RefreshMeshyEffect
  <2> QED BY <2>1, <2>2
<1>4. ASSUME NEW i \in Runs, WorkerEffect(i)
      PROVE  FileIsOwn(j)'
  <2>1. CASE LookUpEffect(i)
    BY <1>0, <2>1 DEF LookUpEffect, RunIsSound
  <2>2. CASE SubmitEffect(i)
    BY <1>0, <2>2 DEF SubmitEffect
  <2>3. CASE SubmitFailsEffect(i)
    BY <1>0, <2>3 DEF SubmitFailsEffect
  <2>4. CASE HearTaskEffect(i)
    BY <1>0, <2>4 DEF HearTaskEffect
  <2>5. CASE CheckCancelEffect(i)
    BY <1>0, <2>5 DEF CheckCancelEffect
  <2>6. CASE StillRunningEffect(i)
    BY <1>0, <2>6 DEF StillRunningEffect
  <2>7. CASE SucceededEffect(i)
    BY <1>0, <2>7 DEF SucceededEffect
  <2>8. CASE LookupFailsEffect(i)
    BY <1>0, <2>8 DEF LookupFailsEffect
  <2>9. CASE OpenFileEffect(i)
    <3>1. Writers(run[i].mode) = {}
      BY <1>0, <2>9 DEF OpenFileEffect, Writers, Alone, UnderWay, Working
    <3>2. CASE j = i
      BY <1>0, <2>9, <3>1, <3>2 DEF OpenFileEffect, RunIsSound
    <3>3. CASE j # i
      BY <1>0, <2>9, <3>3 DEF OpenFileEffect, Alone, UnderWay, Working
    <3> QED BY <3>2, <3>3
  <2>10. CASE CloseFileEffect(i)
    <3>1. CASE j = i
      BY <1>0, <2>10, <3>1 DEF CloseFileEffect, Alone, UnderWay, Working
    <3>2. CASE j # i
      BY <1>0, <2>10, <3>2 DEF CloseFileEffect, Alone, UnderWay, Working
    <3> QED BY <3>1, <3>2
  <2>11. CASE DownloadFailsEffect(i)
    BY <1>0, <2>11 DEF DownloadFailsEffect
  <2>12. CASE ExpireEffect(i)
    BY <1>0, <2>12 DEF ExpireEffect
  <2> QED BY <1>4, <2>1, <2>2, <2>3, <2>4, <2>5, <2>6, <2>7, <2>8, <2>9, <2>10, <2>11, <2>12
     DEF WorkerEffect
<1>5. ASSUME NEW i \in Runs, TickEffect(i)
      PROVE  FileIsOwn(j)'
  BY <1>0, <1>5 DEF TickEffect, GenerateTimedOutEffect, GenerateFailedEffect,
           GenerateSucceededEffect, RefreshTimedOutEffect, RefreshFailedEffect,
           RefreshSucceededEffect
<1>6. ASSUME NEW i \in Runs, EscEffect(i)
      PROVE  FileIsOwn(j)'
  <2>1. CASE j = i
    BY <1>0, <1>6, <2>1 DEF EscEffect
  <2>2. CASE j # i
    BY <1>0, <1>6, <2>2 DEF EscEffect
  <2> QED BY <2>1, <2>2
<1>7. CASE LoadFileEffect
  <2>1. /\ run'[j].pc = run[j].pc /\ run'[j].mode = run[j].mode
        /\ run'[j].origin = run[j].origin /\ run'[j].result = run[j].result
        /\ run'[j].modal = "open" => run[j].modal = "open"
        /\ file' = file
    BY <1>0, <1>7 DEF LoadFileEffect
  <2> QED BY <1>0, <2>1
<1>8. CASE QuitEffect
  BY <1>0, <1>8 DEF QuitEffect, UnderWay, Busy
<1>9. ASSUME NEW t \in TaskIds, TaskEndsEffect(t)
      PROVE  FileIsOwn(j)'
  <2>1. UNCHANGED <<run, file>>
    BY <1>0, <1>9 DEF TaskEndsEffect
  <2> QED BY <1>0, <2>1
<1>10. CASE UNCHANGED vars
  BY <1>0, <1>10 DEF vars
<1> QED BY <1>1, <1>2, <1>3, <1>4, <1>5, <1>6, <1>7, <1>8, <1>9, <1>10 DEF StepEffect

\* What a generate imports is its own, and the first of its settings.
LEMMA GenerateImports ==
  ASSUME Typed, Linked, Single, NEW i \in Runs, GenerateSucceededEffect(i), NEW e \in imported'
  PROVE  ImportedIsOwn(e)'
<1> DEFINE n == [run |-> i, settings |-> i, mode |-> run[i].mode, file |-> file[run[i].mode]]
<1>2. run[i].origin = i /\ UnderWay(i) /\ pending = NoPending
  BY DEF Linked, Single, RunIsSound, RefreshKnows, GenerateSucceededEffect, Closed, UnderWay
<1>3. \A f \in imported : f.settings # i
  BY <1>2 DEF Single, ImportedIsOwn, GenerateSucceededEffect, Closed
<1>4. \A a \in Runs : run'[a].modal # "open"
  BY <1>2 DEF Single, Alone, UnderWay, GenerateSucceededEffect, Closed
<1>5. imported' = imported \cup {n} /\ pending' = NoPending /\ n.settings = i
  BY <1>2 DEF GenerateSucceededEffect
<1>6. run[i].mode = "text" => n.file.state \in Bodies /\ n.file.origin = i
  BY <1>2 DEF Single, FileIsOwn, GenerateSucceededEffect, Closed
<1>7. n.mode = run[i].mode
  OBVIOUS
<1> HIDE DEF n
<1>8. CASE e = n
  BY <1>3, <1>4, <1>5, <1>6, <1>7, <1>8, Zero, NoPendingIs DEF ImportedIsOwn
<1>9. CASE e \in imported
  BY <1>2, <1>3, <1>4, <1>5, <1>9 DEF Single, ImportedIsOwn
<1> QED BY <1>5, <1>8, <1>9

\* What a refresh imports is that of the request it took up.
LEMMA RefreshImports ==
  ASSUME Typed, Linked, Single, NEW i \in Runs, RefreshSucceededEffect(i), NEW e \in imported'
  PROVE  ImportedIsOwn(e)'
<1> DEFINE n == [run |-> i, settings |-> pending.settings, mode |-> run[i].mode,
                 file |-> file[run[i].mode]]
<1>2. CASE pending = NoPending
  BY <1>2 DEF Single, ImportedIsOwn, RefreshSucceededEffect, Closed
<1>3. CASE pending # NoPending
  <2>1. /\ UnderWay(i) /\ pending.settings = run[i].origin
        /\ pending.origin = run[i].origin /\ pending.origin # NoRun
    BY <1>3
       DEF Single, SettingsAreOwn, RefreshKnows, PendingIsSound, Linked,
           RefreshSucceededEffect, Closed, UnderWay
  <2>3. \A f \in imported : f.settings # pending.settings
    BY <2>1 DEF Single, ImportedIsOwn
  <2>4. \A a \in Runs : run'[a].modal # "open"
    BY <2>1 DEF Single, Alone, UnderWay, RefreshSucceededEffect, Closed
  <2>5. imported' = imported \cup {n} /\ pending' = NoPending /\ n.settings = pending.settings
    BY <1>3 DEF RefreshSucceededEffect
  <2>6. run[i].mode = "text" =>
          n.file.state \in Bodies /\ n.file.origin = pending.settings
    BY <2>1 DEF Single, FileIsOwn, RefreshSucceededEffect, Closed
  <2>7. n.mode = run[i].mode
    OBVIOUS
  <2> HIDE DEF n
  <2>8. CASE e = n
    BY <2>1, <2>3, <2>4, <2>5, <2>6, <2>7, <2>8, Zero, NoPendingIs DEF ImportedIsOwn
  <2>9. CASE e \in imported
    BY <2>3, <2>4, <2>5, <2>9, Zero, NoPendingIs DEF Single, ImportedIsOwn, Typed
  <2> QED BY <2>5, <2>8, <2>9
<1> QED BY <1>2, <1>3

\* What was imported stays, and its request is over.
LEMMA ImportedIsOwnStep ==
  ASSUME Typed, Linked, StepEffect, Single, ~met, ~met', NEW e \in imported'
  PROVE  ImportedIsOwn(e)'
<1> USE Zero, UnusedIs, UnmadeIs, NoPendingIs
        DEF Typed, Linked, Single, Steps, Same, Held, Fails, Started, Closed, ImportedIsOwn,
            ImportedHasRun, PendingIsSound, RefreshKnows, FileIsOwn, SettingsAreOwn, Alone,
            UnderWay, Working, Busy, RunIsSound, RunHasTasks, LeftOpen, Begun
<1>1. CASE RefuseInputEffect
  BY <1>1 DEF RefuseInputEffect
<1>2. ASSUME NEW i \in Runs, NEW m \in Modes, GenerateEffect(i, m)
      PROVE  ImportedIsOwn(e)'
  BY <1>2 DEF GenerateEffect
<1>3. ASSUME NEW i \in Runs, RefreshMeshyEffect(i)
      PROVE  ImportedIsOwn(e)'
  BY <1>3 DEF RefreshMeshyEffect
<1>4. ASSUME NEW i \in Runs, WorkerEffect(i)
      PROVE  ImportedIsOwn(e)'
  <2>1. WorkerKeeps(i)
    BY <1>4, WorkerDoes
  <2> QED BY <2>1 DEF WorkerKeeps
<1>5. ASSUME NEW i \in Runs, TickEffect(i)
      PROVE  ImportedIsOwn(e)'
  <2>1. CASE GenerateSucceededEffect(i)
    BY <2>1, GenerateImports
  <2>2. CASE RefreshSucceededEffect(i)
    BY <2>2, RefreshImports
  <2>3. CASE GenerateTimedOutEffect(i)
    BY <2>3 DEF GenerateTimedOutEffect
  <2>4. CASE RefreshTimedOutEffect(i)
    BY <2>4 DEF RefreshTimedOutEffect
  <2>5. CASE GenerateFailedEffect(i)
    BY <2>5 DEF GenerateFailedEffect
  <2>6. CASE RefreshFailedEffect(i)
    BY <2>6 DEF RefreshFailedEffect
  <2> QED BY <1>5, <2>1, <2>2, <2>3, <2>4, <2>5, <2>6 DEF TickEffect
<1>6. ASSUME NEW i \in Runs, EscEffect(i)
      PROVE  ImportedIsOwn(e)'
  BY <1>6 DEF EscEffect
<1>7. CASE LoadFileEffect
  BY <1>7 DEF LoadFileEffect
<1>8. CASE QuitEffect
  BY <1>8 DEF QuitEffect, UnderWay, Busy
<1>9. ASSUME NEW t \in TaskIds, TaskEndsEffect(t)
      PROVE  ImportedIsOwn(e)'
  BY <1>9 DEF TaskEndsEffect
<1>10. CASE UNCHANGED vars
  BY <1>10 DEF vars
<1> QED BY <1>1, <1>2, <1>3, <1>4, <1>5, <1>6, <1>7, <1>8, <1>9, <1>10 DEF StepEffect

\* A step keeps the types.
LEMMA TypeStep ==
  ASSUME TypeOK, Linked, StepEffect
  PROVE  TypeOK'
<1>1. Typed
  BY TypedHolds
<1>2. NoPending \in Pending
  BY DEF NoPending, Pending, Stages, ModeNames, NoRun, NoTask
<1>3. \A i \in Runs :
        run[i].kind # "unused" \/ run[i].modal # "closed" => run[i].origin \in Runs
  BY <1>1, UnusedIs DEF Linked, RunIsSound, Typed
<1>4. CASE RefuseInputEffect
  BY <1>1, <1>2, <1>4 DEF RefuseInputEffect, TypeOK, Typed, PendingOrigin
<1>5. ASSUME NEW i \in Runs, NEW m \in Modes, GenerateEffect(i, m)
      PROVE  TypeOK'
  <2>1. forsaken' \subseteq Runs /\ met' \in BOOLEAN
    BY <1>1, <1>5 DEF GenerateEffect, Started, TypeOK, Typed, PendingOrigin
  <2> QED BY <1>2, <1>5, <2>1 DEF GenerateEffect, Started, TypeOK
<1>6. ASSUME NEW i \in Runs, RefreshMeshyEffect(i)
      PROVE  TypeOK'
  <2>1. met' \in BOOLEAN
    BY <1>6 DEF RefreshMeshyEffect, Started, TypeOK
  <2> QED BY <1>6, <2>1 DEF RefreshMeshyEffect, Started, TypeOK
<1>7. ASSUME NEW i \in Runs, WorkerEffect(i)
      PROVE  TypeOK'
  <2> USE <1>3 DEF Steps, Fails, TypeOK
  <2>1. CASE LookUpEffect(i)
    BY <2>1 DEF LookUpEffect
  <2>2. CASE SubmitEffect(i)
    BY <2>2 DEF SubmitEffect
  <2>3. CASE SubmitFailsEffect(i)
    BY <2>3 DEF SubmitFailsEffect
  <2>4. CASE HearTaskEffect(i)
    BY <2>4 DEF HearTaskEffect
  <2>5. CASE CheckCancelEffect(i)
    BY <2>5 DEF CheckCancelEffect
  <2>6. CASE StillRunningEffect(i)
    BY <2>6 DEF StillRunningEffect
  <2>7. CASE SucceededEffect(i)
    BY <2>7 DEF SucceededEffect
  <2>8. CASE LookupFailsEffect(i)
    BY <2>8 DEF LookupFailsEffect
  <2>9. CASE OpenFileEffect(i)
    BY <2>9 DEF OpenFileEffect
  <2>10. CASE CloseFileEffect(i)
    BY <2>10 DEF CloseFileEffect
  <2>11. CASE DownloadFailsEffect(i)
    BY <2>11 DEF DownloadFailsEffect
  <2>12. CASE ExpireEffect(i)
    BY <2>12 DEF ExpireEffect
  <2> QED BY <1>7, <2>1, <2>2, <2>3, <2>4, <2>5, <2>6, <2>7, <2>8, <2>9, <2>10, <2>11, <2>12
         DEF WorkerEffect
<1>8. ASSUME NEW i \in Runs, TickEffect(i)
      PROVE  TypeOK'
  <2>1. CASE GenerateTimedOutEffect(i)
    BY <2>1 DEF GenerateTimedOutEffect, Closed, TypeOK
  <2>2. CASE GenerateFailedEffect(i)
    BY <2>2 DEF GenerateFailedEffect, Closed, TypeOK
  <2>3. CASE GenerateSucceededEffect(i)
    <3>1. run[i].mode \in ModeNames /\ file[run[i].mode] \in File
      BY <1>1 DEF TypeOK, Typed
    <3>2. imported' \subseteq [run : Runs, settings : Runs, mode : ModeNames, file : File]
      BY <2>3, <3>1 DEF GenerateSucceededEffect, TypeOK
    <3> QED BY <2>3, <3>2 DEF GenerateSucceededEffect, Closed, TypeOK
  <2>4. CASE RefreshTimedOutEffect(i)
    BY <2>4 DEF RefreshTimedOutEffect, Closed, TypeOK
  <2>5. CASE RefreshFailedEffect(i)
    BY <1>2, <2>5 DEF RefreshFailedEffect, Closed, TypeOK
  <2>6. CASE RefreshSucceededEffect(i)
    <3>1. run[i].mode \in ModeNames /\ file[run[i].mode] \in File
      BY <1>1 DEF TypeOK, Typed
    <3>2. pending # NoPending => pending.settings \in Runs
      BY <1>1 DEF Linked, PendingIsSound, Typed
    <3>3. imported' \subseteq [run : Runs, settings : Runs, mode : ModeNames, file : File]
      BY <2>6, <3>1, <3>2 DEF RefreshSucceededEffect, TypeOK
    <3> QED BY <1>2, <2>6, <3>3 DEF RefreshSucceededEffect, Closed, TypeOK
  <2> QED BY <1>8, <2>1, <2>2, <2>3, <2>4, <2>5, <2>6 DEF TickEffect
<1>9. ASSUME NEW i \in Runs, EscEffect(i)
      PROVE  TypeOK'
  <2>1. run[i].origin \in Runs /\ run[i].shown \in TaskIds \cup {NoTask}
    BY <1>1, <1>3, <1>9 DEF EscEffect, Typed
  <2> QED BY <1>9, <2>1 DEF EscEffect, TypeOK
<1>10. CASE LoadFileEffect
  <2>1. forsaken' \subseteq Runs
    BY <1>3, <1>10 DEF LoadFileEffect, TypeOK
  <2> QED BY <1>10, <2>1 DEF LoadFileEffect, TypeOK
<1>11. CASE QuitEffect
  <2>1. \A i \in Busy : run[i].origin \in Runs
    BY <1>3, UnusedIs DEF Busy, UnderWay, Working, Linked, RunIsSound
  <2>2. forsaken' \subseteq Runs
    BY <1>1, <1>11, <2>1 DEF QuitEffect, TypeOK, Typed, PendingOrigin
  <2> QED BY <1>2, <1>11, <2>2 DEF QuitEffect, TypeOK
<1>12. ASSUME NEW t \in TaskIds, TaskEndsEffect(t)
       PROVE  TypeOK'
  BY <1>12 DEF TaskEndsEffect, TypeOK
<1>13. CASE UNCHANGED vars
  BY <1>13 DEF vars, TypeOK
<1> QED BY <1>4, <1>5, <1>6, <1>7, <1>8, <1>9, <1>10, <1>11, <1>12, <1>13 DEF StepEffect
---------------------------------------------------------------------------
(* The invariant.                                                          *)

\* The invariant holds initially.
LEMMA InvInit == Init => IInv
<1> SUFFICES ASSUME Init PROVE IInv
  OBVIOUS
<1>1. TypeOK
  BY TypeInit
<1>2. \A i \in Runs : run[i] = Unused
  BY DEF Init
<1>3. \A t \in TaskIds : task[t] = Unmade
  BY DEF Init
<1>4. pending = NoPending /\ deletes = {} /\ imported = {}
  BY DEF Init
<1>5. \A i \in Runs : RunIsSound(i) /\ RunHasTasks(i)
  <2>1. ~Unused.cancelled
    BY DEF Unused
  <2> QED BY <1>2, <2>1, UnusedIs DEF RunIsSound, RunHasTasks, Working
<1>6. \A t \in TaskIds : TaskHasRun(t)
  BY <1>3, UnmadeIs DEF TaskHasRun
<1>7. Linked
  BY <1>3, <1>4, <1>5, <1>6
     DEF Linked, DeletedIsEscaped, ImportedHasRun, PendingIsSound, FirstStageOnce
<1>8. \A i \in Runs : ~UnderWay(i)
  BY <1>2, UnusedIs DEF UnderWay, Working
<1>9. \A i \in Runs : RefreshKnows(i) /\ AheadIsFirst(i) /\ FileIsOwn(i)
  BY <1>2, <1>8, UnusedIs DEF RefreshKnows, AheadIsFirst, Ahead, FileIsOwn
<1>10. \A t \in TaskIds : Tracked(t)
  BY <1>3, UnmadeIs DEF Tracked
<1>11. Alone /\ PendingIsFirst /\ RefinedOnce /\ SettingsAreOwn
  BY <1>3, <1>4, <1>8, NoPendingIs DEF Alone, PendingIsFirst, RefinedOnce, SettingsAreOwn
<1>12. Single
  BY <1>4, <1>9, <1>10, <1>11 DEF Single
<1> QED BY <1>1, <1>7, <1>12 DEF IInv

\* Runs that overlapped stay overlapped.
LEMMA MetStays ==
  ASSUME TypeOK, StepEffect, ~met'
  PROVE  ~met
<1> USE DEF Steps, Fails, Started, Closed
<1>1. ASSUME NEW i \in Runs, WorkerEffect(i)
      PROVE  UNCHANGED met
  <2>1. CASE LookUpEffect(i)
    BY <2>1 DEF LookUpEffect
  <2>2. CASE SubmitEffect(i)
    BY <2>2 DEF SubmitEffect
  <2>3. CASE SubmitFailsEffect(i)
    BY <2>3 DEF SubmitFailsEffect
  <2>4. CASE HearTaskEffect(i)
    BY <2>4 DEF HearTaskEffect
  <2>5. CASE CheckCancelEffect(i)
    BY <2>5 DEF CheckCancelEffect
  <2>6. CASE StillRunningEffect(i)
    BY <2>6 DEF StillRunningEffect
  <2>7. CASE SucceededEffect(i)
    BY <2>7 DEF SucceededEffect
  <2>8. CASE LookupFailsEffect(i)
    BY <2>8 DEF LookupFailsEffect
  <2>9. CASE OpenFileEffect(i)
    BY <2>9 DEF OpenFileEffect
  <2>10. CASE CloseFileEffect(i)
    BY <2>10 DEF CloseFileEffect
  <2>11. CASE DownloadFailsEffect(i)
    BY <2>11 DEF DownloadFailsEffect
  <2>12. CASE ExpireEffect(i)
    BY <2>12 DEF ExpireEffect
  <2> QED BY <1>1, <2>1, <2>2, <2>3, <2>4, <2>5, <2>6, <2>7, <2>8, <2>9, <2>10, <2>11, <2>12
         DEF WorkerEffect
<1>2. ASSUME NEW i \in Runs, TickEffect(i)
      PROVE  UNCHANGED met
  BY <1>2, TickCloses
<1> QED BY <1>1, <1>2
       DEF StepEffect, RefuseInputEffect, GenerateEffect, RefreshMeshyEffect, EscEffect,
           LoadFileEffect, QuitEffect, TaskEndsEffect, vars

\* A step keeps the invariant.
LEMMA InvStep ==
  ASSUME IInv, [Next]_vars
  PROVE  IInv'
<1>1. StepEffect /\ TypeOK /\ Typed /\ Linked
  BY StepDoes, TypedHolds DEF IInv
<1>2. TypeOK'
  BY <1>1, TypeStep
<1>3. \A i \in Runs : RunIsSound(i)' /\ RunHasTasks(i)'
  BY <1>1, RunIsSoundStep, RunHasTasksStep
<1>4. \A t \in TaskIds : TaskHasRun(t)'
  BY <1>1, TaskHasRunStep
<1>5. DeletedIsEscaped' /\ ImportedHasRun' /\ PendingIsSound' /\ FirstStageOnce'
  BY <1>1, DeletedIsEscapedStep, ImportedHasRunStep, PendingIsSoundStep, FirstStageOnceStep
<1>6. Linked'
  BY <1>3, <1>4, <1>5 DEF Linked
<1>7. ASSUME ~met'
      PROVE  Single'
  <2>1. ~met /\ Single
    BY <1>1, <1>7, MetStays DEF IInv
  <2>2. \A i \in Runs : RefreshKnows(i)' /\ AheadIsFirst(i)' /\ FileIsOwn(i)'
    BY <1>1, <1>7, <2>1, RefreshKnowsStep, AheadIsFirstStep, FileIsOwnStep
  <2>3. \A t \in TaskIds : Tracked(t)'
    BY <1>1, <1>7, <2>1, TrackedStep
  <2>4. Alone' /\ PendingIsFirst' /\ RefinedOnce' /\ SettingsAreOwn'
    BY <1>1, <1>7, <2>1, AloneStep, PendingIsFirstStep, RefinedOnceStep, SettingsAreOwnStep
  <2>5. \A e \in imported' : ImportedIsOwn(e)'
    BY <1>1, <1>7, <2>1, ImportedIsOwnStep
  <2> QED BY <2>2, <2>3, <2>4, <2>5 DEF Single
<1> QED BY <1>2, <1>6, <1>7 DEF IInv

\* The inductive invariant holds in every state that is reached.
THEOREM InvHolds == Spec => []IInv
<1>1. IInv /\ UNCHANGED vars => IInv'
  BY InvStep
<1> QED BY InvInit, InvStep, PTL DEF Spec

\* Every variable keeps its type, whatever the runs, the main thread and the providers do.
THEOREM TypeCorrect == Spec => []TypeOK
<1>1. IInv => TypeOK
  BY DEF IInv
<1> QED BY <1>1, InvHolds, PTL

\* A task that runs, and is billed, is polled or kept for a refresh unless its request was
\* given up or runs overlapped (the workers of super_import_ops, _pending_resume and the
\* ticks), and cancel_meshy_task is never sent for the task that is kept.
THEOREM TasksAreTrackedHolds == Spec => []TasksAreTracked
<1>1. ASSUME IInv
      PROVE  TasksAreTracked
  <2>1. ASSUME NEW t \in TaskIds,
               task[t].status = "running", task[t].origin \notin forsaken, ~met
        PROVE  Watched(t) \/ pending.task = t
    BY <1>1, <2>1 DEF IInv, Single, Tracked
  <2>2. ASSUME NEW t \in TaskIds, pending.task = t
        PROVE  t \notin deletes
    <3>1. pending # NoPending
      BY <2>2, Zero, NoPendingIs
    <3> QED BY <1>1, <2>2, <3>1
            DEF IInv, Linked, PendingIsSound, LeftOpen, DeletedIsEscaped
  <2> QED BY <2>1, <2>2 DEF TasksAreTracked
<1> QED BY <1>1, InvHolds, PTL

\* A request is submitted, and paid for, once in each of its stages; a refine again only
\* after a refresh that was abandoned, or when runs overlapped.
THEOREM BilledOnceHolds == Spec => []BilledOnce
<1>1. ASSUME IInv
      PROVE  BilledOnce
  <2>1. FirstStageOnce /\ (~met => RefinedOnce)
    BY <1>1 DEF IInv, Linked, Single
  <2> QED BY <2>1 DEF BilledOnce, FirstStageOnce, RefinedOnce, Abandoned
<1> QED BY <1>1, InvHolds, PTL

\* What the ticks import without overlapping runs is the model that was asked for, with
\* the settings it was asked for and once, however many refreshes it took, and was not
\* taken from a download that raised.
THEOREM ImportedAsAskedHolds == Spec => []ImportedAsAsked
<1>1. ASSUME IInv
      PROVE  ImportedAsAsked
  BY <1>1 DEF IInv, Single, ImportedIsOwn, ImportedAsAsked
<1> QED BY <1>1, InvHolds, PTL
---------------------------------------------------------------------------
(* What Esc, and any other end of a modal, is good for.                    *)

\* The steps that are left from each place.
LEMMA StepsLeftIs ==
  /\ StepsLeft("lookup") = 4 /\ StepsLeft("asked") = 4 /\ StepsLeft("submit") = 3
  /\ StepsLeft("sent") = 2 /\ StepsLeft("download") = 2
  /\ StepsLeft("first") = 1 /\ StepsLeft("again") = 1 /\ StepsLeft("writing") = 1
  /\ StepsLeft("done") = 0 /\ StepsLeft("dead") = 0
  BY DEF StepsLeft

\* A step to a place that is nearer to the end.
LEMMA StepsNearer ==
  ASSUME NEW i \in Runs, run[i].cancelled, NEW from, NEW to, Steps(i, from, to),
         \A pc \in from : StepsLeft(to) < StepsLeft(pc)
  PROVE  WindsDown(i)
  BY DEF Steps, Same, WindsDown

\* A step of a worker that was cancelled brings it nearer to its end.
LEMMA WorkerWindsDown ==
  ASSUME NEW i \in Runs, WorkerEffect(i), run[i].cancelled, run[i].mode # "tripo"
  PROVE  WindsDown(i)
<1>1. \/ Steps(i, {"lookup"}, "done")
      \/ Steps(i, {"lookup"}, "submit")
      \/ Steps(i, {"submit"}, "sent")
      \/ Steps(i, {"submit", "sent"}, "done")
      \/ Steps(i, {"sent"}, "first")
      \/ Steps(i, {"first", "again"}, "done")
      \/ Steps(i, {"asked"}, "again")
      \/ Steps(i, {"asked"}, "submit")
      \/ Steps(i, {"asked"}, "download")
      \/ Steps(i, {"asked"}, "done")
      \/ Steps(i, {"download"}, "writing")
      \/ Steps(i, {"writing"}, "done")
      \/ Steps(i, {"download", "writing"}, "done")
      \/ Steps(i, {"again"}, "done")
  BY DEF WorkerEffect, LookUpEffect, SubmitEffect, SubmitFailsEffect, HearTaskEffect,
         CheckCancelEffect, StopsPolling, StillRunningEffect, SucceededEffect,
         LookupFailsEffect, OpenFileEffect, CloseFileEffect, DownloadFailsEffect,
         ExpireEffect, Fails
<1>2. /\ \A pc \in {"lookup"} : StepsLeft("submit") < StepsLeft(pc)
      /\ \A pc \in {"submit"} : StepsLeft("sent") < StepsLeft(pc)
      /\ \A pc \in {"sent"} : StepsLeft("first") < StepsLeft(pc)
      /\ \A pc \in {"asked"} : StepsLeft("again") < StepsLeft(pc)
      /\ \A pc \in {"asked"} : StepsLeft("submit") < StepsLeft(pc)
      /\ \A pc \in {"asked"} : StepsLeft("download") < StepsLeft(pc)
      /\ \A pc \in {"download"} : StepsLeft("writing") < StepsLeft(pc)
  BY StepsLeftIs
<1>3. /\ \A pc \in {"lookup"} : StepsLeft("done") < StepsLeft(pc)
      /\ \A pc \in {"submit", "sent"} : StepsLeft("done") < StepsLeft(pc)
      /\ \A pc \in {"first", "again"} : StepsLeft("done") < StepsLeft(pc)
      /\ \A pc \in {"asked"} : StepsLeft("done") < StepsLeft(pc)
      /\ \A pc \in {"writing"} : StepsLeft("done") < StepsLeft(pc)
      /\ \A pc \in {"download", "writing"} : StepsLeft("done") < StepsLeft(pc)
      /\ \A pc \in {"again"} : StepsLeft("done") < StepsLeft(pc)
  BY StepsLeftIs
<1> QED BY <1>1, <1>2, <1>3, StepsNearer

\* A run that is started was not cancelled, nor its modal ended: it was unused.
LEMMA OnlyUnusedStart ==
  ASSUME Linked, NEW i \in Runs, NEW kind, Started(i, kind), NEW j \in Runs
  PROVE  /\ run[j].cancelled \/ run[j].kind # "unused" => run'[j] = run[j]
<1>1. j = i => run[j] = Unused
  BY DEF Started, Linked, RunIsSound
<1>2. Unused.cancelled = FALSE /\ Unused.kind = "unused"
  BY DEF Unused
<1>3. j # i => run'[j] = run[j]
  BY DEF Started
<1> QED BY <1>1, <1>2, <1>3

\* No step takes a cancelled run back.
LEMMA WindsDownStep ==
  ASSUME Typed, Linked, StepEffect, NEW j \in Runs, run[j].cancelled, run[j].mode # "tripo"
  PROVE  WindsDown(j)
<1>0. run'[j] = run[j] => WindsDown(j)
  BY DEF WindsDown
<1>1. CASE RefuseInputEffect
  BY <1>0, <1>1 DEF RefuseInputEffect
<1>2. ASSUME NEW i \in Runs, NEW m \in Modes, GenerateEffect(i, m)
      PROVE  WindsDown(j)
  BY <1>0, <1>2, OnlyUnusedStart DEF GenerateEffect
<1>3. ASSUME NEW i \in Runs, RefreshMeshyEffect(i)
      PROVE  WindsDown(j)
  BY <1>0, <1>3, OnlyUnusedStart DEF RefreshMeshyEffect
<1>4. ASSUME NEW i \in Runs, WorkerEffect(i)
      PROVE  WindsDown(j)
  <2>1. CASE i = j
    BY <1>4, <2>1, WorkerWindsDown
  <2>2. CASE i # j
    <3>1. Same(i)
      BY <1>4, WorkerDoes DEF WorkerKeeps
    <3> QED BY <1>0, <2>2, <3>1 DEF Same
  <2> QED BY <2>1, <2>2
<1>5. ASSUME NEW i \in Runs, TickEffect(i)
      PROVE  WindsDown(j)
  BY <1>0, <1>5, TickCloses DEF Closed, WindsDown
<1>6. ASSUME NEW i \in Runs, EscEffect(i)
      PROVE  WindsDown(j)
  BY <1>0, <1>6 DEF EscEffect, WindsDown
<1>7. CASE LoadFileEffect
  BY <1>7 DEF LoadFileEffect, WindsDown
<1>8. CASE QuitEffect
  <2>1. CASE Working(j)
    <3>1. run[j].pc \in PCs \ {"done", "dead"} /\ run'[j].pc = "dead"
      BY <1>8, <2>1 DEF QuitEffect, Working, Typed
    <3>2. StepsLeft(run'[j].pc) < StepsLeft(run[j].pc)
      BY <3>1, StepsLeftIs DEF PCs
    <3> QED BY <1>8, <3>2 DEF QuitEffect, WindsDown
  <2>2. CASE ~Working(j)
    BY <1>8, <2>2 DEF QuitEffect, WindsDown
  <2> QED BY <2>1, <2>2
<1>9. ASSUME NEW t \in TaskIds, TaskEndsEffect(t)
      PROVE  WindsDown(j)
  BY <1>0, <1>9 DEF TaskEndsEffect
<1>10. CASE UNCHANGED vars
  BY <1>0, <1>10 DEF vars
<1> QED BY <1>1, <1>2, <1>3, <1>4, <1>5, <1>6, <1>7, <1>8, <1>9, <1>10 DEF StepEffect

\* After Esc the worker of a Meshy job (_poll_meshy_task and what follows it) is at most
\* four of its steps from its end, submits at most one more task and polls no more, and
\* nothing clears its event: the safety half of EscStopsTheWorker.
THEOREM CancelledWindsDownHolds == Spec => CancelledWindsDown
<1>1. ASSUME IInv, [Next]_vars, NEW j \in Runs, run[j].cancelled, run[j].mode # "tripo"
      PROVE  WindsDown(j)
  <2>1. StepEffect /\ Typed /\ Linked
    BY <1>1, StepDoes, TypedHolds DEF IInv
  <2> QED BY <1>1, <2>1, WindsDownStep
<1>2. IInv /\ [Next]_vars =>
        \A i \in Runs : run[i].cancelled /\ run[i].mode # "tripo" => WindsDown(i)
  BY <1>1
<1> QED BY <1>2, InvHolds, PTL DEF Spec, CancelledWindsDown

\* No step opens a modal again, or imports for one that has ended.
LEMMA StaysEndedStep ==
  ASSUME Typed, Linked, StepEffect, NEW j \in Runs,
         run[j].kind # "unused", run[j].modal # "open"
  PROVE  StaysEnded(j)
<1>0. run'[j] = run[j] /\ imported' = imported => StaysEnded(j)
  BY DEF StaysEnded
<1>1. CASE RefuseInputEffect
  BY <1>0, <1>1 DEF RefuseInputEffect
<1>2. ASSUME NEW i \in Runs, NEW m \in Modes, GenerateEffect(i, m)
      PROVE  StaysEnded(j)
  BY <1>0, <1>2, OnlyUnusedStart DEF GenerateEffect
<1>3. ASSUME NEW i \in Runs, RefreshMeshyEffect(i)
      PROVE  StaysEnded(j)
  BY <1>0, <1>3, OnlyUnusedStart DEF RefreshMeshyEffect
<1>4. ASSUME NEW i \in Runs, WorkerEffect(i)
      PROVE  StaysEnded(j)
  <2>1. Same(i) /\ imported' = imported
    BY <1>4, WorkerDoes DEF WorkerKeeps
  <2> QED BY <2>1 DEF Same, StaysEnded
<1>5. ASSUME NEW i \in Runs, TickEffect(i)
      PROVE  StaysEnded(j)
  <2>1. i # j /\ run'[j] = run[j]
    BY <1>5, TickCloses DEF Closed
  <2>2. \A e \in imported' \ imported : e.run = i
    BY <1>5 DEF TickEffect, GenerateTimedOutEffect, GenerateFailedEffect,
       GenerateSucceededEffect, RefreshTimedOutEffect, RefreshFailedEffect,
       RefreshSucceededEffect
  <2> QED BY <2>1, <2>2 DEF StaysEnded
<1>6. ASSUME NEW i \in Runs, EscEffect(i)
      PROVE  StaysEnded(j)
  BY <1>0, <1>6 DEF EscEffect
<1>7. CASE LoadFileEffect
  BY <1>0, <1>7 DEF LoadFileEffect
<1>8. CASE QuitEffect
  BY <1>8 DEF QuitEffect, StaysEnded
<1>9. ASSUME NEW t \in TaskIds, TaskEndsEffect(t)
      PROVE  StaysEnded(j)
  BY <1>0, <1>9 DEF TaskEndsEffect
<1>10. CASE UNCHANGED vars
  BY <1>0, <1>10 DEF vars
<1> QED BY <1>1, <1>2, <1>3, <1>4, <1>5, <1>6, <1>7, <1>8, <1>9, <1>10 DEF StepEffect

\* A modal that ended stays ended, and its operator imports nothing more: a download that
\* arrives after Esc, a timeout or a file that was loaded is not put into the scene.
THEOREM EndedModalStaysHolds == Spec => EndedModalStays
<1>1. ASSUME IInv, [Next]_vars, NEW j \in Runs, run[j].kind # "unused", run[j].modal # "open"
      PROVE  StaysEnded(j)
  <2>1. StepEffect /\ Typed /\ Linked
    BY <1>1, StepDoes, TypedHolds DEF IInv
  <2> QED BY <1>1, <2>1, StaysEndedStep
<1>2. IInv /\ [Next]_vars =>
        \A i \in Runs : run[i].kind # "unused" /\ run[i].modal # "open" => StaysEnded(i)
  BY <1>1
<1> QED BY <1>2, InvHolds, PTL DEF Spec, EndedModalStays
===========================================================================
