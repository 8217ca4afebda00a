# A verification project for mcp-blender

mcp-blender lets an AI client drive Blender. An MCP server (Python, asyncio)
talks over a WebSocket to an add-on inside Blender; the add-on hands every
request to Blender's main thread, because nothing else may touch `bpy`. The same
bridge is used by a Go command-line client, which keeps a response cache, a
journal of its own invocations and a store of what it learned from them. This
directory holds TLA+ models of the protocol core of that system and of the shared
state of the client, the TLC runs that check them and proofs for TLAPS.

## The system

| part | source | state it keeps | operations |
|---|---|---|---|
| job table | `extension/bridge/jobs.py` | records by id, each with status, cancelled flag, error, progress, generation; a lock | create (and trim), next queued, mark running, update, cancel, complete, fail, fail if active, delete, prune, list |
| job scheduler | `extension/bridge/scheduler.py` | the active job and its generator | submit (server thread), one pump tick per timer call, reset |
| job tools | `extension/tools/job_ops.py` | none | cancel, delete, prune, read |
| request dispatch | `extension/bridge/dispatch.py` | queue, generation, what runs now, client status, job card | enqueue (server thread), drain (main thread), status |
| WebSocket server | `extension/bridge/server.py` | thread, loop, connections, one task per message | receive, answer, time out, cancel; start, stop |
| add-on lifecycle | `extension/__init__.py` | timers registered or not | register, unregister |
| MCP server connection | `mcp_server/.../bridge.py` | state, socket, receive task, pending futures, closing flag | connect, reconnect with backoff, send request, close |
| client status | `mcp_server/.../client_status.py` | none (writes the add-on's status line) | track, push |
| MCP server process | `mcp_server/.../server.py` | the bridge | first dial, serve, close |
| batch, checkpoints | `extension/tools/batch_execution_ops.py`, `checkpoint_ops.py` | checkpoint files, a deferred restore | run a list of operations, roll back |
| AI generation | `extension/panels/viewport_panel.py`, `tools/super_import_ops.py` | a job dict and a cancel event per run, the task left pending, downloaded models | generate, refresh, Esc; a worker that submits, polls and downloads |
| HUD, task history, panels | `extension/tools/progress_hud_ops.py`, `task_history.py`, `panels/` | display state | draw |
| bpy tools | `extension/tools/` | the Blender scene | synchronous calls into `bpy` |
| MCP tool facades | `mcp_server/.../tools/` | none | one request each |
| assets | `mcp_server/.../assets/`, `tools/asset_source_ops.py` | a file cache | search, look up, download, import |
| Go CLI: API client | `tools/mcp-blender-pp-cli/internal/client/`, `wsbridge/` | the response cache on disk | one request per run, over the bridge or HTTP: preview, gate, cache, retry, evict |
| Go CLI: commands | `.../internal/cli/`, `blenderassets/` | none | some seventy generated endpoint commands, four scripts of several calls, doctor; exit codes and envelopes |
| Go CLI: learning loop | `.../internal/learn/`, `store/` | the journal and its cursor, candidates, playbooks | journal an invocation; derive corrected flags; teach, confirm, reject, purge, amend |
| Go CLI: rate limits, platform session | `.../internal/cliutil/`, `platform/` | reservations, a lock file | delay a request |
| Go CLI: MCP server | `.../internal/mcp/` | none | the same commands as MCP tools |

How they interact. A tool call of an MCP client becomes `send_request` on the
MCP server's loop, a message on the WebSocket, a task on the add-on's asyncio
thread, a `QueuedRequest` with a `concurrent.futures.Future`, and at last a call
of `tool.execute` from the drain timer on the main thread; the answer goes back
through the future, the task, the socket and a second future. Both ends have
their own timeout. Three methods never reach the queue: `bridge_status` and
`set_client_status` act at once on the server thread, and `submit_job` makes a
record there that the pump timer serves on the main thread, one chunk at a time.
Tools run on the main thread, and some run other code: `execute_batch`,
`execute_blender_python` and `manage_addons` may call the job tools and even
disable the add-on under their own feet. Disabling bumps the generation, resets
the scheduler, stops the server and takes the timers away; enabling bumps the
generation again.

Two parts go to the network on their own. `import_online_asset` looks an asset up
in a cache under the user's home, downloads it there and has Blender import the
path; several calls, of several MCP servers, share that directory without a lock.
The panel's AI operators start a worker thread that has a provider make a model,
which is paid for and takes minutes; the modal operator polls the worker's dict
and imports what it brings.

The Go client dials that same WebSocket once per call; its runs are processes of
their own. They meet in Blender, in the response cache, in the journal and its
cursor, and in the SQLite store, and hold no lock across two accesses. When a
command ends, `Execute` appends it to the journal and reads the journal's tail
for flags that were misspelt and then corrected; `teach` reads the journal for
the steps that led to an answer. Both leave candidates that a user confirms or
rejects, and that a second `teach` promotes.

What is hard:

* two threads and a second process share futures, queue, table and generation;
* every wait has a timeout that can expire just before, or just after, its answer;
* connections break with requests and answers under way, and come back;
* a reload of the add-on cuts through all of it, and may come from inside;
* cancellation is cooperative, so state is held while others change it;
* tables and histories are bounded, and the bound must not hit live work;
* a client that hears nothing cannot tell a lost request from a lost answer;
* a generation that outlives its deadline, its modal or its Blender is still billed;
* a file is in its place, and found, while it is still being written; an archive is
  unpacked again over what may be read at that moment;
* processes of the command-line client act on rows, cursors and cached responses
  they read some time ago, and may be killed between any two of their steps.

`PROJECT.json` lists these at their lines under `hazards`.

What makes each part correct:

* jobs: a RUNNING record has a generator and a generator has a job of this load;
  first come, first served, never twice; an outcome is final; a cancelled job
  does not go on; a reload fails everything; every job ends;
* dispatch: no waiter is lost; one answer each, and a true one; refused, stale
  and abandoned requests never run; the queue drains; the client is answered
  even if the main thread hangs;
* client: no caller is stranded when the connection goes; exactly one task owns
  the connection; it is restored; nothing is left in `_pending`; the status line
  is cleared;
* AI generation: a billed task is not lost sight of, nor paid for twice; what is
  imported is what was asked for; Esc stops the worker; every modal ends;
* assets: what is imported is the whole asset; what was downloaded is found again;
* command-line client: nothing is sent, or sent again, that must not be; exit
  codes, envelopes and reports say what became of the request; a cached response
  hides no mutation that was reported before it was asked for;
* learning: no corrected flag escapes and none is counted twice; a candidate is
  materialised once; a rejected one stays rejected.

## Modules

| module | what it models |
|---|---|
| `JobManager` | the job table: one operator per method, from table to table |
| `JobScheduler` | the state machine of scheduler, job tools and lifecycle over that table |
| `JobService` | abstract: jobs wait, work, end, are forgotten; one at a time, oldest first |
| `JobSchedulerProofs` | proofs: type correctness, the safety invariants and the action properties of `JobScheduler`, that it implements `JobService`, and what follows for its clients |
| `Dispatch` | server tasks, queue, drain loop, generation and lifecycle |
| `RequestService` | abstract: a request is accepted, runs once in its turn or is dropped, and what is told is so |
| `DispatchProofs` | proofs: type correctness, invariants and action properties of `Dispatch`, that it implements `RequestService`, and what follows for its clients |
| `BlenderBridge` | the MCP server's end of the connection |
| `ClientStatus` | a tracked workflow, other tool calls and Blender's handling of them, over `BlenderBridge` |
| `BridgeProofs` | proofs: the safety invariants of `BlenderBridge`, that `ClientStatus` implements it, and when a status may be left behind |
| `Generation` | the panel's two AI operators, their workers and the providers' tasks |
| `GenerationProofs` | proofs: its four safety properties, and what Esc and any other end of a modal is good for |
| `AssetCache` | `import_online_asset` over the cache directories and the providers' downloads |
| `AssetCacheProofs` | proofs: its three properties |
| `GeneratedCommands` | the commands of the Go client as records: verb, path, input rule, script |
| `ApiClient` | one request of each run, the response cache they share, and the other end |
| `BridgeScripts` | the commands that make several calls: import, scene regen, evaluation, search |
| `CliInvocation` | runs from the arguments to the exit code, over the two modules above |
| `CliProofs` | proofs: every property of `CliInvocation` that the run `cli` checks |
| `QueryFamilies`, `Journal`, `Candidates` | the journal with its cursor and readers; the tables, one operator per SQL transaction |
| `Learning` | invocations as processes over journal, cursor and store |
| `LearningProofs`, `LearningPassProofs` | proofs: every property of `Learning` that the run `learn` checks |
| `MCJobs`, `MCDispatch`, `MCBridge`, `MCStatus`, `MCGeneration`, `MCAssetCache`, `MCCli`, `MCLearn` | the instances TLC checks |

A definition whose comment begins with "Fault:" is no part of a model. It is a
defective variant of the definition below it; putting it in place of that
definition must break the property named for it in `PROJECT.json` ("mutants").

### Jobs

A job is its rank in submission order: `start_time` is stamped on the one thread
that makes records, so "older" is `<`. A record keeps status, flag, generation,
whether it has an error text, and its progress as none, some or full. `active`
stands for `_active_job_id`, `_active_gen` and the status card, which the code
sets and clears together; `chunk` is the job whose generator is on the stack,
which is not the same thing once `reset()` ran inside a chunk.

* `SubmitRead`, `SubmitCreate`: `submit_job` reads the generation and makes the
  record in two steps of the server thread; between them anything may happen.
* `PumpIdle`, `PumpStale`, `PumpStart`, `PumpResume`, `PumpDrop`: the branches
  of `pump_jobs` up to `next()`. Two branches cannot be reached: a method
  unknown to the registry was refused by `submit_job`, and `mark_running`
  returns None only if somebody cancelled between two statements of the thread
  on which every cancel runs.
* `ChunkYield`, `ChunkReturn`, `ChunkRaise`: how `next()` ends, each with all
  the bookkeeping behind it. `Report` is `JobCtx.report`.
* `CancelTool`, `DeleteTool`, `PruneTool`: from the drain timer, the panel or
  the chunk itself.
* `Unregister`, `StopServer`, `Register`: unregister in two steps, because the
  server still accepts submissions until it is stopped. Neither order nor
  content of `reset()` is idealised: it fails the records `list_jobs` returns.

### Dispatch

Requests are numbered in the order they arrive. `future` is the state of the
`concurrent.futures.Future`, `waiting` the set of tasks that await one. A
message is reduced to its client and whether its method is known. Messages of
one connection become tasks in the order they arrive.

* `Receive` is `_process_request` up to its await, `Deliver` and `TimeOut` what
  comes after it, `Disconnect` the `finally` of `_handle_client`. `TimeOut` may
  come although the result is set: the main thread sets it, the loop sees it
  later. A result that is not JSON raises inside the `try` around the send, so
  nothing is sent.
* `Take`, `DrainEnd`, `Refuse`, `Begin`, `Finish`, `Clear`: the loop of `drain_queue`
  and the branches of `_handle_item` in their order. `Finish` sets the result and
  `Clear`, the `finally`, takes the busy record away: in between the client is answered
  and `bridge_status` still names its request. Whether a request is older than
  900 s is left to chance, because clock and timeouts of the two threads are not
  tied: they share one interpreter lock.
* `Unregister` may come from a tool; the drain loop above it goes on afterwards,
  as it does in the code. A connection may outlive `stop_server`, which waits
  for two seconds.

### BlenderBridge and ClientStatus

One asyncio loop: a step is what happens between two awaits. `dialer` says who
is to connect: the first dial of `run()`, a backoff loop that sleeps, or one
that dials. `sentOn` remembers the connection a call was made on. Blender is
what a client can see of it: it listens or not, answers late or never, and the
connection breaks and loses what was under way. `DialOk` does not look at
`closing`, as the code does not. `state` skips the instant in which
`_on_disconnected` has set DISCONNECTED and the backoff task has not yet set
RECONNECTING: nothing distinguishes the two. A send on a connection that is
closed raises (`SendRaises`); on an open one it may wait for ever. `TimeOut` may win
over an answer that the future got in the same pass of the loop, as `wait_for` lets
it since Python 3.12.

`ClientStatus` adds one `async with track(...)` block. A push is a call; it may
time out, fail or be cancelled, and the block goes on, except that a first push
that is cancelled leaves the block before its `try`. Blender handles status
messages in the order they arrive.

### Generation

A run is one click on Generate or on Refresh: a modal and a worker, each with its
own place. A run that refreshes has the `origin` of the run that asked for the
model, and so has a task: "billed twice" is two tasks of one origin at one stage.
`shown` is `job["task_id"]`, which a refresh never sets; `pending` is
`_pending_resume`, with the run whose settings the import will take.

* `Generate`, `RefuseInput`, `RefreshMeshy`: the two `execute` methods; one that is
  refused has already dropped `_pending_resume`.
* `LookUp`, `Submit`, `HearTask`, `CheckCancel`, `StillRunning`, `Succeeded`,
  `LookupFails`, `Expire`, `OpenFile`, `CloseFile`: the worker, one network or file
  operation per step. The POST and `on_task` are two steps: Esc may come between.
  `CloseFile` ends the copying loop of `_download_url`, also if the body ended before
  its Content-Length: `read(n)` then returns nothing more and raises nothing, so that
  the file is "cut" and goes on as the model. A file is also "partial" while it is
  written or after a download that raised, and "mixed" if two workers write it.
  The deadline may pass at any poll but the first.
* `GenerateTimedOut` ... `RefreshSucceeded`: the tick that finds the job done. Two
  of them read `_pending_resume` again and raise if it was dropped
  (`viewport_panel.py:2624`, 2634). That Blender ends a modal operator whose `modal()`
  raised is an assumption about Blender, which no line of this repository backs;
  `EveryModalEnds` rests on it.
* `Esc`, `LoadFile`, `Quit`: what ends a modal from outside. A worker ends only by
  its event, its deadline or with Blender.
* `TaskEnds`, `Delete`: the provider; a DELETE may never arrive.

All runs of one mode write one `model.glb`. `Modes` are Meshy's text and image jobs
and Tripo's image job. `forsaken` and `met` are history: requests that were given
up or failed, and whether two runs were ever under way at a time.

### AssetCache

A call goes from the lookup over the request and the download, one file after the
other, and the unpacking of an archive to the import. A file is absent, partial or
whole, and belongs to the call that opened it last. There are seven assets, because
the code treats assets by their layout on disk: an archive (Sketchfab, ambientCG), a
set of maps in `textures/`, a Poly Haven model with its `.bin` and maps, and four
generated ones that share a directory. `cache_dir` names the directory by the id with
every other character replaced by `_` and without the budget, while the file carries
the id as it is: `plain` is a generation, `reduced` the same with a polygon budget,
`twin` one whose id differs in a replaced character, and `nested` one whose id has a
slash, so that its file is put below the directory and no lookup lists it. `DirOf` is
that conversion, and `Names` the order in which the lookup sorts the files.

* `Hit`, `Miss`: `find_cached_file`. `Request`: the listing, or the generation that
  is waited for. `Open`, `Close`: a file. `BreaksOff`: the provider fails, the call
  is cancelled or the server is killed after something was written; `Fails`: before
  that, or the archive is cut, or Blender refuses the import.
* `ExtractArchive`, `ArchiveExtracted`: every import of an archive, cached or not,
  unpacks it into one place. The first truncates what is there; what a call leaves
  is whole unless another one has begun since. `Import`: Blender reads.

`fetched`, `disturbed`, `crossed` and `imported` are history. `disturbed` marks a
directory with a download that broke off, or that another call looked up meanwhile;
`crossed` a call with another one unpacking the archive while it did so itself or had
Blender still to read it. One server's loop does not switch inside `_extract_archive`,
but it does while Blender reads, and other servers unpack at any time.

### The Go client

A run is a process: `pc` is where it is, `cmd` the class of its command, `opt`
its options. `GeneratedCommands` names every command and its generator template;
`Class` keeps what a run depends on, so that TLC does not explore the paths.

* `HitCache`, `ShortCircuit`, `PrintRequest`, `NoEquivalent`, `Unreachable`: the
  ways `doInternal` returns before it sends. Most commands cannot reach all of
  them: a command whose path has no Blender method always fails over the bridge.
* `CallBridgeMethod`, `SendHttp`, `Succeed`, `Refused`, `NetworkError`: the
  request, and the retry loop over HTTP. Whether a wait fits the retry budget is
  left to chance. `StoreResponse` is a step of its own: other processes may evict
  the cache between a response and its write.
* `Serve`, `ServeOrphan`, `Stop`, `Start`: the other end carries a request out or
  refuses it, may answer falsely with an error or a 5xx after it carried it out, may
  do so after the client has gone, and restarts. `Age` is five minutes.
* `BridgeScripts` runs a plan, one call per step; each call succeeds, is refused
  with `success: false`, or fails with or without being carried out. `wants` is
  what was asked for and what the script finds on its way.
* `ExitCode`, `EnvelopeSuccess`, `SaysReachable`: what the process tells, given the
  flags, the fate of its output and the text of the error (`Finishes`). Most of
  Blender's tools refuse with a result that says `success: false`; only scripts look
  at it, a single request takes it for done ("declined"). The class of an error is
  searched for in its text, which holds the body of the answer: a body that mentions
  another status changes the exit code (`Mentions`).

The response cache is one entry, that of `GET /`, the only request that is a
GET. Versions stand for responses: a mutation carried out over HTTP is one
version more. `seen`, `sentEpoch`, `reported` and `epoch` exist only for the
properties. The rate limiter delays and is left out.

### Learning

Dated segments are one sequence of lines in the order of writing, each with its
segment's day; `gone` are deleted lines, `offset` is the cursor. Readers go by segment
(`Before`). One flag correction stands for all, since the code treats pairs
of different flags independently; a `fail` line is the misspelt call, a `good`
line the corrected one. A line is junk if no reader can parse it.

* `Repair`, `WriteEntry`, `CutEntryShort`: `AppendJournalEntry`. The segment is chosen
  with the repair and kept for the write, and midnight may come between: the line is
  then written into yesterday's segment, which is created again if it was deleted. It
  is `late` if a later segment is there already. A line torn
  between another process's repair and its write swallows the entry that is
  written next; so it does in the code (`journal.go:236-243`).
* `LoadOffset`, `ReadTail`, `Observe`, `StoreOffset`: one derivation pass. A
  failure that may still be corrected holds the whole batch, as in the code.
* `ListPromotable`, `LookForPlaybook`, `GetCandidate`, `Confirm`, `ConfirmNote`,
  `Reject`, `Expire`, `Purge`, `Gate`, `ReadEpisode`, `Synthesize`, `Refresh`,
  `WritePlaybook`: the commands, one SQL statement or transaction per step.
* `Die`: a process is killed, or its statement fails on a busy database.
* `Tick`: midnight (a new segment) at any time, but only once in the life of a write;
  a quarter of an hour (the correction window) or a month (retention and expiry)
  between commands.

Merged into one step are accesses between which nothing that matters can happen:
the upsert of a candidate and the read of its row (one connection, immediately
after), the repair's read of the last byte and its newline, `confirm`'s read of
its row and of the session's last recall, and the read with which `reject`
words its message. `observed`, `late`, `given`, `blessed`
and `replayed` are history.

## Runs

| run | instance | shows |
|---|---|---|
| `jobs` | 3 jobs, 1 yield, history of 1, 1 reload | the safety properties of the scheduler, that it implements `JobService`, that every job ends and a cancelled one gives up the main thread |
| `jobs_reset_limit` | as `jobs`, but `list_jobs` returns 2 of 3 | violated: `reset()` misses what the limit hides |
| `jobs_reload_in_chunk` | 1 job | violated: a failed record is completed by the chunk that reloaded the add-on |
| `dispatch` | 2 clients, 2 requests, 1 reload | the safety properties of the dispatch, that it implements `RequestService`, that clients are answered and the queue drains |
| `dispatch_disabled` | 1 client, 2 requests, 1 reload | violated: a tool is begun while the add-on is down |
| `bridge_send` | 1 call, 1 connection | violated: a send on an open connection is outside the timeout |
| `bridge` | 2 calls, 3 connections | no caller stranded or told what is not so, one owner, reconnection; a status is not shown again after it was cleared, and orderly exits clear it |
| `status_stale` | 2 calls, 2 connections | violated: a lost connection leaves the status behind |
| `generation` | 2 operator runs, 2 provider tasks, 3 modes | no task lost, none billed twice, the right model imported, workers and modals end |
| `assets` | 3 calls, 7 assets in 4 directories | what is imported from network and cache, and that nothing is downloaded twice |
| `cli` | 2 overlapping runs, 1 retry, 2 objects, one run with options or a script | what may be sent, what exit codes, envelopes, reports and the cache tell |
| `learn` | 3 commands, 2 at a time, 1 crash, 1 passage of time, 2 families, 3 histories | derivation counts, blessing, tombstones |

Bounds. Three jobs are the least for "one runs, one waits, one is trimmed", and
for an order between waiting jobs while a third is active. One yield
separates a first chunk from a later one. `MaxReloads` counts
disables; a bump at each disable and each enable makes two generations per
reload, enough for a record or request to be stale twice over. Two requests are
enough for one to be queued behind another, which is all the queue does; two
clients, for one to leave while the other stays. Two calls and three connections
allow a call of an old connection to meet the next two. A break needs a
connection to be left to come back on (`link < MaxLinks`), so that the bound
itself never ends a behaviour that `Reconnects` is about. `CHECK_DEADLOCK FALSE`
stands only where a system does stop: in the configurations of the client's
connection, after `close()` and the last call, and where the bounded number of
commands or calls is used up (`learn`, `assets`).

For the generation, a run and a refresh of it are what a pending task, a second
deadline and a second refine take, and two generate runs what an image cache or an
overlap takes; two tasks are a preview and its refine, or the same stage billed
twice (242,730 states). For the assets, three calls let a download break off, a
second call fill the gap and a third find it, or two race beside a third, or one
unpack while a second unpacks and a third reads (1,070,504 states).

For the Go client, two runs are what a stale cache entry or a race with a
mutation takes; one retry is enough to repeat a request and to run out of
retries; two objects make one placement succeed and one fail. Only one of the
runs (`Varied`) is a script or has options, because two scripts share nothing;
1,965,924 states. In `learn` every hazard listed takes two processes at a time; a third
command lets a pass follow two others, or a purge prepare a row's id for
reuse. `Callers` are the sessions that run commands; another session is in the
journal from before. The histories `Fresh`, `Explored` and `Midway` start the
instance near what is worth exploring; all satisfy `Leavable`, what every
history of earlier commands satisfies as far as the model goes. `JournalCap`
is a little below what the commands write, so that segments are deleted. Slots are
interchangeable and the module's properties name none, so they are symmetric;
2,453,711 states.

Time is coarse in both: `Age` waits until every reply that is there was read, and
`Tick` until no command runs, except for midnight. A run that takes more than five
minutes to read a reply, more than fifteen for its end, or more than a day between
the choice of a segment and the write, is outside the model.

Fairness. Blender calls a registered timer again and again: weak fairness of the
pump and of the drain loop. Tool code ends (`ChunkEnd`, `Finish`; `Clear` is
code of the dispatch), which is an assumption on tools; `EveryRequestAnswered`
is checked without it. The asyncio loops run: an answer that is there or a
timeout that expired is acted on (`Resume`, `Expire`), and a send on a
connection that is gone raises (`SendRaises`). A dial succeeds if it is tried
for ever on a server that listens (strong fairness of `DialOk`). No fairness is
assumed of users and clients, and none of Blender's answers. A send on an open
connection need not end, because its peer need not read; that is what
`bridge_send` shows. Only the two properties about clearing the status assume,
as a hypothesis that they state, that what is sent arrives and is handled. In
`Generation` threads run, requests time out and modal timers fire; the clock
reaches a deadline if it is waited for for ever, but not for a worker that was
told to stop, so that `EscStopsTheWorker` cannot be met by waiting. Providers
owe nothing: a task may run for ever.

What the violated runs show is described under `findings` in `PROJECT.json`,
with the lines of the code and of the comment each contradicts. One more remark:
`TODO.md:100` says that dispatch never discards a request whose client already
timed out. The code does (`dispatch.py:161-174`), and `DeadWorkNeverRuns` holds.

### Where generation and assets differ from their comments

These, like those of the Go client below, were met while modelling. The models do
what the code does, and the properties are stated as strong as the code allows.

* `super_import_ops.py:717-723` says that Esc no longer leaves a billed task running.
  Esc between the POST and `on_task` knows no task to delete; Esc between preview
  and refine deletes the preview that has ended, and the worker, which looks at the event
  only in the poll loop, submits the refine before it stops.
* `viewport_panel.py:2539-2543` promises a refresh without another bill. A refresh that
  was escaped after it submitted its refine leaves `_pending_resume` at the preview:
  the next one submits a second refine. `BilledOnce` excepts this.
* `viewport_panel.py:2292-2296` keeps the task for the refresh button. One failed lookup
  drops it (2627); a click on Generate whose input is refused drops it too (2404). An
  image task that ran into its deadline is polled at the text endpoint, which does
  not know it (`super_import_ops.py:869`), and so is dropped as well.
* `super_import_ops.py:1009` reuses a picture's model. A download that broke off leaves
  a `model.glb` that is reused for ever (1036).
* `super_import_ops.py:660-664` copies until a read returns nothing, and compares no
  length. A body that ends early under a Content-Length does not raise, and what there
  is of the model is imported. `ImportedAsAsked` promises a download that did not
  raise, not a whole model.
* `cache.py:1-3` says that importing an id again is a disk hit. The file of an id with a
  slash, such as the `meshy_prompt_sci-fi/...` of a search, is written below the
  directory that is listed (`meshy.py:189`, 274, `tripo.py:138`, `trellis.py:101`;
  `cache.py:28`), so it is paid for at every call. Ids that differ in replaced
  characters only share a directory (`cache.py:10`), and the second one is a disk hit
  of the first.
* `asset_source_ops.py:92-97` unpacks an archive in place at every import. Two calls
  that only hit the cache truncate each other's files while Blender reads them;
  `ImportedIsTheAsset` excepts calls that were `crossed` in this way, and TLC finds it
  violated without that exception.
* `cache.py:19-23` keeps map sets apart from files. Poly Haven's models put their maps in
  the same `textures/`: imported a second time, a model becomes a PBR material, or
  its `.bin` is handed to the importer if no map was fetched (`FoundAsSomethingElse`).
* `meshy.py:212-213` and `tripo.py:61-62` make the polygon budget part of the cache key.
  The file goes to the directory of the plain id (`asset_source_ops.py:227`), the lookup
  to that of the suffixed one: the same generation is paid for at every call, and a
  call without a budget imports the reduced model. `FetchedOnce` and
  `ImportedIsTheAsset` except exactly this.

### Where the Go client differs from its comments

* `derive.go:89` says that every observation is counted exactly once. Two
  processes that load the cursor before either stores it, or one that is killed
  between its records and its cursor, count it twice: `CountedOnceUnlessReplayed`
  names exactly these exceptions.
* `derive.go:68-69` also says that a pass never skips unprocessed entries. A process
  that chose its segment (`journal.go:235`) just before midnight may write (243) after
  another one has derived in the new segment: the line is behind the cursor
  (`journal.go:373`) and is never read. `NoObservationIsLost` excepts lines that were
  written `late`, and shows that nothing else is lost.
* `journal.go:321-322` says that the newest segment is the only one appenders touch.
  The same process touches the one before, which cleanup may have deleted.
* `learnings_candidates.go:191` says that the user sees exactly what is blessed.
  `confirm` compares no more than the id, and SQLite gives the id of a purged
  last row again: `BlessedExactlyOnce` excepts candidates whose id was reused.
* `synthesize.go:204` says that a longer choreography never supersedes a tighter
  one. Two teaches that compare before either writes can do it.
* `playbooks.go:102-106` keeps notes that are not given; given ones replace the
  stored text, with every correction confirmed into it.
* `doctor.go:203` says that its verdict matches what commands experience. It reads
  through the response cache: `StaleVerdictIsBounded` says how long it may lag.
* With `--dry-run` doctor sends nothing and calls the server reachable, however long it is
  gone (`client.go:870`, `doctor.go:213-220`): `StaleVerdictIsBounded` excepts it.
* `README.md:421` and `SKILL.md:451` give exit code 7 to rate limits. The text of a
  `RateLimitedError` (`ratelimit.go:246-255`) holds no "HTTP 429", which is what
  `helpers.go:402` looks for: a 429 exits with 5, and 7 is seen only if the body of
  another error mentions a 429. A body that mentions 404, 401, 403 or 409 changes the
  code likewise, and with `--idempotent` a mentioned 409 exits with 0.
* `README.md:421` says that 0 is success. A tool that refuses with `success: false`
  exits with 0, and the envelope says `success: true` (`wsbridge.go:95`,
  `mesh_create.go:101-181`). `ExitCodesTellTheTruth` excepts declined results.
* `README.md:415` of the client says that `--dry-run` sends nothing. The scripts
  use `CallBridge`, which knows neither that flag nor the verify gate.
* The generated commands that only read are sent as mutations, so that the gate
  holds them back, and a mutation over the bridge never evicts a cached response.
* `import-online-asset` does not look at `success: false` when it places objects,
  and reports "already at or under target" if no object could be measured;
  `scene regen` does not report a rename that failed. `ReportIsTrue` is stated
  with these exceptions.

## Proofs

Every theorem holds for every value of the constants: any number of jobs,
chunks, clients, requests, calls, connections and reloads. The assumptions are
those the modules declare on their constants (`JobManagerAssumption`,
`JobSchedulerAssumption`, `DispatchAssumption`, ...), which TLC evaluates in
every run, and one more where it is named below.

### Jobs

* `TypeCorrect` and `SchedulerInvariant` (`JobSchedulerProofs`): the inductive
  invariant `IInv` joins `TypeOK`, `GeneratorIsCurrent` and `Bookkeeping`.
  `GeneratorIsCurrent` is not inductive alone: that a chunk's end finds its own
  record, and not one that another job has taken over, needs "the generator on
  the stack is the scheduler's own or none", and that a dropped generator was
  cancelled needs "a job that can still run is not flagged".
* `GeneratorIsCurrentHolds` and `BookkeepingHolds` follow from it.
* `RunningIsActiveHolds`, and with it `SchedulerMatchesTableHolds`, the conjunction of
  the three that the run `jobs` checks, assumes `ListIsLongEnough`, that is `ListLimit >=
  MaxJobs`: `reset()` sees every record. The run `jobs_reset_limit` shows what
  happens without. The lemma it rests on (`ListedIsStored`) counts with
  `FiniteSetTheorems`.
* `ChunksAreLicensedHolds`, `StartsInOrderHolds`, `OutcomesAreFinalHolds` and
  `ResetFailsAllHolds`: one lemma about a step each, from
  `IInv`; `ResetFailsAllHolds` assumes `ListIsLongEnough` as well. `StartsInOrder`
  is in no configuration: `ImplementsJobService` says it too.
* `JobServiceImplemented` assumes it too. That the service starts a job only
  while none is working is `RunningIsActive`; submissions, with the
  pruning that comes with them, are `CreateJobForgets`; every other step only
  takes stored records to a terminal status (`EndOfSome`), forgets finished ones
  (`ExpiryOfSome`) or stutters.

* `OldestRunsAlone` says it in the service's terms: while a job runs every earlier one
  has ended. It is proved of `JobService` (`ServiceKeeps`), where it takes four
  actions, and holds of the scheduler through the refinement.
* `EndedIsForEver` and `EndedNeverRunsAgain` are about one job and for ever, and assume
  nothing about the list: `SubmitWrites` says that a submission takes a new record and
  not one that is forgotten, and `LetGoStep` that the pump resumes only what is stored
  and not flagged, which by `GeneratorIsCurrent` is running.
* `OnlyReloadersCompleteWithError` bounds the finding of `jobs_reload_in_chunk`: a job
  that can still run carries no error text (`Unspoilt`), so that only a completion by
  the chunk on the stack, after `reset()` took its record away, leaves both.
* `HistoryIsBoundedHolds`: `_prune_locked` keeps the newest `MaxTerminal` finished
  records. It keeps those that have fewer than `MaxTerminal` newer ones; that these
  are no more than `MaxTerminal` is `FewAreNewest`: the number of newer ones is different
  for each (`FewerAreNewer`), and the library's `FS_Injection` counts.
  `HistoryIsBounded` is in no configuration; TLC finds no violation among four jobs
  and a history of one.

The lemmas `TableTypes`, `ForgetEffect`, `CreateJobEffect`, `CreateJobForgets`
and `CleanupType` say what the operators of `JobManager` do to a table; the step
lemmas take `Next` apart, one step per action.

### Dispatch

* `DispatchInvariant` (`DispatchProofs`): `IInv` joins the types with
  `NoWaiterIsLost`, `RefusedNeverRuns`, `AnswersAreTrue`, `StatusIsTruthful` and two conjuncts that make them
  inductive. The last of the four has a case for each of the two steps in which a tool's
  run ends: while the tool runs the busy record names the item in hand, and in the
  `finally` a request that is begun and no longer open. `InOrder`: the queue is in arrival order, nothing begun is queued,
  and the item in hand arrived before everything queued; without it a refused
  or begun request could be in the queue a second time. `Accounted`: nothing is
  known of a request that was not made, an answered request is not waited for,
  and no request is of a later generation than the present one. `TypeOK` is not
  inductive either: it needs that the drain loop holds an item when it says so.
* `NoWaiterIsLostHolds`, `RefusedNeverRunsHolds`, `AnswersAreTrueHolds` and
  `StatusIsTruthfulHolds` follow; `ClientsAreToldTheTruth` is the conjunction of the
  last two. `AnsweredOnceHolds` takes a step lemma; `ImplementsRequestService` says
  it too.
* `StaleWorkNeverRunsHolds` and `AbandonedNeverRunsHolds` say that something,
  once so, is so for ever. Each rests on a predicate that every step keeps
  (`Outdated`, `Abandoned`). With `RefusedNeverRuns` they are `DeadWorkNeverRuns`.
* `RequestServiceImplemented`: `Receive` is the service's Accept, `Begin` its
  Start, `Finish` its Finish (`Clear` stutters), `Refuse` and the `Take` of a cancelled request
  its Drop, and every way to answer its Tell; all else stutters. That only the
  oldest request starts is `InOrder`.
* `ServiceIsAsPromised`: what `RequestService` promises is proved of its four actions
  (`ServiceKeeps`) and inherited: requests are worked off in order, and what a client
  is told is so. `RunsAtMostOnce` is the same for one request and for ever.

### The client's connection

* `BridgeInvariant` (`BridgeProofs`): the three safety invariants of the
  connection and `EntriesAreOpen`: an entry of `_pending` has a future that was
  not answered, and a call that was not made has none.
* `WaiterIsReachableHolds`, `OneOwnerHolds`, `PendingIsLiveHolds` follow;
  `PendingMatchesCallers` is the first and the last together.
* `OutcomeIsTrueHolds`: a second invariant over the first. `CallsInTurn` says that
  calls and connections are numbered in time and that what is on the wire or
  answered was sent; `OpenIsRead`, that a connection which is open is read. So a
  call that was told "lost" is of a connection that no reader will ever be on again,
  and a reply that is there is of the present one. `CallersAreServed`, which the run
  checks, is this with `OneOwner` and `PendingMatchesCallers`.
* `StatusImplementsBridge`: every step of the tracked workflow is a step of the
  connection or leaves it alone, so all of them hold there too.
* `StatusInvariant` and `ShownOnlyUntilClearedHolds`: the pushes of a block are made one
  after the other has ended, the clearing one last (`PushesInTurn`), though "ended" may
  be a timeout with the message still on the wire. What rules out that an old
  status is shown over the empty one is that Blender handles status messages in
  order: once it has handled the empty one, or that one's connection stands and it
  is not on the wire, nothing shows a status or will (`ClearsForGood`, `Quiet`). This is the
  safety half of `OrderlyExitClears`.

`TypeCorrect` follows from the same invariant.

### The Go client

* `CliInvariant` (`CliProofs`): `Typed`, `Sound`, `Recent` and `Current`. `Sound`
  is about one run: `Placed` ties its place to the number of requests sent,
  `Allowed` says that what was sent was licensed, and that what the other end has
  carried out or may still carry out is no more than what was sent, and `Told`
  that an answer which tells what became of a mutation tells the truth. The last
  needs `Allowed`: a mutation without a key was sent once, so that an answer is
  about the only request there is. A declined result is no such answer. `Recent` and `Current` are about the cache: no
  reply and nothing fresh outlives an absence, and a reply to a request of the
  present epoch tells of everything reported.
* Every step is sorted first by what it does to the request (`StepKinds`), so
  that the five ways to end without one, and the four of scripts, are one case.
* `SendsAreLicensedHolds`, `ExitCodesTellTheTruthHolds`, `FreshUnlessRacedHolds`
  follow. The exit code needs `ProbesRead`: of all the commands only doctor
  exits with 0 whatever happens, and it reads. 3, 4 and 7 are read off a status, and so
  are true, unless the body of the answer mentions another one; 1 and 5 promise nothing.
* `ReportIsTrueHolds`: every call an import has behind it is
  `Settled`. That a measurement cannot make a simplification due which was passed
  over already is `ImportOrder`, from the layout of the plan for any number of
  objects (`ImportLayout`).

### Learning

* `TypeCorrect` and `TombstonesStand` (`LearningProofs`): the types carry, for
  every row, that its id was given to it and its signature is its family or the
  correction, and that the ids are a finite set, so that `FreshId` exists. A
  tombstone is untouched by every step but a purge with the flag.
* `BlessedOnce`: the invariant `Blessing` says of the rows that a candidate is
  materialised as often as its status tells (`RowsBlessed`), of the candidates
  and rows that they name each other (`Linked`), and of the commands in flight
  that what they read is still true of that candidate as long as the row is its own
  (`Flight`). The last is what makes a confirmation right that was read long ago.
* `CountedOnce` (`LearningPassProofs`): `Counted` says that either two passes
  have met or one was killed, or at most one pass is at work, nothing
  beyond the cursor was counted, and what the pass has counted left its batch.
* `NothingIsLost`: `Covered` says that a failure which can still be
  corrected, or was and is not recorded, lies beyond the stored cursor (`Due`),
  and for each pass beyond its own or in the batch it still has to record
  (`PassDue`), so that a pass may store its cursor whatever the others did.
  `Aged` is the clock: no line is later than now. A line that is not `late` is in the
  newest segment when it is written, so that no stored cursor lies behind it.

The assumptions are those declared: `HistoriesAssumption` (what earlier commands
left), `BoundsAssumption`, `CallersAssumption`, `AliasAssumption`,
`NoFamilyAssumption`, `JournalCapAssumption`, and for the client
`MaxRetriesAssumption`, `NumObjectsAssumption`, `VariedAssumption`; for the generation
`GenerationAssumption`.

### The asset cache

* `InvariantHolds` (`AssetCacheProofs`): `IInv` says of every directory that only
  files of its assets are there and that nothing goes away (`Laid`,
  `OpenedIsThere`, `FetchedIsThere`, `HandedIsThere`), and of one that nothing
  disturbed that its calls do not meet (`Alone`), that the files of a download are
  whole up to the one it writes (`InTurn`), that otherwise an asset is there with
  all its files or with none (`AllOrNothing`), and that a call which is handed to
  Blender holds the asset or what it may have been found as (`InHand`). A lookup is
  right because of `AllOrNothing`, and that needs `Alone`: two downloads of an asset
  truncate each other's files.
  `Uncrossed` is about archives: a call that no other one crossed is alone in unpacking,
  and what it has unpacked stays whole until Blender has read it, because every later
  `ExtractArchive` would have marked it.
* `ImportedIsTheAssetHolds` follows with `HandedIsRead`, and `FetchedOnceHolds` with
  `FindCachedFileFinds`: a lookup fails only if nothing that it lists is there.

### Generation

* `InvHolds` (`GenerationProofs`): `IInv` is in two parts. `Linked` holds always: a
  run by itself (`RunIsSound`), and the links between runs, tasks, deletes, imports
  and what is pending (`RunHasTasks`, `TaskHasRun`, `DeletedIsEscaped`,
  `ImportedHasRun`, `PendingIsSound`). The central one is `LeftOpen`: a task is
  pending, and a refresh at work on it, only when the request's own run has closed
  with a timeout. So nobody who could still submit a first stage holds no task
  (`FirstStageOnce`), and a task that is kept was never deleted.
  `Single` holds while no two runs met: a refresh that is under way knows what is
  pending (`RefreshKnows`), a running task is watched or kept (`Tracked`), a refine
  is submitted by a run that has it ahead and by no other (`AheadIsFirst`,
  `PendingIsFirst`, `RefinedOnce`), and the file is that of the run at work
  (`FileIsOwn`, `ImportedIsOwn`).
* Every action has an effect, field by field (`StepDoes`); each part of the
  invariant is kept by every effect. Of the workers most parts need only that they
  keep what is the main thread's, and that only `Submit` changes tasks
  (`WorkerDoes`).
* `TasksAreTrackedHolds`, `BilledOnceHolds` and `ImportedAsAskedHolds` follow. The
  run has room for one refresh; the theorems are about any number of them,
  one behind the other.
* `CancelledWindsDownHolds`: after Esc each step of a Meshy worker lowers
  `StepsLeft`, which is at most four, and none raises it or clears the event. The
  order of the places shows that at most one more task is submitted, and is not
  polled: the safety half of `EscStopsTheWorker`, which adds that the worker moves.
  Tripo's workers, which ignore the event, are left out as there.
* `EndedModalStaysHolds`: no step opens a modal again or imports for one that has
  ended. Both take every effect once more, and of the invariant only that a run
  which is started was unused. `CancelledWindsDown` and `EndedModalStays` are in no
  configuration; TLC finds no violation in the instance of `generation`.

### Only model-checked

Every invariant and every action property of the passing runs is proved, and the two
refinements. Liveness under
fairness is out of the prover's reach, as `ENABLED` is: `NoJobHoldsOn` (`EveryJobEnds` and
`CancelledJobLetsGo`), the answers and the progress of the dispatch, and of the
client `Reconnects`, the end of sent calls and the clearing of the status; the end
of workers and modals. Of three of them the safety half is proved:
`ShownOnlyUntilCleared` for the status, `CancelledWindsDown` for the workers, and
`WaiterIsReachable` for the end of a sent call.

## Not modelled

* The tools themselves, panels, drawing, configuration: calls into Blender or the
  file system without shared protocol state. A tool is "it returns, raises, or
  reloads the add-on".
* Of the generation: Tripo's text jobs, which are its image jobs without a cache,
  `super_import`, which is one synchronous tool, and what Blender makes of the model.
* Of the assets: the search, which keeps nothing; the polling of a generation (its
  outcome is); what happens to the imported objects.
* The start of the server thread (port in use), malformed messages and the
  read-only methods.
* The age of a request as a clock value, sizes of messages, wording of results.
* Batches, checkpoints, the HUD and the task history: one synchronous call each;
  what they do is in the Blender scene or on the screen.
* Of the Go client: `import` (a loop of such requests that goes on after a failed
  one), `agent-context`, `profile`, `feedback`, `which`, `api`, output formats, and
  its MCP server, which runs the same commands.
* Its rate limits and platform session: the limiter only delays, and no
  code outside the tests registers a platform source, so that no invocation can
  take the lock file with which `ratelimit.go` races.
* Of the learning loop: `search_learnings` and the ranking of recall, patterns,
  lookups, recipes, preseeds, events and audit logs: rows that are written in one
  statement and read for display or ranking.

## What could come next

A composition of `Dispatch` and `JobScheduler` over their one main thread and
generation, and of `BlenderBridge` over `Dispatch`, where the two timeouts of a
request meet: today each module takes the other side as free to do what it wants,
which is safe for the properties stated but says nothing of both together.
