----------------------------- MODULE Dispatch -----------------------------
(***************************************************************************)
(* Tool requests inside Blender: the WebSocket server's request tasks      *)
(* (src/extension/bridge/server.py), the queue that hands them to the main *)
(* thread and the timer that drains it (src/extension/bridge/dispatch.py), *)
(* and the add-on lifecycle around them (src/extension/__init__.py).       *)
(*                                                                         *)
(* Two threads.  The asyncio thread accepts connections, turns a message   *)
(* into a queued request with a concurrent.futures.Future, waits for that  *)
(* future with a timeout and answers.  The main thread pops the requests,  *)
(* runs the tools and resolves the futures; a tool may disable or enable   *)
(* the add-on that is running it.  They share the queue, the futures and   *)
(* the generation.                                                         *)
(***************************************************************************)
EXTENDS Naturals, Sequences

CONSTANTS
  Clients,      \* WebSocket connections
  MaxRequests,  \* bound: how many tool requests arrive
  MaxReloads    \* bound: how many times the add-on is disabled

ASSUME DispatchAssumption ==
  /\ MaxRequests \in Nat
  /\ MaxReloads \in Nat

Requests == 1..MaxRequests   \* in the order they arrive
None == 0                    \* no request

\* What a future can hold.  "opaque" is a result that json.dumps refuses.
Outcomes == {"success", "failure", "opaque"}   \* the tool was run
Refusals == {"stale", "reloaded", "unknown"}   \* the tool was not run
Results  == Outcomes \cup Refusals

VARIABLES
  generation,  \* _generation
  addon,       \* is the add-on registered (its drain timer and its server)?
  conns,       \* the clients whose connection the server holds open
  info,        \* what each QueuedRequest that was made carries
  queue,       \* _queue
  waiting,     \* the requests whose _process_request task awaits the future
  future,      \* the state of each request's future
  answer,      \* what was sent to the client for each request
  drain,       \* where the main thread is in drain_queue
  item,        \* the request drain_queue has popped
  current,     \* _current_execution, by the request it describes
  begun        \* history: the requests whose tool was begun

main == <<drain, item, current, begun>>
vars == <<generation, addon, conns, info, queue, waiting, future,
          answer, drain, item, current, begun>>

Info == [client : Clients, known : BOOLEAN, generation : Nat]

InQueue == {queue[i] : i \in DOMAIN queue}

Init ==
  /\ generation = 1 /\ addon = "enabled"
  /\ conns = {} /\ info = <<>>
  /\ queue = <<>> /\ waiting = {}
  /\ future = [r \in Requests |-> "pending"]
  /\ answer = [r \in Requests |-> "none"]
  /\ drain = "idle" /\ item = None /\ current = None /\ begun = {}
---------------------------------------------------------------------------
(* The asyncio thread.                                                     *)

Connect ==
  /\ addon # "disabled"
  /\ \E c \in Clients \ conns : conns' = conns \cup {c}
  /\ UNCHANGED <<generation, addon, info, queue, waiting, future, answer, main>>

\* _process_request up to its await: dispatch.enqueue stamps the generation.
\* A connection may outlive stop_server, which joins the thread for 2 s only.
Receive ==
  /\ Len(info) < MaxRequests
  /\ \E c \in conns, known \in BOOLEAN :
       info' = Append(info, [client |-> c, known |-> known, generation |-> generation])
  /\ queue' = Append(queue, Len(info'))
  /\ waiting' = waiting \cup {Len(info')}
  /\ UNCHANGED <<generation, addon, conns, future, answer, main>>

\* A cancelled awaitable cancels the concurrent future, unless that is done.
CancelFutures(R) ==
  future' = [r \in Requests |-> IF r \in R /\ future[r] = "pending" THEN "cancelled"
                                ELSE future[r]]

\* The future's result reaches the task, which sends it.  A result that is not
\* JSON raises inside the try around the send, and nothing is sent.
Deliver(r) ==
  /\ future[r] \in Results
  /\ answer' = [answer EXCEPT ![r] = IF future[r] = "opaque" THEN "none" ELSE future[r]]
  /\ waiting' = waiting \ {r}
  /\ UNCHANGED future

\* Fault: the request is cancelled but the client is not told.
TimeOutSilently(r) ==
  /\ answer' = answer
  /\ waiting' = waiting
  /\ CancelFutures({r})

\* Fault: the client is told that the request will not run.
TimeOutAsRefusal(r) ==
  /\ answer' = [answer EXCEPT ![r] = "stale"]
  /\ waiting' = waiting \ {r}
  /\ CancelFutures({r})

\* wait_for expires, which it may do even after the main thread has set the
\* result but before the loop has seen it.
TimeOut(r) ==
  /\ answer' = [answer EXCEPT ![r] = "timeout"]
  /\ waiting' = waiting \ {r}
  /\ CancelFutures({r})

Answer(r) ==
  /\ r \in waiting
  /\ Deliver(r) \/ TimeOut(r)
  /\ UNCHANGED <<generation, addon, conns, info, queue, main>>

Of(c) == {r \in waiting : info[r].client = c}

\* Fault: the tasks of a connection that is gone are left waiting.
OrphanTasks(c) == UNCHANGED <<waiting, future>>

CancelTasks(c) ==
  /\ waiting' = waiting \ Of(c)
  /\ CancelFutures(Of(c))

\* The client leaves or the stopping server closes the connection: the finally
\* block of _handle_client cancels the connection's tasks.
Disconnect(c) ==
  /\ c \in conns
  /\ conns' = conns \ {c}
  /\ CancelTasks(c)
  /\ UNCHANGED <<generation, addon, info, queue, answer, main>>
---------------------------------------------------------------------------
(* The main thread: drain_queue.  It keeps popping until the queue is      *)
(* empty, even if a tool has meanwhile disabled the add-on.                *)

\* Fault: the popped request's future is not looked at.
NeverSettled(r) == FALSE

Settled(r) == future[r] # "pending"

Take ==
  /\ (drain = "idle" /\ addon = "enabled") \/ drain = "loop"
  /\ queue # <<>>
  /\ queue' = Tail(queue)
  /\ IF Settled(Head(queue))
     THEN drain' = "loop" /\ item' = None
     ELSE drain' = "item" /\ item' = Head(queue)
  /\ UNCHANGED <<generation, addon, conns, info, waiting, future,
                 answer, current, begun>>

DrainEnd ==
  /\ drain = "loop" /\ queue = <<>>
  /\ drain' = "idle"
  /\ UNCHANGED <<generation, addon, conns, info, queue, waiting, future,
                 answer, item, current, begun>>

\* set_result on a future that is not done.  If it is cancelled between the two,
\* InvalidStateError is swallowed and the future stays cancelled.
Resolve(r, x) == future' = [future EXCEPT ![r] = IF @ = "pending" THEN x ELSE @]

\* The tests of _handle_item, in their order.  Whether the request is old is up
\* to the clock, which nothing ties to the asyncio thread's timeouts: the two
\* threads share the interpreter lock.
Verdict(r, old) == IF old THEN "stale"
                   ELSE IF info[r].generation # generation THEN "reloaded"
                   ELSE IF ~info[r].known THEN "unknown"
                   ELSE "run"

Refuse ==
  /\ drain = "item"
  /\ \E old \in BOOLEAN : /\ Verdict(item, old) # "run"
                         /\ Resolve(item, Verdict(item, old))
  /\ drain' = "loop" /\ item' = None
  /\ UNCHANGED <<generation, addon, conns, info, queue, waiting, answer, current, begun>>

Begin ==
  /\ drain = "item"
  /\ Verdict(item, FALSE) = "run"
  /\ drain' = "tool"
  /\ current' = item
  /\ begun' = begun \cup {item}
  /\ UNCHANGED <<generation, addon, conns, info, queue, waiting, future,
                 answer, item>>

\* Fault: what the tool raises escapes drain_queue, and the timer is gone.
FinishedEscapes(x) ==
  /\ Resolve(item, x)
  /\ drain' = (IF x = "failure" THEN "dead" ELSE "finally") /\ item' = None

Finished(x) ==
  /\ Resolve(item, x)
  /\ drain' = "finally" /\ item' = None

\* The tool returns or raises; not inside the unregister it may have called.
Finish ==
  /\ drain = "tool" /\ addon # "stopping"
  /\ \E x \in Outcomes : Finished(x)
  /\ UNCHANGED <<generation, addon, conns, info, queue, waiting, answer, current, begun>>

\* The finally block.  Until it has run the server thread can deliver the result
\* and still show the request in bridge_status.
Clear ==
  /\ drain = "finally"
  /\ drain' = "loop"
  /\ current' = None
  /\ UNCHANGED <<generation, addon, conns, info, queue, waiting, future,
                 answer, item, begun>>
---------------------------------------------------------------------------
(* The main thread: the add-on's lifecycle, from the preferences, a job's  *)
(* chunk or a tool.                                                        *)

NotDraining == drain \in {"idle", "tool"}

\* unregister up to stop_server.
Unregister ==
  /\ addon = "enabled" /\ NotDraining
  /\ generation < 2 * MaxReloads
  /\ generation' = generation + 1
  /\ addon' = "stopping"
  /\ UNCHANGED <<conns, info, queue, waiting, future, answer, main>>

\* stop_server has asked the loop to stop and waited for it, in vain perhaps.
StopServer ==
  /\ addon = "stopping"
  /\ addon' = "disabled"
  /\ UNCHANGED <<generation, conns, info, queue, waiting, future, answer, main>>

Register ==
  /\ addon = "disabled" /\ NotDraining
  /\ generation' = generation + 1
  /\ addon' = "enabled"
  /\ UNCHANGED <<conns, info, queue, waiting, future, answer, main>>
---------------------------------------------------------------------------
Drain     == Take \/ DrainEnd \/ Refuse \/ Begin \/ Finish \/ Clear
Lifecycle == Unregister \/ StopServer \/ Register

Next ==
  \/ Connect \/ Receive
  \/ \E r \in Requests : Answer(r)
  \/ \E c \in Clients : Disconnect(c)
  \/ Drain
  \/ Lifecycle

Spec == Init /\ [][Next]_vars

(* The event loop runs: an expired wait_for, or a result it has been       *)
(* handed, is acted on, whatever the main thread does.                     *)
LoopFairness == \A r \in Requests : WF_vars(Answer(r))

LoopFairSpec == Spec /\ LoopFairness

(* The drain timer fires, tools end and unregister ends.                   *)
MainFairness == WF_vars(Drain) /\ WF_vars(StopServer)
---------------------------------------------------------------------------
(* Properties.                                                             *)

TypeOK ==
  /\ generation \in Nat
  /\ addon \in {"enabled", "stopping", "disabled"}
  /\ conns \subseteq Clients
  /\ info \in Seq(Info) /\ Len(info) <= MaxRequests
  /\ queue \in Seq(Requests)
  /\ waiting \subseteq Requests /\ begun \subseteq Requests
  /\ future \in [Requests -> Results \cup {"pending", "cancelled"}]
  /\ answer \in [Requests -> (Results \ {"opaque"}) \cup {"none", "timeout"}]
  /\ drain \in {"idle", "loop", "item", "tool", "finally"}
  /\ item \in Requests \cup {None}
  /\ current \in Requests \cup {None}

\* No awaited request is lost: while its task waits, it is in the queue, in the
\* hands of the main thread, or its result is there to be delivered; not even a
\* reload of the add-on drops it (handle_item resolves every future it pops).
NoWaiterIsLost ==
  \A r \in waiting :
    \/ future[r] = "pending" /\ (r \in InQueue \/ item = r)
    \/ future[r] \in Results

\* A client that is told its request was refused may send it again: the tool
\* was not begun for it and never will be.
RefusedNeverRuns ==
  \A r \in Requests :
    future[r] \in Refusals => r \notin begun \cup InQueue \cup {item}

\* A client that is told of a result gets one the tool produced, after the tool was
\* over, and a client whose connection was lost is not waited for.
AnswersAreTrue ==
  /\ \A r \in Requests : answer[r] \in Results => answer[r] = future[r]
  /\ \A r \in Requests : future[r] \in Outcomes => r \in begun /\ r # item
  /\ \A r \in waiting : info[r].client \in conns

\* bridge_status shows the tool that runs, and afterwards none but the one that has
\* just ended, whose client may already have been answered.
StatusIsTruthful ==
  /\ drain = "tool" => current = item
  /\ drain = "finally" => current \in begun /\ future[current] # "pending"
  /\ current # None => drain \in {"tool", "finally"}

\* Whatever a client is told, by an answer or by bridge_status, is so.
ClientsAreToldTheTruth == AnswersAreTrue /\ StatusIsTruthful

\* A request is answered at most once (ImplementsRequestService says so too).
AnsweredOnce ==
  [][\A r \in Requests : answer[r] # "none" => UNCHANGED answer[r] /\ r \notin waiting']_vars

\* "A generation counter guards against stale queued work surviving an addon
\* disable/enable": what is still queued when the add-on is down and the main
\* thread is out of drain_queue never runs.
StaleWorkNeverRuns ==
  \A r \in Requests :
    [](addon = "disabled" /\ drain = "idle" /\ r \in InQueue => [](r \notin begun))

\* A request whose client gave up while it was queued never runs: a blocked
\* main thread does not work through the retries that piled up behind it.
AbandonedNeverRuns ==
  \A r \in Requests :
    [](r \in InQueue /\ future[r] = "cancelled" => [](r \notin begun))

\* Work that was refused, is stale or was abandoned never runs, whatever reloads and
\* retries follow.
DeadWorkNeverRuns == []RefusedNeverRuns /\ StaleWorkNeverRuns /\ AbandonedNeverRuns

\* No tool is begun for a request once the add-on has been unregistered.
NothingBeginsWhileDisabled == [][begun' # begun => addon = "enabled"]_vars

\* Every client that keeps its connection gets an answer although the main
\* thread may hang in a tool for ever.  A result that is not JSON is the
\* exception: nothing is sent for it.
EveryRequestAnswered ==
  \A r \in Requests :
    r \in waiting ~> \/ answer[r] # "none"
                     \/ r <= Len(info) /\ info[r].client \notin conns
                     \/ future[r] = "opaque"

\* While the add-on stays registered and its tools end, every request leaves
\* the queue, whatever happened to the requests before it.
QueueDrains ==
  MainFairness => \A r \in Requests : r \in InQueue ~> r \notin InQueue \/ addon = "disabled"

\* What the bridge promises for one request after another.
WorkOf(r) == CASE r \in begun -> IF drain = "tool" /\ item = r THEN "running" ELSE "ran"
               [] r \notin begun /\ (r \in InQueue \/ item = r) -> "accepted"
               [] OTHER -> IF r <= Len(info) THEN "dropped" ELSE "absent"

AnswerOf(r) == CASE answer[r] \in Outcomes -> "result"
                 [] answer[r] \in Refusals -> "refused"
                 [] OTHER -> answer[r]

Service == INSTANCE RequestService WITH
             work <- [r \in Requests |-> WorkOf(r)],
             reply <- [r \in Requests |-> AnswerOf(r)]

\* Requests run one at a time in the order they arrived, at most once, and what
\* a client is told is what happened.
ImplementsRequestService == Service!Spec
===========================================================================
