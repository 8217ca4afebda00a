----------------------------- MODULE ApiClient -----------------------------
(***************************************************************************)
(* internal/client of the Go CLI: what happens to the one request of an    *)
(* invocation, over the WebSocket bridge of Blender (the default base URL) *)
(* or over HTTP (MCP_BLENDER_BASE_URL), with the response cache that all   *)
(* invocations share on disk. Every invocation is a process of its own.    *)
(* The rate limiter only delays a request and is left out, like the        *)
(* platform session, which no command of this build can have.              *)
(***************************************************************************)
EXTENDS GeneratedCommands

CONSTANTS
  Invocations,  \* the runs of the CLI
  MaxRetries    \* clientMaxRetries outside the verifier (3 in the code)

ASSUME MaxRetriesAssumption == MaxRetries \in Nat

VARIABLES
  transport,  \* "ws" or "http": the scheme of the base URL
  up,         \* the other end (Blender's add-on, or the HTTP server) listens
  longDown,   \* it has been down for longer than a cached response lives
  version,    \* how many mutations the HTTP server has carried out
  cache,      \* the cached response to GET "/", or NoEntry
  reported,   \* the version of the last mutation reported over HTTP
  epoch,      \* how many mutations were reported over HTTP
  pc,         \* where the invocation is
  cmd,        \* the class of its command
  opt,        \* its options: mode, noCache, key
  attempt,    \* retries used up
  wire,       \* its request or the reply on the current connection
  orphans,    \* requests that it gave up and that may still be carried out
  sent,       \* requests that left the process
  ran,        \* how often its request was carried out
  seen,       \* the version the reply tells of
  sentEpoch,  \* the epoch in which the last request was sent
  outcome     \* what doInternal returned, or "none"

worldVars == <<transport, up, longDown, version>>
cacheVars == <<cache, reported, epoch>>
requestVars == <<attempt, wire, orphans, sent, ran, seen, sentEpoch>>
clientVars ==
  <<worldVars, cacheVars, requestVars, pc, cmd, opt, outcome>>

Modes == {"live", "dry", "verify", "verify_live"}
Options == [mode : Modes, noCache : BOOLEAN, key : BOOLEAN]
NoEntry == [kind |-> "none"]
NoCommand == [kind |-> "none"]
NoOptions == [mode |-> "live", noCache |-> FALSE, key |-> FALSE]

\* What the client takes for a success: a 2xx, or a result over the bridge. Its
\* body may carry partialFailureError ("partial"), or say success: false, which
\* is how most of Blender's tools refuse ("declined").
Successes == {"ok", "partial", "declined"}
\* Beside these, the statuses 409, 401 or 403, 404, 429, and 5xx or another.
HttpReplies ==
  Successes \cup {"conflict", "denied", "missing", "limited", "failed"}
\* The bridge answers with a result or with an error.
BridgeReplies == {"ok", "declined", "error"}
Outcomes ==
  HttpReplies \cup BridgeReplies \cup
  {"none", "help", "usage", "stdin", "config", "cached", "synthetic",
   "dry_run", "no_equivalent", "network", "report", "no_report"}

Each(x) == [i \in Invocations |-> x]

InitClient ==
  /\ transport \in {"ws", "http"}
  /\ up \in BOOLEAN
  /\ longDown = FALSE
  /\ version = 0
  /\ cache = NoEntry
  /\ reported = 0
  /\ epoch = 0
  /\ pc = Each("new")
  /\ cmd = Each(NoCommand)
  /\ opt = Each(NoOptions)
  /\ attempt = Each(0)
  /\ wire = Each("none")
  /\ orphans = Each(0)
  /\ sent = Each(0)
  /\ ran = Each(0)
  /\ seen = Each(0)
  /\ sentEpoch = Each(0)
  /\ outcome = Each("none")

\* doInternal returns x to its caller.
Return(i, x) ==
  /\ pc' = [pc EXCEPT ![i] = "done"]
  /\ outcome' = [outcome EXCEPT ![i] = x]

----------------------------------------------------------------------------
(* Before the request leaves the process.                                  *)

CacheEnabled(i) ==
  cmd[i].kind = "probe" /\ ~opt[i].noCache /\ opt[i].mode # "dry"

\* Fault: the age of the file is not looked at.
InCacheAtAnyAge(i) == CacheEnabled(i) /\ cache.kind # "none"

InCache(i) == CacheEnabled(i) /\ cache.kind = "fresh"

\* GetWithHeaders: a file younger than five minutes is the response.
HitCache(i) ==
  /\ pc[i] = "ready"
  /\ InCache(i)
  /\ Return(i, "cached")
  /\ UNCHANGED <<worldVars, cacheVars, requestVars, cmd, opt>>

\* PRINTING_PRESS_VERIFY without LIVE_HTTP: a mutation is not sent.
GateCloses(i) == IsMutation(cmd[i]) /\ opt[i].mode = "verify"

ShortCircuit(i) ==
  /\ pc[i] = "ready"
  /\ GateCloses(i)
  /\ Return(i, "synthetic")
  /\ UNCHANGED <<worldVars, cacheVars, requestVars, cmd, opt>>

\* --dry-run: the request is printed.
PrintRequest(i) ==
  /\ pc[i] = "ready"
  /\ opt[i].mode = "dry"
  /\ Return(i, "dry_run")
  /\ UNCHANGED <<worldVars, cacheVars, requestVars, cmd, opt>>

\* Fault: the verifier's gate is gone.
LiveWithoutGate(i) ==
  /\ pc[i] = "ready"
  /\ cmd[i].kind # "script"
  /\ ~InCache(i) /\ opt[i].mode # "dry"

\* The request goes out: no cached response, no gate, no preview.
Live(i) ==
  /\ pc[i] = "ready"
  /\ cmd[i].kind # "script"
  /\ ~InCache(i) /\ ~GateCloses(i) /\ opt[i].mode # "dry"

----------------------------------------------------------------------------
(* doWebSocketBridge: one connection, one request, no retry.               *)

NoEquivalent(i) ==
  /\ Live(i) /\ transport = "ws" /\ ~cmd[i].equiv
  /\ Return(i, "no_equivalent")
  /\ UNCHANGED <<worldVars, cacheVars, requestVars, cmd, opt>>

Unreachable(i) ==
  /\ Live(i) /\ transport = "ws" /\ cmd[i].equiv /\ ~up
  /\ Return(i, "network")
  /\ UNCHANGED <<worldVars, cacheVars, requestVars, cmd, opt>>

Put(i) ==
  /\ pc' = [pc EXCEPT ![i] = "waiting"]
  /\ wire' = [wire EXCEPT ![i] = "queued"]
  /\ sent' = [sent EXCEPT ![i] = @ + 1]
  /\ sentEpoch' = [sentEpoch EXCEPT ![i] = epoch]
  /\ UNCHANGED <<worldVars, cacheVars, attempt, orphans, ran, seen, cmd, opt,
                 outcome>>

CallBridgeMethod(i) ==
  /\ Live(i) /\ transport = "ws" /\ cmd[i].equiv /\ up
  /\ Put(i)

----------------------------------------------------------------------------
(* The retry loop over HTTP.                                               *)

SendHttp(i) ==
  /\ Live(i) \/ pc[i] = "resend"
  /\ transport = "http"
  /\ Put(i)

\* Fault: every verb is replayed.
CanReplayAny(i) == TRUE

\* CanRetryRequest: the verb may be replayed, or the request carries a key.
CanReplay(i) == cmd[i].readOnly \/ cmd[i].verb = "GET" \/ opt[i].key

\* Fault: one retry too many.
OneMoreRetry(i) ==
  attempt[i] <= IF opt[i].mode = "live" THEN MaxRetries ELSE 0

RetriesLeft(i) ==
  attempt[i] < IF opt[i].mode = "live" THEN MaxRetries ELSE 0

\* The next round of the loop, after its wait, if the failure may be retried
\* and the wait fits the retry budget; otherwise the error is returned.
RetryOr(i, x) ==
  \/ /\ RetriesLeft(i) /\ CanReplay(i)
     /\ pc' = [pc EXCEPT ![i] = "resend"]
     /\ attempt' = [attempt EXCEPT ![i] = @ + 1]
     /\ UNCHANGED outcome
  \/ /\ Return(i, x)
     /\ attempt' = [attempt EXCEPT ![i] = 0]

----------------------------------------------------------------------------
(* The other end. It carries a request out or refuses it, and is external. *)

Answers == IF transport = "ws" THEN BridgeReplies ELSE HttpReplies

\* An answer that says nothing of whether the request was carried out: a tool
\* that declines may have done a part.
Ambiguous == {"declined", "error", "failed"}

\* do() evicts every cached response after a mutation it saw succeed over
\* HTTP; the bridge path returns before it gets there.
Evicts(i) == transport = "http" /\ ~cmd[i].readOnly /\ cmd[i].verb # "GET"

\* The version is counted where the cache follows it.
CarryOut(i) ==
  /\ ran' = [ran EXCEPT ![i] = @ + 1]
  /\ version' = IF Evicts(i) THEN version + 1 ELSE version

Ignore == UNCHANGED <<ran, version>>

Serve(i) ==
  /\ up /\ wire[i] = "queued"
  /\ \E x \in Answers :
       /\ wire' = [wire EXCEPT ![i] = x]
       /\ \/ x \in {"ok", "partial"} \cup Ambiguous /\ CarryOut(i)
          \/ x \notin {"ok", "partial"} /\ Ignore
  /\ seen' = [seen EXCEPT ![i] = version']
  /\ UNCHANGED <<transport, up, longDown, cacheVars, pc, cmd, opt, attempt,
                 orphans, sent, sentEpoch, outcome>>

\* A request whose client has gone is still carried out, or dropped.
ServeOrphan(i) ==
  /\ up /\ orphans[i] > 0
  /\ orphans' = [orphans EXCEPT ![i] = @ - 1]
  /\ CarryOut(i) \/ Ignore
  /\ UNCHANGED <<transport, up, longDown, cacheVars, pc, cmd, opt, attempt,
                 wire, sent, seen, sentEpoch, outcome>>

----------------------------------------------------------------------------
(* The reply.                                                              *)

Arrived(i, x) == pc[i] = "waiting" /\ wire[i] = x

\* The connection is closed; nothing of the reply is left to look at.
Hangup(i) ==
  /\ wire' = [wire EXCEPT ![i] = "none"]
  /\ seen' = [seen EXCEPT ![i] = 0]
  /\ sentEpoch' = [sentEpoch EXCEPT ![i] = 0]

\* Fault: the cached responses are left alone.
EvictNothing(i) ==
  IF Evicts(i)
  THEN /\ reported' = seen[i]
       /\ epoch' = epoch + 1
       /\ UNCHANGED cache
  ELSE UNCHANGED cacheVars

EvictAfterMutation(i) ==
  IF Evicts(i)
  THEN /\ cache' = NoEntry
       /\ reported' = seen[i]
       /\ epoch' = epoch + 1
  ELSE UNCHANGED cacheVars

Succeed(i) ==
  \E x \in Successes :
    /\ Arrived(i, x)
    /\ EvictAfterMutation(i)
    /\ IF CacheEnabled(i)
       THEN /\ pc' = [pc EXCEPT ![i] = "store"]
            /\ UNCHANGED <<outcome, wire, seen, sentEpoch>>
       ELSE Return(i, x) /\ Hangup(i)
    /\ UNCHANGED <<worldVars, cmd, opt, attempt, orphans, sent, ran>>

\* 429 and 5xx may be retried, the other refusals are returned at once.
Refused(i) ==
  /\ \/ \E x \in {"limited", "failed"} : Arrived(i, x) /\ RetryOr(i, x)
     \/ \E x \in {"conflict", "denied", "missing", "error"} :
          Arrived(i, x) /\ Return(i, x) /\ UNCHANGED attempt
  /\ Hangup(i)
  /\ UNCHANGED <<worldVars, cacheVars, cmd, opt, orphans, sent, ran>>

\* A deadline, a reset or a lost reply: the client cannot tell them apart,
\* and the request may have been taken.
NetworkError(i) ==
  /\ pc[i] = "waiting"
  /\ IF transport = "ws" THEN Return(i, "network") /\ UNCHANGED attempt
     ELSE RetryOr(i, "network")
  /\ Hangup(i)
  /\ orphans' = [orphans EXCEPT ![i] =
                   IF wire[i] = "queued" THEN @ + 1 ELSE @]
  /\ UNCHANGED <<worldVars, cacheVars, cmd, opt, sent, ran>>

\* writeCacheWithHeaders: a step of its own, after the reply. An entry is
\* raced if a mutation was reported between the request and the write.
StoreResponse(i) ==
  /\ pc[i] = "store"
  /\ cache' = [kind |-> "fresh", version |-> seen[i],
               raced |-> sentEpoch[i] # epoch]
  /\ Return(i, "ok")
  /\ Hangup(i)
  /\ UNCHANGED <<worldVars, reported, epoch, cmd, opt, attempt, orphans, sent,
                 ran>>

----------------------------------------------------------------------------
(* The world.                                                              *)

\* Blender is closed or the server stops: what is queued there is lost.
Stop ==
  /\ up
  /\ up' = FALSE
  /\ wire' = [i \in Invocations |->
                IF wire[i] = "queued" THEN "broken" ELSE wire[i]]
  /\ orphans' = Each(0)
  /\ UNCHANGED <<transport, longDown, version, cacheVars, pc, cmd, opt,
                 attempt, sent, ran, seen, sentEpoch, outcome>>

Start ==
  /\ ~up
  /\ up' = TRUE
  /\ longDown' = FALSE
  /\ UNCHANGED <<transport, version, cacheVars, requestVars, pc, cmd, opt,
                 outcome>>

\* Five minutes pass. A process is assumed to read a reply that is there and
\* to write it to the cache in less.
Age ==
  /\ \A i \in Invocations : wire[i] \notin Answers
  /\ longDown' = ~up
  /\ cache' = IF cache.kind = "fresh" THEN [cache EXCEPT !.kind = "old"]
              ELSE cache
  /\ UNCHANGED <<transport, up, version, reported, epoch, requestVars, pc,
                 cmd, opt, outcome>>

World == Stop \/ Start \/ Age

DoInternal(i) ==
  \/ HitCache(i) \/ ShortCircuit(i) \/ PrintRequest(i)
  \/ NoEquivalent(i) \/ Unreachable(i) \/ CallBridgeMethod(i) \/ SendHttp(i)
  \/ Succeed(i) \/ Refused(i) \/ NetworkError(i) \/ StoreResponse(i)

OtherEnd(i) == Serve(i) \/ ServeOrphan(i)
=============================================================================
