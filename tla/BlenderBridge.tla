--------------------------- MODULE BlenderBridge ---------------------------
(***************************************************************************)
(* The MCP server's connection to Blender: class BlenderBridge in          *)
(* mcp_server/src/mcp_blender/bridge.py and the part of run() in           *)
(* mcp_server/src/mcp_blender/server.py that opens and closes it.          *)
(*                                                                         *)
(* Everything runs on one asyncio loop, so a step below is what happens    *)
(* between two awaits.  The tasks are the tool calls, the receive loop of  *)
(* the present connection, and whoever dials: run() first, later the       *)
(* backoff loop.  Blender's end is reduced to what the client can see: it  *)
(* listens or not, it answers a request, late or never, and the connection *)
(* breaks.                                                                 *)
(***************************************************************************)
EXTENDS Naturals

CONSTANTS
  MaxCalls,  \* bound: how many requests are made
  MaxLinks   \* bound: how many connections are made

ASSUME BlenderBridgeAssumption ==
  /\ MaxCalls \in Nat
  /\ MaxLinks \in Nat

Calls == 1..MaxCalls   \* a call is identified by its request_id

VARIABLES
  listening,  \* is Blender's server up?
  state,      \* _state
  closing,    \* _closing
  ws,         \* _ws: not yet connected, open, or closed by either side
  link,       \* which connection _ws is
  reader,     \* does _recv_task run?
  dialer,     \* the task that is to connect: none, first dial, backoff sleep, redial
  phase,      \* where the caller of send_request is
  future,     \* the call's _PendingRequest.future
  pending,    \* the keys of _pending
  sentOn,     \* the connection a call is made on
  wire,       \* requests on their way to Blender or in its hands
  replies     \* answers that reached the client's end of the connection

connection == <<listening, state, closing, ws, link, reader, dialer>>
calls      == <<phase, future, pending, sentOn>>
vars       == <<connection, calls, wire, replies>>

InFlight == {c \in Calls : phase[c] \in {"sending", "waiting"}}

Init ==
  /\ listening \in BOOLEAN
  /\ state = "connecting" /\ closing = FALSE
  /\ ws = "none" /\ link = 0 /\ reader = FALSE /\ dialer = "first"
  /\ phase = [c \in Calls |-> "idle"]
  /\ future = [c \in Calls |-> "pending"]
  /\ pending = {} /\ sentOn = [c \in Calls |-> 0]
  /\ wire = {} /\ replies = {}
---------------------------------------------------------------------------
(* Connecting: _connect_once, first from run(), then from the backoff loop. *)

Dialing == dialer \in {"first", "again"}

\* The dial is not told that close() was called meanwhile.
DialOk ==
  /\ Dialing /\ listening /\ link < MaxLinks
  /\ state' = "connected"
  /\ ws' = "open" /\ link' = link + 1
  /\ reader' = TRUE /\ dialer' = "none"
  /\ UNCHANGED <<listening, closing, calls, wire, replies>>

\* Fault: what the dial raises ends the task that retries.
DialFailEndsTask ==
  /\ Dialing
  /\ state' = "reconnecting"
  /\ dialer' = "none"
  /\ UNCHANGED <<listening, closing, ws, link, reader, calls, wire, replies>>

\* Fault: a state that ConnectionState does not have.
DialFailState ==
  /\ Dialing
  /\ state' = "failed"
  /\ dialer' = IF closing THEN "none" ELSE "sleeping"
  /\ UNCHANGED <<listening, closing, ws, link, reader, calls, wire, replies>>

\* The dial raises.  The backoff loop goes on unless close() was called.  A first dial
\* that failed leaves "disconnected", so the early return of reconnect_with_backoff, the
\* task that run() then starts, is never taken.
DialFail ==
  /\ Dialing
  /\ state' = "reconnecting"
  /\ dialer' = IF closing THEN "none" ELSE "sleeping"
  /\ UNCHANGED <<listening, closing, ws, link, reader, calls, wire, replies>>

\* The backoff loop wakes and dials, without looking at _closing again.
Redial ==
  /\ dialer = "sleeping"
  /\ state' = "connecting" /\ dialer' = "again"
  /\ UNCHANGED <<listening, closing, ws, link, reader, calls, wire, replies>>
---------------------------------------------------------------------------
(* Losing the connection: _recv_loop ends in _on_disconnected.             *)

\* Fault: the pending calls are forgotten but not failed.
ForgetPending == pending' = {} /\ UNCHANGED <<phase, future, sentOn>>

FailPending ==
  /\ future' = [c \in Calls |-> IF c \in pending /\ future[c] = "pending" THEN "lost"
                                ELSE future[c]]
  /\ pending' = {}
  /\ UNCHANGED <<phase, sentOn>>

\* The backoff loop starts at once, unless the connection is being closed.
Disconnected ==
  /\ reader /\ ws = "broken"
  /\ reader' = FALSE
  /\ FailPending
  /\ IF closing THEN state' = "disconnected" /\ dialer' = dialer
                ELSE state' = "reconnecting" /\ dialer' = "sleeping"
  /\ replies' = {}
  /\ UNCHANGED <<listening, closing, ws, link, wire>>

\* close(), from run() when the MCP session ends.  The receive loop is cancelled,
\* a backoff loop is not.
Close ==
  /\ ~closing /\ dialer # "first"
  /\ closing' = TRUE
  /\ state' = "disconnected"
  /\ ws' = IF ws = "open" THEN "broken" ELSE ws
  /\ reader' = FALSE
  /\ IF reader THEN FailPending ELSE UNCHANGED calls
  /\ replies' = {}
  /\ UNCHANGED <<listening, link, dialer, wire>>
---------------------------------------------------------------------------
(* A tool call: send_request.                                              *)

Uncalled == {c \in Calls : phase[c] = "idle"}

\* Not connected: refused at once.  Otherwise the call is registered, and the
\* send raises if the connection is already gone.
Call(c) ==
  /\ c \in Uncalled /\ \A d \in Uncalled : c <= d
  /\ IF state # "connected"
     THEN phase' = [phase EXCEPT ![c] = "refused"] /\ UNCHANGED <<pending, sentOn>>
     ELSE /\ pending' = pending \cup {c}
          /\ sentOn' = [sentOn EXCEPT ![c] = link]
          /\ phase' = [phase EXCEPT ![c] = IF ws = "open" THEN "sending" ELSE "unsent"]
  /\ UNCHANGED <<connection, future, wire, replies>>

\* The await on ws.send ends: the request is sent, or the connection is closed and the
\* send raises.  It is outside the timeout of the call.
Sent(c) ==
  /\ phase[c] = "sending"
  /\ IF ws = "open" /\ sentOn[c] = link
     THEN phase' = [phase EXCEPT ![c] = "waiting"] /\ wire' = wire \cup {c}
     ELSE phase' = [phase EXCEPT ![c] = "unsent"] /\ UNCHANGED wire
  /\ UNCHANGED <<connection, future, pending, sentOn, replies>>

SendRaises(c) == ~(ws = "open" /\ sentOn[c] = link) /\ Sent(c)

\* Fault: the failure that the receive loop put in the future is not seen.
ResumeOnReply(c) ==
  /\ phase[c] = "waiting" /\ future[c] = "reply"
  /\ phase' = [phase EXCEPT ![c] = "answered"]
  /\ UNCHANGED <<connection, future, pending, sentOn, wire, replies>>

Resume(c) ==
  /\ phase[c] = "waiting" /\ future[c] \in {"reply", "lost"}
  /\ phase' = [phase EXCEPT ![c] = IF future[c] = "reply" THEN "answered" ELSE "lost"]
  /\ UNCHANGED <<connection, future, pending, sentOn, wire, replies>>

TimeOutEffect(c) ==
  /\ phase' = [phase EXCEPT ![c] = "timeout"]
  /\ future' = [future EXCEPT ![c] = IF @ = "pending" THEN "cancelled" ELSE @]
  /\ pending' = pending \ {c}
  /\ UNCHANGED sentOn

\* The timer may also win over an answer or a failure that was put in the future in the
\* same pass of the loop (wait_for of Python 3.12 and later).
TimeOut(c) ==
  /\ phase[c] = "waiting"
  /\ TimeOutEffect(c)
  /\ UNCHANGED <<connection, wire, replies>>

Expire(c) == future[c] = "pending" /\ TimeOut(c)

\* The MCP session cancels the tool call; its entry stays in _pending.
CancelCall(c) ==
  /\ c \in InFlight
  /\ phase' = [phase EXCEPT ![c] = "cancelled"]
  /\ future' = [future EXCEPT ![c] = IF @ = "pending" THEN "cancelled" ELSE @]
  /\ UNCHANGED <<connection, pending, sentOn, wire, replies>>

TakeReply(c) ==
  /\ future' = [future EXCEPT ![c] = IF c \in pending /\ @ = "pending" THEN "reply" ELSE @]
  /\ pending' = pending \ {c}

\* _handle_message: an answer nobody waits for any more is dropped.
Receive(c) ==
  /\ reader /\ c \in replies
  /\ TakeReply(c)
  /\ replies' = replies \ {c}
  /\ UNCHANGED <<connection, phase, sentOn, wire>>
---------------------------------------------------------------------------
(* Blender and the network.                                                *)

Reply(c) ==
  /\ c \in wire
  /\ wire' = wire \ {c}
  /\ replies' = IF ws = "open" /\ sentOn[c] = link THEN replies \cup {c} ELSE replies
  /\ UNCHANGED <<connection, calls>>

\* The connection breaks, with Blender's server or without; what is under way on
\* it may be lost.
Break ==
  /\ ws = "open" /\ link < MaxLinks
  /\ ws' = "broken"
  /\ listening' \in {listening, FALSE}
  /\ wire' \in SUBSET wire
  /\ replies' \in SUBSET replies
  /\ UNCHANGED <<state, closing, link, reader, dialer, calls>>

\* The add-on is enabled, or disabled while nobody is connected.
ToggleServer ==
  /\ ws # "open" \/ ~listening
  /\ listening' = ~listening
  /\ UNCHANGED <<state, closing, ws, link, reader, dialer, calls, wire, replies>>
---------------------------------------------------------------------------
Connection == DialOk \/ DialFail \/ Redial \/ Disconnected \/ Close
CallStep(c) == Call(c) \/ Sent(c) \/ Resume(c) \/ TimeOut(c) \/ CancelCall(c)

Next ==
  \/ Connection
  \/ \E c \in Calls : CallStep(c) \/ Receive(c) \/ Reply(c)
  \/ Break \/ ToggleServer

Spec == Init /\ [][Next]_vars

(* The loop runs: a sleep ends, a dial ends and succeeds if it is tried    *)
(* again and again on a server that listens, a broken connection is        *)
(* noticed, an answer or an expired timeout is acted on, and a send on a   *)
(* closed connection raises.  Blender need not answer, and a send on an    *)
(* open connection need not end: it waits for a peer that does not read.   *)
Fairness ==
  /\ WF_vars(Redial) /\ WF_vars(DialOk \/ DialFail) /\ SF_vars(DialOk)
  /\ WF_vars(Disconnected)
  /\ \A c \in Calls : WF_vars(Resume(c)) /\ WF_vars(Expire(c)) /\ WF_vars(SendRaises(c))

FairSpec == Spec /\ Fairness
---------------------------------------------------------------------------
(* Properties.                                                             *)

TypeOK ==
  /\ listening \in BOOLEAN
  /\ state \in {"disconnected", "connecting", "connected", "reconnecting"}
  /\ closing \in BOOLEAN
  /\ ws \in {"none", "open", "broken"}
  /\ link \in 0..MaxLinks
  /\ reader \in BOOLEAN
  /\ dialer \in {"none", "first", "sleeping", "again"}
  /\ phase \in [Calls -> {"idle", "refused", "sending", "unsent", "waiting",
                          "answered", "lost", "timeout", "cancelled"}]
  /\ future \in [Calls -> {"pending", "reply", "lost", "cancelled"}]
  /\ pending \subseteq Calls /\ wire \subseteq Calls /\ replies \subseteq Calls
  /\ sentOn \in [Calls -> 0..MaxLinks]

\* A caller that still waits can be reached: its entry is in _pending and the
\* receive loop of the connection it used is there to answer or to fail it.
WaiterIsReachable ==
  \A c \in InFlight :
    future[c] = "pending" => c \in pending /\ reader /\ sentOn[c] = link

\* There is never more than one task that owns the connection, and until close()
\* there is always one: no lost connection is left with nobody to restore it, and
\* no two backoff loops dial over each other.
OneOwner ==
  /\ ~(reader /\ dialer # "none")
  /\ closing \/ reader \/ dialer # "none"
  /\ state = "connected" => reader

\* _pending holds nothing but calls in flight and calls whose caller was cancelled
\* or whose send failed, all of them of the present connection.
PendingIsLive ==
  \A c \in pending :
    /\ phase[c] \in {"sending", "waiting", "cancelled", "unsent"}
    /\ reader /\ sentOn[c] = link

\* _pending is what the waiting callers are reached by, no less and no more.
PendingMatchesCallers == WaiterIsReachable /\ PendingIsLive

\* What a caller is told is so, however late it hears of it.  "answered": by its own
\* reply, which came over the connection the request was sent on; "lost", "unsent": that
\* connection is gone for good; "timeout": no reply will be taken for it any more.
OutcomeIsTrue ==
  \A c \in Calls :
    /\ phase[c] = "answered" => future[c] = "reply"
    /\ phase[c] = "lost" => future[c] = "lost"
    /\ phase[c] = "timeout" => future[c] # "pending" /\ c \notin pending
    /\ phase[c] = "unsent" => ~(ws = "open" /\ sentOn[c] = link)
    /\ future[c] = "lost" => ~(reader /\ sentOn[c] = link)
    /\ c \in replies => reader /\ sentOn[c] = link
    /\ future[c] = "reply" \/ c \in replies =>
         phase[c] \in {"waiting", "answered", "timeout", "cancelled"}

\* What callers of send_request may rely on, whatever connections come and go: somebody
\* has the connection in hand, who waits is reached, and who is told is told the truth.
CallersAreServed == OneOwner /\ PendingMatchesCallers /\ OutcomeIsTrue

\* "strand the connection in RECONNECTING forever": if Blender comes to listen for
\* good, the client comes to be connected, unless it is closed.
Reconnects == <>[](listening /\ ~closing) => <>[](state = "connected")

\* A request that was sent is answered, fails or times out, although Blender may
\* never answer and the connection may silently be dead.
SentCallEnds == \A c \in Calls : phase[c] = "waiting" ~> phase[c] # "waiting"

\* "Per-request timeouts already bound how long we wait".
EveryCallEnds == \A c \in Calls : c \in InFlight ~> c \notin InFlight
===========================================================================
