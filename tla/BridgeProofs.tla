--------------------------- MODULE BridgeProofs ---------------------------
(***************************************************************************)
(* Theorems about BlenderBridge: the inductive invariant of the client's   *)
(* connection and what follows from it for its callers; and ClientStatus   *)
(* makes no step of the connection that BlenderBridge does not.            *)
(***************************************************************************)
EXTENDS ClientStatus, TLAPS

\* What is in _pending has not been answered or failed, and a call that was not
\* made is not in it.
EntriesAreOpen ==
  /\ \A c \in pending : future[c] \in {"pending", "cancelled"}
  /\ \A c \in Calls : phase[c] = "idle" => c \notin pending /\ future[c] = "pending"

IInv == TypeOK /\ OneOwner /\ EntriesAreOpen /\ WaiterIsReachable /\ PendingIsLive

\* A client that has not dialled yet satisfies the invariant.
LEMMA BridgeInit == Init => IInv
<1> SUFFICES ASSUME Init PROVE IInv
  OBVIOUS
<1>1. 0 \in 0..MaxLinks
  BY BlenderBridgeAssumption
<1>2. TypeOK
  BY <1>1 DEF Init, TypeOK
<1>3. OneOwner /\ EntriesAreOpen /\ WaiterIsReachable /\ PendingIsLive
  BY DEF Init, OneOwner, EntriesAreOpen, WaiterIsReachable, PendingIsLive, InFlight
<1>4. QED
  BY <1>2, <1>3 DEF IInv

\* One step of the connection's tasks: dial, fail, sleep, lose, close.
LEMMA ConnectionStep ==
  ASSUME IInv, Connection
  PROVE  IInv'
<1> USE DEF IInv, TypeOK, OneOwner, EntriesAreOpen, WaiterIsReachable, PendingIsLive,
            InFlight, calls
<1>1. CASE DialOk
  <2>1. ~reader /\ link + 1 \in 0..MaxLinks
    BY <1>1, BlenderBridgeAssumption DEF DialOk, Dialing
  <2>2. pending = {} /\ \A c \in InFlight : future[c] # "pending"
    BY <2>1
  <2>3. QED
    BY <1>1, <2>1, <2>2 DEF DialOk
<1>2. CASE DialFail
  BY <1>2 DEF DialFail, Dialing
<1>3. CASE Redial
  BY <1>3 DEF Redial
<1>4. CASE Disconnected
  BY <1>4 DEF Disconnected, FailPending
<1>5. CASE Close
  <2>1. CASE reader
    <3>1. /\ future' = [c \in Calls |-> IF c \in pending /\ future[c] = "pending" THEN "lost"
                                       ELSE future[c]]
          /\ pending' = {} /\ UNCHANGED <<phase, sentOn, listening, link, dialer, wire>>
          /\ state' = "disconnected" /\ reader' = FALSE /\ closing' = TRUE /\ replies' = {}
      BY <1>5, <2>1 DEF Close, FailPending
    <3>2. ws' \in {"none", "open", "broken"}
      BY <1>5 DEF Close
    <3>3. TypeOK' /\ OneOwner'
      BY <3>1, <3>2
    <3>4. EntriesAreOpen' /\ WaiterIsReachable' /\ PendingIsLive'
      BY <3>1
    <3>5. QED
      BY <3>3, <3>4
  <2>2. CASE ~reader
    BY <1>5, <2>2 DEF Close
  <2>3. QED
    BY <2>1, <2>2
<1>6. QED
  BY <1>1, <1>2, <1>3, <1>4, <1>5 DEF Connection

\* One step of a caller of send_request.
LEMMA CallerStep ==
  ASSUME IInv, NEW c \in Calls, CallStep(c)
  PROVE  IInv'
<1> USE DEF IInv, TypeOK, OneOwner, EntriesAreOpen, WaiterIsReachable, PendingIsLive,
            InFlight, connection
<1>1. CASE Call(c)
  <2>1. CASE state # "connected"
    BY <1>1, <2>1 DEF Call, Uncalled
  <2>2. CASE state = "connected"
    BY <1>1, <2>2 DEF Call, Uncalled
  <2>3. QED
    BY <2>1, <2>2
<1>2. CASE Sent(c)
  BY <1>2 DEF Sent
<1>3. CASE Resume(c)
  BY <1>3 DEF Resume
<1>4. CASE TimeOut(c)
  BY <1>4 DEF TimeOut, TimeOutEffect
<1>5. CASE CancelCall(c)
  BY <1>5 DEF CancelCall
<1>6. QED
  BY <1>1, <1>2, <1>3, <1>4, <1>5 DEF CallStep

\* Every step of the client's event loop keeps the invariant.
LEMMA BridgeStep ==
  ASSUME IInv, [Next]_vars
  PROVE  IInv'
<1> USE DEF IInv, TypeOK, OneOwner, EntriesAreOpen, WaiterIsReachable, PendingIsLive,
            InFlight, connection, calls
<1>1. CASE Connection
  BY <1>1, ConnectionStep
<1>2. ASSUME NEW c \in Calls, CallStep(c) PROVE IInv'
  BY <1>2, CallerStep
<1>3. ASSUME NEW c \in Calls, Receive(c) PROVE IInv'
  BY <1>3 DEF Receive, TakeReply
<1>4. ASSUME NEW c \in Calls, Reply(c) PROVE IInv'
  BY <1>4 DEF Reply
<1>5. CASE Break
  BY <1>5 DEF Break
<1>6. CASE ToggleServer
  BY <1>6 DEF ToggleServer
<1>7. CASE UNCHANGED vars
  BY <1>7 DEF vars
<1>8. QED
  BY <1>1, <1>2, <1>3, <1>4, <1>5, <1>6, <1>7 DEF Next

\* The inductive invariant of the connection holds for any number of calls and
\* connections.
THEOREM BridgeInvariant == Spec => []IInv
  BY BridgeInit, BridgeStep, PTL DEF Spec

\* Calls, dials and connections keep their types (bridge.py).
THEOREM TypeCorrect == Spec => []TypeOK
<1>1. IInv => TypeOK
  BY DEF IInv
<1>2. QED
  BY <1>1, BridgeInvariant, PTL

\* No caller is stranded: whoever waits has its entry in _pending and a receive
\* loop on the connection it used, which will answer it or fail it.
THEOREM WaiterIsReachableHolds == Spec => []WaiterIsReachable
<1>1. IInv => WaiterIsReachable
  BY DEF IInv
<1>2. QED
  BY <1>1, BridgeInvariant, PTL

\* Exactly one task owns the connection until it is closed, however dials,
\* losses and close() interleave.
THEOREM OneOwnerHolds == Spec => []OneOwner
<1>1. IInv => OneOwner
  BY DEF IInv
<1>2. QED
  BY <1>1, BridgeInvariant, PTL

\* No entry outlives its call in _pending, and none outlives its connection.
THEOREM PendingIsLiveHolds == Spec => []PendingIsLive
<1>1. IInv => PendingIsLive
  BY DEF IInv
<1>2. QED
  BY <1>1, BridgeInvariant, PTL

\* _pending is what the waiting callers are reached by, no less and no more.
THEOREM PendingMatchesCallersHolds == Spec => []PendingMatchesCallers
  BY WaiterIsReachableHolds, PendingIsLiveHolds, PTL DEF PendingMatchesCallers
---------------------------------------------------------------------------
(* A workflow that shows its status is one more user of the connection.    *)

\* A step of a tracked workflow is a step of the connection or none.
LEMMA StatusStep ==
  ASSUME [StatusNext]_allVars
  PROVE  [Next]_vars
<1>1. CASE Elsewhere
  BY <1>1 DEF Elsewhere, Next, CallStep
<1>2. CASE ToolCall
  BY <1>2 DEF ToolCall, Next, CallStep
<1>3. CASE Track
  BY <1>3 DEF Track, Enter, Entered, SetStatus, Leave, Left, Push, Next, CallStep
<1>4. CASE \E c \in Calls : Handle(c)
  BY <1>4 DEF Handle, Next
<1>5. CASE UNCHANGED allVars
  BY <1>5 DEF allVars
<1>6. QED
  BY <1>1, <1>2, <1>3, <1>4, <1>5 DEF StatusNext

\* The workflow and Blender's handling of its status implement BlenderBridge:
\* what holds of the connection holds under a workflow that uses it.
THEOREM StatusImplementsBridge == StatusSpec => Spec
<1>1. StatusInit => Init
  BY DEF StatusInit
<1>2. QED
  BY <1>1, StatusStep, PTL DEF StatusSpec, Spec
---------------------------------------------------------------------------
(* A status that is left behind.                                           *)

\* The answer to a call has reached the client's end of the connection.
Handled(c) == c \in replies \/ future[c] = "reply"

Unsent(c) == phase[c] \in {"idle", "refused", "sending", "unsent"}

\* Calls are made in order, on connections there were; what is on the wire or
\* answered was sent, and is not both; an answered caller has its reply.
CallsInTurn ==
  /\ \A c, d \in Calls : d < c /\ phase[d] = "idle" => phase[c] = "idle"
  /\ \A c \in Calls : sentOn[c] <= link
  /\ \A c \in Calls : c \in wire \/ Handled(c) => ~Unsent(c)
  /\ \A c \in Calls : c \in wire => ~Handled(c)
  /\ \A c \in Calls : phase[c] = "answered" => future[c] = "reply"

\* Every step of the client keeps that.
LEMMA TurnStep ==
  ASSUME IInv, CallsInTurn, [Next]_vars
  PROVE  CallsInTurn'
<1> USE DEF IInv, TypeOK, EntriesAreOpen, CallsInTurn, Handled, Unsent, connection, calls
<1>0. Calls \subseteq Nat /\ link \in Nat /\ \A c \in Calls : sentOn[c] \in Nat
  BY BlenderBridgeAssumption DEF Calls
<1>1. CASE DialOk \/ DialFail \/ Redial
  BY <1>0, <1>1 DEF DialOk, DialFail, Redial
<1>2. CASE Disconnected
  BY <1>2 DEF Disconnected, FailPending
<1>3. CASE Close
  <2>1. /\ UNCHANGED <<phase, sentOn, link, wire>> /\ replies' = {}
        /\ \A c \in Calls : future'[c] = future[c] \/ future'[c] = "lost"
        /\ \A c \in Calls : future[c] = "reply" => future'[c] = "reply"
    BY <1>3 DEF Close, FailPending
  <2>2. QED
    BY <2>1
<1>4. ASSUME NEW c \in Calls, Call(c) PROVE CallsInTurn'
  <2>1. /\ phase[c] = "idle" /\ \A d \in Calls : phase[d] = "idle" => c <= d
        /\ UNCHANGED <<future, wire, replies, link>>
        /\ \A d \in Calls \ {c} : phase'[d] = phase[d] /\ sentOn'[d] = sentOn[d]
        /\ phase'[c] \in {"refused", "sending", "unsent"}
        /\ sentOn'[c] \in {sentOn[c], link}
    BY <1>4 DEF Call, Uncalled
  <2>2. \A d, e \in Calls : e < d /\ phase'[e] = "idle" => phase'[d] = "idle"
    BY <1>0, <2>1
  <2>3. QED
    BY <1>0, <2>1, <2>2
<1>5. ASSUME NEW c \in Calls, Sent(c) PROVE CallsInTurn'
  <2>1. /\ phase[c] = "sending" /\ UNCHANGED <<future, sentOn, replies, link>>
        /\ \A d \in Calls \ {c} : phase'[d] = phase[d] /\ (d \in wire' <=> d \in wire)
        /\ phase'[c] \in {"waiting", "unsent"} /\ (c \in wire' => phase'[c] = "waiting")
    BY <1>5 DEF Sent
  <2>2. QED
    BY <2>1
<1>6. ASSUME NEW c \in Calls, Resume(c) PROVE CallsInTurn'
  BY <1>6 DEF Resume
<1>7. ASSUME NEW c \in Calls, TimeOut(c) PROVE CallsInTurn'
  BY <1>7 DEF TimeOut, TimeOutEffect
<1>8. ASSUME NEW c \in Calls, CancelCall(c) PROVE CallsInTurn'
  BY <1>8 DEF CancelCall, InFlight
<1>9. ASSUME NEW c \in Calls, Receive(c) PROVE CallsInTurn'
  BY <1>9 DEF Receive, TakeReply
<1>10. ASSUME NEW c \in Calls, Reply(c) PROVE CallsInTurn'
  BY <1>10 DEF Reply
<1>11. CASE Break \/ ToggleServer
  BY <1>11 DEF Break, ToggleServer
<1>12. CASE UNCHANGED vars
  BY <1>12 DEF vars
<1>13. QED
  BY <1>1, <1>2, <1>3, <1>4, <1>5, <1>6, <1>7, <1>8, <1>9, <1>10, <1>11, <1>12
  DEF Next, Connection, CallStep

\* That is so before the first call.
LEMMA TurnInit == Init => CallsInTurn
<1> SUFFICES ASSUME Init PROVE CallsInTurn
  OBVIOUS
<1>1. QED
  BY DEF Init, CallsInTurn, Handled, Unsent

\* An open connection has a reader.
OpenIsRead == ws = "open" => reader

\* What a caller was told stays so as the connection goes on.
LEMMA OutcomeStep ==
  ASSUME IInv, CallsInTurn, OpenIsRead, OutcomeIsTrue, [Next]_vars
  PROVE  OpenIsRead' /\ OutcomeIsTrue'
<1> USE DEF IInv, TypeOK, OpenIsRead, OutcomeIsTrue, connection, calls
<1>0. link \in Nat /\ \A c \in Calls : sentOn[c] \in Nat /\ sentOn[c] <= link
  BY BlenderBridgeAssumption DEF CallsInTurn
<1>1. CASE DialOk
  <2>1. /\ ~reader /\ \A c \in Calls : sentOn[c] # link'
        /\ ws' = "open" /\ reader' /\ UNCHANGED <<phase, future, pending, sentOn, replies>>
    BY <1>0, <1>1 DEF DialOk, Dialing, OneOwner
  <2>2. QED
    BY <2>1
<1>2. CASE DialFail \/ Redial \/ ToggleServer
  BY <1>2 DEF DialFail, Redial, ToggleServer
<1>3. CASE Disconnected \/ (Close /\ reader)
  <2>1. /\ UNCHANGED <<phase, sentOn, link>> /\ ws' # "open" /\ ~reader' /\ replies' = {}
        /\ pending' = {}
        /\ \A c \in Calls :
             \/ future'[c] = future[c]
             \/ future[c] = "pending" /\ future'[c] = "lost"
    BY <1>3 DEF Disconnected, Close, FailPending
  <2>2. QED
    BY <2>1
<1>4. CASE Close /\ ~reader
  <2>1. /\ UNCHANGED <<phase, sentOn, link, future, pending>>
        /\ ws' # "open" /\ ~reader' /\ replies' = {}
    BY <1>4 DEF Close
  <2>2. QED
    BY <2>1
<1>5. ASSUME NEW c \in Calls, Call(c) PROVE OpenIsRead' /\ OutcomeIsTrue'
  <2>1. /\ phase[c] = "idle" /\ UNCHANGED <<connection, future, wire, replies>>
        /\ \A d \in Calls \ {c} : /\ phase'[d] = phase[d] /\ sentOn'[d] = sentOn[d]
                                  /\ d \in pending' <=> d \in pending
        /\ phase'[c] \in {"refused", "sending", "unsent"}
        /\ phase'[c] = "unsent" => ws # "open"
    BY <1>5 DEF Call, Uncalled
  <2>2. future[c] = "pending" /\ c \notin replies
    BY <2>1 DEF EntriesAreOpen
  <2>3. QED
    BY <2>1, <2>2
<1>6. ASSUME NEW c \in Calls, Sent(c) PROVE OpenIsRead' /\ OutcomeIsTrue'
  <2>1. /\ phase[c] = "sending" /\ UNCHANGED <<connection, future, pending, sentOn, replies>>
        /\ \A d \in Calls \ {c} : phase'[d] = phase[d]
        /\ phase'[c] \in {"waiting", "unsent"}
        /\ phase'[c] = "unsent" => ~(ws = "open" /\ sentOn[c] = link)
    BY <1>6 DEF Sent
  <2>2. QED
    BY <2>1
<1>7. ASSUME NEW c \in Calls, Resume(c) PROVE OpenIsRead' /\ OutcomeIsTrue'
  <2>1. /\ phase[c] = "waiting" /\ UNCHANGED <<connection, future, pending, sentOn, replies>>
        /\ \A d \in Calls \ {c} : phase'[d] = phase[d]
        /\ \/ future[c] = "reply" /\ phase'[c] = "answered"
           \/ future[c] = "lost" /\ phase'[c] = "lost"
    BY <1>7 DEF Resume
  <2>2. QED
    BY <2>1
<1>8. ASSUME NEW c \in Calls, TimeOut(c) PROVE OpenIsRead' /\ OutcomeIsTrue'
  BY <1>8 DEF TimeOut, TimeOutEffect
<1>9. ASSUME NEW c \in Calls, CancelCall(c) PROVE OpenIsRead' /\ OutcomeIsTrue'
  BY <1>9 DEF CancelCall, InFlight
<1>10. ASSUME NEW c \in Calls, Receive(c) PROVE OpenIsRead' /\ OutcomeIsTrue'
  <2>1. /\ c \in replies /\ UNCHANGED <<connection, phase, sentOn>>
        /\ replies' \subseteq replies /\ pending' \subseteq pending
        /\ \A d \in Calls \ {c} : future'[d] = future[d]
        /\ future'[c] = future[c] \/ (c \in pending /\ future'[c] = "reply")
    BY <1>10 DEF Receive, TakeReply
  <2>2. c \in pending => phase[c] # "timeout"
    OBVIOUS
  <2>3. QED
    BY <2>1, <2>2
<1>11. ASSUME NEW c \in Calls, Reply(c) PROVE OpenIsRead' /\ OutcomeIsTrue'
  <2>1. /\ c \in wire /\ UNCHANGED <<connection, calls>>
        /\ \A d \in Calls \ {c} : d \in replies' <=> d \in replies
        /\ c \in replies' => c \in replies \/ (ws = "open" /\ sentOn[c] = link)
    BY <1>11 DEF Reply
  <2>2. phase[c] \in {"waiting", "answered", "timeout", "cancelled", "lost"}
    BY <2>1 DEF CallsInTurn, Unsent
  <2>3. c \in replies' => reader /\ sentOn[c] = link /\ phase[c] # "lost"
    BY <2>1
  <2>4. QED
    BY <2>1, <2>2, <2>3
<1>12. CASE Break
  <2>1. UNCHANGED <<link, reader, phase, future, pending, sentOn>> /\ replies' \subseteq replies
        /\ ws' = "broken"
    BY <1>12 DEF Break
  <2>2. QED
    BY <2>1
<1>13. CASE UNCHANGED vars
  BY <1>13 DEF vars
<1>14. QED
  BY <1>1, <1>2, <1>3, <1>4, <1>5, <1>6, <1>7, <1>8, <1>9, <1>10, <1>11, <1>12, <1>13
  DEF Next, Connection, CallStep

\* What send_request tells its caller is so: an answer is its own and came over its own
\* connection, and "connection lost" is only told of one that is gone, however losses,
\* late replies, timeouts, cancellations and reconnects interleave.
THEOREM OutcomeIsTrueHolds == Spec => []OutcomeIsTrue
<1>1. Init => OpenIsRead /\ OutcomeIsTrue
  <2> SUFFICES ASSUME Init PROVE OpenIsRead /\ OutcomeIsTrue
    OBVIOUS
  <2>1. QED
    BY DEF Init, OpenIsRead, OutcomeIsTrue
<1> DEFINE Inv == IInv /\ CallsInTurn /\ OpenIsRead /\ OutcomeIsTrue
<1>2. Init => Inv
  BY <1>1, BridgeInit, TurnInit
<1>3. Inv /\ [Next]_vars => Inv'
  BY BridgeStep, TurnStep, OutcomeStep
<1>4. Inv => OutcomeIsTrue
  OBVIOUS
<1> HIDE DEF Inv
<1>5. QED
  BY <1>2, <1>3, <1>4, PTL DEF Spec

\* One task has the connection in hand, whoever waits is reached, and whoever is told is
\* told the truth: what callers of send_request may rely on.
THEOREM CallersAreServedHolds == Spec => []CallersAreServed
  BY OneOwnerHolds, PendingMatchesCallersHolds, OutcomeIsTrueHolds, PTL DEF CallersAreServed

StatusTypeOK ==
  /\ workflow \in {"before", "entering", "body", "leaving", "over"}
  /\ push \in Calls \cup {0}
  /\ text \in [Calls -> {"tool", "show", "clear"}]
  /\ shown \in BOOLEAN

\* The pushes of the block are made one after the other has ended, and the one that
\* clears is the last.
PushesInTurn ==
  /\ workflow = "before" => push = 0
  /\ \A c \in Calls : text[c] # "tool" => c <= push /\ phase[c] # "idle"
  /\ \A c \in Calls : text[c] # "tool" /\ c # push => c \notin InFlight
  /\ \A c \in Calls : text[c] = "clear" => c = push /\ workflow \in {"leaving", "over"}

\* Nothing is shown and nothing is coming that shows anything.
Quiet == ~shown /\ \A d \in wire : text[d] = "tool"

\* Blender has handled the empty status if it was answered, or if it was sent on a
\* connection that still stands and is not on the wire.
ClearsForGood ==
  \A c \in Calls :
    text[c] = "clear" =>
      /\ Handled(c) => Quiet
      /\ phase[c] \in {"waiting", "timeout"} /\ c \notin wire /\ ws = "open" /\ sentOn[c] = link
           => Quiet

StatusInv == StatusTypeOK /\ CallsInTurn /\ PushesInTurn /\ ClearsForGood

\* A new push is the youngest call, and every push before it has ended.
LEMMA PushEffect ==
  ASSUME IInv, StatusInv, PushEnded, NEW t \in {"show", "clear"}, Push(t),
         workflow \in {"before", "body"}
  PROVE  \E c \in Calls :
           /\ Call(c) /\ phase[c] = "idle" /\ push' = c
           /\ text' = [text EXCEPT ![c] = t] /\ shown' = shown
           /\ \A d \in Calls : text[d] # "tool" => d < c /\ d \notin InFlight
           /\ \A d \in Calls : text[d] # "clear"
<1> USE DEF IInv, TypeOK, StatusInv, StatusTypeOK, PushesInTurn
<1>0. Calls \subseteq Nat \ {0}
  BY BlenderBridgeAssumption DEF Calls
<1>1. PICK c \in Calls : Call(c) /\ push' = c /\ text' = [text EXCEPT ![c] = t] /\ shown' = shown
  BY DEF Push
<1>2. phase[c] = "idle"
  BY <1>1 DEF Call, Uncalled
<1>3. \A d \in Calls : text[d] # "tool" => d # c /\ ~(c < d)
  BY <1>2 DEF CallsInTurn
<1>4. \A d \in Calls : text[d] # "tool" => d < c
  BY <1>0, <1>3
<1>5. \A d \in Calls : text[d] # "tool" => d \notin InFlight
  BY <1>0 DEF PushEnded
<1>6. \A d \in Calls : text[d] # "clear"
  OBVIOUS
<1>7. QED
  BY <1>1, <1>2, <1>4, <1>5, <1>6

\* The pushes stay in turn, and what they carry typed.
LEMMA PushStep ==
  ASSUME IInv, StatusInv, [StatusNext]_allVars
  PROVE  StatusTypeOK' /\ PushesInTurn'
<1> USE DEF IInv, TypeOK, StatusInv, StatusTypeOK, PushesInTurn, InFlight, calls
<1>0. Calls \subseteq Nat \ {0}
  BY BlenderBridgeAssumption DEF Calls
<1>1. ASSUME NEW t \in {"show", "clear"}, PushEnded, Push(t), workflow \in {"before", "body"},
             workflow' \in {"entering", "body", "leaving"},
             t = "clear" => workflow' = "leaving"
      PROVE  StatusTypeOK' /\ PushesInTurn'
  <2>1. PICK c \in Calls :
           /\ Call(c) /\ phase[c] = "idle" /\ push' = c
           /\ text' = [text EXCEPT ![c] = t] /\ shown' = shown
           /\ \A d \in Calls : text[d] # "tool" => d < c /\ d \notin InFlight
           /\ \A d \in Calls : text[d] # "clear"
    BY <1>1, PushEffect
  <2>2. \A d \in Calls \ {c} : phase'[d] = phase[d]
    BY <2>1 DEF Call
  <2>3. phase'[c] # "idle"
    BY <2>1 DEF Call
  <2>4. QED
    BY <1>0, <1>1, <2>1, <2>2, <2>3
<1>2. CASE Enter \/ SetStatus \/ Leave
  <2>1. CASE Enter
    <3>1. PushEnded
      BY <2>1, <1>0 DEF Enter, PushEnded
    <3>2. QED
      BY <1>1, <2>1, <3>1 DEF Enter
  <2>2. CASE SetStatus
    BY <1>1, <2>2 DEF SetStatus
  <2>3. CASE Leave
    BY <1>1, <2>3 DEF Leave
  <2>4. QED
    BY <1>2, <2>1, <2>2, <2>3
<1>3. CASE Entered \/ Left
  BY <1>3 DEF Entered, Left, vars
<1>4. CASE UNCHANGED tracking /\ \A c \in Calls : /\ phase[c] # "idle" => phase'[c] # "idle"
                                                  /\ text[c] # "tool" /\ c \in InFlight'
                                                       => c \in InFlight
  BY <1>4 DEF tracking
<1>5. CASE ToolCall
  BY <1>4, <1>5 DEF ToolCall, Call, Uncalled
<1>6. ASSUME NEW c \in Calls, Handle(c) PROVE StatusTypeOK' /\ PushesInTurn'
  BY <1>6 DEF Handle, Reply
<1>7. CASE Elsewhere
  <2> DEFINE Settling == \A c \in Calls : /\ phase[c] # "idle" => phase'[c] # "idle"
                                          /\ c \in InFlight' => c \in InFlight
  <2>1. ASSUME UNCHANGED phase
        PROVE  Settling
    BY <2>1
  <2>2. ASSUME Connection \/ Break \/ ToggleServer
        PROVE  Settling
    <3>1. UNCHANGED phase
      BY <2>2 DEF Connection, DialOk, DialFail, Redial, Disconnected, Close, FailPending,
                  Break, ToggleServer
    <3>2. QED
      BY <2>1, <3>1
  <2>3. ASSUME NEW c \in Calls,
               Sent(c) \/ Resume(c) \/ TimeOut(c) \/ CancelCall(c) \/ Receive(c)
        PROVE  Settling
    <3>1. CASE Sent(c) BY <3>1 DEF Sent
    <3>2. CASE Resume(c) BY <3>2 DEF Resume
    <3>3. CASE TimeOut(c) BY <3>3 DEF TimeOut, TimeOutEffect
    <3>4. CASE CancelCall(c) BY <3>4 DEF CancelCall
    <3>5. CASE Receive(c) BY <3>5 DEF Receive
    <3>6. QED
      BY <2>3, <3>1, <3>2, <3>3, <3>4, <3>5
  <2>4. Settling /\ UNCHANGED tracking
    BY <1>7, <2>2, <2>3 DEF Elsewhere
  <2>5. QED
    BY <1>4, <2>4
<1>8. CASE UNCHANGED allVars
  BY <1>8 DEF allVars, vars, tracking
<1>9. QED
  BY <1>2, <1>3, <1>5, <1>6, <1>7, <1>8 DEF StatusNext, Track

\* What was cleared stays so.
LEMMA ClearStep ==
  ASSUME IInv, StatusInv, CallsInTurn', [StatusNext]_allVars
  PROVE  ClearsForGood'
<1> USE DEF IInv, TypeOK, StatusInv, StatusTypeOK, CallsInTurn, ClearsForGood, Quiet, Handled,
            Unsent, connection, calls, tracking
<1>0. Calls \subseteq Nat \ {0} /\ link \in Nat /\ \A c \in Calls : sentOn[c] \in Nat
  BY BlenderBridgeAssumption DEF Calls
<1>1. CASE Enter \/ SetStatus
  <2>1. PushEnded /\ Push("show") /\ workflow \in {"before", "body"}
    BY <1>0, <1>1 DEF Enter, SetStatus, PushEnded, PushesInTurn
  <2>2. \A c \in Calls : text'[c] # "clear"
    BY <2>1, PushEffect
  <2>3. QED
    BY <2>2
<1>2. CASE Leave
  <2>1. PushEnded /\ Push("clear") /\ workflow \in {"before", "body"}
    BY <1>2 DEF Leave
  <2>2. PICK c \in Calls : Call(c) /\ phase[c] = "idle" /\ text' = [text EXCEPT ![c] = "clear"]
                           /\ \A d \in Calls : text[d] # "clear"
    BY <2>1, PushEffect
  <2>3. phase'[c] \in {"refused", "sending", "unsent"}
    BY <2>2 DEF Call
  <2>4. ~Handled(c)'
    BY <2>3
  <2>5. \A d \in Calls : text'[d] = "clear" => d = c
    BY <2>2
  <2>6. QED
    BY <2>3, <2>4, <2>5
<1>3. CASE Entered \/ Left
  BY <1>3 DEF Entered, Left, vars
<1>4. ASSUME NEW c \in Calls, Handle(c) PROVE ClearsForGood'
  <2>1. /\ c \in wire /\ wire' = wire \ {c} /\ UNCHANGED <<phase, future, ws, link, sentOn, text>>
        /\ replies' \subseteq replies \cup {c}
    BY <1>4 DEF Handle, Reply
  <2>2. CASE text[c] = "clear"
    <3>1. shown' = FALSE
      BY <1>4, <2>2 DEF Handle
    <3>2. \A d \in wire : text[d] # "tool" => c <= d
      BY <1>4, <2>2 DEF Handle
    <3>3. \A d \in wire : text[d] # "tool" => d <= push /\ c = push
      BY <2>2 DEF PushesInTurn
    <3>4. \A d \in wire' : text'[d] = "tool"
      BY <1>0, <2>1, <3>2, <3>3
    <3>5. QED
      BY <3>1, <3>4
  <2>3. CASE text[c] # "clear"
    <3> SUFFICES ASSUME NEW d \in Calls, text[d] = "clear",
                        \/ Handled(d)'
                        \/ /\ phase[d] \in {"waiting", "timeout"} /\ d \notin wire'
                           /\ ws = "open" /\ sentOn[d] = link
                 PROVE  Quiet'
      BY <2>1
    <3>1. d # c
      BY <2>3
    <3>2. \/ Handled(d)
          \/ /\ phase[d] \in {"waiting", "timeout"} /\ d \notin wire
             /\ ws = "open" /\ sentOn[d] = link
      BY <2>1, <3>1
    <3>3. Quiet
      BY <3>2
    <3>4. text[c] = "tool"
      BY <2>1, <3>3
    <3>5. shown' = shown
      BY <1>4, <3>4 DEF Handle
    <3>6. QED
      BY <2>1, <3>3, <3>5
  <2>4. QED
    BY <2>2, <2>3
<1>5. ASSUME UNCHANGED tracking, wire' \subseteq wire,
             \A c \in Calls : text[c] = "clear" /\ Handled(c)' => Handled(c),
             \A c \in Calls : /\ text[c] = "clear" /\ phase'[c] \in {"waiting", "timeout"}
                              /\ c \notin wire' /\ ws' = "open" /\ sentOn'[c] = link'
                                => /\ phase[c] \in {"waiting", "timeout"} /\ c \notin wire
                                   /\ ws = "open" /\ sentOn[c] = link
      PROVE  ClearsForGood'
  BY <1>5
<1>6. ASSUME NEW c \in Calls, Sent(c), UNCHANGED tracking PROVE ClearsForGood'
  <2>1. CASE text[c] = "clear"
    <3>1. /\ UNCHANGED <<future, replies, sentOn, link, ws>> /\ phase[c] = "sending"
          /\ phase'[c] \in {"waiting", "unsent"} /\ (phase'[c] = "waiting" => c \in wire')
      BY <1>6 DEF Sent
    <3>2. ~Handled(c)
      BY <3>1
    <3>3. \A d \in Calls : text[d] = "clear" => d = c
      BY <2>1 DEF PushesInTurn
    <3>4. QED
      BY <1>6, <3>1, <3>2, <3>3
  <2>2. CASE text[c] # "clear"
    <3>1. /\ UNCHANGED <<future, replies, sentOn, link, ws>> /\ phase[c] = "sending"
          /\ \A d \in Calls \ {c} : phase'[d] = phase[d] /\ (d \in wire' <=> d \in wire)
          /\ wire' \subseteq wire \cup {c}
      BY <1>6 DEF Sent
    <3>2. (\E d \in Calls : text[d] = "clear") => text[c] = "tool"
      BY <2>2, <3>1 DEF PushesInTurn, InFlight
    <3>3. Quiet /\ text[c] = "tool" => Quiet'
      BY <1>6, <3>1
    <3>4. ASSUME NEW d \in Calls, text[d] = "clear",
                 \/ Handled(d)'
                 \/ /\ phase'[d] \in {"waiting", "timeout"} /\ d \notin wire'
                    /\ ws' = "open" /\ sentOn'[d] = link'
          PROVE  Quiet'
      <4>1. \/ Handled(d)
            \/ /\ phase[d] \in {"waiting", "timeout"} /\ d \notin wire
               /\ ws = "open" /\ sentOn[d] = link
        BY <2>2, <3>1, <3>4
      <4>2. QED
        BY <3>2, <3>3, <3>4, <4>1
    <3>5. text' = text
      BY <1>6
    <3>6. QED
      BY <3>4, <3>5
  <2>3. QED
    BY <2>1, <2>2
<1>7. CASE ToolCall
  <2>1. PICK c \in Calls : Call(c) /\ UNCHANGED tracking
    BY <1>7 DEF ToolCall
  <2>2. /\ phase[c] = "idle" /\ UNCHANGED <<future, replies, wire, link, ws>>
        /\ \A d \in Calls \ {c} : phase'[d] = phase[d] /\ sentOn'[d] = sentOn[d]
        /\ phase'[c] \in {"refused", "sending", "unsent"}
    BY <2>1 DEF Call, Uncalled
  <2>3. QED
    BY <1>5, <2>1, <2>2
<1>8. CASE Elsewhere
  <2>0. UNCHANGED tracking
    BY <1>8 DEF Elsewhere
  <2>1. CASE DialOk \/ DialFail \/ Redial
    <3>1. UNCHANGED <<phase, future, sentOn, wire, replies>>
          /\ ((ws' = ws /\ link' = link) \/ link' = link + 1)
      BY <2>1 DEF DialOk, DialFail, Redial
    <3>2. \A c \in Calls : sentOn[c] <= link
      OBVIOUS
    <3>3. QED
      BY <1>0, <1>5, <2>0, <3>1, <3>2
  <2>2. CASE Disconnected
    BY <1>5, <2>0, <2>2 DEF Disconnected, FailPending
  <2>3. CASE Close
    <3>1. ws' # "open" /\ replies' = {} /\ wire' = wire
          /\ \A c \in Calls : future'[c] = "reply" => future[c] = "reply"
      BY <2>3 DEF Close, FailPending
    <3>2. QED
      BY <1>5, <2>0, <3>1
  <2>4. ASSUME NEW c \in Calls, Sent(c) PROVE ClearsForGood'
    BY <1>6, <2>0, <2>4
  <2>5. ASSUME NEW c \in Calls, Resume(c) PROVE ClearsForGood'
    BY <1>5, <2>0, <2>5 DEF Resume
  <2>6. ASSUME NEW c \in Calls, TimeOut(c) PROVE ClearsForGood'
    BY <1>5, <2>0, <2>6 DEF TimeOut, TimeOutEffect
  <2>7. ASSUME NEW c \in Calls, CancelCall(c) PROVE ClearsForGood'
    BY <1>5, <2>0, <2>7 DEF CancelCall
  <2>8. ASSUME NEW c \in Calls, Receive(c) PROVE ClearsForGood'
    BY <1>5, <2>0, <2>8 DEF Receive, TakeReply
  <2>9. CASE Break
    BY <1>5, <2>0, <2>9 DEF Break
  <2>10. CASE ToggleServer
    BY <1>5, <2>0, <2>10 DEF ToggleServer
  <2>11. QED
    BY <1>8, <2>1, <2>2, <2>3, <2>4, <2>5, <2>6, <2>7, <2>8, <2>9, <2>10
    DEF Elsewhere, Connection
<1>9. CASE UNCHANGED allVars
  BY <1>5, <1>9 DEF allVars, vars
<1>10. QED
  BY <1>1, <1>2, <1>3, <1>4, <1>7, <1>8, <1>9 DEF StatusNext, Track

\* The invariant of a tracked workflow: its pushes are in turn, and the last one, once
\* handled, leaves nothing behind.
THEOREM StatusInvariant == StatusSpec => [](IInv /\ StatusInv)
<1>1. StatusInit => IInv /\ StatusInv
  <2> SUFFICES ASSUME StatusInit PROVE StatusInv
    BY BridgeInit DEF StatusInit
  <2>1. 0 \in Nat /\ Calls \subseteq Nat /\ link = 0
    BY BlenderBridgeAssumption DEF Calls, StatusInit, Init
  <2>2. CallsInTurn
    BY <2>1 DEF StatusInit, Init, CallsInTurn, Handled, Unsent
  <2>3. StatusTypeOK /\ PushesInTurn /\ ClearsForGood
    BY DEF StatusInit, Init, StatusTypeOK, PushesInTurn, ClearsForGood
  <2>4. QED
    BY <2>2, <2>3 DEF StatusInv
<1>2. IInv /\ StatusInv /\ [StatusNext]_allVars => IInv' /\ StatusInv'
  <2> SUFFICES ASSUME IInv, StatusInv, [StatusNext]_allVars PROVE IInv' /\ StatusInv'
    OBVIOUS
  <2>1. [Next]_vars
    BY StatusStep
  <2>2. IInv' /\ CallsInTurn'
    BY <2>1, BridgeStep, TurnStep DEF StatusInv
  <2>3. StatusTypeOK' /\ PushesInTurn'
    BY PushStep
  <2>4. ClearsForGood'
    BY <2>2, ClearStep
  <2>5. QED
    BY <2>2, <2>3, <2>4 DEF StatusInv
<1>3. QED
  BY <1>1, <1>2, PTL DEF StatusSpec

\* However slow Blender is and however the pushes time out, a status is shown after the
\* block has pushed the empty one only while that push is under way, or if it was lost
\* with its connection or never sent: nothing older is written over it.
THEOREM ShownOnlyUntilClearedHolds == StatusSpec => []ShownOnlyUntilCleared
<1>1. IInv /\ StatusInv => ShownOnlyUntilCleared
  BY DEF IInv, TypeOK, StatusInv, CallsInTurn, ClearsForGood, Quiet, Handled,
         ShownOnlyUntilCleared
<1>2. QED
  BY <1>1, StatusInvariant, PTL
===========================================================================
