--------------------------- MODULE ClientStatus ---------------------------
(***************************************************************************)
(* The status line a workflow of the MCP server shows in Blender: track()  *)
(* and _push() in mcp_server/src/mcp_blender/client_status.py over the     *)
(* connection of BlenderBridge, and set_client_status in                   *)
(* src/extension/bridge/server.py and dispatch.py, which Blender's event   *)
(* loop handles at once and in the order the messages arrive.  Other tool  *)
(* calls share the connection.  Blender itself keeps running.              *)
(***************************************************************************)
EXTENDS BlenderBridge

VARIABLES
  workflow,  \* where the `async with track(...)` block is
  push,      \* the call of the last _push, 0 before it
  text,      \* what each call carries: a tool request, a status, an empty status
  shown      \* _client_status in Blender: is a status shown?

tracking == <<workflow, push, text, shown>>
allVars  == <<vars, tracking>>

StatusInit ==
  /\ Init
  /\ workflow = "before" /\ push = 0
  /\ text = [c \in Calls |-> "tool"]
  /\ shown = FALSE
---------------------------------------------------------------------------
\* _push is awaited: the block goes on when its call has ended in any way.
PushEnded == push = 0 \/ push \notin InFlight

Push(t) ==
  \E c \in Calls :
    /\ Call(c)
    /\ push' = c
    /\ text' = [text EXCEPT ![c] = t]
    /\ UNCHANGED shown

ToolCall == \E c \in Calls : Call(c) /\ UNCHANGED tracking

Enter == workflow = "before" /\ Push("show") /\ workflow' = "entering"

\* The first push is before the try: if it is cancelled, nothing is cleared.
Entered ==
  /\ workflow = "entering" /\ PushEnded
  /\ workflow' = IF phase[push] = "cancelled" THEN "over" ELSE "body"
  /\ UNCHANGED <<vars, push, text, shown>>

SetStatus == workflow = "body" /\ PushEnded /\ Push("show") /\ UNCHANGED workflow

\* Fault: the status is not cleared when the block is left.
LeaveOnly ==
  /\ workflow = "body" /\ PushEnded
  /\ workflow' = "leaving"
  /\ UNCHANGED <<vars, push, text, shown>>

\* The block ends, raises or is cancelled: the finally pushes None.
Leave == workflow = "body" /\ PushEnded /\ Push("clear") /\ workflow' = "leaving"

Left ==
  /\ workflow = "leaving" /\ PushEnded
  /\ workflow' = "over"
  /\ UNCHANGED <<vars, push, text, shown>>

\* Fault: status messages are handled by whichever thread comes first.
HandleInAnyOrder(c) ==
  /\ Reply(c)
  /\ shown' = CASE text[c] = "show" -> TRUE
                [] text[c] = "clear" -> FALSE
                [] OTHER -> shown
  /\ UNCHANGED <<workflow, push, text>>

\* Blender handles a request; a status is written before the answer is sent.
Handle(c) ==
  /\ Reply(c)
  /\ text[c] # "tool" => \A d \in wire : text[d] # "tool" => c <= d
  /\ shown' = CASE text[c] = "show" -> TRUE
                [] text[c] = "clear" -> FALSE
                [] OTHER -> shown
  /\ UNCHANGED <<workflow, push, text>>

Elsewhere ==
  /\ \/ Connection
     \/ \E c \in Calls : Sent(c) \/ Resume(c) \/ TimeOut(c) \/ CancelCall(c) \/ Receive(c)
     \/ Break \/ ToggleServer
  /\ UNCHANGED tracking

Track == Enter \/ Entered \/ SetStatus \/ Leave \/ Left

StatusNext == Elsewhere \/ ToolCall \/ Track \/ \E c \in Calls : Handle(c)

\* A block that waits for a push goes on when the push has ended.
StatusSpec ==
  /\ StatusInit /\ [][StatusNext]_allVars
  /\ Fairness
  /\ WF_allVars(Entered) /\ WF_allVars(Left)
---------------------------------------------------------------------------
(* Properties.                                                             *)

\* A status that is still shown after the block has pushed the empty one was not
\* written over it: the empty status is still on its way, or was never sent, or the
\* connection it was sent on is gone.  An answer to that push means it was cleared.
ShownOnlyUntilCleared ==
  \A c \in Calls :
    text[c] = "clear" /\ shown =>
      /\ phase[c] # "answered"
      /\ phase[c] \in {"waiting", "timeout"} =>
           c \in wire \/ ws # "open" \/ sentOn[c] # link

(* What is sent arrives, unless the connection breaks, and is handled.      *)
BlenderFairness == \A c \in Calls : WF_vars(Sent(c)) /\ WF_allVars(Handle(c))

\* track: "Always clears the status on exit, including on an exception or an early
\* return, so a crash mid-workflow can't leave a stale message stuck in the status
\* bar forever".
StatusIsCleared == BlenderFairness => (workflow = "leaving" ~> ~shown)

\* That holds while the connection is not lost and no push is cancelled, even if
\* Blender is so slow that every push times out.
OrderlyExitClears ==
  /\ [](ws # "broken")
  /\ \A c \in Calls : [](phase[c] # "cancelled")
  => StatusIsCleared
===========================================================================
