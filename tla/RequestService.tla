-------------------------- MODULE RequestService --------------------------
(***************************************************************************)
(* What the bridge promises the client that sends a tool request: the tool *)
(* runs at most once, one request at a time and in the order the requests  *)
(* came; a result is sent only after the tool ended, a refusal only if the *)
(* tool will never run, and a timeout says nothing of the two.             *)
(***************************************************************************)
EXTENDS Naturals

CONSTANT MaxRequests  \* bound: how many requests arrive

Requests == 1..MaxRequests

VARIABLES
  work,  \* what became of the request in Blender
  reply  \* what the client was told

vars == <<work, reply>>

Work  == {"absent", "accepted", "running", "ran", "dropped"}
Reply == {"none", "result", "refused", "timeout"}

TypeOK == work \in [Requests -> Work] /\ reply \in [Requests -> Reply]

Init ==
  /\ work = [r \in Requests |-> "absent"]
  /\ reply = [r \in Requests |-> "none"]

In(w) == {r \in Requests : work[r] = w}

Become(r, w) == work' = [work EXCEPT ![r] = w] /\ UNCHANGED reply

Accept == \E r \in In("absent") : r - 1 \notin In("absent") /\ Become(r, "accepted")

Start ==
  /\ In("running") = {}
  /\ \E r \in In("accepted") :
       /\ \A q \in In("accepted") : r <= q
       /\ Become(r, "running")

Finish == \E r \in In("running") : Become(r, "ran")

Drop == \E r \in In("accepted") : Become(r, "dropped")

Tell ==
  \E r \in Requests, x \in Reply :
    /\ reply[r] = "none"
    /\ work[r] # "absent"
    /\ x = "result" => work[r] = "ran"
    /\ x = "refused" => work[r] = "dropped"
    /\ reply' = [reply EXCEPT ![r] = x]
    /\ UNCHANGED work

Next == Accept \/ Start \/ Finish \/ Drop \/ Tell

Spec == Init /\ [][Next]_vars
---------------------------------------------------------------------------
(* What a client may rely on.                                              *)

\* Requests come and are served in one order: when one runs or has run, every
\* request before it has run or never will.
EarlierRequestsAreOver ==
  \A q, r \in Requests :
    q < r => /\ work[r] # "absent" => work[q] # "absent"
             /\ work[r] \in {"running", "ran"} => work[q] \in {"ran", "dropped"}

\* A result is of a tool that ended, a refusal of a request that was dropped.
WhatIsToldIsSo ==
  \A r \in Requests : /\ reply[r] = "result" => work[r] = "ran"
                      /\ reply[r] = "refused" => work[r] = "dropped"
===========================================================================
