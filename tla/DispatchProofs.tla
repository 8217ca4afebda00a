-------------------------- MODULE DispatchProofs --------------------------
(***************************************************************************)
(* Theorems about Dispatch: type correctness, the inductive invariant, and *)
(* what follows from it for the client that sent a request.                *)
(***************************************************************************)
EXTENDS Dispatch, TLAPS

(* What the operators on the queue of requests do to it.                   *)

\* Putting a request at the end keeps the ones before it (dispatch.enqueue).
LEMMA AppendElements ==
  ASSUME NEW S, NEW s \in Seq(S), NEW x \in S
  PROVE  /\ Append(s, x) \in Seq(S)
         /\ Len(Append(s, x)) = Len(s) + 1
         /\ \A i \in 1..Len(s) : Append(s, x)[i] = s[i]
         /\ Append(s, x)[Len(s) + 1] = x
  OBVIOUS

\* Taking the first request leaves the others in their order (get_nowait).
LEMMA TailElements ==
  ASSUME NEW S, NEW s \in Seq(S), s # <<>>
  PROVE  /\ Tail(s) \in Seq(S)
         /\ Head(s) \in S /\ Head(s) = s[1]
         /\ Len(s) \in Nat \ {0}
         /\ Len(Tail(s)) = Len(s) - 1
         /\ \A i \in 1..Len(Tail(s)) : Tail(s)[i] = s[i + 1]
  OBVIOUS

\* A future stays what it is unless it is pending (set_result and cancel are
\* both guarded by it).
LEMMA FuturesAreFinal ==
  ASSUME TypeOK, [Next]_vars, NEW r \in Requests, future[r] # "pending"
  PROVE  future'[r] = future[r]
<1> USE DEF TypeOK
<1>1. CASE \E q \in Requests : Answer(q)
  BY <1>1 DEF Answer, Deliver, TimeOut, CancelFutures
<1>2. CASE \E c \in Clients : Disconnect(c)
  BY <1>2 DEF Disconnect, CancelTasks, CancelFutures
<1>3. CASE Refuse \/ Finish
  BY <1>3 DEF Refuse, Finish, Finished, Resolve
<1>4. CASE UNCHANGED future
  BY <1>4
<1>5. QED
  BY <1>1, <1>2, <1>3, <1>4
     DEF Next, Drain, Lifecycle, Connect, Receive, Take, DrainEnd, Begin, Clear,
         Unregister, StopServer, Register, vars
---------------------------------------------------------------------------
(* TypeOK is not inductive alone: Begin adds the request in hand to begun.  *)
ItemInHand == drain \in {"item", "tool"} => item \in Requests

Typed == TypeOK /\ ItemInHand

\* Every step keeps the types, and the item in hand a request.
LEMMA TypeStep ==
  ASSUME Typed, [Next]_vars
  PROVE  Typed'
<1> USE DEF Typed, ItemInHand, TypeOK, main, Results, Outcomes, Refusals
<1>1. CASE Connect
  BY <1>1 DEF Connect
<1>2. CASE Receive
  <2>1. Len(info) \in Nat /\ Len(info) < MaxRequests
    BY <1>2 DEF Receive
  <2>2. PICK c \in conns, known \in BOOLEAN :
          info' = Append(info, [client |-> c, known |-> known, generation |-> generation])
    BY <1>2 DEF Receive
  <2>3. info' \in Seq(Info) /\ Len(info') = Len(info) + 1
    <3>1. [client |-> c, known |-> known, generation |-> generation] \in Info
      BY DEF Info
    <3>2. QED
      BY <2>2, <3>1, AppendElements, SMT
  <2>4. Len(info') \in Requests
    BY <2>1, <2>3, DispatchAssumption DEF Requests
  <2>5. queue' \in Seq(Requests)
    BY <1>2, <2>4 DEF Receive
  <2>6. Len(info') <= MaxRequests
    BY <2>1, <2>3, DispatchAssumption
  <2>7. QED
    BY <1>2, <2>3, <2>4, <2>5, <2>6 DEF Receive
<1>3. ASSUME NEW r \in Requests, Answer(r) PROVE Typed'
  BY <1>3 DEF Answer, Deliver, TimeOut, CancelFutures
<1>4. ASSUME NEW c \in Clients, Disconnect(c) PROVE Typed'
  BY <1>4 DEF Disconnect, CancelTasks, CancelFutures
<1>5. CASE Take
  <2>1. queue' \in Seq(Requests) /\ Head(queue) \in Requests
    BY <1>5, TailElements DEF Take
  <2>2. QED
    BY <1>5, <2>1 DEF Take
<1>6. CASE DrainEnd
  BY <1>6 DEF DrainEnd
<1>7. CASE Refuse
  <2>1. PICK old \in BOOLEAN : Verdict(item, old) # "run" /\ Resolve(item, Verdict(item, old))
    BY <1>7 DEF Refuse
  <2>2. Verdict(item, old) \in Refusals
    BY <2>1 DEF Verdict
  <2>3. future' \in [Requests -> Results \cup {"pending", "cancelled"}]
    BY <2>1, <2>2 DEF Resolve
  <2>4. UNCHANGED <<generation, addon, conns, info, queue, waiting, answer, current, begun>>
    BY <1>7 DEF Refuse
  <2>5. drain' = "loop" /\ item' = None
    BY <1>7 DEF Refuse
  <2>6. QED
    BY <2>3, <2>4, <2>5
<1>8. CASE Begin
  BY <1>8 DEF Begin
<1>9. CASE Finish \/ Clear
  BY <1>9 DEF Finish, Finished, Resolve, Clear
<1>10. CASE Unregister
  BY <1>10 DEF Unregister
<1>11. CASE StopServer
  BY <1>11 DEF StopServer
<1>12. CASE Register
  BY <1>12 DEF Register
<1>13. CASE UNCHANGED vars
  BY <1>13 DEF vars
<1>14. QED
  BY <1>1, <1>2, <1>3, <1>4, <1>5, <1>6, <1>7, <1>8, <1>9, <1>10, <1>11, <1>12, <1>13
     DEF Next, Drain, Lifecycle

\* The dispatch starts with its variables in their types.
LEMMA TypeInit == Init => Typed
  BY DispatchAssumption DEF Init, Typed, ItemInHand, TypeOK

\* The variables of the server task, the queue and the drain loop keep their
\* types, whatever clients, timeouts, tools and reloads do.
THEOREM TypeCorrect == Spec => []TypeOK
<1>1. Spec => []Typed
  BY TypeInit, TypeStep, PTL DEF Spec
<1>2. Typed => TypeOK
  BY DEF Typed
<1>3. QED
  BY <1>1, <1>2, PTL
---------------------------------------------------------------------------
(* The inductive invariant.                                                *)

Made == 1..Len(info)

\* The queue holds requests in the order they came, none of them begun, none of
\* them in hand; what is in hand came before them.
InOrder ==
  /\ \A i, j \in 1..Len(queue) : i < j => queue[i] < queue[j]
  /\ \A i \in 1..Len(queue) :
       queue[i] \in Made /\ item < queue[i] /\ \A b \in begun : b < queue[i]
  /\ item \in Made \cup {None} /\ (item # None <=> drain \in {"item", "tool"})
  /\ drain = "item" => \A b \in begun : b < item
  /\ drain = "tool" => item \in begun

\* Nothing is known of a request that was not made, an answered request is not
\* waited for, and no request is from a later load of the add-on than this.
Accounted ==
  /\ begun \subseteq Made /\ waiting \subseteq Made
  /\ \A r \in Requests \ Made : future[r] = "pending" /\ answer[r] = "none"
  /\ \A r \in waiting : answer[r] = "none"
  /\ \A r \in Made : info[r].generation <= generation

IInv ==
  /\ Typed /\ InOrder /\ Accounted
  /\ StatusIsTruthful /\ NoWaiterIsLost /\ RefusedNeverRuns /\ AnswersAreTrue

\* The inductive invariant holds before the first client connects.
LEMMA InvariantInit == Init => IInv
<1> SUFFICES ASSUME Init PROVE IInv
  OBVIOUS
<1> USE DEF Init
<1>1. Typed
  BY TypeInit
<1>2. InOrder /\ Accounted
  BY DEF InOrder, Accounted, Made, None
<1>3. StatusIsTruthful /\ NoWaiterIsLost
  BY DEF StatusIsTruthful, NoWaiterIsLost
<1>4. RefusedNeverRuns /\ AnswersAreTrue
  BY DEF RefusedNeverRuns, AnswersAreTrue, Results, Outcomes, Refusals
<1>5. QED
  BY <1>1, <1>2, <1>3, <1>4 DEF IInv

\* What receiving a request does (dispatch.enqueue).
LEMMA ReceiveEffect ==
  ASSUME TypeOK, Receive
  PROVE  /\ Len(info) \in Nat /\ Len(info') = Len(info) + 1
         /\ Len(info') \in Requests
         /\ \A i \in Made : info'[i] = info[i]
         /\ info'[Len(info')].generation = generation
         /\ info'[Len(info')].client \in conns
         /\ Len(queue) \in Nat /\ Len(queue') = Len(queue) + 1
         /\ \A i \in 1..Len(queue) : queue'[i] = queue[i]
         /\ queue'[Len(queue')] = Len(info')
         /\ InQueue' = InQueue \cup {Len(info')}
<1> USE DEF TypeOK
<1>1. Len(info) \in Nat /\ Len(info) < MaxRequests /\ conns \subseteq Clients
  BY DEF Receive
<1>2. PICK c \in conns, known \in BOOLEAN :
        info' = Append(info, [client |-> c, known |-> known, generation |-> generation])
  BY DEF Receive
<1> DEFINE m == [client |-> c, known |-> known, generation |-> generation]
<1>3. m \in Info
  BY <1>1 DEF Info
<1>4. /\ Len(info') = Len(info) + 1 /\ info'[Len(info) + 1] = m
      /\ \A i \in 1..Len(info) : info'[i] = info[i]
  <2> HIDE DEF m
  <2>1. info \in Seq(Info) /\ info' = Append(info, m)
    BY <1>2 DEF m
  <2>2. QED
    BY <1>3, <2>1, AppendElements
<1>5. Len(info') \in Requests
  BY <1>1, <1>4, DispatchAssumption DEF Requests
<1>6. /\ Len(queue') = Len(queue) + 1
      /\ queue'[Len(queue) + 1] = Len(info')
      /\ \A i \in 1..Len(queue) : queue'[i] = queue[i]
  <2>1. queue' = Append(queue, Len(info')) /\ queue \in Seq(Requests)
    BY DEF Receive
  <2>2. QED
    BY <1>5, <2>1, AppendElements
<1>7. Len(queue) \in Nat /\ DOMAIN queue = 1..Len(queue) /\ DOMAIN queue' = 1..(Len(queue) + 1)
  <2>1. queue' \in Seq(Requests)
    BY <1>5, AppendElements DEF Receive
  <2>2. QED
    BY <1>6, <2>1
<1>8. InQueue' = InQueue \cup {Len(info')}
  <2>1. 1..(Len(queue) + 1) = (1..Len(queue)) \cup {Len(queue) + 1}
    BY <1>7
  <2>2. QED
    BY <1>6, <1>7, <2>1 DEF InQueue
<1>9. QED
  BY <1>1, <1>2, <1>4, <1>5, <1>6, <1>7, <1>8 DEF Made

\* What popping a request does.
LEMMA TakeEffect ==
  ASSUME TypeOK, InOrder, Take
  PROVE  /\ Head(queue) \in Requests /\ Head(queue) = queue[1]
         /\ Len(queue) \in Nat \ {0} /\ Len(queue') = Len(queue) - 1
         /\ \A i \in 1..Len(queue') : queue'[i] = queue[i + 1]
         /\ InQueue = InQueue' \cup {Head(queue)}
         /\ Head(queue) \notin InQueue'
<1> USE DEF TypeOK
<1>1. queue \in Seq(Requests) /\ queue # <<>> /\ queue' = Tail(queue)
  BY DEF Take
<1>2. /\ queue' \in Seq(Requests)
      /\ Head(queue) \in Requests /\ Head(queue) = queue[1]
      /\ Len(queue) \in Nat \ {0}
      /\ Len(queue') = Len(queue) - 1
      /\ \A i \in 1..Len(queue') : queue'[i] = queue[i + 1]
  BY <1>1, TailElements
<1>3. DOMAIN queue = 1..Len(queue) /\ DOMAIN queue' = 1..Len(queue')
  BY <1>1, <1>2
<1>4. Head(queue) \notin InQueue'
  <2>1. ASSUME NEW i \in 1..Len(queue') PROVE queue'[i] # Head(queue)
    <3>1. queue[1] < queue[i + 1] /\ i + 1 \in 1..Len(queue)
      BY <1>2 DEF InOrder
    <3>2. queue[1] \in Nat
      BY <1>2, DispatchAssumption DEF Requests
    <3>3. QED
      BY <1>2, <3>1, <3>2
  <2>2. QED
    BY <1>3, <2>1 DEF InQueue
<1>5. InQueue = InQueue' \cup {Head(queue)}
  <2>1. ASSUME NEW x \in InQueue, x # Head(queue) PROVE x \in InQueue'
    <3>1. PICK i \in 1..Len(queue) : x = queue[i]
      BY <1>3 DEF InQueue
    <3>2. i - 1 \in 1..Len(queue') /\ queue'[i - 1] = queue[i]
      <4>1. i # 1
        BY <1>2, <2>1, <3>1
      <4>2. i - 1 \in 1..Len(queue') /\ (i - 1) + 1 = i
        BY <1>2, <3>1, <4>1
      <4>3. QED
        BY <1>2, <4>2
    <3>3. QED
      BY <1>3, <3>1, <3>2 DEF InQueue
  <2>2. ASSUME NEW x \in InQueue' PROVE x \in InQueue
    <3>1. PICK i \in 1..Len(queue') : x = queue'[i]
      BY <1>3 DEF InQueue
    <3>2. i + 1 \in 1..Len(queue) /\ x = queue[i + 1]
      BY <1>2, <3>1
    <3>3. QED
      BY <1>3, <3>2 DEF InQueue
  <2>3. Head(queue) \in InQueue
    BY <1>2, <1>3 DEF InQueue
  <2>4. QED
    BY <2>1, <2>2, <2>3
<1>6. QED
  BY <1>2, <1>4, <1>5

\* Receiving appends the newest request, taking removes the oldest: the
\* queue stays in arrival order and behind the item in hand.
LEMMA InOrderStep ==
  ASSUME IInv, [Next]_vars
  PROVE  InOrder'
<1> USE DEF IInv, Typed, ItemInHand, TypeOK, None
<1>0. /\ Requests \subseteq Nat \ {0} /\ Len(info) \in Nat /\ Len(queue) \in Nat
      /\ Made \subseteq Nat \ {0}
  BY DispatchAssumption DEF Requests, Made
<1>1. CASE Receive
  <2>1. UNCHANGED <<begun, item, drain>>
    BY <1>1 DEF Receive, main
  <2>2. Made' = Made \cup {Len(info')} /\ Len(info') \notin Made
    BY <1>0, <1>1, ReceiveEffect, SMTT(30) DEF Made
  <2>3. \A x \in Made : x < Len(info')
    BY <1>0, <1>1, ReceiveEffect DEF Made
  <2>4. 1..Len(queue') = (1..Len(queue)) \cup {Len(queue')}
    BY <1>0, <1>1, ReceiveEffect, SMTT(30)
  <2>5. ASSUME NEW i \in 1..Len(queue'), NEW j \in 1..Len(queue'), i < j
        PROVE  queue'[i] < queue'[j]
    <3>1. i \in 1..Len(queue) /\ queue'[i] = queue[i] /\ queue[i] \in Made
      BY <1>0, <1>1, <2>5, ReceiveEffect, SMTT(30) DEF InOrder
    <3>2. CASE j \in 1..Len(queue)
      <4>1. queue'[j] = queue[j]
        BY <1>1, <3>2, ReceiveEffect
      <4>2. QED
        BY <2>5, <3>1, <3>2, <4>1 DEF InOrder
    <3>3. CASE j = Len(queue')
      BY <1>1, <2>3, <3>1, <3>3, ReceiveEffect
    <3>4. QED
      BY <2>4, <3>2, <3>3
  <2>6. begun \subseteq Made /\ item < Len(info')
    BY <1>0, <2>3, <1>1, ReceiveEffect DEF Accounted, InOrder
  <2>7. \A i \in 1..Len(queue') :
          queue'[i] \in Made' /\ item < queue'[i] /\ \A b \in begun : b < queue'[i]
    BY <1>1, <2>2, <2>3, <2>4, <2>6, ReceiveEffect DEF InOrder
  <2>8. QED
    BY <2>1, <2>2, <2>5, <2>7 DEF InOrder
<1>2. CASE Take
  <2>1. UNCHANGED <<begun, info>>
    BY <1>2 DEF Take
  <2>2. Made' = Made /\ item = None /\ drain \in {"idle", "loop"}
    BY <1>2, <2>1 DEF Made, Take, InOrder
  <2>3. \A i \in 1..Len(queue') : i + 1 \in 1..Len(queue)
    BY <1>2, TakeEffect
  <2>4. \A i, j \in 1..Len(queue') : i < j => queue'[i] < queue'[j]
    <3>1. ASSUME NEW i \in 1..Len(queue'), NEW j \in 1..Len(queue'), i < j
          PROVE  queue'[i] < queue'[j]
      <4>1. queue[i + 1] < queue[j + 1]
        BY <2>3, <3>1 DEF InOrder
      <4>2. QED
        BY <1>2, <4>1, TakeEffect
    <3>2. QED
      BY <3>1
  <2>5. ASSUME NEW i \in 1..Len(queue')
        PROVE  /\ queue'[i] \in Made /\ Head(queue) < queue'[i]
               /\ \A b \in begun : b < queue'[i]
    <3>1. queue'[i] = queue[i + 1] /\ Head(queue) = queue[1] /\ 1 \in 1..Len(queue)
      BY <1>2, TakeEffect
    <3>2. queue[1] < queue[i + 1]
      BY <1>2, <2>3, <3>1 DEF InOrder
    <3>3. QED
      BY <2>3, <3>1, <3>2 DEF InOrder
  <2>6. Head(queue) \in Made /\ \A b \in begun : b < Head(queue)
    <3>1. Head(queue) = queue[1] /\ 1 \in 1..Len(queue)
      BY <1>2, TakeEffect
    <3>2. QED
      BY <3>1 DEF InOrder
  <2>7. \/ item' = None /\ drain' = "loop"
        \/ item' = Head(queue) /\ drain' = "item"
    BY <1>2 DEF Take
  <2>8. ASSUME NEW i \in 1..Len(queue') PROVE item' < queue'[i]
    <3>1. queue'[i] \in Nat \ {0} /\ Head(queue) < queue'[i]
      BY <1>0, <2>5
    <3>2. QED
      BY <2>7, <3>1
  <2>9. QED
    BY <1>0, <2>1, <2>2, <2>4, <2>5, <2>6, <2>7, <2>8 DEF InOrder
<1>3. CASE Begin
  <2>1. UNCHANGED <<queue, item, Made>> /\ drain = "item" /\ drain' = "tool"
    BY <1>3 DEF Begin, Made
  <2>2. begun' = begun \cup {item}
    BY <1>3 DEF Begin
  <2>3. QED
    BY <2>1, <2>2 DEF InOrder
<1>4. CASE Refuse \/ Finish
  <2>1. UNCHANGED <<queue, begun, Made>> /\ drain' \in {"loop", "finally"} /\ item' = None
    BY <1>4 DEF Refuse, Finish, Finished, Made
  <2>2. \A i \in 1..Len(queue) : 0 < queue[i]
    BY <1>0, SMTT(30) DEF InOrder
  <2>3. QED
    BY <2>1, <2>2 DEF InOrder
<1>5. CASE DrainEnd \/ Clear
  <2>1. /\ UNCHANGED <<queue, begun, item, Made>>
        /\ drain \in {"loop", "finally"} /\ drain' \in {"idle", "loop"}
    BY <1>5 DEF DrainEnd, Clear, Made
  <2>2. QED
    BY <2>1 DEF InOrder
<1>6. CASE UNCHANGED <<info, queue, drain, item, begun>>
  BY <1>6 DEF InOrder, Made
<1>7. QED
  BY <1>1, <1>2, <1>3, <1>4, <1>5, <1>6
     DEF Next, Drain, Lifecycle, Connect, Answer, Disconnect,
         Unregister, StopServer, Register, vars, main

\* No step concerns a request that was not made, or waits for an answered one.
LEMMA AccountedStep ==
  ASSUME IInv, [Next]_vars
  PROVE  Accounted'
<1> USE DEF IInv, Typed, ItemInHand, TypeOK, None
<1>0. Requests \subseteq Nat \ {0} /\ Len(info) \in Nat /\ Made \subseteq Nat \ {0}
  BY DispatchAssumption DEF Requests, Made
<1>1. CASE Receive
  <2>1. UNCHANGED <<begun, future, answer, generation>>
    BY <1>1 DEF Receive, main
  <2>2. Made' = Made \cup {Len(info')} /\ Len(info') \notin Made
    BY <1>0, <1>1, ReceiveEffect, SMTT(30) DEF Made
  <2>3. waiting' = waiting \cup {Len(info')}
    BY <1>1 DEF Receive
  <2>4. answer[Len(info')] = "none"
    BY <1>1, <2>2, ReceiveEffect DEF Accounted
  <2>5. \A r \in Made' : info'[r].generation <= generation
    BY <1>1, <2>2, ReceiveEffect DEF Accounted
  <2>6. QED
    BY <2>1, <2>2, <2>3, <2>4, <2>5 DEF Accounted
<1>2. ASSUME NEW r \in Requests, Answer(r) PROVE Accounted'
  <2>1. UNCHANGED <<begun, info, generation, Made>> /\ r \in waiting
    BY <1>2 DEF Answer, main, Made
  <2>2. waiting' = waiting \ {r}
    BY <1>2 DEF Answer, Deliver, TimeOut
  <2>3. \A q \in Requests \ {r} : future'[q] = future[q] /\ answer'[q] = answer[q]
    BY <1>2 DEF Answer, Deliver, TimeOut, CancelFutures
  <2>4. r \in Made
    BY <2>1 DEF Accounted
  <2>5. QED
    BY <2>1, <2>2, <2>3, <2>4 DEF Accounted
<1>3. ASSUME NEW c \in Clients, Disconnect(c) PROVE Accounted'
  <2>1. UNCHANGED <<begun, info, generation, Made, answer>>
    BY <1>3 DEF Disconnect, main, Made
  <2>2. waiting' \subseteq waiting
    BY <1>3 DEF Disconnect, CancelTasks
  <2>3. \A q \in Requests \ waiting : future'[q] = future[q]
    BY <1>3 DEF Disconnect, CancelTasks, CancelFutures, Of
  <2>4. QED
    BY <2>1, <2>2, <2>3 DEF Accounted
<1>4. CASE Refuse \/ Finish
  <2>1. UNCHANGED <<begun, info, generation, Made, answer, waiting>>
    BY <1>4 DEF Refuse, Finish, Finished, Made
  <2>2. item \in Made
    BY <1>4 DEF Refuse, Finish, InOrder
  <2>3. \A q \in Requests \ {item} : future'[q] = future[q]
    BY <1>4 DEF Refuse, Finish, Finished, Resolve
  <2>4. QED
    BY <2>1, <2>2, <2>3 DEF Accounted
<1>5. CASE Begin
  <2>1. UNCHANGED <<info, generation, Made, answer, waiting, future>>
    BY <1>5 DEF Begin, Made
  <2>2. begun' = begun \cup {item} /\ item \in Made
    BY <1>5 DEF Begin, InOrder
  <2>3. QED
    BY <2>1, <2>2 DEF Accounted
<1>6. CASE Unregister \/ Register
  <2>1. UNCHANGED <<begun, info, Made, answer, waiting, future>>
    BY <1>6 DEF Unregister, Register, Made, main
  <2>2. ASSUME NEW r \in Made PROVE info[r].generation \in Nat
    <3>1. info[r] \in Info
      BY DEF Made
    <3>2. QED
      BY <3>1 DEF Info
  <2>3. generation' = generation + 1
    BY <1>6 DEF Unregister, Register
  <2>4. QED
    BY <2>1, <2>2, <2>3 DEF Accounted
<1>7. CASE UNCHANGED <<generation, info, waiting, future, answer, begun>>
  BY <1>7 DEF Accounted, Made
<1>8. QED
  BY <1>1, <1>2, <1>3, <1>4, <1>5, <1>6, <1>7
     DEF Next, Drain, Lifecycle, Connect, Take, DrainEnd, Clear, StopServer, vars, main

\* What bridge_status reports as running is what the drain loop runs or has just run.
LEMMA StatusStep ==
  ASSUME IInv, [Next]_vars
  PROVE  StatusIsTruthful'
<1> USE DEF IInv, Typed, TypeOK, StatusIsTruthful
<1>1. CASE Take \/ DrainEnd
  BY <1>1 DEF Take, DrainEnd, None
<1>2. CASE Begin
  BY <1>2 DEF Begin
<1>3. CASE Refuse
  BY <1>3 DEF Refuse
<1>4. CASE Finish
  <2>1. /\ drain = "tool" /\ drain' = "finally" /\ UNCHANGED <<current, begun>>
        /\ \E x \in Outcomes : Resolve(item, x)
    BY <1>4 DEF Finish, Finished
  <2>2. current = item /\ item \in begun
    BY <2>1 DEF InOrder
  <2>3. future'[item] # "pending"
    BY <2>1, <2>2 DEF Resolve, Outcomes
  <2>4. QED
    BY <2>1, <2>2, <2>3
<1>5. CASE Clear
  BY <1>5 DEF Clear
<1>6. CASE UNCHANGED main
  <2>1. drain = "finally" => future'[current] # "pending"
    BY FuturesAreFinal
  <2>2. QED
    BY <1>6, <2>1 DEF main
<1>7. QED
  BY <1>1, <1>2, <1>3, <1>4, <1>5, <1>6
     DEF Next, Drain, Lifecycle, Connect, Receive, Answer, Disconnect,
         Unregister, StopServer, Register, vars, main

\* No step leaves a task that waits for a future nobody will settle.
LEMMA WaiterStep ==
  ASSUME IInv, [Next]_vars
  PROVE  NoWaiterIsLost'
<1> USE DEF IInv, Typed, TypeOK, NoWaiterIsLost
<1>1. CASE Receive
  <2>1. UNCHANGED <<future, item>> /\ waiting' = waiting \cup {Len(info')}
    BY <1>1 DEF Receive, main
  <2>2. future[Len(info')] = "pending"
    <3>1. Len(info') \in Requests \ Made
      BY <1>1, ReceiveEffect DEF Made
    <3>2. QED
      BY <3>1 DEF Accounted
  <2>3. InQueue' = InQueue \cup {Len(info')}
    BY <1>1, ReceiveEffect
  <2>4. QED
    BY <2>1, <2>2, <2>3
<1>2. ASSUME NEW r \in Requests, Answer(r) PROVE NoWaiterIsLost'
  <2>1. UNCHANGED <<item, InQueue>> /\ waiting' = waiting \ {r}
    BY <1>2 DEF Answer, main, Deliver, TimeOut, InQueue
  <2>2. \A q \in Requests \ {r} : future'[q] = future[q]
    BY <1>2 DEF Answer, Deliver, TimeOut, CancelFutures
  <2>3. QED
    BY <2>1, <2>2
<1>3. ASSUME NEW c \in Clients, Disconnect(c) PROVE NoWaiterIsLost'
  <2>1. UNCHANGED <<item, InQueue>> /\ waiting' = waiting \ Of(c)
    BY <1>3 DEF Disconnect, CancelTasks, main, InQueue
  <2>2. \A q \in Requests \ Of(c) : future'[q] = future[q]
    BY <1>3 DEF Disconnect, CancelTasks, CancelFutures
  <2>3. QED
    BY <2>1, <2>2
<1>4. CASE Take
  <2>1. UNCHANGED <<waiting, future>> /\ InQueue = InQueue' \cup {Head(queue)}
    BY <1>4, TakeEffect DEF Take
  <2>2. item = None /\ (future[Head(queue)] = "pending" => item' = Head(queue))
    BY <1>4 DEF Take, Settled, InOrder
  <2>3. None \notin Requests
    BY DispatchAssumption DEF None, Requests
  <2>4. QED
    BY <2>1, <2>2, <2>3
<1>5. CASE Refuse \/ Finish
  <2>1. UNCHANGED <<waiting, InQueue>>
    BY <1>5 DEF Refuse, Finish, InQueue
  <2>2. \E x \in Results : Resolve(item, x)
    BY <1>5 DEF Refuse, Finish, Finished, Verdict, Results, Refusals
  <2>3. \A q \in Requests : \/ future'[q] = future[q] /\ (q # item \/ future[q] # "pending")
                            \/ future'[q] \in Results
    BY <2>2 DEF Resolve
  <2>4. QED
    BY <2>1, <2>3
<1>6. CASE UNCHANGED <<waiting, future, queue, item>>
  BY <1>6 DEF InQueue
<1>7. QED
  BY <1>1, <1>2, <1>3, <1>4, <1>5, <1>6
     DEF Next, Drain, Lifecycle, Connect, DrainEnd, Begin, Clear,
         Unregister, StopServer, Register, vars, main

\* A request the drain loop refused is gone from it and is never begun.
LEMMA RefusedStep ==
  ASSUME IInv, [Next]_vars
  PROVE  RefusedNeverRuns'
<1> USE DEF IInv, Typed, TypeOK, RefusedNeverRuns
<1>0. Requests \subseteq Nat \ {0} /\ InQueue \subseteq Requests /\ None \notin Requests
  <2>1. Requests \subseteq Nat \ {0}
    BY DispatchAssumption DEF Requests
  <2>2. QED
    BY <2>1 DEF InQueue, None
<1>1. CASE Receive
  <2>1. UNCHANGED <<future, item, begun>> /\ InQueue' = InQueue \cup {Len(info')}
    BY <1>1, ReceiveEffect DEF Receive, main
  <2>2. future[Len(info')] = "pending"
    <3>1. Len(info') \in Requests \ Made
      BY <1>1, ReceiveEffect DEF Made
    <3>2. QED
      BY <3>1 DEF Accounted
  <2>3. QED
    BY <2>1, <2>2 DEF Refusals
<1>2. CASE \/ \E r \in Requests : Answer(r)
           \/ \E c \in Clients : Disconnect(c)
  <2>1. UNCHANGED <<item, InQueue, begun>>
    BY <1>2 DEF Answer, Disconnect, main, InQueue
  <2>2. \A q \in Requests : future'[q] \in {future[q], "cancelled"}
    BY <1>2 DEF Answer, Deliver, TimeOut, Disconnect, CancelTasks, CancelFutures
  <2>3. QED
    BY <2>1, <2>2 DEF Refusals
<1>3. CASE Take
  <2>1. UNCHANGED <<future, begun>> /\ InQueue = InQueue' \cup {Head(queue)}
        /\ item' \in {None, Head(queue)}
    BY <1>3, TakeEffect DEF Take
  <2>2. QED
    BY <1>0, <2>1
<1>4. CASE Refuse
  <2>1. UNCHANGED <<InQueue, begun>> /\ item' = None /\ item \in Requests
    BY <1>4 DEF Refuse, InQueue, ItemInHand
  <2>2. \A q \in Requests \ {item} : future'[q] = future[q]
    BY <1>4 DEF Refuse, Resolve
  <2>3. item \notin begun \cup InQueue
    <3>1. \A b \in begun : b < item
      BY <1>4 DEF Refuse, InOrder
    <3>2. \A q \in InQueue : item < q
      BY DEF InQueue, InOrder
    <3>3. QED
      BY <1>0, <2>1, <3>1, <3>2
  <2>4. QED
    BY <1>0, <2>1, <2>2, <2>3
<1>5. CASE Begin
  <2>1. UNCHANGED <<InQueue, future, item>> /\ begun' = begun \cup {item}
    BY <1>5 DEF Begin, InQueue
  <2>2. QED
    BY <2>1
<1>6. CASE Finish
  <2>1. UNCHANGED <<InQueue, begun>> /\ item' = None
    BY <1>6 DEF Finish, Finished, InQueue
  <2>2. \A q \in Requests : future'[q] \in {future[q]} \cup Outcomes
    BY <1>6 DEF Finish, Finished, Resolve
  <2>3. QED
    BY <1>0, <2>1, <2>2 DEF Refusals, Outcomes
<1>7. CASE UNCHANGED <<future, queue, item, begun>>
  BY <1>7 DEF InQueue
<1>8. QED
  BY <1>1, <1>2, <1>3, <1>4, <1>5, <1>6, <1>7
     DEF Next, Drain, Lifecycle, Connect, DrainEnd, Clear,
         Unregister, StopServer, Register, vars, main

\* No step tells a client of a result its tool did not produce, or waits on
\* behalf of a client that left.
LEMMA AnswersStep ==
  ASSUME IInv, [Next]_vars
  PROVE  AnswersAreTrue'
<1> USE DEF IInv, Typed, TypeOK
<1>0. Requests \subseteq Nat \ {0} /\ None \notin Requests /\ waiting \subseteq Made
      /\ Len(info) \in Nat
  BY DispatchAssumption DEF Requests, None, Accounted
<1>1. ASSUME NEW r \in Requests, answer'[r] \in Results PROVE answer'[r] = future'[r]
  <2>1. \/ answer'[r] = answer[r]
        \/ answer'[r] = future[r]
    BY <1>1 DEF Next, Drain, Lifecycle, Connect, Receive, Answer, Deliver, TimeOut, Disconnect,
         Take, DrainEnd, Refuse, Begin, Finish, Clear, Unregister, StopServer, Register, vars, main,
         Results, Outcomes, Refusals
  <2>2. future[r] = answer'[r]
    BY <1>1, <2>1 DEF AnswersAreTrue
  <2>3. future[r] # "pending"
    BY <1>1, <2>2 DEF Results, Outcomes, Refusals
  <2>4. QED
    BY <2>2, <2>3, FuturesAreFinal
<1>2. ASSUME NEW r \in Requests, future'[r] \in Outcomes PROVE r \in begun' /\ r # item'
  <2>1. CASE Finish
    <3>1. begun' = begun /\ item' = None /\ item \in begun
      BY <2>1 DEF Finish, Finished, InOrder
    <3>2. future'[r] = future[r] \/ r = item
      BY <2>1 DEF Finish, Finished, Resolve
    <3>3. QED
      BY <1>0, <1>2, <3>1, <3>2 DEF AnswersAreTrue
  <2>2. CASE Begin
    <3>1. begun' = begun \cup {item} /\ item' = item /\ future' = future
      BY <2>2 DEF Begin
    <3>2. QED
      BY <1>2, <3>1 DEF AnswersAreTrue
  <2>3. CASE Refuse
    <3>1. begun' = begun /\ item' = None
      BY <2>3 DEF Refuse
    <3>2. PICK x \in Refusals : Resolve(item, x)
      BY <2>3 DEF Refuse, Verdict, Refusals
    <3>3. future'[r] = future[r]
      BY <1>2, <3>2 DEF Resolve, Refusals, Outcomes
    <3>4. QED
      BY <1>0, <1>2, <3>1, <3>3 DEF AnswersAreTrue
  <2>4. CASE \/ \E q \in Requests : Answer(q)
             \/ \E c \in Clients : Disconnect(c)
    <3>1. begun' = begun /\ item' = item
      BY <2>4 DEF Answer, Disconnect, main
    <3>2. future'[r] \in {future[r], "cancelled"}
      BY <2>4 DEF Answer, Deliver, TimeOut, Disconnect, CancelTasks, CancelFutures
    <3>3. QED
      BY <1>2, <3>1, <3>2 DEF AnswersAreTrue, Outcomes
  <2>5. CASE UNCHANGED <<future, begun, item>>
    BY <1>2, <2>5 DEF AnswersAreTrue
  <2>6. CASE Take
    <3>1. UNCHANGED <<future, begun>> /\ (item' = None \/ future[item'] = "pending")
      BY <2>6 DEF Take, Settled
    <3>2. QED
      BY <1>0, <1>2, <3>1 DEF AnswersAreTrue, Outcomes
  <2>7. QED
    BY <2>1, <2>2, <2>3, <2>4, <2>5, <2>6
       DEF Next, Drain, Lifecycle, Connect, Receive, DrainEnd, Clear,
           Unregister, StopServer, Register, vars, main
<1>3. ASSUME NEW r \in waiting' PROVE info'[r].client \in conns'
  <2>1. CASE Receive
    <3>1. conns' = conns /\ waiting' = waiting \cup {Len(info')}
      BY <2>1 DEF Receive
    <3>2. QED
      BY <1>0, <1>3, <2>1, <3>1, ReceiveEffect DEF AnswersAreTrue
  <2>2. ASSUME NEW c \in Clients, Disconnect(c) PROVE info'[r].client \in conns'
    <3>1. info' = info /\ conns' = conns \ {c} /\ waiting' = waiting \ Of(c)
      BY <2>2 DEF Disconnect, CancelTasks
    <3>2. QED
      BY <1>3, <3>1 DEF AnswersAreTrue, Of
  <2>3. CASE \E q \in Requests : Answer(q)
    <3>1. UNCHANGED <<info, conns>> /\ waiting' \subseteq waiting
      BY <2>3 DEF Answer, Deliver, TimeOut
    <3>2. QED
      BY <1>3, <3>1 DEF AnswersAreTrue
  <2>4. CASE Connect
    BY <1>3, <2>4 DEF Connect, AnswersAreTrue
  <2>5. CASE UNCHANGED <<info, conns, waiting>>
    BY <1>3, <2>5 DEF AnswersAreTrue
  <2>6. QED
    BY <2>1, <2>2, <2>3, <2>4, <2>5
       DEF Next, Drain, Lifecycle, Take, DrainEnd, Refuse, Begin, Finish, Clear,
           Unregister, StopServer, Register, vars, main
<1>4. QED
  BY <1>1, <1>2, <1>3 DEF AnswersAreTrue

\* The inductive invariant of the dispatch holds for any number of clients,
\* requests and reloads.
THEOREM DispatchInvariant == Spec => []IInv
<1>1. IInv /\ [Next]_vars => IInv'
  <2>1. SUFFICES ASSUME IInv, [Next]_vars PROVE IInv'
    OBVIOUS
  <2>2. Typed'
    BY <2>1, TypeStep DEF IInv
  <2>3. InOrder' /\ Accounted'
    BY <2>1, InOrderStep, AccountedStep
  <2>4. StatusIsTruthful' /\ NoWaiterIsLost' /\ RefusedNeverRuns' /\ AnswersAreTrue'
    BY <2>1, StatusStep, WaiterStep, RefusedStep, AnswersStep
  <2>5. QED
    BY <2>2, <2>3, <2>4 DEF IInv
<1>2. QED
  BY <1>1, InvariantInit, PTL DEF Spec

\* No awaited request is ever lost between the server's task and the main thread.
THEOREM NoWaiterIsLostHolds == Spec => []NoWaiterIsLost
<1>1. IInv => NoWaiterIsLost
  BY DEF IInv
<1>2. QED
  BY <1>1, DispatchInvariant, PTL

\* A request whose client was told of a refusal was not run and never will be.
THEOREM RefusedNeverRunsHolds == Spec => []RefusedNeverRuns
<1>1. IInv => RefusedNeverRuns
  BY DEF IInv
<1>2. QED
  BY <1>1, DispatchInvariant, PTL

\* What a client is told of a request is what its future holds, a result comes
\* from a tool that was run, and nobody waits for a client that is gone.
THEOREM AnswersAreTrueHolds == Spec => []AnswersAreTrue
<1>1. IInv => AnswersAreTrue
  BY DEF IInv
<1>2. QED
  BY <1>1, DispatchInvariant, PTL

\* A status read shows the tool that the main thread runs, and afterwards none but
\* the one that has just ended and whose future is settled.
THEOREM StatusIsTruthfulHolds == Spec => []StatusIsTruthful
<1>1. IInv => StatusIsTruthful
  BY DEF IInv
<1>2. QED
  BY <1>1, DispatchInvariant, PTL

\* Whatever a client is told, by an answer or by bridge_status, is so.
THEOREM ClientsAreToldTheTruthHolds == Spec => []ClientsAreToldTheTruth
  BY AnswersAreTrueHolds, StatusIsTruthfulHolds, PTL DEF ClientsAreToldTheTruth
---------------------------------------------------------------------------
(* What follows for one request and its client over time.                  *)

\* A request that was answered is not waited for again and keeps its answer.
LEMMA AnswerStep ==
  ASSUME IInv, IInv', [Next]_vars, NEW r \in Requests, answer[r] # "none"
  PROVE  UNCHANGED answer[r] /\ r \notin waiting'
<1> USE DEF IInv, Typed, TypeOK
<1>1. r \in Made /\ r \notin waiting
  BY DEF Accounted
<1>2. answer'[r] = answer[r]
  <2>1. CASE \E q \in Requests : Answer(q)
    BY <1>1, <2>1 DEF Answer, Deliver, TimeOut
  <2>2. CASE UNCHANGED answer
    BY <2>2
  <2>3. QED
    BY <2>1, <2>2 DEF Next, Drain, Lifecycle, Connect, Receive, Disconnect, Take, DrainEnd,
         Refuse, Begin, Finish, Clear, Unregister, StopServer, Register, vars
<1>3. r \notin waiting'
  BY <1>2 DEF Accounted
<1>4. QED
  BY <1>2, <1>3

\* A client gets at most one answer to a request, though the timeout races the
\* result and the connection's end races both.
THEOREM AnsweredOnceHolds == Spec => AnsweredOnce
<1>1. IInv /\ IInv' /\ [Next]_vars =>
        [\A r \in Requests : answer[r] # "none" => UNCHANGED answer[r] /\ r \notin waiting']_vars
  BY AnswerStep
<1>2. QED
  BY <1>1, DispatchInvariant, PTL DEF Spec, AnsweredOnce

\* The generation of a request that was made is never restamped.
LEMMA InfoIsKept ==
  ASSUME IInv, [Next]_vars, NEW r \in Made
  PROVE  r \in Made' /\ info'[r] = info[r]
<1> USE DEF IInv, Typed, TypeOK
<1>1. CASE Receive
  <2>1. Len(info) \in Nat /\ Len(info') = Len(info) + 1 /\ info'[r] = info[r]
    BY <1>1, ReceiveEffect
  <2>2. QED
    BY <2>1 DEF Made
<1>2. CASE UNCHANGED info
  BY <1>2 DEF Made
<1>3. QED
  BY <1>1, <1>2
     DEF Next, Drain, Lifecycle, Connect, Answer, Disconnect, Take, DrainEnd,
         Refuse, Begin, Finish, Clear, Unregister, StopServer, Register, vars

(* A request that cannot run any more although it may still be queued: it  *)
(* is of an earlier load, or it will be as soon as the add-on comes back.  *)
Outdated(r) ==
  /\ r \in Made /\ r \notin begun
  /\ \/ info[r].generation < generation
     \/ addon = "disabled" /\ drain = "idle"

\* Once a request belongs to an earlier load of the add-on it always does.
LEMMA OutdatedStep ==
  ASSUME IInv, [Next]_vars, NEW r \in Requests, Outdated(r)
  PROVE  Outdated(r)'
<1> USE DEF IInv, Typed, TypeOK
<1>1. r \in Made' /\ info'[r] = info[r] /\ info[r].generation \in Nat
  <2>1. info[r] \in Info
    BY DEF Outdated, Made
  <2>2. QED
    BY <2>1, InfoIsKept DEF Outdated, Info
<1>2. info[r].generation <= generation
  BY DEF Outdated, Accounted
<1>3. CASE Begin
  <2>1. UNCHANGED <<generation, addon>> /\ drain = "item" /\ begun' = begun \cup {item}
    BY <1>3 DEF Begin
  <2>2. info[item].generation = generation
    BY <1>3 DEF Begin, Verdict
  <2>3. info[r].generation < generation
    BY <2>1 DEF Outdated
  <2>4. r # item
    BY <1>1, <2>2, <2>3
  <2>5. QED
    BY <1>1, <2>1, <2>3, <2>4 DEF Outdated
<1>4. CASE Unregister \/ Register
  <2>1. generation' = generation + 1 /\ begun' = begun
    BY <1>4 DEF Unregister, Register, main
  <2>2. QED
    BY <1>1, <1>2, <2>1 DEF Outdated
<1>5. CASE StopServer
  BY <1>1, <1>5 DEF StopServer, Outdated, main
<1>6. CASE Take \/ DrainEnd \/ Refuse \/ Finish \/ Clear
  <2>1. UNCHANGED <<generation, addon, begun>>
    BY <1>6 DEF Take, DrainEnd, Refuse, Finish, Finished, Clear
  <2>2. ~(addon = "disabled" /\ drain = "idle")
    BY <1>6 DEF Take, DrainEnd, Refuse, Finish, Clear
  <2>3. QED
    BY <1>1, <2>1, <2>2 DEF Outdated
<1>7. CASE /\ UNCHANGED <<generation, begun, drain>>
           /\ addon' = addon
  BY <1>1, <1>7 DEF Outdated
<1>8. QED
  BY <1>3, <1>4, <1>5, <1>6, <1>7
     DEF Next, Drain, Lifecycle, Connect, Receive, Answer, Disconnect, vars, main

\* A request that is still queued when the add-on is down and the main thread is
\* out of drain_queue never runs, however often the add-on comes back.
THEOREM StaleWorkNeverRunsHolds == Spec => StaleWorkNeverRuns
<1> SUFFICES ASSUME NEW r \in Requests
             PROVE  Spec => [](addon = "disabled" /\ drain = "idle" /\ r \in InQueue
                                 => [](r \notin begun))
  BY DEF StaleWorkNeverRuns
<1>1. IInv /\ addon = "disabled" /\ drain = "idle" /\ r \in InQueue => Outdated(r)
  <2>1. SUFFICES ASSUME IInv, addon = "disabled", drain = "idle", r \in InQueue
                 PROVE  r \in Made /\ r \notin begun
    BY DEF Outdated
  <2>2. PICK i \in 1..Len(queue) : r = queue[i]
    BY <2>1 DEF InQueue, IInv, Typed, TypeOK
  <2>3. r \in Made /\ \A b \in begun : b < r
    BY <2>1, <2>2 DEF IInv, InOrder
  <2>4. QED
    BY <2>3 DEF Made
<1>2. IInv /\ Outdated(r) /\ [Next]_vars => Outdated(r)'
  BY OutdatedStep
<1>3. Outdated(r) => r \notin begun
  BY DEF Outdated
<1>4. QED
  BY <1>1, <1>2, <1>3, DispatchInvariant, PTL DEF Spec

(* A request whose client gave up before the main thread took it.          *)
Abandoned(r) == r \notin begun /\ r # item /\ future[r] = "cancelled"

\* Once the client gave up on a queued request it is never begun.
LEMMA AbandonedStep ==
  ASSUME IInv, [Next]_vars, NEW r \in Requests, Abandoned(r)
  PROVE  Abandoned(r)'
<1> USE DEF IInv, Typed, TypeOK, Abandoned
<1>1. future'[r] = "cancelled"
  BY FuturesAreFinal
<1>2. r # item'
  <2>1. CASE Take
    BY <2>1 DEF Take, Settled, None, Requests
  <2>2. CASE Refuse \/ Finish
    BY <2>2 DEF Refuse, Finish, Finished, None, Requests
  <2>3. CASE UNCHANGED item
    BY <2>3
  <2>4. QED
    BY <2>1, <2>2, <2>3
       DEF Next, Drain, Lifecycle, Connect, Receive, Answer, Disconnect, DrainEnd, Begin, Clear,
           Unregister, StopServer, Register, vars, main
<1>3. r \notin begun'
  <2>1. CASE Begin
    BY <2>1 DEF Begin
  <2>2. CASE UNCHANGED begun
    BY <2>2
  <2>3. QED
    BY <2>1, <2>2
       DEF Next, Drain, Lifecycle, Connect, Receive, Answer, Disconnect, Take, DrainEnd,
           Refuse, Finish, Finished, Clear, Unregister, StopServer, Register, vars, main
<1>4. QED
  BY <1>1, <1>2, <1>3

\* A request whose client timed out or left while it was queued never runs.
THEOREM AbandonedNeverRunsHolds == Spec => AbandonedNeverRuns
<1> SUFFICES ASSUME NEW r \in Requests
             PROVE  Spec => [](r \in InQueue /\ future[r] = "cancelled" => [](r \notin begun))
  BY DEF AbandonedNeverRuns
<1>1. IInv /\ r \in InQueue /\ future[r] = "cancelled" => Abandoned(r)
  <2>1. SUFFICES ASSUME IInv, r \in InQueue, future[r] = "cancelled"
                 PROVE  r \notin begun /\ r # item
    BY DEF Abandoned
  <2>2. PICK i \in 1..Len(queue) : r = queue[i]
    BY <2>1 DEF InQueue, IInv, Typed, TypeOK
  <2>3. item < r /\ \A b \in begun : b < r
    BY <2>1, <2>2 DEF IInv, InOrder
  <2>4. r \in Nat
    BY DispatchAssumption DEF Requests
  <2>5. QED
    BY <2>3, <2>4
<1>2. IInv /\ Abandoned(r) /\ [Next]_vars => Abandoned(r)'
  BY AbandonedStep
<1>3. Abandoned(r) => r \notin begun
  BY DEF Abandoned
<1>4. QED
  BY <1>1, <1>2, <1>3, DispatchInvariant, PTL DEF Spec

\* Neither refused nor stale nor abandoned work ever runs.
THEOREM DeadWorkNeverRunsHolds == Spec => DeadWorkNeverRuns
  BY RefusedNeverRunsHolds, StaleWorkNeverRunsHolds, AbandonedNeverRunsHolds
     DEF DeadWorkNeverRuns
---------------------------------------------------------------------------
(* The dispatch implements the request service.                            *)

work  == [r \in Requests |-> WorkOf(r)]
reply == [r \in Requests |-> AnswerOf(r)]

\* What became of a request, case by case.
LEMMA WorkCases ==
  ASSUME IInv, NEW r \in Requests
  PROVE  /\ drain = "tool" /\ item = r => WorkOf(r) = "running"
         /\ r \in begun /\ ~(drain = "tool" /\ item = r) => WorkOf(r) = "ran"
         /\ r \notin begun /\ (r \in InQueue \/ item = r) => WorkOf(r) = "accepted"
         /\ r \in Made /\ r \notin begun /\ r \notin InQueue /\ item # r
              => WorkOf(r) = "dropped"
         /\ r \notin Made => WorkOf(r) = "absent"
         /\ r \in InQueue \cup begun \cup {item} => r \in Made
         /\ r \in InQueue => r \notin begun /\ item # r
         /\ drain = "tool" /\ item = r => r \in begun
<1> USE DEF IInv, Typed, TypeOK
<1>0. Requests \subseteq Nat \ {0} /\ Len(info) \in Nat /\ Made \subseteq Nat
  BY DispatchAssumption DEF Requests, Made
<1>1. ASSUME r \in InQueue PROVE r \in Made /\ r \notin begun /\ item # r
  <2>1. PICK i \in 1..Len(queue) : r = queue[i]
    BY <1>1 DEF InQueue
  <2>2. r \in Made /\ item < r /\ \A b \in begun : b < r
    BY <2>1 DEF InOrder
  <2>3. QED
    BY <1>0, <2>2
<1>2. r \in begun \/ item = r => r \in Made
  BY <1>0 DEF Accounted, InOrder, None
<1>3. drain = "tool" /\ item = r => r \in begun
  BY DEF InOrder
<1>4. r \in Made <=> r <= Len(info)
  BY <1>0 DEF Made
<1>5. QED
  BY <1>1, <1>2, <1>3, <1>4 DEF WorkOf

\* Two states that agree on one request agree on what became of it.
LEMMA WorkIsKept ==
  ASSUME IInv, IInv', NEW r \in Requests,
         r \in Made' <=> r \in Made,
         r \in begun' <=> r \in begun,
         r \in InQueue' \/ item' = r <=> r \in InQueue \/ item = r,
         drain' = "tool" /\ item' = r <=> drain = "tool" /\ item = r
  PROVE  work'[r] = work[r]
<1>1. Len(info) \in Nat /\ Len(info') \in Nat /\ r \in Nat \ {0}
  BY DispatchAssumption DEF IInv, Typed, TypeOK, Requests
<1>2. (r \in Made <=> r <= Len(info)) /\ (r \in Made' <=> r <= Len(info'))
  BY <1>1 DEF Made
<1>3. WorkOf(r)' = WorkOf(r)
  BY <1>2 DEF WorkOf
<1>4. QED
  BY <1>3 DEF work

\* If only one request's work changes, that is a step of the service.
LEMMA OneBecomes ==
  ASSUME NEW r \in Requests, NEW w,
         \A q \in Requests \ {r} : work'[q] = work[q], work'[r] = w, answer' = answer
  PROVE  Service!Become(r, w)
<1>1. work' = [work EXCEPT ![r] = w]
  BY DEF work
<1>2. reply' = reply
  BY DEF reply, AnswerOf
<1>3. QED
  BY <1>1, <1>2 DEF Service!Become, work, reply

\* Receiving a request is the service's Accept.
LEMMA ReceiveAccepts ==
  ASSUME IInv, IInv', Receive
  PROVE  Service!Accept
<1> USE DEF IInv, Typed, TypeOK
<1> DEFINE n == Len(info')
<1>0. Requests \subseteq Nat \ {0} /\ None = 0
  BY DispatchAssumption DEF Requests, None
<1>1. /\ n \in Requests /\ Len(info) \in Nat /\ n = Len(info) + 1
      /\ InQueue' = InQueue \cup {n}
      /\ UNCHANGED <<begun, item, drain, answer>>
  BY ReceiveEffect DEF Receive, main
<1>2. Made' = Made \cup {n} /\ n \notin Made
  BY <1>1 DEF Made
<1>3. work[n] = "absent"
  BY <1>1, <1>2, WorkCases DEF work
<1>4. n \notin begun
  BY <1>2 DEF Accounted
<1>5. work'[n] = "accepted"
  BY <1>1, <1>4 DEF work, WorkOf
<1>6. \A q \in Requests \ {n} : work'[q] = work[q]
  <2>1. ASSUME NEW q \in Requests, q # n PROVE work'[q] = work[q]
    <3>1. /\ q \in Made' <=> q \in Made
          /\ q \in InQueue' \/ item' = q <=> q \in InQueue \/ item = q
      BY <1>1, <1>2, <2>1
    <3>2. QED
      BY <1>1, <3>1, WorkIsKept
  <2>2. QED
    BY <2>1
<1>7. ASSUME n - 1 \in Requests PROVE work[n - 1] # "absent"
  <2>1. n - 1 \in Made
    BY <1>0, <1>1, <1>7 DEF Made
  <2>2. n - 1 <= Len(info)
    BY <1>0, <1>1, <1>7
  <2>3. QED
    BY <1>7, <2>2 DEF work, WorkOf
<1>8. Service!Become(n, "accepted")
  BY <1>1, <1>5, <1>6, OneBecomes
<1>9. n \in Service!In("absent") /\ n - 1 \notin Service!In("absent")
  BY <1>1, <1>3, <1>7 DEF Service!In, Service!Requests, Requests, work
<1>10. QED
  BY <1>8, <1>9 DEF Service!Accept

\* Taking an abandoned request drops it; taking another changes nothing
\* the service speaks of.
LEMMA TakeDrops ==
  ASSUME IInv, IInv', Take
  PROVE  Service!Drop \/ UNCHANGED <<work, reply>>
<1> USE DEF IInv, Typed, TypeOK
<1> DEFINE h == Head(queue)
<1>0. None \notin Requests /\ reply' = reply
  BY DispatchAssumption DEF Requests, None, Take, reply, AnswerOf
<1>1. /\ h \in Requests /\ h \notin InQueue' /\ InQueue = InQueue' \cup {h}
      /\ UNCHANGED <<begun, info, answer, future>>
  BY TakeEffect DEF Take
<1>2. item = None /\ drain # "tool" /\ drain' # "tool" /\ Made' = Made
  BY <1>1 DEF Take, InOrder, Made
<1>3. h \notin begun /\ h \in Made /\ work[h] = "accepted"
  BY <1>1, WorkCases DEF work
<1>4. CASE Settled(h)
  <2>1. item' = None
    BY <1>4 DEF Take
  <2>2. work'[h] = "dropped"
    <3>1. h <= Len(info')
      BY <1>1, <1>3 DEF Made
    <3>2. QED
      BY <1>0, <1>1, <1>3, <2>1, <3>1 DEF work, WorkOf
  <2>3. \A q \in Requests \ {h} : work'[q] = work[q]
    <3>1. ASSUME NEW q \in Requests, q # h PROVE work'[q] = work[q]
      BY <1>0, <1>1, <1>2, <2>1, <3>1, WorkIsKept
    <3>2. QED
      BY <3>1
  <2>4. Service!Become(h, "dropped")
    BY <1>1, <2>2, <2>3, OneBecomes
  <2>5. h \in Service!In("accepted")
    BY <1>1, <1>3 DEF Service!In, Service!Requests, Requests, work
  <2>6. QED
    BY <2>4, <2>5 DEF Service!Drop
<1>5. CASE ~Settled(h)
  <2>1. item' = h
    BY <1>5 DEF Take
  <2>2. ASSUME NEW q \in Requests PROVE work'[q] = work[q]
    BY <1>0, <1>1, <1>2, <2>1, WorkIsKept
  <2>3. QED
    BY <1>0, <2>2 DEF work
<1>6. QED
  BY <1>4, <1>5

\* Refusing a stale, expired or unknown request drops it.
LEMMA RefuseDrops ==
  ASSUME IInv, IInv', Refuse
  PROVE  Service!Drop
<1> USE DEF IInv, Typed, TypeOK
<1>0. None \notin Requests
  BY DispatchAssumption DEF Requests, None
<1>1. /\ item \in Requests /\ drain = "item" /\ drain' = "loop" /\ item' = None
      /\ UNCHANGED <<info, begun, queue, answer>>
  BY DEF Refuse, ItemInHand
<1>2. UNCHANGED <<InQueue, Made>>
  BY <1>1 DEF InQueue, Made
<1>3. item \notin begun
  <2>1. \A b \in begun : b < item
    BY <1>1 DEF InOrder
  <2>2. item \in Nat
    BY <1>1, DispatchAssumption DEF Requests
  <2>3. QED
    BY <2>1, <2>2
<1>4. work[item] = "accepted" /\ item \in Made /\ item \notin InQueue
  BY <1>1, <1>3, WorkCases DEF work
<1>5. work'[item] = "dropped"
  <2>1. item <= Len(info')
    BY <1>1, <1>4 DEF Made
  <2>2. item # item' /\ item \notin InQueue' /\ item \notin begun'
    BY <1>0, <1>1, <1>2, <1>3, <1>4
  <2>3. ASSUME NEW q \in Requests, q = item PROVE work'[q] = "dropped"
    BY <2>1, <2>2, <2>3 DEF work, WorkOf
  <2>4. QED
    BY <1>1, <2>3
<1>6. ASSUME NEW q \in Requests, q # item PROVE work'[q] = work[q]
  BY <1>0, <1>1, <1>2, <1>6, WorkIsKept
<1>7. Service!Become(item, "dropped")
  BY <1>1, <1>5, <1>6, OneBecomes
<1>8. item \in Service!In("accepted")
  BY <1>1, <1>4 DEF Service!In, Service!Requests, Requests, work
<1>9. QED
  BY <1>7, <1>8 DEF Service!Drop

\* Beginning a tool is the service's Start: the oldest request, nothing else
\* running.
LEMMA BeginStarts ==
  ASSUME IInv, IInv', Begin
  PROVE  Service!Start
<1> USE DEF IInv, Typed, TypeOK
<1>1. /\ item \in Requests /\ drain = "item" /\ drain' = "tool" /\ begun' = begun \cup {item}
      /\ UNCHANGED <<info, item, queue, answer>>
  BY DEF Begin, ItemInHand
<1>2. UNCHANGED <<InQueue, Made>>
  BY <1>1 DEF InQueue, Made
<1>3. item \notin begun
  <2>1. \A b \in begun : b < item
    BY <1>1 DEF InOrder
  <2>2. item \in Nat
    BY <1>1, DispatchAssumption DEF Requests
  <2>3. QED
    BY <2>1, <2>2
<1>4. work[item] = "accepted"
  BY <1>1, <1>3, WorkCases DEF work
<1>5. work'[item] = "running"
  BY <1>1 DEF work, WorkOf
<1>6. ASSUME NEW q \in Requests, q # item PROVE work'[q] = work[q]
  BY <1>1, <1>2, <1>6, WorkIsKept
<1>7. Service!Become(item, "running")
  BY <1>1, <1>5, <1>6, OneBecomes
<1>8. ASSUME NEW q \in Requests, work[q] = "accepted" PROVE item <= q
  <2>1. q \in InQueue \/ q = item
    BY <1>8 DEF work, WorkOf
  <2>2. ASSUME q \in InQueue PROVE item < q
    BY <2>2 DEF InQueue, InOrder
  <2>3. item \in Nat /\ q \in Nat
    BY <1>1, DispatchAssumption DEF Requests
  <2>4. QED
    BY <2>1, <2>2, <2>3
<1>9. ASSUME NEW q \in Requests PROVE work[q] # "running"
  BY <1>1 DEF work, WorkOf
<1>10. Service!In("running") = {}
  BY <1>9 DEF Service!In, Service!Requests, Requests, work
<1>11. item \in Service!In("accepted") /\ \A q \in Service!In("accepted") : item <= q
  BY <1>1, <1>4, <1>8 DEF Service!In, Service!Requests, Requests, work
<1>12. QED
  BY <1>7, <1>10, <1>11 DEF Service!Start

\* The end of a tool is the service's Finish.
LEMMA FinishFinishes ==
  ASSUME IInv, IInv', Finish
  PROVE  Service!Finish
<1> USE DEF IInv, Typed, TypeOK
<1>0. None \notin Requests
  BY DispatchAssumption DEF Requests, None
<1>1. /\ item \in Requests /\ drain = "tool" /\ drain' = "finally" /\ item' = None
      /\ item \in begun
      /\ UNCHANGED <<info, begun, queue, answer>>
  BY DEF Finish, Finished, ItemInHand, InOrder
<1>2. UNCHANGED <<InQueue, Made>>
  BY <1>1 DEF InQueue, Made
<1>3. work[item] = "running"
  BY <1>1, WorkCases DEF work
<1>4. work'[item] = "ran"
  <2>1. ASSUME NEW q \in Requests, q = item PROVE work'[q] = "ran"
    BY <1>1, <2>1 DEF work, WorkOf
  <2>2. QED
    BY <1>1, <2>1
<1>5. ASSUME NEW q \in Requests, q # item PROVE work'[q] = work[q]
  BY <1>0, <1>1, <1>2, <1>5, WorkIsKept
<1>6. Service!Become(item, "ran")
  BY <1>1, <1>4, <1>5, OneBecomes
<1>7. item \in Service!In("running")
  BY <1>1, <1>3 DEF Service!In, Service!Requests, Requests, work
<1>8. QED
  BY <1>6, <1>7 DEF Service!Finish

\* Sending an answer, a timeout or nothing at all is the service's Tell.
LEMMA AnswerTells ==
  ASSUME IInv, IInv', NEW r \in Requests, Answer(r)
  PROVE  Service!Tell
<1> USE DEF IInv, Typed, TypeOK
<1>1. UNCHANGED <<info, begun, queue, drain, item>>
  BY DEF Answer, main
<1>2. UNCHANGED <<InQueue, Made>>
  BY <1>1 DEF InQueue, Made
<1>3. work' = work
  <2>1. ASSUME NEW q \in Requests PROVE work'[q] = work[q]
    BY <1>1, <1>2, WorkIsKept
  <2>2. QED
    BY <2>1 DEF work
<1>4. r \in waiting /\ r \in Made /\ answer[r] = "none"
  BY DEF Answer, Accounted
<1>5. work[r] # "absent" /\ reply[r] = "none"
  <2>1. r <= Len(info)
    BY <1>4 DEF Made
  <2>2. QED
    BY <1>4, <2>1 DEF work, WorkOf, reply, AnswerOf, Outcomes, Refusals
<1>6. PICK x \in (Results \ {"opaque"}) \cup {"none", "timeout"} :
        /\ answer' = [answer EXCEPT ![r] = x]
        /\ x \in Results => future[r] = x
  BY DEF Answer, Deliver, TimeOut, Results, Outcomes, Refusals
<1> DEFINE told == CASE x \in Outcomes -> "result"
                     [] x \in Refusals -> "refused"
                     [] OTHER -> x
<1>7. told \in Service!Reply
  BY DEF Service!Reply, Results, Outcomes, Refusals
<1>8. reply' = [reply EXCEPT ![r] = told]
  <2>1. answer'[r] = x /\ \A q \in Requests \ {r} : answer'[q] = answer[q]
    BY <1>6
  <2>2. AnswerOf(r)' = told
    BY <2>1 DEF AnswerOf
  <2>3. ASSUME NEW q \in Requests \ {r} PROVE AnswerOf(q)' = AnswerOf(q)
    BY <2>1 DEF AnswerOf
  <2>4. QED
    <3> HIDE DEF told
    <3>1. QED
      BY <2>2, <2>3 DEF reply
<1>9. told = "result" => work[r] = "ran"
  <2>1. SUFFICES ASSUME x \in Outcomes PROVE work[r] = "ran"
    BY <1>6 DEF Results, Outcomes, Refusals
  <2>2. r \in begun /\ r # item
    BY <1>6, <2>1 DEF AnswersAreTrue, Results
  <2>3. QED
    BY <2>2, WorkCases DEF work
<1>10. told = "refused" => work[r] = "dropped"
  <2>1. SUFFICES ASSUME x \in Refusals PROVE work[r] = "dropped"
    BY <1>6 DEF Results, Outcomes, Refusals
  <2>2. r \notin begun \cup InQueue \cup {item}
    BY <1>6, <2>1 DEF RefusedNeverRuns, Results
  <2>3. QED
    BY <1>4, <2>2, WorkCases DEF work
<1>11. QED
  <2> HIDE DEF told
  <2>1. /\ reply[r] = "none" /\ work[r] # "absent"
        /\ told = "result" => work[r] = "ran"
        /\ told = "refused" => work[r] = "dropped"
        /\ reply' = [reply EXCEPT ![r] = told] /\ UNCHANGED work
    BY <1>3, <1>5, <1>8, <1>9, <1>10
  <2>2. QED
    BY <1>7, <2>1 DEF Service!Tell, Service!Requests, Requests, work, reply

\* Steps that move no request are invisible to the service.
LEMMA ServiceStutters ==
  ASSUME IInv, IInv', UNCHANGED <<answer, info, begun, queue, item>>,
         drain' = drain \/ DrainEnd \/ Clear
  PROVE  UNCHANGED <<work, reply>>
<1>1. UNCHANGED <<InQueue, Made>> /\ (drain' = "tool" <=> drain = "tool")
  BY DEF InQueue, Made, DrainEnd, Clear
<1>2. ASSUME NEW q \in Requests PROVE work'[q] = work[q]
  BY <1>1, WorkIsKept
<1>3. QED
  BY <1>2 DEF work, reply, AnswerOf

\* Before the first request the service is in its initial state.
LEMMA ServiceInit == Init => Service!Init
<1> SUFFICES ASSUME Init PROVE Service!Init
  OBVIOUS
<1>1. ASSUME NEW r \in Requests PROVE WorkOf(r) = "absent" /\ AnswerOf(r) = "none"
  <2>1. r \notin begun /\ r \notin InQueue /\ item # r /\ ~(r <= Len(info)) /\ answer[r] = "none"
    BY DispatchAssumption DEF Init, InQueue, Requests, None
  <2>2. QED
    BY <2>1 DEF WorkOf, AnswerOf, Outcomes, Refusals
<1>2. QED
  BY <1>1 DEF Service!Init, Service!Requests, Requests

\* Every step of the dispatch is a step of the service or invisible to it.
LEMMA ServiceStep ==
  ASSUME IInv, IInv', [Next]_vars
  PROVE  [Service!Next]_<<work, reply>>
<1>1. CASE Receive
  BY <1>1, ReceiveAccepts DEF Service!Next
<1>2. CASE Take
  BY <1>2, TakeDrops DEF Service!Next
<1>3. CASE Refuse
  BY <1>3, RefuseDrops DEF Service!Next
<1>4. CASE Begin
  BY <1>4, BeginStarts DEF Service!Next
<1>5. CASE Finish
  BY <1>5, FinishFinishes DEF Service!Next
<1>6. CASE \E r \in Requests : Answer(r)
  BY <1>6, AnswerTells DEF Service!Next
<1>7. CASE DrainEnd \/ Clear
  BY <1>7, ServiceStutters DEF DrainEnd, Clear
<1>8. CASE UNCHANGED <<answer, info, begun, queue, item, drain>>
  BY <1>8, ServiceStutters
<1>9. QED
  BY <1>1, <1>2, <1>3, <1>4, <1>5, <1>6, <1>7, <1>8
     DEF Next, Drain, Lifecycle, Connect, Disconnect, Unregister, StopServer, Register,
         vars, main

\* Requests run one at a time, in the order they came and at most once, and what
\* a client is told is what happened: for any number of clients, requests and
\* reloads the dispatch is a request service.
THEOREM RequestServiceImplemented == Spec => ImplementsRequestService
<1>1. IInv /\ IInv' /\ [Next]_vars => [Service!Next]_(Service!vars)
  BY ServiceStep DEF Service!vars, work, reply
<1>2. QED
  BY <1>1, ServiceInit, DispatchInvariant, PTL DEF Spec, ImplementsRequestService, Service!Spec
---------------------------------------------------------------------------
(* What RequestService promises its clients, and so what the dispatch does. *)

Promised == Service!TypeOK /\ Service!EarlierRequestsAreOver /\ Service!WhatIsToldIsSo

\* The promises in terms of the two functions the service speaks of.
LEMMA PromisedIs ==
  Promised <=>
    /\ work \in [Requests -> Service!Work] /\ reply \in [Requests -> Service!Reply]
    /\ \A q, r \in Requests :
         q < r => /\ work[r] # "absent" => work[q] # "absent"
                  /\ work[r] \in {"running", "ran"} => work[q] \in {"ran", "dropped"}
    /\ \A r \in Requests : /\ reply[r] = "result" => work[r] = "ran"
                           /\ reply[r] = "refused" => work[r] = "dropped"
  BY DEF Promised, Service!TypeOK, Service!EarlierRequestsAreOver, Service!WhatIsToldIsSo,
         Service!Requests, Requests, work, reply

\* Every step of the service keeps them, and what has run or was dropped stays so.
LEMMA ServiceKeeps ==
  ASSUME Promised, [Service!Next]_(Service!vars)
  PROVE  /\ Promised'
         /\ \A r \in Requests : work[r] \in {"ran", "dropped"} => work'[r] = work[r]
<1>0. Requests \subseteq Nat /\ \A r \in Requests : r > 1 => r - 1 \in Requests
  BY DispatchAssumption DEF Requests
<1>1. /\ work \in [Requests -> Service!Work] /\ reply \in [Requests -> Service!Reply]
      /\ \A q, r \in Requests :
           q < r => /\ work[r] # "absent" => work[q] # "absent"
                    /\ work[r] \in {"running", "ran"} => work[q] \in {"ran", "dropped"}
      /\ \A r \in Requests : /\ reply[r] = "result" => work[r] = "ran"
                             /\ reply[r] = "refused" => work[r] = "dropped"
  BY PromisedIs
<1> DEFINE Kept(w, p) ==
             /\ w \in [Requests -> Service!Work] /\ p \in [Requests -> Service!Reply]
             /\ \A q, r \in Requests :
                  q < r => /\ w[r] # "absent" => w[q] # "absent"
                           /\ w[r] \in {"running", "ran"} => w[q] \in {"ran", "dropped"}
             /\ \A r \in Requests : /\ p[r] = "result" => w[r] = "ran"
                                    /\ p[r] = "refused" => w[r] = "dropped"
             /\ \A r \in Requests : work[r] \in {"ran", "dropped"} => w[r] = work[r]
<1> USE DEF Service!Work, Service!Reply
<1>2. ASSUME Service!Accept PROVE Kept(work', reply')
  <2>1. PICK r \in Requests :
          /\ work[r] = "absent" /\ (r - 1 \in Requests => work[r - 1] # "absent")
          /\ work' = [work EXCEPT ![r] = "accepted"] /\ reply' = reply
    BY <1>2 DEF Service!Accept, Service!In, Service!Become, Service!Requests, Requests,
                work, reply
  <2>2. \A q \in Requests : q < r => work[q] # "absent"
    BY <1>0, <1>1, <2>1
  <2>3. \A q \in Requests : r < q => work[q] = "absent"
    BY <1>0, <1>1, <2>1
  <2>4. QED
    BY <1>0, <1>1, <2>1, <2>2, <2>3
<1>3. ASSUME Service!Start PROVE Kept(work', reply')
  <2>1. PICK r \in Requests :
          /\ work[r] = "accepted" /\ \A q \in Requests : work[q] # "running"
          /\ \A q \in Requests : work[q] = "accepted" => r <= q
          /\ work' = [work EXCEPT ![r] = "running"] /\ reply' = reply
    BY <1>3 DEF Service!Start, Service!In, Service!Become, Service!Requests, Requests,
                work, reply
  <2>2. \A q \in Requests : q < r => work[q] \in {"ran", "dropped"}
    BY <1>0, <1>1, <2>1
  <2>3. QED
    BY <1>0, <1>1, <2>1, <2>2
<1>4. ASSUME Service!Finish PROVE Kept(work', reply')
  <2>1. PICK r \in Requests : /\ work[r] = "running"
                              /\ work' = [work EXCEPT ![r] = "ran"] /\ reply' = reply
    BY <1>4 DEF Service!Finish, Service!In, Service!Become, Service!Requests, Requests,
                work, reply
  <2>2. QED
    BY <1>0, <1>1, <2>1
<1>5. ASSUME Service!Drop PROVE Kept(work', reply')
  <2>1. PICK r \in Requests : /\ work[r] = "accepted"
                              /\ work' = [work EXCEPT ![r] = "dropped"] /\ reply' = reply
    BY <1>5 DEF Service!Drop, Service!In, Service!Become, Service!Requests, Requests,
                work, reply
  <2>2. QED
    BY <1>0, <1>1, <2>1
<1>6. ASSUME Service!Tell PROVE Kept(work', reply')
  <2>1. PICK r \in Requests, x \in Service!Reply :
          /\ x = "result" => work[r] = "ran"
          /\ x = "refused" => work[r] = "dropped"
          /\ reply' = [reply EXCEPT ![r] = x] /\ work' = work
    BY <1>6 DEF Service!Tell, Service!Requests, Requests, work, reply
  <2>2. QED
    BY <1>1, <2>1
<1>7. Kept(work', reply')
  <2>1. CASE work' = work /\ reply' = reply
    BY <1>1, <2>1
  <2>2. QED
    BY <1>2, <1>3, <1>4, <1>5, <1>6, <2>1 DEF Service!Next, Service!vars, work, reply
<1>8. Promised'
  BY <1>7, PromisedIs DEF Promised, Service!TypeOK, Service!EarlierRequestsAreOver,
         Service!WhatIsToldIsSo, Service!Requests, Requests, work, reply
<1>9. QED
  BY <1>7, <1>8

\* What the service promises of order and truth holds of every behaviour of the
\* dispatch: when a tool runs, every request that came before has run or never will,
\* and what a client is told of a request is so.
THEOREM ServiceIsAsPromised ==
  Spec => [](Service!EarlierRequestsAreOver /\ Service!WhatIsToldIsSo)
<1>1. Service!Init => Promised
  BY DEF Service!Init, Promised, Service!TypeOK, Service!EarlierRequestsAreOver,
         Service!WhatIsToldIsSo, Service!Work, Service!Reply
<1>2. Promised /\ [Service!Next]_(Service!vars) => Promised'
  BY ServiceKeeps
<1>3. Promised => Service!EarlierRequestsAreOver /\ Service!WhatIsToldIsSo
  BY DEF Promised
<1>4. QED
  BY <1>1, <1>2, <1>3, RequestServiceImplemented, PTL
  DEF ImplementsRequestService, Service!Spec

\* The main thread is in the tool of request r.
Runs(r) == drain = "tool" /\ item = r

\* A tool is run at most once for a request, and not at all for one that has left the
\* queue without: no retry, reload or late cancel brings it back.
THEOREM RunsAtMostOnce ==
  Spec => \A r \in Requests :
            [](WorkOf(r) \in {"ran", "dropped"} => [](~Runs(r)))
<1> SUFFICES ASSUME NEW r \in Requests
             PROVE  Spec => [](WorkOf(r) \in {"ran", "dropped"} => [](~Runs(r)))
  OBVIOUS
<1> DEFINE Over == WorkOf(r) \in {"ran", "dropped"}
<1>1. Service!Init => Promised
  BY DEF Service!Init, Promised, Service!TypeOK, Service!EarlierRequestsAreOver,
         Service!WhatIsToldIsSo, Service!Work, Service!Reply
<1>2. Promised /\ [Service!Next]_(Service!vars) => Promised' /\ (Over => Over')
  BY ServiceKeeps DEF work
<1>3. IInv /\ Over => ~Runs(r)
  BY WorkCases DEF Runs
<1>4. QED
  BY <1>1, <1>2, <1>3, DispatchInvariant, RequestServiceImplemented, PTL
  DEF ImplementsRequestService, Service!Spec
===========================================================================
