---------------------------- MODULE JobService ----------------------------
(***************************************************************************)
(* What the job scheduler promises a client that submits work and polls    *)
(* it: jobs are served one at a time and oldest first, a job that was      *)
(* started is never started again, and a job is forgotten only after it    *)
(* ended.  How a job ended (completed, cancelled, failed) is left out, and *)
(* so is everything the scheduler does to achieve this.                    *)
(***************************************************************************)
EXTENDS Naturals

CONSTANT MaxJobs  \* bound: how many jobs are submitted

JobIds == 1..MaxJobs

Phase == {"absent", "waiting", "working", "ended", "forgotten"}

VARIABLE phase

TypeOK == phase \in [JobIds -> Phase]

Init == phase = [j \in JobIds |-> "absent"]

In(p) == {j \in JobIds : phase[j] = p}

\* A submission may push ended jobs out of a bounded history.
Submit ==
  \E j \in In("absent"), old \in SUBSET In("ended") :
    /\ \A k \in In("absent") : j <= k
    /\ phase' = [k \in JobIds |-> IF k = j THEN "waiting"
                                  ELSE IF k \in old THEN "forgotten" ELSE phase[k]]

Start ==
  \E j \in In("waiting") :
    /\ In("working") = {}
    /\ \A k \in In("waiting") : j <= k
    /\ phase' = [phase EXCEPT ![j] = "working"]

\* One job ends by itself or is cancelled; a reload ends them all.
End ==
  \E S \in SUBSET (In("waiting") \cup In("working")) :
    phase' = [k \in JobIds |-> IF k \in S THEN "ended" ELSE phase[k]]

Expire ==
  \E old \in SUBSET In("ended") :
    phase' = [k \in JobIds |-> IF k \in old THEN "forgotten" ELSE phase[k]]

Next == Submit \/ Start \/ End \/ Expire

Spec == Init /\ [][Next]_phase
---------------------------------------------------------------------------
(* What a client may rely on.                                              *)

\* Jobs are submitted and served in one order: while a job works every job before
\* it is over, so that it is the only one.
EarlierJobsAreOver ==
  \A i, j \in JobIds :
    i < j => /\ phase[j] # "absent" => phase[i] # "absent"
             /\ phase[j] = "working" => phase[i] \in {"ended", "forgotten"}
===========================================================================
