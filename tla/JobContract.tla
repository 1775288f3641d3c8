----------------------------- MODULE JobContract -----------------------------
(***************************************************************************)
(* What an upload promises the browser that polls it, with no word of       *)
(* processes, queues or workers: a job is accepted once, goes only forward,  *)
(* is completed only when its run is listed, and what the browser was told   *)
(* at the end stays true.  Jobs are interrupted together, by a restart; the  *)
(* one thing that brings an interrupted job back to life is a process that   *)
(* fell back to its own queue while others were at work (degraded).          *)
(***************************************************************************)
CONSTANTS Jobs,   \* uploads, one job id each
          Runs,   \* run keys
          RunOf   \* the run key an upload resolves to

VARIABLES
  state,     \* per job, what GET /upload/status answers about it
  told,      \* the answer at which its browser stopped polling
  listed,    \* run keys the workspace lists
  degraded   \* a process may have fallen back to its own queue

vars == <<state, told, listed, degraded>>

UnderWay == {"queued", "running"}
Over == {"completed", "failed", "interrupted"}
Move(j, there) == state' = [state EXCEPT ![j] = there]

Init ==
  /\ state = [j \in Jobs |-> "new"]
  /\ told = [j \in Jobs |-> "none"]
  /\ listed = {}
  /\ degraded = FALSE

Accept(j) ==
  /\ state[j] = "new"
  /\ Move(j, "queued")
  /\ UNCHANGED <<told, listed, degraded>>

Report(j) ==
  /\ state[j] \in UnderWay
  /\ Move(j, "running")
  /\ UNCHANGED <<told, listed, degraded>>

ListRun(r) ==
  /\ listed' = listed \union {r}
  /\ UNCHANGED <<state, told, degraded>>

Complete(j) ==
  /\ state[j] \in UnderWay
  /\ RunOf[j] \in listed
  /\ Move(j, "completed")
  /\ UNCHANGED <<told, listed, degraded>>

Fail(j) ==
  /\ state[j] \in UnderWay
  /\ Move(j, "failed")
  /\ UNCHANGED <<told, listed, degraded>>

\* The browser stops at a final answer; it is not told why a job failed.
Tell(j) ==
  /\ told[j] = "none"
  /\ state[j] \in Over
  /\ told' = [told EXCEPT ![j] =
                IF state[j] = "completed" THEN "completed" ELSE "failed"]
  /\ UNCHANGED <<state, listed, degraded>>

Degrade ==
  /\ degraded' = TRUE
  /\ UNCHANGED <<state, told, listed>>

Revive(j) ==
  /\ degraded
  /\ state[j] = "interrupted"
  /\ \/ Move(j, "running")
     \/ Move(j, "failed")
     \/ RunOf[j] \in listed /\ Move(j, "completed")
  /\ UNCHANGED <<told, listed, degraded>>

\* A process dies with the requests it had, or starts: what was under way in it
\* is interrupted, and old rows are purged, whatever they say: one that a dead
\* process left queued behind Redis is never answered in another way.
Restart ==
  /\ \E lost \in SUBSET {j \in Jobs : state[j] \in UnderWay},
        gone \in SUBSET Jobs :
       state' = [j \in Jobs |-> IF j \in gone THEN "gone"
                                ELSE IF j \in lost THEN "interrupted"
                                ELSE state[j]]
  /\ \/ UNCHANGED degraded
     \/ degraded' = TRUE
  /\ UNCHANGED <<told, listed>>

Next ==
  \/ \E j \in Jobs : \/ Accept(j) \/ Report(j) \/ Complete(j) \/ Fail(j)
                     \/ Tell(j) \/ Revive(j)
  \/ \E r \in Runs : ListRun(r)
  \/ Degrade
  \/ Restart

Spec == Init /\ [][Next]_vars
=============================================================================
