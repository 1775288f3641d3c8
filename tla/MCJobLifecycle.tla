--------------------------- MODULE MCJobLifecycle ---------------------------
(***************************************************************************)
(* Instances of JobLifecycle for TLC: which API processes there are, which  *)
(* queue each is configured for, and which uploads resolve to one run.      *)
(***************************************************************************)
EXTENDS JobLifecycle, TLC

CONSTANTS j1, j2, j3, k1, k2, k3, a1, a2

\* Every upload a run of its own.
DistinctRuns == (j1 :> k1) @@ (j2 :> k2) @@ (j3 :> k3)
TwoJobs == (j1 :> k1) @@ (j2 :> k2)

\* docker-compose.yml: the default, and the deployment with a queue.
OneInline == [a \in Apis |-> "inline"]
AllQueued == [a \in Apis |-> "rq"]
=============================================================================
