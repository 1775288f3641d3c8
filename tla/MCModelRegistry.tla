-------------------------- MODULE MCModelRegistry --------------------------
(***************************************************************************)
(* Instances of ModelRegistry for TLC.  Executions are spread over one host *)
(* that has a disk of its own, or over two that share only the bucket.      *)
(***************************************************************************)
EXTENDS ModelRegistry

CONSTANTS h1, h2

\* Everything runs on the first host.
OneHost == [p \in Procs |-> h1]

\* The second host runs the second retrainer and every prediction.
CONSTANTS r2
TwoHosts == [p \in Procs |-> IF p = r2 \/ p \in Predictors THEN h2 ELSE h1]

\* Two scores the margin of 1/100 tells apart.
TwoScores == {50, 60}
=============================================================================
