--------------------------- MODULE PromotionChain ---------------------------
(***************************************************************************)
(* A champion that is challenged again and again on one and the same        *)
(* holdout, each time by registry.better.  What the rule promises about     *)
(* such a chain holds for scores of any sign and any margin >= 0.           *)
(***************************************************************************)
EXTENDS PromotionRule

CONSTANT ScoreRange \* the scores a model may get
ASSUME ScoreAssumption == ScoreRange \subseteq Int

VARIABLES metric,   \* the run's selection metric
          champion, \* the champion's score on it
          beaten    \* the scores of champions that lost their place
vars == <<metric, champion, beaten>>

Metrics == {"f1", "rmse"}

Init ==
  /\ metric \in Metrics
  /\ champion \in ScoreRange
  /\ beaten = {}

\* One retrain whose challenger takes over.
Challenge ==
  \E challenger \in ScoreRange \union {NoScore} :
    /\ Promotes(metric, challenger, champion)
    /\ champion' = challenger
    /\ beaten' = beaten \union {champion}
    /\ UNCHANGED metric

Next == Challenge
Spec == Init /\ [][Next]_vars

\* The better of two scores, by the metric's own direction.
Better(m, x, y) == IF m = "rmse" THEN x < y ELSE x > y

\* Each promotion is a strict gain on the metric, whatever the sign of the
\* scores: a margin must not let a worse model in (better in registry.py).
PromotionIsAGain == [][Better(metric, champion', champion)]_vars

\* No cycle of promotions: the champion is better than every model that lost its
\* place, to it or to one before it, and none of them wins the place back.
NoWayBack ==
  \A old \in beaten : /\ Better(metric, champion, old)
                      /\ ~Promotes(metric, old, champion)

=============================================================================
