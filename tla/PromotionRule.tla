--------------------------- MODULE PromotionRule ---------------------------
(***************************************************************************)
(* The comparison that decides whether a retrained model replaces the one   *)
(* being served: better() of backend/registry.py.  Scores are integers (a   *)
(* float scaled by a fixed factor) or NoScore for a model that could not be *)
(* scored; the margin is the fraction MarginNum / MarginDen of              *)
(* CHALLENGER_PROMOTION_MARGIN.                                             *)
(***************************************************************************)
EXTENDS Integers

CONSTANTS MarginNum, \* numerator of settings.challenger_promotion_margin
          MarginDen, \* its denominator
          NoScore    \* the None of a model that has no score on the metric

\* config.py declares the margin with ge=0.0.
ASSUME MarginAssumption ==
  /\ MarginNum \in Nat
  /\ MarginDen \in Nat \ {0}
  /\ NoScore \notin Int

\* The metrics the analyst selects on for which a smaller number is better.
LOWER_IS_BETTER == {"rmse", "mae", "mape", "brier"}

\* A slip: a margin that flips its sign with the champion's score.
Magnitude_Signed(score) == score

Magnitude(score) == IF score < 0 THEN -score ELSE score

\* How much the challenger gains on the champion, in the metric's direction.
Improvement(metric, challenger, champion) ==
  IF metric \in LOWER_IS_BETTER THEN champion - challenger
                                ELSE challenger - champion

\* better(...)["promote"]: the improvement exceeds the margin, taken relative
\* to the size of the champion's own score; no score, no promotion.
Promotes(metric, challenger, champion) ==
  /\ challenger # NoScore
  /\ champion # NoScore
  /\ Improvement(metric, challenger, champion) * MarginDen
        > Magnitude(champion) * MarginNum

=============================================================================
