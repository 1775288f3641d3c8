------------------------------ MODULE Training ------------------------------
(***************************************************************************)
(* How a model is chosen, and what is said of it: train_models of           *)
(* ml/train.py with the folds, the search budget (ml/tuning.py) and SMOTE   *)
(* (ml/imbalance.py), the calibration of an upload's model                  *)
(* (ml/calibration.py), the retrain that repeats the training as the run's  *)
(* metadata describes it (retraining.py), and what a prediction claims of   *)
(* its confidence (routes/predict.py).                                      *)
(*                                                                          *)
(* Cross-validation draws a mean and a spread; scores and calibration       *)
(* errors are small integers (an error of 7 is 0.07), row counts are real.  *)
(* Any step of a learner may raise.  Who wins a comparison of scores is     *)
(* PromotionRule's matter: here a challenger that can be compared may win.  *)
(***************************************************************************)
EXTENDS Integers, Sequences, FiniteSets, Functions, SequencesExt

CONSTANTS Registry,  \* per problem, the learners in their order of priority
          Tunable,   \* those with a search space
          MaxModels, \* settings.max_candidate_models, 0 for no cap
          Orders,    \* the trainings an upload may ask for
          Means, Spreads, \* scores, and their spread over the folds
          Errors,    \* expected calibration errors
          MaxRetrains, \* bound on retrains
          Nothing    \* the None of a score, an error, a model

\* The holdout is a fifth of the rows, rounded up.
Holdout(o) == (o.rows + 4) \div 5
Development(o) == o.rows - Holdout(o)

\* The rows of each class of the development split.
Starts(o, j) == IF j = 1 THEN 0 ELSE o.ends[j - 1]
ClassSizes(o) == [j \in DOMAIN o.ends |-> o.ends[j] - Starts(o, j)]
Smallest(o) == Min(Range(ClassSizes(o)))

\* The registries are dictionaries; an order has rows enough to be folded after
\* the split (_train refuses fewer than ten).
Problems == {"classification", "regression"}
TrainingConstants ==
  /\ \A p \in Problems :
       /\ Registry[p] \in Seq(STRING \ {"Ensemble"}) /\ Registry[p] # <<>>
       /\ IsInjective(Registry[p])
  /\ \A o \in Orders :
       /\ o \in [problem : Problems, mode : {"auto", "ensemble", "manual"},
                 pick : STRING \union {Nothing}, budget : Nat, smote : BOOLEAN,
                 calibrate : BOOLEAN, rows : Nat, ends : Seq(Nat)]
       /\ o.rows >= 3
       /\ o.problem = "classification" =>
            /\ o.ends # <<>> /\ Last(o.ends) = Development(o)
            /\ \A j \in DOMAIN o.ends : ClassSizes(o)[j] > 0
  /\ MaxModels \in Nat /\ MaxRetrains \in Nat
  /\ Means \union Spreads \union Errors \subseteq Nat
  /\ Nothing \notin Nat

VARIABLES
  stage,    \* where the training stands
  order,    \* what was asked: problem, mode, pick, budget, smote, and the
            \* data: rows, ends (of its classes in the development split,
            \* sorted by class, in the order in which they first appear)
  baseline, \* what the constant predictor scored on the folds
  left,     \* candidates still to be trained
  spent,    \* seconds of the search budget that have passed
  tuned,    \* learners that report a search
  drawn,    \* the summary of the candidate's cross-validation
  cv,       \* the summaries that were kept
  trained,  \* models that were fitted and scored on the holdout
  failed,   \* learners that were skipped
  best, members, selected, \* of the single models, of the vote, of all
  meta,     \* the run's metadata
  served,   \* the version that is served
  retrains,
  raised    \* a learner raised although its data allowed it to train

search == <<left, spent, tuned>>
scores == <<drawn, cv, trained>>
choice == <<best, members, selected>>
versions == <<meta, served, retrains>>
trainingVars == <<stage, order, baseline, search, scores, failed, choice,
                  versions, raised>>

-----------------------------------------------------------------------------
(* The data: folds, candidates, SMOTE                                       *)

Least(a, b) == IF a < b THEN a ELSE b

\* build_cv: fewer folds for large data, and none without the rarest class.
Folds(o) ==
  LET folds == IF Development(o) > 20000 THEN 3 ELSE 5
  IN IF o.problem = "classification" /\ Smallest(o) >= 2
     THEN Least(folds, Smallest(o))
     ELSE Least(folds, Development(o))

Histogram == {"HistGradientBoosting", "HistGradientBoostingRegressor"}
Superlinear == {"SVM", "SVR", "GradientBoosting", "GradientBoostingRegressor"}

\* _prune_registry: the candidates that suit the size, up to the cap.
Pruned(problem, size) ==
  LET suits(l) == /\ size < 1000 => l \notin Histogram
                  /\ size > 5000 => l \notin Superlinear
      suited == SelectSeq(Registry[problem], suits)
  IN IF MaxModels > 0 /\ Len(suited) > MaxModels
     THEN SubSeq(suited, 1, MaxModels) ELSE suited

\* What is left of a dictionary has no learner twice.
TriedOnce ==
  \A o \in Orders :
    LET pruned == Pruned(o.problem, o.rows)
    IN pruned \in Seq(STRING \ {"Ensemble"}) /\ IsInjective(pruned)

\* Manual mode prunes nothing, and an explicit choice has to exist.
Candidates(o) ==
  IF o.mode # "manual" THEN Pruned(o.problem, o.rows)
  ELSE IF o.pick = Nothing THEN Registry[o.problem]
  ELSE IF o.pick \in Range(Registry[o.problem]) THEN <<o.pick>> ELSE <<>>

\* A slip: room for the neighbours, and none for the row itself.
CanUseSmote_FromFive(o) == Len(o.ends) >= 2 /\ Smallest(o) >= 5

\* can_use_smote.
CanUseSmote(o) == Len(o.ends) >= 2 /\ Smallest(o) >= 6
Smotes(o) == o.smote /\ o.problem = "classification" /\ CanUseSmote(o)

\* build_pipeline: k is fixed on the development split.
Neighbours(o) == Least(5, Smallest(o) - 1)

\* StratifiedKFold deals the rows, sorted by class, to k folds in turn: how
\* many of the first n go to fold i, and what is left of a class without them.
Dealt(n, k, i) == (n + k - 1 - i) \div k
Part(o, k, i) ==
  [j \in DOMAIN o.ends |->
     ClassSizes(o)[j] - (Dealt(o.ends[j], k, i) - Dealt(Starts(o, j), k, i))]

\* SMOTE adds rows to every class that is smaller than another one, and needs
\* k neighbours of a row for that.
Sound(o, k, i) ==
  \A j, l \in DOMAIN o.ends :
    Part(o, k, i)[j] < Part(o, k, i)[l] => Part(o, k, i)[j] > Neighbours(o)

\* On how many of k stratified training parts a learner can be fitted.
SoundFolds(o, k) ==
  IF ~Smotes(o) THEN k ELSE Cardinality({i \in 0 .. k - 1 : Sound(o, k, i)})

-----------------------------------------------------------------------------
(* train_models: the candidates                                             *)

NoRun == [problem |-> Nothing, mode |-> Nothing, pick |-> Nothing,
          budget |-> 0, smote |-> FALSE, applied |-> FALSE,
          before |-> Nothing, after |-> Nothing, verdict |-> "unmeasured"]
NoModel == [version |-> 0, problem |-> Nothing, calibrated |-> FALSE,
            error |-> Nothing]

TrainingInit ==
  /\ stage = "idle" /\ order = Nothing /\ baseline = Nothing
  /\ left = <<>> /\ spent = 0 /\ tuned = {}
  /\ drawn = Nothing /\ cv = <<>> /\ trained = {} /\ failed = {}
  /\ best = Nothing /\ members = {} /\ selected = Nothing
  /\ meta = NoRun /\ served = NoModel
  /\ retrains = 0 /\ raised = FALSE

\* What a training has found.
Blank ==
  /\ spent' = 0 /\ tuned' = {}
  /\ drawn' = Nothing /\ cv' = <<>> /\ trained' = {} /\ failed' = {}
  /\ best' = Nothing /\ members' = {} /\ selected' = Nothing
  /\ raised' = FALSE

\* The bundle is written; the rest of the result goes with the call.
Return ==
  /\ stage' = "served"
  /\ order' = Nothing /\ baseline' = Nothing /\ left' = <<>>
  /\ Blank

\* The split, the folds, the baseline on them and the candidates.
Begin(o) ==
  /\ order' = o
  /\ baseline' \in Means \union {Nothing}
  /\ left' = Candidates(o)
  /\ stage' = IF Candidates(o) = <<>> THEN "failed" ELSE "tune"
  /\ Blank

Upload ==
  /\ stage = "idle"
  /\ \E o \in Orders : Begin(o)
  /\ UNCHANGED versions

\* tune_pipeline: the budget is asked between models, and runs out while
\* models are searched or fitted.  A search of which one fold fails has no
\* finite score and is thrown away.
Tune ==
  /\ stage = "tune"
  /\ \/ /\ order.budget <= spent \/ Head(left) \notin Tunable
        /\ UNCHANGED <<spent, tuned>>
     \/ /\ order.budget > spent /\ Head(left) \in Tunable
        /\ spent' \in {spent, order.budget}
        /\ \/ UNCHANGED tuned
           \/ /\ SoundFolds(order, Folds(order)) = Folds(order)
              /\ tuned' = tuned \union {Head(left)}
  /\ stage' = "fold"
  /\ UNCHANGED <<order, baseline, left, scores, failed, choice, versions,
                 raised>>

\* The next candidate; behind the last, training goes on if one was trained.
Advance ==
  /\ left' = Tail(left)
  /\ drawn' = Nothing
  /\ stage' = IF Len(left) > 1 THEN "tune"
              ELSE IF trained' = {} THEN "failed" ELSE "select"

\* cross_validate with summarise_cv: a fold that fails is dropped, also one on
\* which the learner could have been fitted, and one fold has no spread.
CrossValidate ==
  /\ stage = "fold"
  /\ \E folds \in 1..SoundFolds(order, Folds(order)),
        s \in [mean : Means, std : Spreads] :
       /\ folds = 1 => s.std = 0
       /\ drawn' = s
  /\ spent' \in {spent, order.budget}
  /\ stage' = "fit"
  /\ UNCHANGED <<order, baseline, left, tuned, cv, trained, failed, choice,
                 versions, raised>>

Keep(name, summary) ==
  [l \in DOMAIN cv \union {name} |-> IF l = name THEN summary ELSE cv[l]]

\* A slip: the scores are kept before the model has been fitted.
FitAndScore_KeepsFirst ==
  /\ stage = "fit"
  /\ cv' = Keep(Head(left), drawn)
  /\ \/ trained' = trained \union {Head(left)} /\ UNCHANGED failed
     \/ failed' = failed \union {Head(left)} /\ UNCHANGED trained
  /\ Advance
  /\ UNCHANGED <<order, baseline, spent, tuned, choice, versions,
                 raised>>

\* The fit on the development split, the one score on the holdout, and only
\* then the candidate's entries.
FitAndScore ==
  /\ stage = "fit"
  /\ trained' = trained \union {Head(left)}
  /\ cv' = Keep(Head(left), drawn)
  /\ Advance
  /\ UNCHANGED <<order, baseline, spent, tuned, failed, choice, versions,
                 raised>>

\* The candidate is skipped, and the reason kept: no fold trained, or any of
\* its steps raised.
Skip ==
  /\ stage \in {"tune", "fold", "fit"}
  /\ \/ /\ stage = "fold" /\ SoundFolds(order, Folds(order)) = 0
        /\ UNCHANGED raised
     \/ raised' = TRUE
  /\ failed' = failed \union {Head(left)}
  /\ UNCHANGED <<cv, trained>>
  /\ Advance
  /\ UNCHANGED <<order, baseline, spent, tuned, choice, versions>>

-----------------------------------------------------------------------------
(* train_models: the choice                                                 *)

\* HIGHER_IS_BETTER[SELECTION_METRIC[problem]]: macro F1, or RMSE.
Beats(x, y) == IF order.problem = "classification" THEN x > y ELSE x < y

\* The sort key of select_best: the mean, and of equal means the spread.
Ahead(s, t) ==
  \/ Beats(s.mean, t.mean)
  \/ s.mean = t.mean /\ s.std < t.std

\* select_best: of the models that are ahead of all, the first in the registry.
Select ==
  /\ stage = "select"
  /\ LET place(l) == CHOOSE i \in DOMAIN Registry[order.problem] :
                       Registry[order.problem][i] = l
     IN best' \in {l \in DOMAIN cv : \A other \in DOMAIN cv \ {l} :
                     /\ ~Ahead(cv[other], cv[l])
                     /\ Ahead(cv[l], cv[other]) \/ place(l) < place(other)}
  /\ selected' = best'
  /\ stage' = IF order.mode = "ensemble" THEN "vote" ELSE "chosen"
  /\ UNCHANGED <<order, baseline, search, scores, failed, members, versions,
                 raised>>

\* build_ensemble: those that beat the constant predictor, if there are two.
Voters ==
  IF baseline = Nothing THEN {}
  ELSE {l \in trained : Beats(cv[l].mean, baseline)}

Settle(name) == selected' = name /\ stage' = "chosen"

NoVote ==
  /\ stage = "vote"
  /\ Cardinality(Voters) < 2
  /\ Settle(best)
  /\ UNCHANGED <<order, baseline, search, scores, failed, best, members,
                 versions, raised>>

\* The vote is cross-validated and fitted, and its summary is kept, with no
\* score in it if every fold failed.
FitEnsemble ==
  /\ stage = "vote"
  /\ Cardinality(Voters) >= 2
  /\ members' = Voters
  /\ \E m \in Means \union {Nothing} :
       cv' = Keep("Ensemble", [mean |-> m, std |-> 0])
  /\ stage' = "voted"
  /\ UNCHANGED <<order, baseline, search, drawn, trained, failed, best,
                 selected, versions, raised>>

ScoreEnsemble ==
  /\ stage = "voted"
  /\ trained' = trained \union {"Ensemble"}
  /\ Settle("Ensemble")
  /\ UNCHANGED <<order, baseline, search, drawn, cv, failed, best, members,
                 versions, raised>>

\* What raises before or after the summary was kept.
EnsembleFails ==
  /\ \/ stage = "voted"
     \/ stage = "vote" /\ Cardinality(Voters) >= 2
  /\ members' = Voters
  /\ failed' = failed \union {"Ensemble"}
  /\ Settle(best)
  /\ UNCHANGED <<order, baseline, search, scores, best, versions, raised>>

-----------------------------------------------------------------------------
(* Calibration, and the run's first version                                 *)

Verdict(error) == IF error < 5 THEN "well_calibrated"
                  ELSE IF error < 10 THEN "usable" ELSE "poor"

\* assess, and what calibrate makes of it: before, after, whether the
\* calibrated variant is served, and the verdict on what is served.
Report(before, after, applied, verdict) ==
  [before |-> before, after |-> after, applied |-> applied, verdict |-> verdict]

\* Nothing is measured: no probabilities, or they cannot be had.
Unmeasured == Report(Nothing, Nothing, FALSE, "unmeasured")

\* Reported, and not acted on.
Kept(before) ==
  Report(before, Nothing, FALSE,
         IF Holdout(order) < 50 THEN "unmeasured" ELSE Verdict(before))

Tried(before) ==
  /\ Holdout(order) >= 50
  /\ order.calibrate
  /\ Verdict(before) # "well_calibrated"

Methods == IF Development(order) < 1000 THEN {"sigmoid"}
                                        ELSE {"isotonic", "sigmoid"}

\* CalibratedClassifierCV(cv=3) needs three members of every class, and each of
\* its three fits room for SMOTE's neighbours.
CanCalibrate == Smallest(order) >= 3 /\ SoundFolds(order, 3) = 3

\* A slip: the variant is served if it is better at all, and the verdict stays
\* that of the model it replaces.
Outcome_OldVerdict(before, after) ==
  Report(before, after, before - after >= 2, Verdict(before))

\* The variant replaces the model if the error falls by the margin of 0.02.
Outcome(before, after) ==
  IF before - after >= 2 THEN Report(before, after, TRUE, Verdict(after))
                         ELSE Report(before, after, FALSE, Verdict(before))

\* A method that raises is passed over; of the others the better one counts.
Calibrated(before) ==
  LET errors == {[m \in Methods |-> IF CanCalibrate THEN e[m] ELSE Nothing] :
                   e \in [Methods -> Errors \union {Nothing}]}
  IN {LET had == Range(e) \ {Nothing}
      IN IF had = {} THEN Kept(before)
         ELSE Outcome(before, CHOOSE x \in had : \A y \in had : x <= y) :
      e \in errors}

\* The metadata file and version 1, which is served (upload._train).
Register(report) ==
  /\ meta' = [problem |-> order.problem, mode |-> order.mode,
              pick |-> IF order.mode = "manual" THEN selected ELSE Nothing,
              budget |-> order.budget, smote |-> Smotes(order),
              before |-> report.before, after |-> report.after,
              applied |-> report.applied, verdict |-> report.verdict]
  /\ served' = [version |-> 1, problem |-> order.problem,
                calibrated |-> report.applied,
                error |-> IF report.applied THEN report.after
                          ELSE report.before]
  /\ Return

Calibrate ==
  /\ stage = "chosen"
  /\ meta = NoRun
  /\ \/ Register(Unmeasured)
     \/ /\ order.problem = "classification"
        /\ \E before \in Errors :
             IF Tried(before)
             THEN \E report \in Calibrated(before) : Register(report)
             ELSE Register(Kept(before))
  /\ UNCHANGED retrains

-----------------------------------------------------------------------------
(* Retraining                                                               *)

\* retrain: the training is repeated as the metadata describes it, on a file
\* from which the kind of problem is read anew.
Retrain ==
  /\ stage \in {"served", "failed"}
  /\ meta # NoRun
  /\ retrains < MaxRetrains
  /\ \E o \in Orders :
       Begin([o EXCEPT
                !.mode = meta.mode, !.budget = meta.budget,
                !.smote = meta.smote, !.pick = meta.pick])
  /\ retrains' = retrains + 1
  /\ UNCHANGED <<meta, served>>

\* Both are scored on the run's metric, which only a model of the run's problem
\* has a score on (evaluate); without a score there is no promotion.
Comparable == order.problem = meta.problem

\* The challenger is not calibrated, and the metadata stay those of the upload.
Compare ==
  /\ stage = "chosen"
  /\ meta # NoRun
  /\ \/ UNCHANGED served
     \/ /\ Comparable
        /\ served' = [version |-> retrains + 1, problem |-> order.problem,
                      calibrated |-> FALSE, error |-> Nothing]
  /\ Return
  /\ UNCHANGED <<meta, retrains>>

TrainingNext ==
  \/ Upload \/ Tune \/ CrossValidate \/ FitAndScore \/ Skip
  \/ Select \/ NoVote \/ FitEnsemble \/ ScoreEnsemble \/ EnsembleFails
  \/ Calibrate \/ Retrain \/ Compare

TrainingSpec == TrainingInit /\ [][TrainingNext]_trainingVars

-----------------------------------------------------------------------------
(* Properties                                                               *)

\* What is selected was fitted and scored on the holdout; no single model is
\* ahead of the best one in the direction of the metric; a vote has two members
\* or more, each better than the constant predictor; and every candidate is
\* accounted for, once, whatever raised and whether or not the budget ran out.
SelectionIsEarned ==
  stage = "chosen" =>
    /\ selected \in {best, "Ensemble"} \intersect trained
    /\ best \in DOMAIN cv
    /\ \A l \in DOMAIN cv \ {"Ensemble"} :
         LET gain == IF order.problem = "regression"
                     THEN cv[best].mean - cv[l].mean
                     ELSE cv[l].mean - cv[best].mean \* of l on the best
         IN gain >= 0 => gain = 0 /\ cv[best].std <= cv[l].std
    /\ Cardinality(members) # 1
    /\ \A l \in members :
         IF order.problem = "regression" THEN cv[l].mean < baseline
                                         ELSE cv[l].mean > baseline
    /\ trained \intersect failed = {}
    /\ (trained \union failed) \ {"Ensemble"} = Range(Candidates(order))

\* How many classes have so many rows.
ClassesOf(o, n) == Cardinality({j \in DOMAIN o.ends : ClassSizes(o)[j] = n})

\* A training with a candidate, and none that raises by itself, yields a model:
\* can_use_smote promises to fall back on class weights where SMOTE has no
\* neighbours.  It looks at the smallest class of all the rows and not at the
\* folds, and so the promise is broken, but nowhere else than here: in five
\* folds a class of six, beside a larger one or among five classes, or three
\* classes of seven; in three folds a class of six or seven, or two of eight.
FailsOnlyAtTheBoundary ==
  stage = "failed" =>
    \/ raised
    \/ Candidates(order) = <<>>
    \/ /\ Smotes(order)
       /\ IF Folds(order) = 3
          THEN Smallest(order) \in 6..7 \/ ClassesOf(order, 8) >= 2
          ELSE \/ /\ Smallest(order) = 6
                  /\ ClassesOf(order, 6) < Len(order.ends)
                       \/ Len(order.ends) >= 5
               \/ ClassesOf(order, 7) >= 3

\* What a prediction says of its confidence (_build_response): whether the
\* model was calibrated, and by how much its claims were off.
ConfidenceIsCalibrated == meta.applied
QuotedError == IF meta.after # Nothing THEN meta.after ELSE meta.before

\* "Saying whether that claim has been calibrated - and by how far it was off
\* when measured - is the difference between a number and an honest number"
\* (routes/predict.py): both are said of the model that answers.
ConfidenceIsHonest ==
  served # NoModel /\ served.problem = "classification" =>
    /\ ConfidenceIsCalibrated = served.calibrated
    /\ QuotedError = served.error

\* It is true of the version the upload registered, whose verdict and margin
\* hold too, except that a calibration that was tried and refused leaves its
\* error to be quoted; and from a promotion on it is said of another model.
ConfidenceFitsTheFirst ==
  served.version = 1 =>
    /\ ConfidenceIsCalibrated = served.calibrated
    /\ meta.verdict # "unmeasured" => meta.verdict = Verdict(served.error)
    /\ meta.applied => meta.before - meta.after >= 2
    /\ \/ QuotedError = served.error
       \/ ~meta.applied /\ meta.after > meta.before - 2

=============================================================================
