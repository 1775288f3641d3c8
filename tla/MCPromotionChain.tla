-------------------------- MODULE MCPromotionChain --------------------------
(***************************************************************************)
(* PromotionChain for TLC, and beside it the training of models and the     *)
(* assistant, with which it shares no state: in a behaviour one of them,    *)
(* the focus, takes its steps, and the others stay as they began, so that   *)
(* the state spaces add up instead of multiplying.                          *)
(***************************************************************************)
EXTENDS PromotionChain, Assistant, Training, TLC

\* Negative scores, zero, and positive ones on which a margin of a quarter
\* both refuses and promotes.
SmallScores == (-4)..7

\* Learners for every size of data, one more than the cap lets in.
SomeLearners ==
  [classification |-> <<"RandomForest", "HistGradientBoosting", "SVM", "XGBoost">>,
   regression |-> <<"Ridge", "SVR">>]

Order(problem, mode, size, ends) ==
  [problem |-> problem, mode |-> mode, pick |-> "RandomForest", budget |-> 0,
   smote |-> FALSE, calibrate |-> TRUE, rows |-> size, ends |-> ends]
Smoted(size, ends) ==
  [Order("classification", "manual", size, ends) EXCEPT
     !.smote = TRUE, !.budget = 2, !.calibrate = (ends[1] # 8)]

\* Holdouts too small and large enough, a vote, a choice that does not exist
\* for the problem, and a search.
PlainOrders ==
  {Order("classification", "auto", 200, <<9, 160>>),
   Order("classification", "ensemble", 3000, <<9, 2400>>),
   Order("regression", "auto", 600, <<>>),
   Order("regression", "ensemble", 600, <<>>),
   Order("classification", "manual", 9000, <<2, 7200>>),
   Order("regression", "manual", 9000, <<>>),
   [Order("regression", "manual", 9000, <<>>) EXCEPT !.pick = Nothing],
   [Smoted(3000, <<7, 2400>>) EXCEPT !.mode = "auto"]}

\* SMOTE with one small class, in five folds and in three; with several of
\* seven or eight rows; and with classes of six that are all there is.
SmoteOrders ==
  {Smoted(3000, <<small, 2400>>) : small \in 5..9}
  \union {Smoted(30000, <<small, 24000>>) : small \in 5..9}
  \union {Smoted(3000, <<7, 14, 2400>>), Smoted(3000, <<7, 14, 21, 2400>>),
          Smoted(30000, <<8, 16, 24000>>),
          Smoted(15, <<6, 12>>), Smoted(38, <<6, 12, 18, 24, 30>>)}

SomeOrders == PlainOrders \union SmoteOrders

\* Requests are told apart by nothing but their names.
Threads == Permutations(Clients)

VARIABLE focus

ASSUME ServicesAssumption ==
  AssistantConstants /\ TrainingConstants /\ TriedOnce

\* Out of focus the chain begins in one of its initial states.
MCInit ==
  /\ focus \in {"chain", "assistant", "training"}
  /\ Init
  /\ focus # "chain" => metric = "f1" /\ champion = 0
  /\ AssistantInit /\ TrainingInit
MCNext ==
  \/ /\ focus = "chain" /\ Next
     /\ UNCHANGED <<focus, assistantVars, trainingVars>>
  \/ /\ focus = "assistant" /\ AssistantNext
     /\ UNCHANGED <<focus, vars, trainingVars>>
  \/ /\ focus = "training" /\ TrainingNext
     /\ UNCHANGED <<focus, vars, assistantVars>>
MCSpec ==
  MCInit /\ [][MCNext]_<<focus, vars, assistantVars, trainingVars>>

=============================================================================
