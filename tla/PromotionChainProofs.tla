------------------------ MODULE PromotionChainProofs ------------------------
(***************************************************************************)
(* The components of the run promotion_chain.  The promotion rule, for      *)
(* every margin >= 0 and every set of integer scores: a promotion is a      *)
(* gain, so promotions on the same rows never go round in a circle.  The    *)
(* assistant, for any number of requests: by how much bursts pass the       *)
(* ceilings, where the calls are that no row of llm_usage tells of, and     *)
(* what the model is shown of a conversation.                               *)
(* Training, for any registries, orders and scores: what is selected was    *)
(* earned, when a training fails, and what is said of the first version.    *)
(***************************************************************************)
EXTENDS PromotionChain, Assistant, Training, FiniteSetTheorems, TLAPS

-----------------------------------------------------------------------------
(* The promotion rule                                                       *)

\* The margin can only make the rule stricter: what it asks for beyond equal
\* scores is never negative.
LEMMA MarginNotNegative ==
  ASSUME NEW score \in Int
  PROVE  Magnitude(score) * MarginNum >= 0
<1>1. Magnitude(score) \in Nat
  BY DEF Magnitude
<1>2. \A a, b \in Nat : a * b >= 0
  OBVIOUS
<1> QED
  BY <1>1, <1>2, MarginAssumption

LEMMA PromotionGains ==
  ASSUME NEW m \in Metrics,
         NEW challenger \in ScoreRange \union {NoScore}, NEW old \in ScoreRange,
         Promotes(m, challenger, old)
  PROVE  challenger \in ScoreRange /\ Better(m, challenger, old)
<1>1. challenger \in Int /\ challenger \in ScoreRange /\ old \in Int
  BY ScoreAssumption DEF Promotes
<1>2. Improvement(m, challenger, old) \in Int
  BY <1>1 DEF Improvement
<1>3. Improvement(m, challenger, old) * MarginDen > 0
  <2>1. Magnitude(old) * MarginNum \in Int
    BY <1>1, MarginAssumption DEF Magnitude
  <2>2. Improvement(m, challenger, old) * MarginDen \in Int
    BY <1>2, MarginAssumption
  <2> QED
    BY <1>1, <2>1, <2>2, MarginNotNegative DEF Promotes
<1>4. \A i \in Int, d \in Nat \ {0} : i * d > 0 => i > 0
  OBVIOUS
<1>5. Improvement(m, challenger, old) > 0
  BY <1>2, <1>3, <1>4, MarginAssumption
<1> QED
  BY <1>1, <1>5 DEF Improvement, Better, Metrics, LOWER_IS_BETTER

\* Every former champion is worse than the present one.
PInv ==
  /\ metric \in Metrics
  /\ champion \in ScoreRange
  /\ beaten \subseteq ScoreRange
  /\ \A old \in beaten : Better(metric, champion, old)

LEMMA InitPInv == Init => PInv
  BY DEF Init, PInv

LEMMA StepPInv == PInv /\ [Next]_vars => PInv'
<1> SUFFICES ASSUME PInv, [Next]_vars
             PROVE  PInv'
  OBVIOUS
<1>1. CASE Challenge
  <2>1. PICK challenger \in ScoreRange \union {NoScore} :
          /\ Promotes(metric, challenger, champion)
          /\ champion' = challenger
          /\ beaten' = beaten \union {champion}
          /\ metric' = metric
    BY <1>1 DEF Challenge
  <2>2. challenger \in ScoreRange /\ Better(metric, challenger, champion)
    BY <2>1, PromotionGains DEF PInv
  <2>3. \A x, y, z \in Int :
          Better(metric, x, y) /\ Better(metric, y, z) => Better(metric, x, z)
    BY DEF Better
  <2> QED
    BY <2>1, <2>2, <2>3, ScoreAssumption DEF PInv
<1>2. CASE UNCHANGED vars
  BY <1>2 DEF PInv, vars
<1> QED
  BY <1>1, <1>2 DEF Next

\* A margin never lets a worse or an equal model in, for any sign of the
\* scores and in either direction of the metric.
THEOREM EveryPromotionGains == Spec => PromotionIsAGain
<1>1. PInv /\ [Next]_vars => [Better(metric, champion', champion)]_vars
  <2> SUFFICES ASSUME PInv, Challenge
               PROVE  Better(metric, champion', champion)
    BY DEF Next
  <2> QED
    BY PromotionGains DEF PInv, Challenge
<1> QED
  BY InitPInv, StepPInv, <1>1, PTL DEF Spec, PromotionIsAGain

\* However long the chain of promotions, the models that were beaten on it are
\* worse than the one that is champion now, and none wins against it.
THEOREM NoCycleOfPromotions == Spec => []NoWayBack
<1>1. PInv => NoWayBack
  <2> SUFFICES ASSUME PInv, NEW old \in beaten, Promotes(metric, old, champion)
               PROVE  FALSE
    BY DEF NoWayBack, PInv
  <2>1. Better(metric, old, champion) /\ Better(metric, champion, old)
    BY PromotionGains DEF PInv
  <2>2. old \in Int /\ champion \in Int
    BY ScoreAssumption DEF PInv
  <2> QED
    BY <2>1, <2>2 DEF Better
<1> QED
  BY InitPInv, StepPInv, <1>1, PTL DEF Spec

-----------------------------------------------------------------------------
(* The assistant: what it costs, and what the ceilings let through          *)

Stages == {"idle", "quota", "guards", "asking", "sorry", "listing", "calling",
           "answering", "appending", "recording"}

Counts == 0 .. MaxSteps + 1

\* What the ceilings read, and where a request may be with how many calls
\* behind it; the messages it holds are left open.
Held(r) ==
  req[r] \in [at : Stages, kind : {"chat", "report"},
              conv : Conversations \union {0}, ask : {req[r].ask},
              seen : {req[r].seen}, degraded : BOOLEAN, beside : BOOLEAN,
              heard : {req[r].heard}, turns : {req[r].turns},
              steps : Counts, used : Nat]

Paying(r) ==
  /\ req[r].at \in {"guards", "asking", "sorry", "listing", "answering",
                    "appending"} => req[r].kind = "chat"
  /\ req[r].kind = "chat" /\ req[r].at # "idle" => req[r].conv \in Conversations
  /\ req[r].at \in {"idle", "quota", "guards", "asking", "listing"} =>
       req[r].steps = 0
  /\ req[r].at \in {"calling", "sorry"} => req[r].steps <= MaxSteps
  /\ req[r].kind = "report" =>
       /\ req[r].steps <= 1
       /\ req[r].at = "calling" => req[r].steps = 0

Counted ==
  /\ rows \in Nat /\ spoiled \in Nat /\ silent \in Nat /\ unseen \in Int
  /\ recent \in [Conversations -> Nat]

Requested ==
  /\ req = [r \in Clients |-> req[r]]
  /\ \A r \in Clients : Held(r) /\ Paying(r)

\* A request as it was, for one that did not move.
Stays(q) ==
  /\ req'[q].at = req[q].at /\ req'[q].kind = req[q].kind
  /\ req'[q].conv = req[q].conv /\ req'[q].steps = req[q].steps
  /\ req'[q].seen = req[q].seen

Acts(r) ==
  \/ Ask(r) \/ AskReport(r)
  \/ CheckQuota(r) \/ CheckConversation(r)
  \/ AppendQuestion(r) \/ Apologise(r) \/ ListMessages(r)
  \/ UseTools(r) \/ Conclude(r) \/ ProviderFails(r)
  \/ ReadTokens(r) \/ AppendAnswer(r) \/ RecordUsage(r) \/ RecordFails(r)

\* Appending a message moves nobody but the one who appends it.
LEMMA AppendMoves ==
  ASSUME Requested, NEW r \in Clients, NEW message, NEW after,
         AppendMessage(r, message, after)
  PROVE  /\ req' = [q \in Clients |-> req'[q]]
         /\ req'[r] = after
         /\ \A q \in Clients \ {r} : Stays(q) /\ Held(q)'
<1>1. /\ req' = [q \in Clients |-> req'[q]]
      /\ req'[r] = after
  BY DEF AppendMessage
<1>2. ASSUME NEW q \in Clients \ {r}
      PROVE  Stays(q) /\ Held(q)'
  <2>1. PICK b \in BOOLEAN : req'[q] = [req[q] EXCEPT !.beside = b]
    <3>1. req'[q] =
            [req[q] EXCEPT !.beside =
               @ \/ (q # r /\ At(q, "listing") /\ req[q].conv = req[r].conv)]
      BY DEF AppendMessage
    <3>2. Held(q)
      BY DEF Requested
    <3> QED
      BY <3>1, <3>2 DEF Held
  <2>2. Held(q)
    BY DEF Requested
  <2> QED
    BY <2>1, <2>2 DEF Held, Stays
<1> QED
  BY <1>1, <1>2

LEMMA OthersStay ==
  ASSUME Requested, NEW r \in Clients, Acts(r)
  PROVE  /\ req' = [q \in Clients |-> req'[q]]
         /\ \A q \in Clients \ {r} : Stays(q) /\ Held(q)'
<1>1. CASE AppendQuestion(r)
  BY <1>1, AppendMoves DEF AppendQuestion
<1>2. CASE Apologise(r)
  BY <1>2, AppendMoves DEF Apologise
<1>3. CASE AppendAnswer(r)
  BY <1>3, AppendMoves DEF AppendAnswer
<1>4. CASE ~(AppendQuestion(r) \/ Apologise(r) \/ AppendAnswer(r))
  <2>1. \E new : req' = [req EXCEPT ![r] = new]
    <3>1. CASE Ask(r) \/ AskReport(r)
      BY <3>1 DEF Ask, AskReport
    <3>2. CASE CheckQuota(r) \/ CheckConversation(r)
      BY <3>2 DEF CheckQuota, Proceeds, CheckConversation, Ends, Goes
    <3>3. CASE ListMessages(r) \/ UseTools(r) \/ Conclude(r) \/ ReadTokens(r)
      BY <3>3 DEF ListMessages, UseTools, Conclude, Completes, ReadTokens
    <3>4. CASE ProviderFails(r) \/ RecordUsage(r) \/ RecordFails(r)
      BY <3>4 DEF ProviderFails, RecordUsage, RecordFails, Ends, Goes
    <3> QED
      BY <1>4, <3>1, <3>2, <3>3, <3>4 DEF Acts
  <2>2. \A q \in Clients \ {r} : req'[q] = req[q]
    BY <2>1 DEF Requested
  <2>3. req' = [q \in Clients |-> req'[q]]
    BY <2>1 DEF Requested
  <2>4. \A q \in Clients \ {r} : Held(q)
    BY DEF Requested
  <2> QED
    BY <2>2, <2>3, <2>4 DEF Stays, Held
<1> QED
  BY <1>1, <1>2, <1>3, <1>4

\* A call leaves the request where it is, or concludes it.
LEMMA UseToolsMoves ==
  ASSUME Requested, NEW r \in Clients, UseTools(r)
  PROVE  \E n \in 0 .. 1 :
           req'[r] = [req[r] EXCEPT !.steps = @ + 1, !.used = @ + n]
<1>1. PICK n \in 0 .. 1 :
        req' = [req EXCEPT ![r] =
                  [req[r] EXCEPT !.steps = req[r].steps + 1,
                                 !.used = req[r].used + n]]
  <2>1. Held(r)
    BY DEF Requested
  <2> QED
    BY <2>1 DEF UseTools, Completes, Held
<1> QED
  BY <1>1 DEF Requested

LEMMA ConcludeMoves ==
  ASSUME Requested, NEW r \in Clients, Conclude(r)
  PROVE  \E n \in 0 .. 1 :
           req'[r] = [req[r] EXCEPT !.turns = <<>>, !.heard = 0, !.beside = FALSE,
                        !.at = IF req[r].kind = "chat" THEN "answering"
                                                       ELSE "recording",
                        !.steps = @ + 1, !.used = @ + n]
<1> DEFINE after ==
      [req[r] EXCEPT !.turns = <<>>, !.heard = 0, !.beside = FALSE,
         !.at = IF req[r].kind = "chat" THEN "answering" ELSE "recording"]
<1>1. PICK n \in 0 .. 1 :
        req' = [req EXCEPT ![r] = [after EXCEPT !.steps = after.steps + 1,
                                                !.used = after.used + n]]
  BY DEF Conclude, Completes
<1>2. req'[r] = [after EXCEPT !.steps = after.steps + 1,
                              !.used = after.used + n]
  BY <1>1 DEF Requested
<1>3. Held(r)
  BY DEF Requested
<1>4. after.steps = req[r].steps /\ after.used = req[r].used
  BY <1>3 DEF Held
<1>5. req'[r] = [after EXCEPT !.steps = req[r].steps + 1,
                              !.used = req[r].used + n]
  BY <1>2, <1>4
<1>6. req'[r] = [req[r] EXCEPT !.turns = <<>>, !.heard = 0, !.beside = FALSE,
                   !.at = IF req[r].kind = "chat" THEN "answering"
                                                  ELSE "recording",
                   !.steps = req[r].steps + 1, !.used = req[r].used + n]
  BY <1>3, <1>5 DEF Held
<1> QED
  BY <1>6

\* What the one that moves is then.
LEMMA ActsWell ==
  ASSUME AssistantConstants, Counted, Requested, NEW r \in Clients, Acts(r)
  PROVE  Held(r)' /\ Paying(r)'
<1>1. Held(r) /\ Paying(r)
  BY DEF Requested
<1>3. /\ req[r].steps <= MaxSteps => req[r].steps + 1 \in Counts
      /\ 0 \in Counts /\ 0 <= MaxSteps
  <2>1. req[r].steps \in Counts
    BY <1>1 DEF Held
  <2> QED
    BY <2>1 DEF AssistantConstants, Counts
<1>2. ASSUME req'[r] = NoRequest
      PROVE  Held(r)' /\ Paying(r)'
  BY <1>3, <1>2 DEF Held, Paying, NoRequest, Stages
<1>4. CASE Ask(r)
  <2>1. PICK c \in Conversations :
          req'[r] = [NoRequest EXCEPT !.at = "quota", !.conv = c,
                                      !.ask = asks', !.seen = tokens[c]]
    BY <1>4 DEF Ask, Requested
  <2>2. req'[r] = [at |-> "quota", kind |-> "chat", conv |-> c, ask |-> asks',
                   seen |-> tokens[c], degraded |-> FALSE, beside |-> FALSE,
                   heard |-> 0, turns |-> <<>>, steps |-> 0, used |-> 0]
    BY <2>1 DEF NoRequest
  <2> QED
    BY <1>3, <2>2 DEF Held, Paying, Stages
<1>5. CASE AskReport(r)
  <2>1. req'[r] = [NoRequest EXCEPT !.at = "quota", !.kind = "report"]
    BY <1>5 DEF AskReport, Requested
  <2>2. req'[r] = [at |-> "quota", kind |-> "report", conv |-> 0, ask |-> 0,
                   seen |-> 0, degraded |-> FALSE, beside |-> FALSE,
                   heard |-> 0, turns |-> <<>>, steps |-> 0, used |-> 0]
    BY <2>1 DEF NoRequest
  <2> QED
    BY <1>3, <2>2 DEF Held, Paying, Stages
<1>6. CASE CheckQuota(r)
  <2>1. \/ req'[r] = NoRequest
        \/ req'[r] = [req[r] EXCEPT !.at = IF req[r].kind = "chat"
                                           THEN "guards" ELSE "calling"]
    BY <1>6 DEF CheckQuota, Proceeds, Ends, Goes, Requested
  <2>2. req[r].at = "quota"
    BY <1>6 DEF CheckQuota, At
  <2> QED
    BY <1>1, <1>2, <1>3, <2>1, <2>2 DEF Held, Paying, Stages
<1>7. CASE CheckConversation(r)
  <2>1. \/ req'[r] = NoRequest
        \/ \E none \in BOOLEAN :
             req'[r] = [req[r] EXCEPT !.at = "asking", !.degraded = none]
    BY <1>7 DEF CheckConversation, Ends, Requested
  <2>2. req[r].at = "guards"
    BY <1>7 DEF CheckConversation, At
  <2> QED
    BY <1>1, <1>2, <1>3, <2>1, <2>2 DEF Held, Paying, Stages
<1>8. CASE AppendQuestion(r)
  <2>1. req'[r] = [req[r] EXCEPT !.at = IF req[r].degraded THEN "sorry"
                                                           ELSE "listing"]
    BY <1>8, AppendMoves DEF AppendQuestion
  <2>2. req[r].at = "asking"
    BY <1>8 DEF AppendQuestion, At
  <2> QED
    BY <1>1, <1>3, <2>1, <2>2 DEF Held, Paying, Stages
<1>9. CASE Apologise(r)
  BY <1>2, <1>9, AppendMoves DEF Apologise
<1>10. CASE ListMessages(r)
  <2>1. PICK n, s : req'[r] = [req[r] EXCEPT !.at = "calling", !.heard = n,
                                             !.turns = s]
    BY <1>10 DEF ListMessages, Requested
  <2>2. req[r].at = "listing"
    BY <1>10 DEF ListMessages, At
  <2>3. Held(r)'
    BY <1>1, <1>3, <2>1 DEF Held, Stages
  <2>4. Paying(r)'
    BY <1>1, <1>3, <2>1, <2>2 DEF Held, Paying
  <2> QED
    BY <2>3, <2>4
<1>11. CASE UseTools(r)
  <2>1. PICK n \in 0 .. 1 :
          req'[r] = [req[r] EXCEPT !.steps = @ + 1, !.used = @ + n]
    BY <1>11, UseToolsMoves
  <2>2. req[r].at = "calling" /\ req[r].steps # MaxSteps
    BY <1>11 DEF UseTools, Completes, At, LastChance
  <2>3. /\ req'[r].steps = req[r].steps + 1 /\ req[r].steps <= MaxSteps
        /\ req[r].used + n \in Nat
    BY <1>1, <2>1, <2>2 DEF Held, Paying
  <2>4. Held(r)'
    BY <1>1, <1>3, <2>1, <2>3 DEF Held, Stages
  <2>5. Paying(r)'
    <3>1. req'[r].steps <= MaxSteps
      BY <1>1, <2>2, <2>3 DEF Held, Counts, AssistantConstants
    <3>2. req[r].kind = "chat"
      BY <1>1, <1>11 DEF UseTools, LastChance, Held
    <3>3. /\ req'[r].at = "calling" /\ req'[r].kind = "chat"
          /\ req'[r].conv = req[r].conv
      BY <1>1, <2>1, <2>2, <3>2 DEF Held
    <3>4. req[r].conv \in Conversations
      BY <1>1, <2>2, <3>2 DEF Paying
    <3> QED
      BY <3>1, <3>3, <3>4 DEF Paying
  <2> QED
    BY <2>4, <2>5
<1>12. CASE Conclude(r)
  <2>1. PICK n \in 0 .. 1 :
          req'[r] = [req[r] EXCEPT !.turns = <<>>, !.heard = 0, !.beside = FALSE,
                       !.at = IF req[r].kind = "chat" THEN "answering"
                                                      ELSE "recording",
                       !.steps = @ + 1, !.used = @ + n]
    BY <1>12, ConcludeMoves
  <2>2. req[r].at = "calling"
    BY <1>12 DEF Conclude, Completes, At
  <2>3. /\ req'[r].steps = req[r].steps + 1 /\ req[r].steps <= MaxSteps
        /\ req[r].used + n \in Nat
    BY <1>1, <2>1, <2>2 DEF Held, Paying
  <2>4. Held(r)'
    BY <1>1, <1>3, <2>1, <2>3 DEF Held, Stages
  <2>5. Paying(r)'
    BY <1>1, <1>3, <2>1, <2>2, <2>3 DEF Held, Paying
  <2> QED
    BY <2>4, <2>5
<1>13. CASE ProviderFails(r)
  <2>1. \/ req[r].kind = "chat" /\ req'[r] = [req[r] EXCEPT !.at = "sorry"]
        \/ req'[r] = NoRequest
    BY <1>13 DEF ProviderFails, Ends, Goes, Requested
  <2>2. req[r].at = "calling"
    BY <1>13 DEF ProviderFails, At
  <2> QED
    BY <1>1, <1>2, <1>3, <2>1, <2>2 DEF Held, Paying, Stages
<1>14. CASE ReadTokens(r)
  <2>1. \E n : req'[r] = [req[r] EXCEPT !.at = "appending", !.seen = n]
    BY <1>14 DEF ReadTokens, Requested
  <2>2. req[r].at = "answering"
    BY <1>14 DEF ReadTokens, At
  <2> QED
    BY <1>1, <1>3, <2>1, <2>2 DEF Held, Paying, Stages
<1>15. CASE AppendAnswer(r)
  <2>1. req'[r] = [req[r] EXCEPT !.at = "recording"]
    BY <1>15, AppendMoves DEF AppendAnswer
  <2>2. req[r].at = "appending"
    BY <1>15 DEF AppendAnswer, At
  <2> QED
    BY <1>1, <1>3, <2>1, <2>2 DEF Held, Paying, Stages
<1>16. CASE RecordUsage(r) \/ RecordFails(r)
  BY <1>2, <1>16 DEF RecordUsage, RecordFails, Ends, Requested
<1> QED
  BY <1>4, <1>5, <1>6, <1>7, <1>8, <1>9, <1>10, <1>11, <1>12, <1>13, <1>14,
     <1>15, <1>16 DEF Acts

LEMMA RequestedKept ==
  ASSUME AssistantConstants, Counted, Requested, [AssistantNext]_assistantVars
  PROVE  Requested'
<1>1. ASSUME NEW r \in Clients, Acts(r)
      PROVE  Requested'
  <2>1. Held(r)' /\ Paying(r)'
    BY <1>1, ActsWell
  <2>2. ASSUME NEW q \in Clients \ {r}
        PROVE  Held(q)' /\ Paying(q)'
    <3>1. Stays(q) /\ Held(q)' /\ Paying(q)
      BY <1>1, OthersStay DEF Requested
    <3> QED
      BY <3>1 DEF Stays, Paying
  <2>3. req' = [q \in Clients |-> req'[q]]
    BY <1>1, OthersStay
  <2> QED
    BY <2>1, <2>2, <2>3 DEF Requested
<1>2. CASE Die
  <2>1. req' = [r \in Clients |-> NoRequest]
    BY <1>2 DEF Die
  <2>2. ASSUME NEW r \in Clients
        PROVE  Held(r)' /\ Paying(r)'
    BY <2>1 DEF Held, Paying, NoRequest, Stages, Counts, AssistantConstants
  <2> QED
    BY <2>1, <2>2 DEF Requested
<1>3. CASE HourPasses \/ UNCHANGED assistantVars
  BY <1>3 DEF HourPasses, assistantVars, Requested, Held, Paying
<1> QED
  BY <1>1, <1>2, <1>3 DEF AssistantNext, Acts

\* One pair for every call of a request under way that is still to be recorded;
\* who is about to apologise counts as spoiled already.
Owing ==
  {p \in Clients \X (1 .. MaxSteps + 1) :
     req[p[1]].at # "sorry" /\ p[2] <= req[p[1]].steps}

\* SpendIsSeen is not inductive: a request that ends takes with it the calls it
\* made, not those it might have made.
SpendInv ==
  unseen <= (MaxSteps + 1) * spoiled + Cardinality(Owing) + silent

LEMMA OwingIsFinite ==
  ASSUME AssistantConstants
  PROVE  /\ IsFiniteSet(Owing) /\ Cardinality(Owing) \in Nat
         /\ IsFiniteSet(Owing') /\ Cardinality(Owing') \in Nat
         /\ IsFiniteSet(Owing)'
<1>1. IsFiniteSet(Clients \X (1 .. MaxSteps + 1))
  <2>1. IsFiniteSet(1 .. MaxSteps + 1)
    BY FS_Interval DEF AssistantConstants
  <2> QED
    BY <2>1, FS_Product DEF AssistantConstants
<1>2. /\ Owing \in SUBSET (Clients \X (1 .. MaxSteps + 1))
      /\ Owing' \in SUBSET (Clients \X (1 .. MaxSteps + 1))
  BY DEF Owing
<1>3. IsFiniteSet(Owing) /\ IsFiniteSet(Owing')
  BY <1>1, <1>2, FS_Subset
<1> QED
  BY <1>3, FS_CardinalityType

LEMMA OwingStays ==
  ASSUME AssistantConstants, Requested, NEW r \in Clients, Acts(r),
         \/ req[r].steps = 0
         \/ req[r].at = "sorry"
         \/ req'[r].steps = req[r].steps /\ req'[r].at # "sorry"
  PROVE  Cardinality(Owing) <= Cardinality(Owing')
<1>1. \A q \in Clients \ {r} : Stays(q)
  BY OthersStay
<1>2. \A q \in Clients : req[q].steps \in Nat
  BY DEF Requested, Held, Counts
<1>3. ASSUME NEW p \in Owing
      PROVE  p \in Owing'
  <2>1. /\ p \in Clients \X (1 .. MaxSteps + 1)
        /\ req[p[1]].at # "sorry" /\ p[2] <= req[p[1]].steps
    BY DEF Owing
  <2>2. p[1] \in Clients /\ p[2] > 0
    BY <2>1 DEF AssistantConstants
  <2>3. CASE p[1] # r
    BY <1>1, <2>1, <2>2, <2>3 DEF Owing, Stays
  <2>4. CASE p[1] = r
    <3>1. req[r].steps # 0 /\ req[r].at # "sorry"
      BY <1>2, <2>1, <2>2, <2>4
    <3> QED
      BY <2>1, <2>4, <3>1 DEF Owing
  <2> QED
    BY <2>3, <2>4
<1>4. Owing \in SUBSET (Owing')
  BY <1>3
<1> QED
  BY <1>4, OwingIsFinite, FS_Subset

\* A call that is paid for is owed.
LEMMA OwingGrows ==
  ASSUME AssistantConstants, Requested, NEW r \in Clients, Acts(r),
         req[r].at = "calling", req'[r].at # "sorry",
         req'[r].steps = req[r].steps + 1
  PROVE  Cardinality(Owing) + 1 <= Cardinality(Owing')
<1>1. \A q \in Clients \ {r} : Stays(q)
  BY OthersStay
<1>2. \A q \in Clients : req[q].steps \in Nat
  BY DEF Requested, Held, Counts
<1>3. req[r].steps <= MaxSteps
  BY DEF Requested, Paying
<1> DEFINE call == <<r, req[r].steps + 1>>
<1>4. ASSUME NEW p \in Owing
      PROVE  p \in Owing' /\ p # call
  <2>1. /\ p \in Clients \X (1 .. MaxSteps + 1)
        /\ req[p[1]].at # "sorry" /\ p[2] <= req[p[1]].steps
    BY DEF Owing
  <2>2. p[1] \in Clients /\ p[2] \in Int
    BY <2>1 DEF AssistantConstants
  <2>3. CASE p[1] # r
    BY <1>1, <2>1, <2>2, <2>3 DEF Owing, Stays
  <2>4. CASE p[1] = r
    <3>1. p[2] <= req[r].steps
      BY <2>1, <2>4
    <3>2. p[2] <= req'[r].steps /\ p[2] # req[r].steps + 1
      BY <1>2, <2>2, <3>1
    <3>3. p \in Owing'
      BY <2>1, <2>4, <3>2 DEF Owing
    <3> QED
      BY <3>2, <3>3
  <2> QED
    BY <2>3, <2>4
<1>5. call \in Owing'
  <2>1. req[r].steps + 1 \in 1 .. MaxSteps + 1
    BY <1>2, <1>3 DEF AssistantConstants
  <2>2. req[r].steps + 1 <= req'[r].steps
    BY <1>2
  <2> QED
    BY <2>1, <2>2 DEF Owing
<1>6. Owing \union {call} \in SUBSET (Owing') /\ call \notin Owing
  BY <1>4, <1>5
<1>7. Cardinality(Owing \union {call}) <= Cardinality(Owing')
  BY <1>6, OwingIsFinite, FS_Subset
<1>8. Cardinality(Owing \union {call}) = Cardinality(Owing) + 1
  BY <1>6, OwingIsFinite, FS_AddElement
<1> QED
  BY <1>7, <1>8

\* Who leaves takes no more than what was called.
LEMMA OwingDrops ==
  ASSUME AssistantConstants, Requested, NEW r \in Clients, Acts(r)
  PROVE  /\ Cardinality(Owing) <= Cardinality(Owing') + req[r].steps
         /\ req[r].steps \in Nat /\ req[r].steps <= MaxSteps + 1
<1>1. \A q \in Clients \ {r} : Stays(q)
  BY OthersStay
<1>2. req[r].steps \in Nat /\ req[r].steps <= MaxSteps + 1
  BY DEF Requested, Held, Counts, AssistantConstants
<1> DEFINE mine == {r} \X (1 .. req[r].steps)
<1>3. IsFiniteSet(mine) /\ Cardinality(mine) = req[r].steps
  <2>1. /\ IsFiniteSet(1 .. req[r].steps)
        /\ Cardinality(1 .. req[r].steps) = req[r].steps
    <3>1. \A n \in Nat :
            /\ IsFiniteSet(1 .. n)
            /\ Cardinality(1 .. n) = IF 1 > n THEN 0 ELSE n - 1 + 1
      BY FS_Interval
    <3> QED
      BY <1>2, <3>1
  <2>2. IsFiniteSet({r}) /\ Cardinality({r}) = 1
    BY FS_Singleton
  <2>3. IsFiniteSet(mine) /\ Cardinality(mine) = 1 * req[r].steps
    BY <2>1, <2>2, FS_Product
  <2> QED
    BY <1>2, <2>3
<1>4. ASSUME NEW p \in Owing
      PROVE  p \in Owing' \union mine
  <2>1. /\ p \in Clients \X (1 .. MaxSteps + 1)
        /\ req[p[1]].at # "sorry" /\ p[2] <= req[p[1]].steps
    BY DEF Owing
  <2>2. CASE p[1] # r
    BY <1>1, <2>1, <2>2 DEF Owing, Stays
  <2>3. CASE p[1] = r
    <3>1. p = <<p[1], p[2]>> /\ p[2] \in 1 .. MaxSteps + 1
      BY <2>1
    <3>2. p[2] <= req[r].steps
      BY <2>1, <2>3
    <3>3. p[2] \in 1 .. req[r].steps
      BY <1>2, <3>1, <3>2 DEF AssistantConstants
    <3> QED
      BY <2>3, <3>1, <3>3
  <2> QED
    BY <2>2, <2>3
<1>5. IsFiniteSet(Owing' \union mine)
  BY <1>3, OwingIsFinite, FS_Union
<1>6. Owing \in SUBSET (Owing' \union mine)
  BY <1>4
<1>7. Cardinality(Owing) <= Cardinality(Owing' \union mine)
  BY <1>5, <1>6, FS_Subset
<1>8. Cardinality(Owing' \union mine)
        = Cardinality(Owing') + Cardinality(mine)
            - Cardinality(Owing' \intersect mine)
  BY <1>3, OwingIsFinite, FS_Union
<1>9. Cardinality(Owing' \intersect mine) \in Nat
  BY OwingIsFinite, FS_Intersection, FS_CardinalityType
<1>10. Cardinality(Owing' \union mine) \in Nat
  BY <1>5, FS_CardinalityType
<1>11. Cardinality(Owing) \in Nat /\ Cardinality(Owing') \in Nat
  BY OwingIsFinite
<1> QED
  BY <1>2, <1>3, <1>7, <1>8, <1>9, <1>10, <1>11

LEMMA FlightIsFinite ==
  ASSUME AssistantConstants
  PROVE  /\ IsFiniteSet(InFlight) /\ Cardinality(InFlight) \in Nat
         /\ IsFiniteSet(Admitted) /\ Cardinality(Admitted) \in Nat
         /\ IsFiniteSet(Admitted') /\ Cardinality(Admitted') \in Nat
<1>1. /\ InFlight \in SUBSET Clients
      /\ Admitted \in SUBSET Clients /\ Admitted' \in SUBSET Clients
  BY DEF InFlight, Admitted
<1>2. IsFiniteSet(InFlight) /\ IsFiniteSet(Admitted) /\ IsFiniteSet(Admitted')
  BY <1>1, FS_Subset DEF AssistantConstants
<1> QED
  BY <1>2, FS_CardinalityType

LEMMA CountedKept ==
  ASSUME AssistantConstants, Counted, Requested, [AssistantNext]_assistantVars
  PROVE  Counted'
<1>1. ASSUME NEW r \in Clients, Acts(r)
      PROVE  Counted'
  <2>1. req[r].steps \in Nat
    BY <1>1, OwingDrops
  <2>2. CASE Ask(r) \/ AskReport(r) \/ CheckQuota(r) \/ CheckConversation(r)
             \/ Apologise(r) \/ ListMessages(r) \/ ReadTokens(r)
             \/ AppendAnswer(r)
    BY <2>2 DEF Ask, AskReport, CheckQuota, CheckConversation, Apologise,
                ListMessages, ReadTokens, AppendAnswer, talk, book, Counted
  <2>3. CASE AppendQuestion(r)
    <3>1. recent' = [recent EXCEPT ![req[r].conv] = @ + 1]
      BY <2>3 DEF AppendQuestion
    <3>2. req[r].conv \in Conversations
      BY <2>3 DEF AppendQuestion, At, Requested, Paying
    <3>3. recent[req[r].conv] + 1 \in Nat
      BY <3>2 DEF Counted
    <3>4. recent' \in [Conversations -> Nat]
      BY <3>1, <3>3 DEF Counted
    <3> QED
      BY <2>3, <3>4 DEF AppendQuestion, book, Counted
  <2>4. CASE UseTools(r) \/ Conclude(r)
    BY <2>4 DEF UseTools, Conclude, Completes, talk, Counted
  <2>5. CASE ProviderFails(r) \/ RecordFails(r)
    BY <2>5 DEF ProviderFails, RecordFails, talk, Counted
  <2>6. CASE RecordUsage(r)
    BY <2>1, <2>6 DEF RecordUsage, talk, Counted
  <2> QED
    BY <1>1, <2>2, <2>3, <2>4, <2>5, <2>6 DEF Acts
<1>2. CASE Die
  BY <1>2, FlightIsFinite DEF Die, talk, Counted
<1>3. CASE HourPasses
  BY <1>3 DEF HourPasses, book, Counted
<1>4. CASE UNCHANGED assistantVars
  BY <1>4 DEF assistantVars, talk, book, Counted
<1> QED
  BY <1>1, <1>2, <1>3, <1>4 DEF AssistantNext, Acts

\* All that is owed is owed by requests under way.
LEMMA OwedInFlight ==
  ASSUME AssistantConstants, Requested
  PROVE  Cardinality(Owing) <= (MaxSteps + 1) * Cardinality(InFlight)
<1> DEFINE all == InFlight \X (1 .. MaxSteps + 1)
<1>1. /\ IsFiniteSet(1 .. MaxSteps + 1)
      /\ Cardinality(1 .. MaxSteps + 1) = MaxSteps + 1
  <2>1. \A n \in Nat :
          /\ IsFiniteSet(1 .. n)
          /\ Cardinality(1 .. n) = IF 1 > n THEN 0 ELSE n - 1 + 1
    BY FS_Interval
  <2>2. MaxSteps + 1 \in Nat
    BY DEF AssistantConstants
  <2> QED
    BY <2>1, <2>2
<1>2. /\ IsFiniteSet(all)
      /\ Cardinality(all) = Cardinality(InFlight) * (MaxSteps + 1)
  BY <1>1, FlightIsFinite, FS_Product
<1>3. ASSUME NEW p \in Owing
      PROVE  p \in all
  <2>1. /\ p \in Clients \X (1 .. MaxSteps + 1)
        /\ p[2] <= req[p[1]].steps
    BY DEF Owing
  <2>2. p[1] \in Clients /\ p[2] > 0 /\ p[2] \in Int
    BY <2>1 DEF AssistantConstants
  <2>3. req[p[1]].steps # 0
    BY <2>1, <2>2
  <2>4. req[p[1]].at # "idle"
    BY <2>2, <2>3 DEF Requested, Paying
  <2> QED
    BY <2>1, <2>2, <2>4 DEF InFlight, At
<1>4. Owing \in SUBSET all
  BY <1>3
<1>5. Cardinality(Owing) <= Cardinality(all)
  BY <1>2, <1>4, FS_Subset
<1>6. \A m, n \in Nat : m * n = n * m
  OBVIOUS
<1> QED
  BY <1>2, <1>5, <1>6, FlightIsFinite DEF AssistantConstants

LEMMA SpendKept ==
  ASSUME AssistantConstants, Counted, Requested, SpendInv,
         [AssistantNext]_assistantVars
  PROVE  SpendInv'
<1>1. /\ MaxSteps + 1 \in Nat /\ spoiled \in Nat /\ silent \in Nat
      /\ unseen \in Int
  BY DEF AssistantConstants, Counted
<1>2. \A m, a, b \in Nat : m * (a + b) = m * a + m * b /\ m * a \in Nat
  OBVIOUS
<1>3. Cardinality(Owing) \in Nat /\ Cardinality(Owing') \in Nat
  BY OwingIsFinite
<1>4. (MaxSteps + 1) * spoiled \in Nat
  BY <1>1, <1>2
<1>5. ASSUME NEW r \in Clients, Acts(r)
      PROVE  SpendInv'
  <2>1. Held(r) /\ Paying(r)
    BY DEF Requested
  <2>2. /\ Cardinality(Owing) <= Cardinality(Owing') + req[r].steps
        /\ req[r].steps \in Nat /\ req[r].steps <= MaxSteps + 1
    BY <1>5, OwingDrops
  <2>3. ASSUME unseen' = unseen, spoiled' = spoiled, silent' = silent,
               \/ req[r].steps = 0
               \/ req[r].at = "sorry"
               \/ req'[r].steps = req[r].steps /\ req'[r].at # "sorry"
        PROVE  SpendInv'
    <3>1. Cardinality(Owing) <= Cardinality(Owing')
      BY <1>5, <2>3, OwingStays
    <3> QED
      BY <1>1, <1>3, <1>4, <2>3, <3>1 DEF SpendInv
  <2>4. CASE Ask(r) \/ AskReport(r)
    <3>1. /\ unseen' = unseen /\ spoiled' = spoiled /\ silent' = silent
          /\ req[r].at = "idle"
      BY <2>4 DEF Ask, AskReport, At, book
    <3> QED
      BY <2>1, <2>3, <3>1 DEF Paying
  <2>5. CASE CheckQuota(r) \/ CheckConversation(r) \/ AppendQuestion(r)
             \/ ListMessages(r)
    <3>1. /\ unseen' = unseen /\ spoiled' = spoiled /\ silent' = silent
          /\ req[r].at \in {"quota", "guards", "asking", "listing"}
      BY <2>5 DEF CheckQuota, CheckConversation, AppendQuestion, ListMessages,
                  At, book
    <3> QED
      BY <2>1, <2>3, <3>1 DEF Paying
  <2>6. CASE Apologise(r)
    BY <2>3, <2>6 DEF Apologise, At, book
  <2>7. CASE ReadTokens(r)
    <3>1. /\ req'[r].steps = req[r].steps /\ req'[r].at = "appending"
          /\ unseen' = unseen /\ spoiled' = spoiled /\ silent' = silent
      BY <2>1, <2>7 DEF ReadTokens, book, Held, Requested
    <3> QED
      BY <2>3, <3>1
  <2>8. CASE AppendAnswer(r)
    <3>1. req'[r] = [req[r] EXCEPT !.at = "recording"]
      BY <2>8, AppendMoves DEF AppendAnswer
    <3>2. req'[r].steps = req[r].steps /\ req'[r].at = "recording"
      BY <2>1, <3>1 DEF Held
    <3> QED
      BY <2>3, <2>8, <3>2 DEF AppendAnswer, book
  <2>9. CASE UseTools(r) \/ Conclude(r)
    <3>1. /\ req'[r].steps = req[r].steps + 1 /\ req'[r].at # "sorry"
          /\ req[r].at = "calling"
      <4>1. req[r].at = "calling"
        BY <2>9 DEF UseTools, Conclude, Completes, At
      <4>2. CASE UseTools(r)
        BY <2>1, <4>1, <4>2, UseToolsMoves DEF Held
      <4>3. CASE Conclude(r)
        BY <2>1, <4>1, <4>3, ConcludeMoves DEF Held
      <4> QED
        BY <2>9, <4>1, <4>2, <4>3
    <3>2. Cardinality(Owing) + 1 <= Cardinality(Owing')
      BY <1>5, <3>1, OwingGrows
    <3>3. unseen' = unseen + 1 /\ spoiled' = spoiled /\ silent' = silent
      BY <2>9 DEF UseTools, Conclude, Completes
    <3> QED
      BY <1>1, <1>3, <1>4, <3>2, <3>3 DEF SpendInv
  <2>10. CASE ProviderFails(r) \/ RecordFails(r)
    <3>1. unseen' = unseen /\ spoiled' = spoiled + 1 /\ silent' = silent
      BY <2>10 DEF ProviderFails, RecordFails
    <3>2. (MaxSteps + 1) * spoiled' = (MaxSteps + 1) * spoiled + (MaxSteps + 1)
      <4>1. \A m, a \in Nat : m * (a + 1) = m * a + m
        OBVIOUS
      <4> QED
        BY <1>1, <3>1, <4>1
    <3> QED
      BY <1>1, <1>3, <1>4, <2>2, <3>1, <3>2 DEF SpendInv
  <2>11. CASE RecordUsage(r)
    <3>1. CASE Accounted(r)
      <4>1. /\ unseen' = unseen - req[r].steps /\ spoiled' = spoiled
            /\ silent' = silent
        BY <2>11, <3>1 DEF RecordUsage
      <4> QED
        BY <1>1, <1>3, <1>4, <2>2, <4>1 DEF SpendInv
    <3>2. CASE ~Accounted(r)
      <4>1. /\ unseen' = unseen /\ spoiled' = spoiled /\ silent' = silent + 1
            /\ req[r].at = "recording" /\ req[r].kind # "chat"
        BY <2>11, <3>2 DEF RecordUsage, Accounted, At
      <4>2. req[r].steps <= 1
        BY <2>1, <4>1 DEF Paying, Held
      <4> QED
        BY <1>1, <1>3, <1>4, <2>2, <4>1, <4>2 DEF SpendInv
    <3> QED
      BY <3>1, <3>2
  <2> QED
    BY <1>5, <2>4, <2>5, <2>6, <2>7, <2>8, <2>9, <2>10, <2>11 DEF Acts
<1>6. CASE Die
  <2>1. /\ spoiled' = spoiled + Cardinality(InFlight) /\ unseen' = unseen
        /\ silent' = silent
    BY <1>6 DEF Die
  <2>2. Cardinality(InFlight) \in Nat
    BY FlightIsFinite
  <2>3. (MaxSteps + 1) * spoiled'
          = (MaxSteps + 1) * spoiled + (MaxSteps + 1) * Cardinality(InFlight)
    BY <1>1, <1>2, <2>1, <2>2
  <2>4. (MaxSteps + 1) * Cardinality(InFlight) \in Nat
    BY <1>1, <1>2, <2>2
  <2> QED
    BY <1>1, <1>3, <1>4, <2>1, <2>3, <2>4, OwedInFlight DEF SpendInv
<1>7. CASE HourPasses \/ UNCHANGED assistantVars
  <2>1. /\ unseen' = unseen /\ spoiled' = spoiled /\ silent' = silent
        /\ req' = req
    BY <1>7 DEF HourPasses, assistantVars, book
  <2> QED
    BY <2>1 DEF SpendInv, Owing
<1> QED
  BY <1>5, <1>6, <1>7 DEF AssistantNext, Acts

\* Those about to add a question to a conversation.
Asking(c) == {r \in Clients : req[r].conv = c /\ At(r, "asking")}

\* Who gets past the ceiling of the account finds it not reached, and one row
\* is written for each that got past it, at most.
LEMMA OnePasses ==
  ASSUME AssistantConstants, Counted, Requested, NEW r \in Clients, Acts(r)
  PROVE  \/ rows' = rows /\ rows < MaxCalls
         \/ rows' = rows /\ Admitted' \subseteq Admitted
         \/ /\ rows' = rows + 1 /\ r \in Admitted
            /\ Admitted' \subseteq Admitted \ {r}
<1>1. \A q \in Clients \ {r} : Stays(q)
  BY OthersStay
<1>2. Held(r) /\ rows \in Nat /\ MaxCalls \in Nat
  BY DEF Requested, Counted, AssistantConstants
<1>3. ASSUME r \in Admitted \/ r \notin Admitted'
      PROVE  Admitted' \subseteq Admitted
  BY <1>1, <1>3 DEF Admitted, At, Stays
<1>4. ASSUME ~At(r, "idle"), ~At(r, "quota")
      PROVE  r \in Admitted
  BY <1>4 DEF Admitted
<1>5. CASE Ask(r) \/ AskReport(r)
  <2>1. req'[r].at = "quota" /\ rows' = rows
    BY <1>5 DEF Ask, AskReport, NoRequest, Requested
  <2> QED
    BY <1>3, <2>1 DEF Admitted, At
<1>6. CASE CheckQuota(r)
  <2>1. CASE rows >= MaxCalls
    <3>1. req'[r].at = "idle" /\ rows' = rows
      BY <1>6, <2>1 DEF CheckQuota, Ends, NoRequest, Requested
    <3> QED
      BY <1>3, <3>1 DEF Admitted, At
  <2>2. CASE rows < MaxCalls
    <3>1. rows' = rows
      BY <1>6 DEF CheckQuota
    <3> QED
      BY <2>2, <3>1
  <2> QED
    BY <1>2, <2>1, <2>2
<1>7. CASE CheckConversation(r) \/ AppendQuestion(r) \/ Apologise(r)
             \/ ListMessages(r) \/ UseTools(r) \/ Conclude(r)
             \/ ProviderFails(r) \/ ReadTokens(r) \/ AppendAnswer(r)
             \/ RecordFails(r)
  <2>1. rows' = rows
    BY <1>7 DEF CheckConversation, AppendQuestion, Apologise, ListMessages,
                UseTools, Conclude, Completes, ProviderFails, ReadTokens,
                AppendAnswer, RecordFails
  <2>2. req[r].at \notin {"idle", "quota"}
    BY <1>7 DEF CheckConversation, AppendQuestion, Apologise, ListMessages,
                UseTools, Conclude, Completes, ProviderFails, ReadTokens,
                AppendAnswer, RecordFails, At
  <2> QED
    BY <1>3, <1>4, <2>1, <2>2 DEF At
<1>8. CASE RecordUsage(r)
  <2>1. /\ rows' = rows + 1 \/ rows' = rows
        /\ req'[r].at = "idle" /\ req[r].at = "recording"
    BY <1>8 DEF RecordUsage, Ends, NoRequest, At, Requested
  <2>2. r \in Admitted /\ r \notin Admitted'
    BY <2>1 DEF Admitted, At
  <2> QED
    BY <1>3, <2>1, <2>2
<1> QED
  BY <1>5, <1>6, <1>7, <1>8 DEF Acts

\* The same of the questions of a conversation.
LEMMA OneAsks ==
  ASSUME AssistantConstants, Counted, Requested, NEW r \in Clients, Acts(r),
         NEW c \in Conversations
  PROVE  \/ recent'[c] = recent[c] /\ recent[c] < MaxMessages
         \/ recent'[c] = recent[c] /\ Asking(c)' \subseteq Asking(c)
         \/ /\ recent'[c] = recent[c] + 1 /\ r \in Asking(c)
            /\ Asking(c)' \subseteq Asking(c) \ {r}
<1>1. \A q \in Clients \ {r} : Stays(q)
  BY OthersStay
<1>2. Held(r) /\ recent[c] \in Nat /\ MaxMessages \in Nat
  BY DEF Requested, Counted, AssistantConstants
<1>3. ASSUME r \notin Asking(c)'
      PROVE  Asking(c)' \subseteq Asking(c)
  BY <1>1, <1>3 DEF Asking, At, Stays
<1>4. CASE CheckConversation(r)
  <2>1. recent'[c] = recent[c]
    BY <1>4 DEF CheckConversation, talk
  <2>2. CASE recent[req[r].conv] >= MaxMessages \/ req[r].seen >= TokenBudget
    <3>1. Ends(r)
      BY <1>4, <2>2 DEF CheckConversation
    <3>2. req'[r].at = "idle"
      BY <3>1 DEF Ends, NoRequest, Requested
    <3> QED
      BY <1>3, <2>1, <3>2 DEF Asking, At
  <2>3. CASE ~(recent[req[r].conv] >= MaxMessages
                 \/ req[r].seen >= TokenBudget)
    <3>1. req'[r].conv = req[r].conv
      <4>1. \E none \in BOOLEAN :
              req' = [req EXCEPT ![r].at = "asking", ![r].degraded = none]
        BY <1>4, <2>3 DEF CheckConversation
      <4>2. \E none \in BOOLEAN :
              req'[r] = [req[r] EXCEPT !.at = "asking", !.degraded = none]
        BY <4>1 DEF Requested
      <4> QED
        BY <1>2, <4>2 DEF Held
    <3>2. CASE req[r].conv = c
      BY <1>2, <2>1, <2>3, <3>2
    <3>3. CASE req[r].conv # c
      BY <1>3, <2>1, <3>1, <3>3 DEF Asking
    <3> QED
      BY <3>2, <3>3
  <2> QED
    BY <2>2, <2>3
<1>5. CASE AppendQuestion(r)
  <2>1. /\ recent' = [recent EXCEPT ![req[r].conv] = @ + 1]
        /\ req[r].at = "asking"
    BY <1>5 DEF AppendQuestion, At
  <2>2. req'[r].at \in {"sorry", "listing"}
    <3>1. req'[r] = [req[r] EXCEPT !.at = IF req[r].degraded THEN "sorry"
                                                             ELSE "listing"]
      BY <1>5, AppendMoves DEF AppendQuestion
    <3> QED
      BY <1>2, <3>1 DEF Held
  <2>3. r \notin Asking(c)'
    BY <2>2 DEF Asking, At
  <2>4. Asking(c)' \subseteq Asking(c) \ {r}
    BY <1>3, <2>3
  <2>5. CASE req[r].conv = c
    <3>1. recent'[c] = recent[c] + 1
      BY <2>1, <2>5 DEF Counted
    <3>2. r \in Asking(c)
      BY <2>1, <2>5 DEF Asking, At
    <3> QED
      BY <2>4, <3>1, <3>2
  <2>6. CASE req[r].conv # c
    <3>1. recent'[c] = recent[c]
      BY <2>1, <2>6 DEF Counted
    <3> QED
      BY <2>4, <3>1
  <2> QED
    BY <2>5, <2>6
<1>6. CASE ~(CheckConversation(r) \/ AppendQuestion(r))
  <2>1. recent' = recent
    BY <1>6 DEF Acts, Ask, AskReport, CheckQuota, Apologise, ListMessages,
                UseTools, Conclude, Completes, ProviderFails, ReadTokens,
                AppendAnswer, RecordUsage, RecordFails, talk
  <2>2. req'[r].at # "asking"
    <3>1. CASE Ask(r) \/ AskReport(r)
      BY <3>1 DEF Ask, AskReport, NoRequest, Requested
    <3>2. CASE CheckQuota(r)
      BY <1>2, <3>2 DEF CheckQuota, Proceeds, Ends, Goes, NoRequest, Requested,
                        Held
    <3>3. CASE Apologise(r)
      BY <3>3, AppendMoves DEF Apologise, NoRequest
    <3>4. CASE ListMessages(r)
      BY <1>2, <3>4 DEF ListMessages, Requested, Held
    <3>5. CASE UseTools(r)
      <4>1. req[r].at = "calling"
        BY <3>5 DEF UseTools, Completes, At
      <4> QED
        BY <1>2, <3>5, <4>1, UseToolsMoves DEF Held
    <3>6. CASE Conclude(r) \/ ReadTokens(r)
      <4>1. req'[r].at \in {"answering", "recording", "appending"}
        <5>1. CASE Conclude(r)
          BY <1>2, <5>1, ConcludeMoves DEF Held
        <5>2. CASE ReadTokens(r)
          BY <1>2, <5>2 DEF ReadTokens, Requested, Held
        <5> QED
          BY <3>6, <5>1, <5>2
      <4> QED
        BY <4>1
    <3>7. CASE AppendAnswer(r)
      <4>1. req'[r] = [req[r] EXCEPT !.at = "recording"]
        BY <3>7, AppendMoves DEF AppendAnswer
      <4> QED
        BY <1>2, <4>1 DEF Held
    <3>8. CASE ProviderFails(r) \/ RecordUsage(r) \/ RecordFails(r)
      BY <1>2, <3>8 DEF ProviderFails, RecordUsage, RecordFails, Ends, Goes,
                        NoRequest, Requested, Held
    <3> QED
      BY <1>6, <3>1, <3>2, <3>3, <3>4, <3>5, <3>6, <3>7, <3>8 DEF Acts
  <2> QED
    BY <1>3, <2>1, <2>2 DEF Asking, At
<1> QED
  BY <1>4, <1>5, <1>6

\* A count and a set that only one at a time can leave, for the count.
LEMMA Exchange ==
  ASSUME NEW S, IsFiniteSet(S), NEW A \in SUBSET S, NEW B \in SUBSET S,
         NEW r \in S, NEW n \in Nat, NEW m \in Nat, NEW limit \in Nat,
         n + Cardinality(A) <= limit + Cardinality(S) - 1,
         \/ m = n /\ n < limit
         \/ m = n /\ B \subseteq A
         \/ m = n + 1 /\ r \in A /\ B \subseteq A \ {r}
  PROVE  m + Cardinality(B) <= limit + Cardinality(S) - 1
<1>1. /\ IsFiniteSet(A) /\ IsFiniteSet(B)
      /\ Cardinality(B) <= Cardinality(S)
  BY FS_Subset
<1>2. /\ Cardinality(A) \in Nat /\ Cardinality(B) \in Nat
      /\ Cardinality(S) \in Nat
  BY <1>1, FS_CardinalityType
<1>3. CASE m = n /\ n < limit
  BY <1>1, <1>2, <1>3
<1>4. CASE m = n /\ B \subseteq A
  <2>1. B \in SUBSET A
    BY <1>4
  <2>2. Cardinality(B) <= Cardinality(A)
    BY <1>1, <2>1, FS_Subset
  <2> QED
    BY <1>2, <1>4, <2>2
<1>5. CASE m = n + 1 /\ r \in A /\ B \subseteq A \ {r}
  <2>1. IsFiniteSet(A \ {r}) /\ Cardinality(A \ {r}) = Cardinality(A) - 1
    BY <1>1, <1>5, FS_RemoveElement
  <2>2. B \in SUBSET (A \ {r})
    BY <1>5
  <2>3. Cardinality(B) <= Cardinality(A \ {r})
    BY <2>1, <2>2, FS_Subset
  <2> QED
    BY <1>2, <1>5, <2>1, <2>3
<1> QED
  BY <1>3, <1>4, <1>5

LEMMA BurstKept ==
  ASSUME AssistantConstants, Counted, Requested, BurstIsBounded,
         [AssistantNext]_assistantVars
  PROVE  BurstIsBounded'
<1>1. /\ rows + Cardinality(Admitted) <= MaxCalls + Cardinality(Clients) - 1
      /\ \A c \in Conversations :
           recent[c] + Cardinality(Asking(c))
             <= MaxMessages + Cardinality(Clients) - 1
  BY DEF BurstIsBounded, Asking
<1>2. SUFFICES
        /\ rows' + Cardinality(Admitted') <= MaxCalls + Cardinality(Clients) - 1
        /\ \A c \in Conversations :
             recent'[c] + Cardinality(Asking(c)')
               <= MaxMessages + Cardinality(Clients) - 1
  BY DEF BurstIsBounded, Asking
<1>3. /\ Counted'
      /\ IsFiniteSet(Clients) /\ Clients # {}
      /\ MaxCalls \in Nat /\ MaxMessages \in Nat
      /\ MaxCalls > 0 /\ MaxMessages > 0
  BY CountedKept DEF AssistantConstants
<1>4. /\ rows \in Nat /\ rows' \in Nat
      /\ \A c \in Conversations : recent[c] \in Nat /\ recent'[c] \in Nat
  BY <1>3 DEF Counted
<1>5. /\ Admitted \in SUBSET Clients /\ Admitted' \in SUBSET Clients
      /\ \A c \in Conversations : /\ Asking(c) \in SUBSET Clients
                                  /\ Asking(c)' \in SUBSET Clients
  BY DEF Admitted, Asking
<1>6. ASSUME NEW r \in Clients, Acts(r)
      PROVE  /\ rows' + Cardinality(Admitted')
                  <= MaxCalls + Cardinality(Clients) - 1
             /\ \A c \in Conversations :
                  recent'[c] + Cardinality(Asking(c)')
                    <= MaxMessages + Cardinality(Clients) - 1
  <2>1. rows' + Cardinality(Admitted') <= MaxCalls + Cardinality(Clients) - 1
    BY <1>1, <1>3, <1>4, <1>5, <1>6, OnePasses, Exchange
  <2>2. ASSUME NEW c \in Conversations
        PROVE  recent'[c] + Cardinality(Asking(c)')
                 <= MaxMessages + Cardinality(Clients) - 1
    <3>1. \/ recent'[c] = recent[c] /\ recent[c] < MaxMessages
          \/ recent'[c] = recent[c] /\ Asking(c)' \subseteq Asking(c)
          \/ /\ recent'[c] = recent[c] + 1 /\ r \in Asking(c)
             /\ Asking(c)' \subseteq Asking(c) \ {r}
      BY <1>6, OneAsks
    <3> QED
      BY <1>1, <1>3, <1>4, <1>5, <3>1, Exchange
  <2> QED
    BY <2>1, <2>2
<1>7. \A T \in SUBSET Clients :
        /\ Cardinality(T) \in Nat /\ Cardinality(Clients) \in Nat
        /\ Cardinality(T) <= Cardinality(Clients)
  BY <1>3, FS_Subset, FS_CardinalityType
<1>8. Cardinality({}) = 0 /\ Cardinality(Clients) > 0
  BY <1>3, <1>7, FS_EmptySet
<1>9. CASE Die
  <2>1. rows' = rows /\ recent' = recent
    BY <1>9 DEF Die, talk
  <2>2. Admitted' = {} /\ \A c \in Conversations : Asking(c)' = {}
    BY <1>9 DEF Die, Admitted, Asking, At, NoRequest
  <2>3. /\ rows <= MaxCalls + Cardinality(Clients) - 1
        /\ \A c \in Conversations :
             recent[c] <= MaxMessages + Cardinality(Clients) - 1
    <3>1. Cardinality(Admitted) \in Nat /\ Cardinality(Clients) \in Nat
      BY <1>5, <1>7
    <3>2. \A c \in Conversations : Cardinality(Asking(c)) \in Nat
      BY <1>5, <1>7
    <3> QED
      BY <1>1, <1>3, <1>4, <3>1, <3>2
  <2>4. /\ Cardinality(Admitted') = 0
        /\ \A c \in Conversations : Cardinality(Asking(c)') = 0
    BY <1>8, <2>2
  <2>5. \A c \in Conversations :
          recent'[c] = recent[c] /\ recent[c] + 0 = recent[c]
    BY <1>4, <2>1
  <2> QED
    BY <1>4, <2>1, <2>3, <2>4, <2>5
<1>10. CASE HourPasses
  <2>1. /\ rows' = 0 /\ \A c \in Conversations : recent'[c] = 0
        /\ Admitted' = Admitted
        /\ \A c \in Conversations : Asking(c)' = Asking(c)
    BY <1>10 DEF HourPasses, Admitted, Asking, At
  <2> QED
    BY <1>3, <1>5, <1>7, <2>1
<1>11. CASE UNCHANGED assistantVars
  <2>1. /\ rows' = rows /\ recent' = recent
        /\ Admitted' = Admitted
        /\ \A c \in Conversations : Asking(c)' = Asking(c)
    BY <1>11 DEF assistantVars, talk, Admitted, Asking, At
  <2> QED
    BY <1>1, <2>1
<1> QED
  BY <1>6, <1>9, <1>10, <1>11 DEF AssistantNext, Acts

AssistantInv ==
  /\ Counted /\ Requested
  /\ SpendInv
  /\ BurstIsBounded

LEMMA InitAssistantInv ==
  ASSUME AssistantConstants, AssistantInit
  PROVE  AssistantInv
<1>1. Counted
  BY DEF AssistantInit, Counted
<1>2. \A r \in Clients : req[r] = NoRequest
  BY DEF AssistantInit
<1>3. Requested
  <2>1. req = [r \in Clients |-> req[r]]
    BY DEF AssistantInit
  <2>2. ASSUME NEW r \in Clients
        PROVE  Held(r)
    <3>1. 0 \in Counts
      BY DEF Counts, AssistantConstants
    <3>2. req[r] = [at |-> "idle", kind |-> "chat", conv |-> 0, ask |-> 0,
                    seen |-> 0, degraded |-> FALSE, beside |-> FALSE,
                    heard |-> 0, turns |-> <<>>, steps |-> 0, used |-> 0]
      BY <1>2 DEF NoRequest
    <3> QED
      BY <3>1, <3>2 DEF Held, Stages
  <2>3. \A r \in Clients : Paying(r)
    BY <1>2 DEF Paying, NoRequest, AssistantConstants
  <2> QED
    BY <2>1, <2>2, <2>3 DEF Requested
<1>4. SpendInv
  <2>1. Cardinality(Owing) \in Nat
    BY OwingIsFinite
  <2>2. unseen = 0 /\ spoiled = 0 /\ silent = 0 /\ MaxSteps + 1 \in Nat
    BY DEF AssistantInit, AssistantConstants
  <2> QED
    BY <2>1, <2>2 DEF SpendInv
<1>5. BurstIsBounded
  <2>1. Admitted = {} /\ \A c \in Conversations : Asking(c) = {}
    BY <1>2 DEF Admitted, Asking, At, NoRequest
  <2>2. rows = 0 /\ \A c \in Conversations : recent[c] = 0
    BY DEF AssistantInit
  <2>3. Cardinality(Clients) \in Nat /\ Cardinality(Clients) > 0
    BY FS_CardinalityType, FS_EmptySet DEF AssistantConstants
  <2>4. /\ rows + Cardinality(Admitted) <= MaxCalls + Cardinality(Clients) - 1
        /\ \A c \in Conversations :
             recent[c] + Cardinality(Asking(c))
               <= MaxMessages + Cardinality(Clients) - 1
    BY <2>1, <2>2, <2>3, FS_EmptySet DEF AssistantConstants
  <2> QED
    BY <2>4 DEF BurstIsBounded, Asking
<1> QED
  BY <1>1, <1>3, <1>4, <1>5 DEF AssistantInv

LEMMA SpecAssistantInv ==
  ASSUME AssistantConstants
  PROVE  AssistantSpec => []AssistantInv
<1>1. AssistantInit => AssistantInv
  BY InitAssistantInv
<1>2. AssistantInv /\ [AssistantNext]_assistantVars => AssistantInv'
  <2> SUFFICES ASSUME AssistantInv, [AssistantNext]_assistantVars
               PROVE  AssistantInv'
    OBVIOUS
  <2>1. Counted /\ Requested /\ SpendInv /\ BurstIsBounded
    BY DEF AssistantInv
  <2> QED
    BY <2>1, CountedKept, RequestedKept, SpendKept, BurstKept DEF AssistantInv
<1> QED
  BY <1>1, <1>2, PTL DEF AssistantSpec

\* However many requests are under way at once, a burst passes the ceiling of
\* the account, or of a conversation, by fewer than there are of them
\* (check_llm_quota and record_llm_usage of limits.py, routes/chat.py).
THEOREM BurstsAreBounded ==
  ASSUME AssistantConstants
  PROVE  AssistantSpec => []BurstIsBounded
<1>1. AssistantInv => BurstIsBounded
  BY DEF AssistantInv
<1> QED
  BY <1>1, SpecAssistantInv, PTL

\* What was paid for and is in no row of llm_usage belongs to requests under way
\* or to questions that were spoiled, and to each of those no more than the
\* calls of one question (run_agent, record_llm_usage).
THEOREM SpendIsAccounted ==
  ASSUME AssistantConstants
  PROVE  AssistantSpec => []SpendIsSeen
<1>1. AssistantInv => SpendIsSeen
  <2> SUFFICES ASSUME AssistantInv
               PROVE  SpendIsSeen
    OBVIOUS
  <2>1. /\ unseen <= (MaxSteps + 1) * spoiled + Cardinality(Owing) + silent
        /\ unseen \in Int /\ spoiled \in Nat /\ MaxSteps + 1 \in Nat
        /\ silent \in Nat
    BY DEF AssistantInv, Counted, SpendInv, AssistantConstants
  <2>2. Cardinality(Owing) <= (MaxSteps + 1) * Cardinality(InFlight)
    BY OwedInFlight DEF AssistantInv
  <2>3. Cardinality(Owing) \in Nat /\ Cardinality(InFlight) \in Nat
    BY OwingIsFinite, FlightIsFinite
  <2>4. \A m, a, b \in Nat : /\ m * (a + b) = m * a + m * b
                             /\ m * a \in Nat /\ m * b \in Nat
    OBVIOUS
  <2>5. (MaxSteps + 1) * (spoiled + Cardinality(InFlight))
          = (MaxSteps + 1) * spoiled + (MaxSteps + 1) * Cardinality(InFlight)
    BY <2>1, <2>3, <2>4
  <2>6. /\ (MaxSteps + 1) * spoiled \in Nat
        /\ (MaxSteps + 1) * Cardinality(InFlight) \in Nat
    BY <2>1, <2>3, <2>4
  <2> QED
    BY <2>1, <2>2, <2>3, <2>5, <2>6 DEF SpendIsSeen
<1> QED
  BY <1>1, SpecAssistantInv, PTL

-----------------------------------------------------------------------------
(* The assistant: what the model is shown                                   *)

MessageRow == [role : {"user", "assistant"}, ask : Nat, size : Nat, used : Nat]
Own(m, r) == m.role = "user" /\ m.ask = req[r].ask

\* A question that is about to be listed is the last one, unless somebody wrote
\* beside it.
Listening(r) ==
  LET said == messages[req[r].conv]
  IN req[r].at = "listing" =>
       /\ said # <<>>
       /\ req[r].beside = FALSE => Own(Last(said), r)

\* What was listed stays the beginning of the conversation, since it only grows.
Shown(r) ==
  LET said == messages[req[r].conv]
      heard == req[r].heard
  IN req[r].turns # <<>> =>
       /\ req[r].conv \in Conversations /\ heard \in 1 .. Len(said)
       /\ req[r].turns = Trim(Take(said, heard), TokenBudget \div 2)
       /\ heard < ListLimit /\ req[r].beside = FALSE => Own(said[heard], r)

HeardInv ==
  /\ messages \in [Conversations -> Seq(MessageRow)]
  /\ asks \in Nat /\ \A r \in Clients : req[r].ask \in Nat
  /\ \A r \in Clients : Listening(r) /\ Shown(r)

LEMMA LeastOf ==
  ASSUME NEW S, S \subseteq Nat, S # {}
  PROVE  Min(S) \in S /\ \A k \in S : Min(S) <= k
<1>1. PICK m \in S : \A k \in S : ~(<<k, m>> \in OpToRel(<, Nat))
  BY NatLessThanWellFounded, WFMin
<1>2. ASSUME NEW k \in S
      PROVE  m <= k
  <2>1. k \in Nat /\ m \in Nat
    OBVIOUS
  <2>2. k < m => <<k, m>> \in OpToRel(<, Nat)
    BY <2>1 DEF OpToRel
  <2>3. ~(k < m)
    BY <1>1, <2>2
  <2> QED
    BY <2>1, <2>3
<1> QED
  BY <1>2 DEF Min

\* Trimming keeps the newest turns: as many as fit, or one.
LEMMA TrimKeepsTheNewest ==
  ASSUME NEW S, NEW turns \in Seq(S), turns # <<>>, NEW budget
  PROVE  \E k \in 1 .. Len(turns) :
           /\ Trim(turns, budget) = From(turns, k)
           /\ Fits(From(turns, k), budget) \/ k = Len(turns)
           /\ k > 1 => ~Fits(From(turns, k - 1), budget)
<1> DEFINE starts == {k \in 1 .. Len(turns) :
                        k = Len(turns) \/ Fits(From(turns, k), budget)}
<1>0. Len(turns) \in Nat \ {0} /\ Len(turns) \in starts
  OBVIOUS
<1>1. CASE Fits(turns, budget)
  <2>1. From(turns, 1) = turns
    BY DEF From
  <2> QED
    BY <1>0, <1>1, <2>1 DEF Trim
<1>2. CASE ~Fits(turns, budget)
  <2>1. Min(starts) \in starts /\ \A k \in starts : Min(starts) <= k
    <3>1. starts \subseteq Nat /\ starts # {}
      BY <1>0
    <3> HIDE DEF starts
    <3> QED
      BY <3>1, LeastOf
  <2>2. PICK k \in starts : k = Min(starts)
    BY <2>1
  <2>3. Trim(turns, budget) = From(turns, k)
    BY <1>2, <2>2 DEF Trim
  <2>4. k \in 1 .. Len(turns) /\ (Fits(From(turns, k), budget) \/ k = Len(turns))
    OBVIOUS
  <2>5. k > 1 => ~Fits(From(turns, k - 1), budget)
    <3>1. ASSUME k > 1
          PROVE  k - 1 \notin starts
      <4>1. ~(k <= k - 1)
        BY <2>4
      <4> HIDE DEF starts
      <4> QED
        BY <2>1, <2>2, <4>1
    <3>2. k > 1 => k - 1 \in 1 .. Len(turns)
      BY <2>4
    <3> QED
      BY <3>1, <3>2
  <2> QED
    BY <2>3, <2>4, <2>5
<1> QED
  BY <1>1, <1>2

LEMMA TakenIsBeginning ==
  ASSUME NEW S, NEW s \in Seq(S), NEW n \in Nat, n <= Len(s)
  PROVE  /\ Take(s, n) \in Seq(S) /\ Len(Take(s, n)) = n
         /\ \A i \in 1 .. n : Take(s, n)[i] = s[i]
<1>1. (IF Len(s) < n THEN Len(s) ELSE n) = n
  OBVIOUS
<1> QED
  BY <1>1 DEF Take

LEMMA BeginningStays ==
  ASSUME NEW S, NEW s \in Seq(S), NEW x \in S, NEW n \in 1 .. Len(s)
  PROVE  /\ Take(Append(s, x), n) = Take(s, n)
         /\ Append(s, x)[n] = s[n] /\ n \in 1 .. Len(Append(s, x))
<1>1. /\ Append(s, x) \in Seq(S) /\ Len(Append(s, x)) = Len(s) + 1
      /\ \A i \in 1 .. Len(s) : Append(s, x)[i] = s[i]
  OBVIOUS
<1>2. /\ Take(Append(s, x), n) = SubSeq(Append(s, x), 1, n)
      /\ Take(s, n) = SubSeq(s, 1, n)
  BY <1>1 DEF Take
<1>3. SubSeq(Append(s, x), 1, n) = SubSeq(s, 1, n)
  BY <1>1
<1> QED
  BY <1>1, <1>2, <1>3

\* What a step appends leaves the beginnings of all conversations, and the last
\* message of every other one.
LEMMA OtherHears ==
  ASSUME HeardInv, Requested, NEW r \in Clients, NEW q \in Clients \ {r},
         req[r].conv \in Conversations, NEW message \in MessageRow, NEW after,
         AppendMessage(r, message, after)
  PROVE  Listening(q)' /\ Shown(q)' /\ req'[q].ask \in Nat
<1> DEFINE c == req[r].conv
<1>1. /\ messages' \in [Conversations -> Seq(MessageRow)]
      /\ messages'[c] = Append(messages[c], message)
      /\ \A d \in Conversations \ {c} : messages'[d] = messages[d]
  BY DEF AppendMessage, HeardInv
<1>2. /\ req'[q].at = req[q].at /\ req'[q].conv = req[q].conv
      /\ req'[q].ask = req[q].ask /\ req'[q].heard = req[q].heard
      /\ req'[q].turns = req[q].turns
      /\ req'[q].beside = FALSE =>
           /\ req[q].beside = FALSE
           /\ ~(req[q].at = "listing" /\ req[q].conv = c)
  <2>1. req'[q] = [req[q] EXCEPT !.beside =
                     @ \/ (q # r /\ At(q, "listing") /\ req[q].conv = c)]
    BY DEF AppendMessage
  <2>2. Held(q)
    BY DEF Requested
  <2> QED
    BY <2>1, <2>2 DEF Held, At
<1>3. Listening(q) /\ Shown(q) /\ Held(q) /\ Paying(q) /\ req[q].ask \in Nat
  BY DEF HeardInv, Requested
<1>4. Listening(q)'
  <2>1. ASSUME req[q].at = "listing"
        PROVE  /\ messages'[req[q].conv] # <<>>
               /\ req'[q].beside = FALSE =>
                    /\ Last(messages'[req[q].conv]).role = "user"
                    /\ Last(messages'[req[q].conv]).ask = req[q].ask
    <3>1. req[q].conv \in Conversations
      BY <1>3, <2>1 DEF Paying
    <3>2. messages'[c] # <<>>
      BY <1>1 DEF HeardInv
    <3>3. CASE req[q].conv = c
      BY <1>2, <2>1, <3>2, <3>3
    <3>4. CASE req[q].conv # c
      <4>1. messages'[req[q].conv] = messages[req[q].conv]
        BY <1>1, <3>1, <3>4
      <4> QED
        BY <1>2, <1>3, <2>1, <4>1 DEF Listening, Own
    <3> QED
      BY <3>3, <3>4
  <2> QED
    BY <1>2, <2>1 DEF Listening, Own
<1>5. Shown(q)'
  <2> SUFFICES ASSUME req[q].turns # <<>>
               PROVE  Shown(q)'
    BY <1>2 DEF Shown
  <2> DEFINE d == req[q].conv
             heard == req[q].heard
  <2>1. /\ d \in Conversations /\ heard \in 1 .. Len(messages[d])
        /\ req[q].turns = Trim(Take(messages[d], heard), TokenBudget \div 2)
        /\ heard < ListLimit /\ req[q].beside = FALSE =>
             Own(messages[d][heard], q)
    BY <1>3 DEF Shown
  <2>2. /\ Take(messages'[d], heard) = Take(messages[d], heard)
        /\ messages'[d][heard] = messages[d][heard]
        /\ heard \in 1 .. Len(messages'[d])
    <3>1. CASE d = c
      <4>1. messages[c] \in Seq(MessageRow) /\ heard \in 1 .. Len(messages[c])
        BY <2>1, <3>1 DEF HeardInv
      <4>2. /\ Take(messages'[c], heard) = Take(messages[c], heard)
            /\ messages'[c][heard] = messages[c][heard]
            /\ heard \in 1 .. Len(messages'[c])
        BY <1>1, <4>1, BeginningStays
      <4> QED
        BY <3>1, <4>2
    <3>2. CASE d # c
      BY <1>1, <2>1, <3>2
    <3> QED
      BY <3>1, <3>2
  <2> QED
    BY <1>2, <2>1, <2>2 DEF Shown, Own
<1> QED
  BY <1>2, <1>3, <1>4, <1>5

\* The one that appends hears what it heard; after a question it is at the end.
LEMMA AppenderHears ==
  ASSUME HeardInv, Requested, NEW r \in Clients,
         req[r].conv \in Conversations, NEW message \in MessageRow, NEW after,
         AppendMessage(r, message, after),
         after.ask = req[r].ask, after.turns = req[r].turns,
         after.conv = req[r].conv, after.heard = req[r].heard,
         after.beside = req[r].beside,
         after.at = "listing" => Own(message, r)
  PROVE  Listening(r)' /\ Shown(r)' /\ req'[r].ask \in Nat
<1> DEFINE c == req[r].conv
           heard == req[r].heard
<1>1. /\ messages[c] \in Seq(MessageRow)
      /\ messages'[c] = Append(messages[c], message) /\ req'[r] = after
  BY DEF AppendMessage, HeardInv
<1>2. /\ messages'[c] # <<>> /\ Last(messages'[c]) = message
  BY <1>1 DEF Last
<1>3. Listening(r)'
  BY <1>1, <1>2 DEF Listening, Own
<1>4. Shown(r)'
  <2> SUFFICES ASSUME req[r].turns # <<>>
               PROVE  Shown(r)'
    BY <1>1 DEF Shown
  <2>1. /\ heard \in 1 .. Len(messages[c])
        /\ req[r].turns = Trim(Take(messages[c], heard), TokenBudget \div 2)
        /\ heard < ListLimit /\ req[r].beside = FALSE =>
             Own(messages[c][heard], r)
    BY DEF HeardInv, Shown
  <2>2. /\ Take(messages'[c], heard) = Take(messages[c], heard)
        /\ messages'[c][heard] = messages[c][heard]
        /\ heard \in 1 .. Len(messages'[c])
    BY <1>1, <2>1, BeginningStays
  <2> QED
    BY <1>1, <2>1, <2>2 DEF Shown, Own
<1> QED
  BY <1>1, <1>3, <1>4 DEF HeardInv

LEMMA ListingHears ==
  ASSUME AssistantConstants, HeardInv, Requested, NEW r \in Clients,
         ListMessages(r)
  PROVE  Listening(r)' /\ Shown(r)' /\ req'[r].ask \in Nat
<1> DEFINE said == messages[req[r].conv]
           n == IF Len(said) < ListLimit THEN Len(said) ELSE ListLimit
<1>1. /\ req[r].at = "listing" /\ Held(r) /\ Paying(r) /\ messages' = messages
      /\ Listening(r) /\ req[r].ask \in Nat
  BY DEF ListMessages, At, Requested, HeardInv, talk
<1>2. req[r].conv \in Conversations /\ said \in Seq(MessageRow) /\ said # <<>>
  BY <1>1 DEF Paying, Listening, HeardInv
<1>3. /\ n \in 1 .. Len(said) /\ n <= ListLimit
      /\ n < ListLimit => n = Len(said)
  BY <1>2 DEF AssistantConstants
<1>4. Take(said, ListLimit) = Take(said, n) /\ Len(Take(said, n)) = n
  <2>1. Take(said, ListLimit) = SubSeq(said, 1, n)
    BY DEF Take
  <2>2. (IF Len(said) < n THEN Len(said) ELSE n) = n
    BY <1>2, <1>3
  <2>3. Take(said, n) = SubSeq(said, 1, n)
    BY <2>2 DEF Take
  <2> QED
    BY <1>2, <1>3, <2>1, <2>3, TakenIsBeginning
<1>5. req'[r] = [req[r] EXCEPT !.at = "calling", !.heard = n,
                   !.turns = Trim(Take(said, n), TokenBudget \div 2)]
  BY <1>4 DEF ListMessages, Requested
<1> HIDE DEF n
<1>6. /\ req'[r].at = "calling" /\ req'[r].heard = n
      /\ req'[r].turns = Trim(Take(said, n), TokenBudget \div 2)
      /\ req'[r].conv = req[r].conv /\ req'[r].ask = req[r].ask
      /\ req'[r].beside = req[r].beside
  BY <1>1, <1>5 DEF Held
<1>7. n < ListLimit /\ req[r].beside = FALSE => Own(said[n], r)
  BY <1>1, <1>3 DEF Listening, Last
<1> QED
  BY <1>1, <1>2, <1>3, <1>6, <1>7 DEF Listening, Shown, Own

LEMMA AppendHeard ==
  ASSUME AssistantConstants, HeardInv, Requested, NEW r \in Clients,
         AppendQuestion(r) \/ Apologise(r) \/ AppendAnswer(r)
  PROVE  HeardInv'
<1>0. /\ Held(r) /\ Paying(r) /\ req[r].ask \in Nat
      /\ req[r].at \in {"asking", "sorry", "appending"}
  BY DEF Requested, HeardInv, AppendQuestion, Apologise, AppendAnswer, At
<1>1. req[r].conv \in Conversations /\ req[r].used \in Nat
  BY <1>0 DEF Paying, Held, Counts
<1>2. \A size \in Nat, used \in Nat :
        /\ Message("user", r, size, used) \in MessageRow
        /\ Message("assistant", r, size, used) \in MessageRow
        /\ Own(Message("user", r, size, used), r)
  BY <1>0 DEF Message, MessageRow, Own
<1>3. PICK message, after :
        /\ message \in MessageRow
        /\ AppendMessage(r, message, after)
        /\ \/ after = NoRequest
           \/ /\ after.ask = req[r].ask /\ after.turns = req[r].turns
              /\ after.conv = req[r].conv /\ after.heard = req[r].heard
              /\ after.beside = req[r].beside
              /\ after.at = "listing" => Own(message, r)
  <2>1. CASE AppendQuestion(r)
    <3>1. PICK size \in Sizes :
            AppendMessage(r, Message("user", r, size, 0),
              [req[r] EXCEPT !.at = IF req[r].degraded THEN "sorry"
                                                       ELSE "listing"])
      BY <2>1 DEF AppendQuestion
    <3>2. size \in Nat
      BY DEF AssistantConstants
    <3> DEFINE after == [req[r] EXCEPT !.at = IF req[r].degraded THEN "sorry"
                                                               ELSE "listing"]
    <3>3. /\ after.ask = req[r].ask /\ after.turns = req[r].turns
          /\ after.conv = req[r].conv /\ after.heard = req[r].heard
          /\ after.beside = req[r].beside
      BY <1>0 DEF Held
    <3> HIDE DEF after
    <3> QED
      BY <1>2, <3>1, <3>2, <3>3 DEF after
  <2>2. CASE Apologise(r)
    BY <1>2, <2>2 DEF Apologise
  <2>3. CASE AppendAnswer(r)
    <3>1. AppendMessage(r, Message("assistant", r, 1, req[r].used),
                        [req[r] EXCEPT !.at = "recording"])
      BY <2>3 DEF AppendAnswer
    <3> DEFINE after == [req[r] EXCEPT !.at = "recording"]
    <3>2. /\ after.ask = req[r].ask /\ after.turns = req[r].turns
          /\ after.conv = req[r].conv /\ after.heard = req[r].heard
          /\ after.beside = req[r].beside /\ after.at = "recording"
      BY <1>0 DEF Held
    <3> HIDE DEF after
    <3> QED
      BY <1>1, <1>2, <3>1, <3>2 DEF after
  <2> QED
    BY <2>1, <2>2, <2>3
<1>4. Listening(r)' /\ Shown(r)' /\ req'[r].ask \in Nat
  <2>1. CASE after = NoRequest
    <3>1. req'[r] = NoRequest
      BY <1>3, <2>1 DEF AppendMessage
    <3> QED
      BY <3>1 DEF NoRequest, Listening, Shown
  <2>2. CASE after # NoRequest
    BY <1>1, <1>3, <2>2, AppenderHears
  <2> QED
    BY <2>1, <2>2
<1>5. \A q \in Clients \ {r} : Listening(q)' /\ Shown(q)' /\ req'[q].ask \in Nat
  BY <1>1, <1>3, OtherHears
<1>6. messages' \in [Conversations -> Seq(MessageRow)]
  <2>1. messages' = [messages EXCEPT ![req[r].conv] = Append(@, message)]
    BY <1>3 DEF AppendMessage
  <2> QED
    BY <1>1, <1>3, <2>1 DEF HeardInv
<1>7. asks' \in Nat
  BY DEF HeardInv, AppendQuestion, Apologise, AppendAnswer
<1> QED
  BY <1>4, <1>5, <1>6, <1>7 DEF HeardInv

\* Whoever does not append and does not list shows what it showed, or nothing.
LEMMA QuietHeard ==
  ASSUME HeardInv, Requested, NEW r \in Clients, Acts(r),
         ~AppendQuestion(r), ~Apologise(r), ~AppendAnswer(r), ~ListMessages(r)
  PROVE  /\ messages' = messages /\ asks' \in Nat
         /\ Listening(r)' /\ Shown(r)' /\ req'[r].ask \in Nat
<1>0. /\ Held(r) /\ Listening(r) /\ Shown(r)
      /\ req[r].ask \in Nat /\ asks \in Nat
  BY DEF Requested, HeardInv
<1>1. ASSUME req'[r].turns = <<>>, req'[r].at # "listing",
             req'[r].ask \in Nat
      PROVE  Listening(r)' /\ Shown(r)' /\ req'[r].ask \in Nat
  BY <1>1 DEF Listening, Shown
<1>2. ASSUME messages' = messages, req'[r].at # "listing",
             req'[r].turns = req[r].turns, req'[r].heard = req[r].heard,
             req'[r].conv = req[r].conv, req'[r].ask = req[r].ask,
             req'[r].beside = req[r].beside
      PROVE  Listening(r)' /\ Shown(r)' /\ req'[r].ask \in Nat
  BY <1>0, <1>2 DEF Listening, Shown, Own
<1>3. /\ NoRequest.turns = <<>> /\ NoRequest.at = "idle" /\ NoRequest.ask = 0
      /\ NoRequest.at # "listing"
  BY DEF NoRequest
<1>4. CASE Ask(r) \/ AskReport(r)
  <2>1. /\ req'[r].turns = <<>> /\ req'[r].at = "quota"
        /\ req'[r].ask \in {0, asks'} /\ asks' = asks + 1
    <3>1. CASE Ask(r)
      <4>1. PICK c \in Conversations :
              req'[r] = [NoRequest EXCEPT !.at = "quota", !.conv = c,
                                          !.ask = asks', !.seen = tokens[c]]
        BY <3>1 DEF Ask, Requested
      <4> QED
        BY <3>1, <4>1 DEF Ask, NoRequest
    <3>2. CASE AskReport(r)
      BY <3>2 DEF AskReport, NoRequest, Requested
    <3> QED
      BY <1>4, <3>1, <3>2
  <2>2. messages' = messages
    BY <1>4 DEF Ask, AskReport, talk
  <2> QED
    BY <1>0, <1>1, <2>1, <2>2
<1>5. CASE CheckQuota(r) \/ CheckConversation(r) \/ ProviderFails(r)
           \/ RecordUsage(r) \/ RecordFails(r)
  <2>1. messages' = messages /\ asks' = asks
    BY <1>5 DEF CheckQuota, CheckConversation, ProviderFails, RecordUsage,
                RecordFails, talk
  <2>2. \/ req'[r] = NoRequest
        \/ \E there \in Stages \ {"listing"}, b \in BOOLEAN :
             req'[r] = [req[r] EXCEPT !.at = there, !.degraded = b]
    <3>1. /\ req[r].degraded \in BOOLEAN
          /\ \A there : [req[r] EXCEPT !.at = there]
               = [req[r] EXCEPT !.at = there, !.degraded = req[r].degraded]
      BY <1>0 DEF Held
    <3>2. CASE CheckQuota(r) \/ ProviderFails(r) \/ RecordUsage(r)
               \/ RecordFails(r)
      <4>1. \/ req'[r] = NoRequest
            \/ \E there \in {"guards", "calling", "sorry"} :
                 req'[r] = [req[r] EXCEPT !.at = there]
        BY <3>2 DEF CheckQuota, Proceeds, ProviderFails, RecordUsage,
                    RecordFails, Ends, Goes, Requested
      <4>2. {"guards", "calling", "sorry"} \subseteq Stages \ {"listing"}
        BY DEF Stages
      <4>3. CASE req'[r] # NoRequest
        <5>1. PICK there \in {"guards", "calling", "sorry"} :
                req'[r] = [req[r] EXCEPT !.at = there]
          BY <4>1, <4>3
        <5>2. req'[r] = [req[r] EXCEPT !.at = there,
                                       !.degraded = req[r].degraded]
          BY <3>1, <5>1, Zenon
        <5> QED
          BY <3>1, <4>2, <5>2, Zenon
      <4> QED
        BY <4>3
    <3>3. CASE CheckConversation(r)
      <4>1. \/ req'[r] = NoRequest
            \/ \E b \in BOOLEAN :
                 req'[r] = [req[r] EXCEPT !.at = "asking", !.degraded = b]
        BY <3>3 DEF CheckConversation, Ends, Requested
      <4>2. "asking" \in Stages \ {"listing"}
        BY DEF Stages
      <4> QED
        BY <4>1, <4>2
    <3> QED
      BY <1>5, <3>2, <3>3
  <2>3. CASE req'[r] = NoRequest
    BY <1>0, <1>1, <1>3, <2>1, <2>3
  <2>4. CASE \E there \in Stages \ {"listing"}, b \in BOOLEAN :
               req'[r] = [req[r] EXCEPT !.at = there, !.degraded = b]
    BY <1>0, <1>2, <2>1, <2>4 DEF Held
  <2> QED
    BY <2>2, <2>3, <2>4
<1>6. CASE UseTools(r) \/ ReadTokens(r)
  <2>1. messages' = messages /\ asks' = asks
    BY <1>6 DEF UseTools, Completes, ReadTokens, talk
  <2>2. /\ req[r].at \in {"calling", "answering"}
        /\ \E there \in {req[r].at, "appending"} : \E n, k, u :
             req'[r] = [req[r] EXCEPT !.at = there, !.steps = n, !.seen = k,
                                      !.used = u]
    <3>1. CASE UseTools(r)
      <4>1. PICK n \in 0 .. 1 :
              req'[r] = [req[r] EXCEPT !.steps = @ + 1, !.used = @ + n]
        BY <3>1, UseToolsMoves
      <4>2. req'[r] = [req[r] EXCEPT !.at = req[r].at, !.steps = @ + 1,
                                     !.seen = req[r].seen, !.used = @ + n]
        BY <1>0, <4>1 DEF Held
      <4>3. req[r].at = "calling"
        BY <3>1 DEF UseTools, Completes, At
      <4>4. \E there \in {req[r].at, "appending"} : \E a, k, u :
              req'[r] = [req[r] EXCEPT !.at = there, !.steps = a, !.seen = k,
                                       !.used = u]
        <5> WITNESS req[r].at \in {req[r].at, "appending"}
        <5> WITNESS req[r].steps + 1, req[r].seen, req[r].used + n
        <5> QED
          BY <4>2
      <4> QED
        BY <4>3, <4>4
    <3>2. CASE ReadTokens(r)
      <4>1. req'[r] = [req[r] EXCEPT !.at = "appending",
                                     !.seen = tokens[req[r].conv]]
        BY <3>2 DEF ReadTokens, Requested
      <4>2. req'[r] = [req[r] EXCEPT !.at = "appending", !.steps = req[r].steps,
                                     !.seen = tokens[req[r].conv],
                                     !.used = req[r].used]
        BY <1>0, <4>1 DEF Held
      <4>3. req[r].at = "answering"
        BY <3>2 DEF ReadTokens, At
      <4>4. \E there \in {req[r].at, "appending"} : \E a, k, u :
              req'[r] = [req[r] EXCEPT !.at = there, !.steps = a, !.seen = k,
                                       !.used = u]
        <5> WITNESS "appending" \in {req[r].at, "appending"}
        <5> WITNESS req[r].steps, tokens[req[r].conv], req[r].used
        <5> QED
          BY <4>2
      <4> QED
        BY <4>3, <4>4
    <3> QED
      BY <1>6, <3>1, <3>2
  <2> QED
    BY <1>0, <1>2, <2>1, <2>2 DEF Held
<1>7. CASE Conclude(r)
  <2>1. messages' = messages /\ asks' = asks
    BY <1>7 DEF Conclude, Completes, talk
  <2>2. PICK n \in 0 .. 1 :
          req'[r] = [req[r] EXCEPT !.turns = <<>>, !.heard = 0, !.beside = FALSE,
                       !.at = IF req[r].kind = "chat" THEN "answering"
                                                      ELSE "recording",
                       !.steps = @ + 1, !.used = @ + n]
    BY <1>7, ConcludeMoves
  <2>3. /\ req'[r].turns = <<>> /\ req'[r].ask = req[r].ask
        /\ req'[r].at \in {"answering", "recording"}
    BY <1>0, <2>2 DEF Held
  <2> QED
    BY <1>0, <1>1, <2>1, <2>3
<1> QED
  BY <1>4, <1>5, <1>6, <1>7 DEF Acts

LEMMA HeardKept ==
  ASSUME AssistantConstants, HeardInv, Requested,
         [AssistantNext]_assistantVars
  PROVE  HeardInv'
<1>1. ASSUME NEW r \in Clients,
             AppendQuestion(r) \/ Apologise(r) \/ AppendAnswer(r)
      PROVE  HeardInv'
  BY <1>1, AppendHeard
<1>2. ASSUME NEW r \in Clients, Acts(r),
             ~AppendQuestion(r), ~Apologise(r), ~AppendAnswer(r)
      PROVE  HeardInv'
  <2>1. /\ messages' = messages /\ asks' \in Nat
        /\ Listening(r)' /\ Shown(r)' /\ req'[r].ask \in Nat
    <3>1. CASE ListMessages(r)
      <4>1. messages' = messages /\ asks' = asks
        BY <3>1 DEF ListMessages, talk
      <4> QED
        BY <3>1, <4>1, ListingHears DEF HeardInv
    <3>2. CASE ~ListMessages(r)
      BY <1>2, <3>2, QuietHeard
    <3> QED
      BY <3>1, <3>2
  <2>2. ASSUME NEW q \in Clients \ {r}
        PROVE  Listening(q)' /\ Shown(q)' /\ req'[q].ask \in Nat
    <3>1. \E new : req' = [req EXCEPT ![r] = new]
      <4>1. CASE Ask(r) \/ AskReport(r)
        BY <4>1 DEF Ask, AskReport
      <4>2. CASE CheckQuota(r) \/ CheckConversation(r)
        BY <4>2 DEF CheckQuota, Proceeds, CheckConversation, Ends, Goes
      <4>3. CASE ListMessages(r) \/ UseTools(r) \/ Conclude(r) \/ ReadTokens(r)
        BY <4>3 DEF ListMessages, UseTools, Conclude, Completes, ReadTokens
      <4>4. CASE ProviderFails(r) \/ RecordUsage(r) \/ RecordFails(r)
        BY <4>4 DEF ProviderFails, RecordUsage, RecordFails, Ends, Goes
      <4> QED
        BY <1>2, <4>1, <4>2, <4>3, <4>4 DEF Acts
    <3>2. req'[q] = req[q]
      BY <3>1 DEF Requested
    <3> QED
      BY <2>1, <3>2 DEF HeardInv, Listening, Shown, Own
  <2> QED
    BY <2>1, <2>2 DEF HeardInv
<1>3. CASE Die
  <2>1. /\ req' = [r \in Clients |-> NoRequest] /\ messages' = messages
        /\ asks' = asks
    BY <1>3 DEF Die, talk
  <2>2. ASSUME NEW r \in Clients
        PROVE  Listening(r)' /\ Shown(r)' /\ req'[r].ask \in Nat
    BY <2>1 DEF Listening, Shown, NoRequest
  <2> QED
    BY <2>1, <2>2 DEF HeardInv
<1>4. CASE HourPasses \/ UNCHANGED assistantVars
  <2>1. UNCHANGED <<req, messages, asks>>
    BY <1>4 DEF HourPasses, assistantVars, talk
  <2> QED
    BY <2>1 DEF HeardInv, Listening, Shown, Own
<1> QED
  BY <1>1, <1>2, <1>3, <1>4 DEF AssistantNext, Acts

LEMMA SpecHeardInv ==
  ASSUME AssistantConstants
  PROVE  AssistantSpec => []HeardInv
<1>1. AssistantInit => HeardInv
  <2> SUFFICES ASSUME AssistantInit
               PROVE  HeardInv
    OBVIOUS
  <2>1. ASSUME NEW r \in Clients
        PROVE  Listening(r) /\ Shown(r) /\ req[r].ask \in Nat
    BY DEF AssistantInit, NoRequest, Listening, Shown
  <2> QED
    BY <2>1 DEF AssistantInit, HeardInv
<1>2. AssistantInv /\ HeardInv /\ [AssistantNext]_assistantVars => HeardInv'
  BY HeardKept DEF AssistantInv
<1> QED
  BY <1>1, <1>2, SpecAssistantInv, PTL DEF AssistantSpec

\* The model is shown the newest part of what was listed that fits half the
\* budget, the question itself at its end, unless somebody wrote beside it or
\* the conversation is longer than the listing (routes/chat.py; list_messages
\* of db.py; trim_to_budget of analyst/agent.py), for any number of requests.
THEOREM QuestionsAreHeard ==
  ASSUME AssistantConstants
  PROVE  AssistantSpec => []QuestionIsHeard
<1>1. HeardInv => QuestionIsHeard
  <2> SUFFICES ASSUME HeardInv, NEW r \in Clients, req[r].turns # <<>>
               PROVE  LET shown == req[r].turns
                          all == Take(messages[req[r].conv], req[r].heard)
                          budget == TokenBudget \div 2
                      IN /\ req[r].heard < ListLimit /\ ~req[r].beside =>
                              Last(shown).role = "user"
                              /\ Last(shown).ask = req[r].ask
                         /\ IsSuffix(shown, all)
                         /\ Fits(shown, budget) \/ Len(shown) = 1
                         /\ Len(shown) < Len(all) =>
                              ~Fits(From(all, Len(all) - Len(shown)), budget)
    BY DEF QuestionIsHeard
  <2> DEFINE said == messages[req[r].conv]
             heard == req[r].heard
             all == Take(said, heard)
             budget == TokenBudget \div 2
  <2>1. /\ said \in Seq(MessageRow) /\ heard \in 1 .. Len(said)
        /\ req[r].turns = Trim(all, budget)
        /\ heard < ListLimit /\ req[r].beside = FALSE => Own(said[heard], r)
    BY DEF HeardInv, Shown
  <2>2. /\ all \in Seq(MessageRow) /\ Len(all) = heard
        /\ all[heard] = said[heard] /\ heard \in Nat \ {0}
    BY <2>1, TakenIsBeginning
  <2> HIDE DEF said, heard, all, budget
  <2>3. PICK k \in 1 .. heard :
          /\ req[r].turns = From(all, k)
          /\ Fits(From(all, k), budget) \/ k = heard
          /\ k > 1 => ~Fits(From(all, k - 1), budget)
    <3>1. all # <<>>
      BY <2>2
    <3> QED
      BY <2>1, <2>2, <3>1, TrimKeepsTheNewest
  <2> DEFINE shown == From(all, k)
  <2>4. /\ shown \in Seq(MessageRow) /\ Len(shown) = heard - k + 1
        /\ \A i \in 1 .. Len(shown) : shown[i] = all[k + i - 1]
    BY <2>2 DEF From
  <2>5. Last(shown) = said[heard]
    BY <2>2, <2>4 DEF Last
  <2>6. IsSuffix(shown, all)
    <3>1. /\ Reverse(shown) \in Seq(MessageRow)
          /\ Reverse(all) \in Seq(MessageRow)
          /\ Len(Reverse(shown)) = Len(shown) /\ Len(Reverse(all)) = heard
          /\ \A i \in 1 .. Len(shown) : Reverse(shown)[i] = Reverse(all)[i]
      BY <2>2, <2>4 DEF Reverse
    <3>2. Len(shown) \in 1 .. heard
      BY <2>2, <2>4
    <3> HIDE DEF shown
    <3>3. SubSeq(Reverse(shown), 1, Len(shown))
            = SubSeq(Reverse(all), 1, Len(shown))
      BY <3>1, <3>2
    <3> QED
      BY <3>1, <3>2, <3>3 DEF IsSuffix, IsPrefix
  <2>7. Fits(shown, budget) \/ Len(shown) = 1
    BY <2>2, <2>3, <2>4
  <2>8. Len(shown) < Len(all) =>
          ~Fits(From(all, Len(all) - Len(shown)), budget)
    <3>1. Len(shown) < Len(all) => k > 1
      BY <2>2, <2>4
    <3>2. Len(all) - Len(shown) = k - 1
      BY <2>2, <2>4
    <3> QED
      BY <2>3, <3>1, <3>2
  <2> HIDE DEF shown
  <2>9. req[r].turns = shown
    BY <2>3 DEF shown
  <2> QED
    BY <2>1, <2>5, <2>6, <2>7, <2>8, <2>9 DEF Own, heard, all, budget, said
<1> QED
  BY <1>1, SpecHeardInv, PTL

-----------------------------------------------------------------------------
(* The assistant: the tokens of a conversation                              *)

\* total[n] is what the first n messages took.
Adds(said, total, k) ==
  /\ total \in [0 .. k -> Nat] /\ total[0] = 0
  /\ \A n \in 1 .. k : total[n] = total[n - 1] + said[n].used

LEMMA Totals ==
  ASSUME NEW said \in Seq(MessageRow)
  PROVE  \E total : Adds(said, total, Len(said))
<1> DEFINE fails == {k \in 0 .. Len(said) : ~\E total : Adds(said, total, k)}
<1>0. Len(said) \in Nat /\ \A n \in 1 .. Len(said) : said[n].used \in Nat
  <2>1. Len(said) \in Nat /\ \A n \in 1 .. Len(said) : said[n] \in MessageRow
    OBVIOUS
  <2> QED
    BY <2>1 DEF MessageRow
<1>1. SUFFICES ASSUME fails # {}
               PROVE  FALSE
  BY <1>0
<1>2. PICK k \in fails : k = Min(fails) /\ \A n \in fails : k <= n
  <2>1. fails \subseteq Nat
    OBVIOUS
  <2> HIDE DEF fails
  <2> QED
    BY <1>1, <2>1, LeastOf
<1>3. k \in 0 .. Len(said) /\ ~\E total : Adds(said, total, k)
  OBVIOUS
<1>4. k # 0
  <2>1. Adds(said, [n \in 0 .. 0 |-> 0], 0)
    BY DEF Adds
  <2> QED
    BY <1>3, <2>1
<1>5. k - 1 \notin fails
  <2>1. ~(k <= k - 1)
    BY <1>3
  <2> HIDE DEF fails
  <2> QED
    BY <1>2, <2>1
<1>6. k - 1 \in 0 .. Len(said) /\ k \in 1 .. Len(said)
  BY <1>0, <1>3, <1>4
<1>7. PICK total : Adds(said, total, k - 1)
  BY <1>5, <1>6
<1> DEFINE longer == [n \in 0 .. k |-> IF n = k THEN total[k - 1] + said[k].used
                                                ELSE total[n]]
<1>8. Adds(said, longer, k)
  <2>1. /\ total \in [0 .. k - 1 -> Nat] /\ total[0] = 0
        /\ \A n \in 1 .. k - 1 : total[n] = total[n - 1] + said[n].used
    BY <1>7 DEF Adds
  <2>2. longer \in [0 .. k -> Nat]
    <3>1. total[k - 1] \in Nat /\ said[k].used \in Nat
      BY <1>0, <1>6, <2>1
    <3>2. \A n \in 0 .. k : n # k => total[n] \in Nat
      BY <1>6, <2>1
    <3> QED
      BY <3>1, <3>2
  <2>3. longer[0] = 0
    BY <1>6, <2>1
  <2>4. ASSUME NEW n \in 1 .. k
        PROVE  longer[n] = longer[n - 1] + said[n].used
    <3>1. n - 1 \in 0 .. k /\ n - 1 # k /\ n \in 0 .. k
      BY <1>6
    <3>2. longer[n - 1] = total[n - 1]
      BY <3>1
    <3>3. CASE n = k
      BY <3>1, <3>2, <3>3
    <3>4. CASE n # k
      <4>1. n \in 1 .. k - 1
        BY <1>6, <3>4
      <4>2. longer[n] = total[n]
        BY <3>1, <3>4
      <4> QED
        BY <2>1, <3>2, <4>1, <4>2
    <3> QED
      BY <3>3, <3>4
  <2> HIDE DEF longer
  <2> QED
    BY <2>2, <2>3, <2>4 DEF Adds
<1> QED
  BY <1>3, <1>8

\* There is one way only to add up.
LEMMA UsedIsTheTotal ==
  ASSUME NEW said \in Seq(MessageRow), NEW total, Adds(said, total, Len(said))
  PROVE  Used(said) = total[Len(said)] /\ Used(said) \in Nat
<1> DEFINE Sums(f) ==
      f = [n \in 0 .. Len(said) |-> IF n = 0 THEN 0 ELSE f[n - 1] + said[n].used]
           sum == CHOOSE f : Sums(f)
<1>0. /\ Len(said) \in Nat /\ total \in [0 .. Len(said) -> Nat] /\ total[0] = 0
      /\ \A n \in 1 .. Len(said) : total[n] = total[n - 1] + said[n].used
  BY DEF Adds
<1>1. Used(said) = sum[Len(said)]
  BY DEF Used
<1>2. Sums(total)
  <2>1. ASSUME NEW n \in 0 .. Len(said)
        PROVE  total[n] = IF n = 0 THEN 0 ELSE total[n - 1] + said[n].used
    BY <1>0
  <2> QED
    BY <1>0, <2>1
<1>3. Sums(sum)
  BY <1>2
<1>4. /\ sum[0] = 0
      /\ \A n \in 1 .. Len(said) : sum[n] = sum[n - 1] + said[n].used
  <2> HIDE DEF sum
  <2>1. sum = [n \in 0 .. Len(said) |->
                 IF n = 0 THEN 0 ELSE sum[n - 1] + said[n].used]
    BY <1>3
  <2>2. \A n \in 0 .. Len(said) :
          sum[n] = IF n = 0 THEN 0 ELSE sum[n - 1] + said[n].used
    BY <2>1
  <2> QED
    BY <1>0, <2>2
<1> DEFINE apart == {n \in 0 .. Len(said) : sum[n] # total[n]}
<1>5. apart = {}
  <2> HIDE DEF sum
  <2>1. SUFFICES ASSUME apart # {}
                 PROVE  FALSE
    OBVIOUS
  <2>2. PICK k \in apart : \A n \in apart : k <= n
    <3>1. apart \subseteq Nat
      BY <1>0
    <3> HIDE DEF apart
    <3> QED
      BY <2>1, <3>1, LeastOf
  <2>3. k \in 1 .. Len(said) /\ sum[k] # total[k]
    BY <1>0, <1>4
  <2>4. k - 1 \in 0 .. Len(said) /\ k - 1 \notin apart
    <3>1. ~(k <= k - 1) /\ k - 1 \in 0 .. Len(said)
      BY <1>0, <2>3
    <3> HIDE DEF apart
    <3> QED
      BY <2>2, <3>1
  <2>5. sum[k - 1] = total[k - 1]
    BY <2>4
  <2> QED
    BY <1>0, <1>4, <2>3, <2>5
<1>6. sum[Len(said)] = total[Len(said)]
  <2>1. Len(said) \in 0 .. Len(said)
    BY <1>0
  <2> HIDE DEF sum
  <2> QED
    BY <1>5, <2>1
<1> QED
  BY <1>0, <1>1, <1>6

LEMMA UsedOfNone == Used(<<>>) = 0
<1>1. Adds(<<>>, [n \in 0 .. 0 |-> 0], 0) /\ Len(<<>>) = 0
  BY DEF Adds
<1>2. <<>> \in Seq(MessageRow)
  OBVIOUS
<1> QED
  BY <1>1, <1>2, UsedIsTheTotal

LEMMA UsedOfOneMore ==
  ASSUME NEW said \in Seq(MessageRow), NEW message \in MessageRow
  PROVE  Used(Append(said, message)) = Used(said) + message.used
<1> DEFINE more == Append(said, message)
           k == Len(said)
<1>1. /\ more \in Seq(MessageRow) /\ Len(more) = k + 1 /\ k \in Nat
      /\ more[k + 1] = message /\ \A n \in 1 .. k : more[n] = said[n]
  OBVIOUS
<1>2. PICK total : Adds(more, total, k + 1)
  BY <1>1, Totals
<1>3. Used(more) = total[k + 1] /\ total[k + 1] = total[k] + message.used
  <2>1. Used(more) = total[k + 1]
    BY <1>1, <1>2, UsedIsTheTotal
  <2>2. k + 1 \in 1 .. k + 1 /\ (k + 1) - 1 = k
    BY <1>1
  <2> QED
    BY <1>1, <1>2, <2>1, <2>2 DEF Adds
<1> DEFINE before == [n \in 0 .. k |-> total[n]]
<1>4. Adds(said, before, k)
  <2>1. /\ total \in [0 .. k + 1 -> Nat] /\ total[0] = 0
        /\ \A n \in 1 .. k + 1 : total[n] = total[n - 1] + more[n].used
    BY <1>2 DEF Adds
  <2>2. before \in [0 .. k -> Nat] /\ before[0] = 0
    BY <1>1, <2>1
  <2>3. ASSUME NEW n \in 1 .. k
        PROVE  before[n] = before[n - 1] + said[n].used
    <3>1. n \in 0 .. k /\ n - 1 \in 0 .. k /\ n \in 1 .. k + 1
      BY <1>1
    <3>2. total[n] = total[n - 1] + more[n].used /\ more[n] = said[n]
      BY <1>1, <2>1, <3>1
    <3> QED
      BY <3>1, <3>2
  <2> HIDE DEF before
  <2> QED
    BY <2>2, <2>3 DEF Adds
<1>5. Used(said) = before[k] /\ before[k] = total[k]
  <2>1. before[k] = total[k]
    BY <1>1
  <2> HIDE DEF before
  <2> QED
    BY <1>4, <2>1, UsedIsTheTotal
<1> QED
  BY <1>3, <1>5

\* The total is that of the messages, and whoever is about to write the sum has
\* read it, unless two are about to.
BudgetInv ==
  /\ tokens = [c \in Conversations |-> tokens[c]]
  /\ BudgetSeesAnswers
  /\ \A r \in Clients : req[r].at = "appending" =>
       \/ req[r].conv \in clashed
       \/ /\ req[r].seen = tokens[req[r].conv]
          /\ \A q \in Clients \ {r} :
               ~(req[q].at = "appending" /\ req[q].conv = req[r].conv)

LEMMA AppendBudget ==
  ASSUME AssistantConstants, HeardInv, Requested, BudgetInv, NEW r \in Clients,
         AppendQuestion(r) \/ Apologise(r) \/ AppendAnswer(r)
  PROVE  BudgetInv'
<1> DEFINE c == req[r].conv
<1>0. /\ Held(r) /\ Paying(r) /\ req[r].ask \in Nat /\ clashed' = clashed
      /\ req[r].at \in {"asking", "sorry", "appending"}
      /\ messages \in [Conversations -> Seq(MessageRow)]
      /\ tokens = [d \in Conversations |-> tokens[d]]
  BY DEF Requested, HeardInv, BudgetInv, AppendQuestion, Apologise,
         AppendAnswer, At
<1>1. c \in Conversations /\ req[r].used \in Nat
  BY <1>0 DEF Paying, Held, Counts
<1>2. PICK message \in MessageRow :
        /\ \E after : AppendMessage(r, message, after)
        /\ req'[r].at # "appending"
        /\ \/ message.used = 0 /\ tokens' = tokens
           \/ /\ req[r].at = "appending"
              /\ tokens' = [tokens EXCEPT ![c] = req[r].seen + message.used]
  <2>1. CASE AppendQuestion(r)
    <3>1. PICK size \in Sizes :
            AppendMessage(r, Message("user", r, size, 0),
              [req[r] EXCEPT !.at = IF req[r].degraded THEN "sorry"
                                                       ELSE "listing"])
      BY <2>1 DEF AppendQuestion
    <3>2. /\ Message("user", r, size, 0) \in MessageRow
          /\ Message("user", r, size, 0).used = 0
      BY <1>0 DEF Message, MessageRow, AssistantConstants
    <3>3. req'[r].at # "appending"
      BY <1>0, <3>1, AppendMoves DEF Held
    <3>4. tokens' = tokens
      BY <2>1 DEF AppendQuestion
    <3> QED
      BY <3>1, <3>2, <3>3, <3>4
  <2>2. CASE Apologise(r)
    <3>1. AppendMessage(r, Message("assistant", r, 1, 0), NoRequest)
          /\ tokens' = tokens
      BY <2>2 DEF Apologise
    <3>2. /\ Message("assistant", r, 1, 0) \in MessageRow
          /\ Message("assistant", r, 1, 0).used = 0
      BY <1>0 DEF Message, MessageRow
    <3>3. req'[r].at # "appending"
      BY <3>1, AppendMoves DEF NoRequest
    <3> QED
      BY <3>1, <3>2, <3>3
  <2>3. CASE AppendAnswer(r)
    <3> DEFINE answer == Message("assistant", r, 1, req[r].used)
    <3>1. /\ AppendMessage(r, answer, [req[r] EXCEPT !.at = "recording"])
          /\ tokens' = [tokens EXCEPT ![c] = req[r].seen + req[r].used]
          /\ req[r].at = "appending"
      BY <2>3 DEF AppendAnswer, At
    <3>2. answer \in MessageRow /\ answer.used = req[r].used
      BY <1>0, <1>1 DEF Message, MessageRow
    <3> HIDE DEF answer
    <3>3. req'[r].at # "appending"
      BY <1>0, <3>1, AppendMoves DEF Held
    <3> QED
      BY <3>1, <3>2, <3>3
  <2> QED
    BY <2>1, <2>2, <2>3
<1>3. messages' = [messages EXCEPT ![c] = Append(@, message)]
  BY <1>2 DEF AppendMessage
<1>4. /\ message.used \in Nat /\ Used(messages[c]) \in Nat
      /\ Used(messages'[c]) = Used(messages[c]) + message.used
  <2>1. messages[c] \in Seq(MessageRow) /\ message.used \in Nat
    BY <1>0, <1>1 DEF MessageRow
  <2>2. messages'[c] = Append(messages[c], message)
    BY <1>0, <1>1, <1>3
  <2>3. Used(messages[c]) \in Nat
    BY <2>1, Totals, UsedIsTheTotal
  <2> QED
    BY <2>1, <2>2, <2>3, UsedOfOneMore
<1>5. /\ \A q \in Clients \ {r} : Stays(q)
  BY <1>2, AppendMoves
<1>6. ASSUME req[r].at = "appending", c \notin clashed
      PROVE  /\ req[r].seen = tokens[c] /\ tokens[c] = Used(messages[c])
             /\ \A q \in Clients \ {r} :
                  ~(req[q].at = "appending" /\ req[q].conv = c)
  BY <1>1, <1>6 DEF BudgetInv, BudgetSeesAnswers
<1>7. tokens' = [d \in Conversations |-> tokens'[d]]
  BY <1>0, <1>2
<1>8. ASSUME NEW d \in Conversations \ clashed
      PROVE  tokens'[d] = Used(messages'[d])
  <2>1. tokens[d] = Used(messages[d])
    BY DEF BudgetInv, BudgetSeesAnswers
  <2>2. CASE d # c
    <3>1. messages'[d] = messages[d] /\ tokens'[d] = tokens[d]
      BY <1>0, <1>2, <1>3, <2>2
    <3> QED
      BY <2>1, <3>1
  <2>3. CASE d = c
    <3>1. CASE message.used = 0 /\ tokens' = tokens
      BY <1>4, <2>1, <2>3, <3>1
    <3>2. CASE /\ req[r].at = "appending"
               /\ tokens' = [tokens EXCEPT ![c] = req[r].seen + message.used]
      <4>1. tokens'[c] = req[r].seen + message.used
        BY <1>0, <1>1, <3>2
      <4> QED
        BY <1>4, <1>6, <2>3, <3>2, <4>1
    <3> QED
      BY <1>2, <3>1, <3>2
  <2> QED
    BY <2>2, <2>3
<1>9. ASSUME NEW p \in Clients, req'[p].at = "appending",
             req'[p].conv \notin clashed
      PROVE  /\ req'[p].seen = tokens'[req'[p].conv]
             /\ \A q \in Clients \ {p} :
                  ~(req'[q].at = "appending" /\ req'[q].conv = req'[p].conv)
  <2>1. p # r /\ Stays(p)
    BY <1>2, <1>5, <1>9
  <2>2. /\ req[p].at = "appending" /\ req[p].conv \notin clashed
        /\ req'[p].conv = req[p].conv /\ req'[p].seen = req[p].seen
    BY <1>9, <2>1 DEF Stays
  <2>3. /\ req[p].seen = tokens[req[p].conv]
        /\ \A q \in Clients \ {p} :
             ~(req[q].at = "appending" /\ req[q].conv = req[p].conv)
    BY <2>2 DEF BudgetInv
  <2>4. req[p].conv \in Conversations
    BY <2>2 DEF Requested, Paying
  <2>5. tokens'[req[p].conv] = tokens[req[p].conv]
    <3>1. req[r].at = "appending" => req[p].conv # c
      BY <2>1, <2>3
    <3> QED
      BY <1>0, <1>2, <2>4, <3>1
  <2>6. ASSUME NEW q \in Clients \ {p}
        PROVE  ~(req'[q].at = "appending" /\ req'[q].conv = req[p].conv)
    <3>1. CASE q = r
      BY <1>2, <3>1
    <3>2. CASE q # r
      BY <1>5, <2>3, <3>2 DEF Stays
    <3> QED
      BY <3>1, <3>2
  <2> QED
    BY <2>2, <2>3, <2>5, <2>6
<1> QED
  BY <1>0, <1>7, <1>8, <1>9 DEF BudgetInv, BudgetSeesAnswers

\* What is read is the total, and company is noted.
LEMMA ReadBudget ==
  ASSUME Requested, BudgetInv, NEW r \in Clients, ReadTokens(r)
  PROVE  BudgetInv'
<1> DEFINE c == req[r].conv
<1>1. /\ req[r].at = "answering" /\ Held(r)
      /\ messages' = messages /\ tokens' = tokens
      /\ req' = [req EXCEPT ![r].at = "appending", ![r].seen = tokens[c]]
      /\ clashed' = IF \E q \in Clients \ {r} : req[q].at = "appending"
                                                  /\ req[q].conv = c
                    THEN clashed \union {c} ELSE clashed
  BY DEF ReadTokens, At, Requested
<1>2. /\ req'[r].at = "appending" /\ req'[r].seen = tokens[c]
      /\ req'[r].conv = c
      /\ \A q \in Clients \ {r} : req'[q] = req[q]
  BY <1>1 DEF Requested, Held
<1>3. BudgetSeesAnswers'
  BY <1>1 DEF BudgetInv, BudgetSeesAnswers
<1>4. tokens' = [d \in Conversations |-> tokens'[d]]
  BY <1>1 DEF BudgetInv
<1>5. ASSUME NEW p \in Clients, req'[p].at = "appending",
             req'[p].conv \notin clashed'
      PROVE  /\ req'[p].seen = tokens'[req'[p].conv]
             /\ \A q \in Clients \ {p} :
                  ~(req'[q].at = "appending" /\ req'[q].conv = req'[p].conv)
  <2>1. req'[p].conv \notin clashed
    BY <1>1, <1>5
  <2>2. CASE p = r
    <3>1. \A q \in Clients \ {r} : ~(req[q].at = "appending" /\ req[q].conv = c)
      BY <1>1, <1>2, <1>5, <2>2
    <3> QED
      BY <1>1, <1>2, <2>2, <3>1
  <2>3. CASE p # r
    <3>1. req'[p] = req[p]
      BY <1>2, <2>3
    <3>2. req[p].conv # c
      BY <1>1, <1>5, <2>3, <3>1
    <3>3. /\ req[p].seen = tokens[req[p].conv]
          /\ \A q \in Clients \ {p} :
               ~(req[q].at = "appending" /\ req[q].conv = req[p].conv)
      BY <1>5, <2>1, <3>1 DEF BudgetInv
    <3>4. ASSUME NEW q \in Clients \ {p}
          PROVE  ~(req'[q].at = "appending" /\ req'[q].conv = req[p].conv)
      BY <1>2, <3>2, <3>3
    <3> QED
      BY <1>1, <3>1, <3>3, <3>4
  <2> QED
    BY <2>2, <2>3
<1> QED
  BY <1>3, <1>4, <1>5 DEF BudgetInv

LEMMA BudgetKept ==
  ASSUME AssistantConstants, HeardInv, Requested, BudgetInv,
         [AssistantNext]_assistantVars
  PROVE  BudgetInv'
<1>1. ASSUME NEW r \in Clients,
             AppendQuestion(r) \/ Apologise(r) \/ AppendAnswer(r)
      PROVE  BudgetInv'
  BY <1>1, AppendBudget
<1>2. ASSUME NEW r \in Clients, ReadTokens(r)
      PROVE  BudgetInv'
  BY <1>2, ReadBudget
<1>3. ASSUME UNCHANGED <<messages, tokens, clashed>>,
             \A r \in Clients : Stays(r) \/ req'[r].at # "appending"
      PROVE  BudgetInv'
  <2>1. BudgetSeesAnswers' /\ tokens' = [c \in Conversations |-> tokens'[c]]
    BY <1>3 DEF BudgetInv, BudgetSeesAnswers
  <2>2. ASSUME NEW p \in Clients, req'[p].at = "appending",
               req'[p].conv \notin clashed'
        PROVE  /\ req'[p].seen = tokens'[req'[p].conv]
               /\ \A q \in Clients \ {p} :
                    ~(req'[q].at = "appending" /\ req'[q].conv = req'[p].conv)
    BY <1>3, <2>2 DEF BudgetInv, Stays
  <2> QED
    BY <2>1, <2>2 DEF BudgetInv
<1>4. ASSUME NEW r \in Clients, Acts(r), ~AppendQuestion(r), ~Apologise(r),
             ~AppendAnswer(r), ~ReadTokens(r)
      PROVE  BudgetInv'
  <2>1. UNCHANGED <<messages, tokens, clashed>>
    BY <1>4 DEF Acts, Ask, AskReport, CheckQuota, CheckConversation,
       ListMessages, UseTools, Conclude, Completes, ProviderFails, RecordUsage,
       RecordFails, talk
  <2>2. \A q \in Clients \ {r} : Stays(q)
    BY <1>4, OthersStay
  <2>3. req'[r].at # "appending"
    <3>1. Held(r) /\ NoRequest.at = "idle"
      BY DEF Requested, NoRequest
    <3>2. CASE Ask(r) \/ AskReport(r)
      BY <3>2 DEF Ask, AskReport, Requested, NoRequest
    <3>3. CASE CheckQuota(r) \/ CheckConversation(r)
      <4>1. \/ req'[r] = NoRequest
            \/ \E there \in {"guards", "calling"} :
                 req'[r] = [req[r] EXCEPT !.at = there]
            \/ \E none \in BOOLEAN :
                 req'[r] = [req[r] EXCEPT !.at = "asking", !.degraded = none]
        BY <3>3 DEF CheckQuota, Proceeds, CheckConversation, Ends, Goes, Requested
      <4> QED
        BY <3>1, <4>1 DEF Held
    <3>4. CASE ListMessages(r) \/ UseTools(r) \/ Conclude(r)
      <4>1. CASE ListMessages(r)
        BY <3>1, <4>1 DEF ListMessages, Requested, Held
      <4>2. CASE UseTools(r)
        BY <3>1, <4>2, UseToolsMoves DEF UseTools, Completes, Held, At
      <4>3. CASE Conclude(r)
        BY <3>1, <4>3, ConcludeMoves DEF Held
      <4> QED
        BY <3>4, <4>1, <4>2, <4>3
    <3>5. CASE ProviderFails(r) \/ RecordUsage(r) \/ RecordFails(r)
      BY <3>1, <3>5 DEF ProviderFails, RecordUsage, RecordFails, Ends, Goes,
                        Requested, Held
    <3> QED
      BY <1>4, <3>2, <3>3, <3>4, <3>5 DEF Acts
  <2> QED
    BY <1>3, <2>1, <2>2, <2>3
<1>5. CASE Die
  <2>1. \A r \in Clients : req'[r].at # "appending"
    BY <1>5 DEF Die, NoRequest
  <2> QED
    BY <1>3, <1>5, <2>1 DEF Die, talk
<1>6. CASE HourPasses \/ UNCHANGED assistantVars
  <2>1. UNCHANGED <<messages, tokens, clashed, req>>
    BY <1>6 DEF HourPasses, assistantVars, talk
  <2> QED
    BY <1>3, <2>1 DEF Stays
<1> QED
  BY <1>1, <1>2, <1>4, <1>5, <1>6 DEF AssistantNext, Acts

\* The total a conversation's budget is compared with is that of its answers,
\* however many requests write to it, unless two of its answers were appended
\* at once (append_message of db.py).
THEOREM BudgetsSeeAnswers ==
  ASSUME AssistantConstants
  PROVE  AssistantSpec => []BudgetSeesAnswers
<1>1. AssistantInit => BudgetInv
  <2> SUFFICES ASSUME AssistantInit
               PROVE  BudgetInv
    OBVIOUS
  <2>1. \A c \in Conversations : tokens[c] = 0 /\ messages[c] = <<>>
    BY DEF AssistantInit
  <2>2. \A r \in Clients : req[r].at # "appending"
    BY DEF AssistantInit, NoRequest
  <2>3. tokens = [c \in Conversations |-> tokens[c]]
    BY DEF AssistantInit
  <2> QED
    BY <2>1, <2>2, <2>3, UsedOfNone DEF BudgetInv, BudgetSeesAnswers
<1>2. /\ AssistantInv /\ HeardInv /\ BudgetInv /\ [AssistantNext]_assistantVars
      => BudgetInv'
  BY BudgetKept DEF AssistantInv
<1>3. BudgetInv => BudgetSeesAnswers
  BY DEF BudgetInv
<1> QED
  BY <1>1, <1>2, <1>3, SpecAssistantInv, SpecHeardInv, PTL DEF AssistantSpec

-----------------------------------------------------------------------------
(* Training: whether it fails, and what is said of the first version        *)

\* An order as the training needs it; the retrain's repeats the metadata.
Sized(o) ==
  /\ o \in [problem : Problems, mode : {o.mode}, pick : {o.pick},
            budget : {o.budget}, smote : {o.smote}, calibrate : {o.calibrate},
            rows : Nat, ends : Seq(Nat)]
  /\ o.rows >= 3
  /\ o.problem = "classification" =>
       o.ends # <<>> /\ \A j \in DOMAIN o.ends : ClassSizes(o)[j] > 0
  /\ \E asked \in Orders : asked.problem = o.problem /\ asked.rows = o.rows

OrderInv == stage \notin {"idle", "served"} => Sized(order)

\* While no learner raised, a candidate is skipped only if it could be fitted on
\* no fold; a training fails if there is no candidate, or all were skipped.
FailInv ==
  /\ stage = "failed" => Candidates(order) = <<>> \/ failed # {}
  /\ ~raised /\ failed # {} /\ stage \in {"tune", "fold", "fit", "failed"} =>
       SoundFolds(order, Folds(order)) = 0

\* A second model is trained only by a retrain.
ClaimInv ==
  /\ retrains \in Nat
  /\ meta # NoRun /\ stage # "served" => retrains >= 1
  /\ ConfidenceFitsTheFirst

LEMMA BeginsSized ==
  ASSUME TrainingConstants, Upload \/ Retrain
  PROVE  Sized(order)' /\ \E o : Begin(o)
<1>1. CASE Upload
  <2>1. PICK o \in Orders : Begin(o)
    BY <1>1 DEF Upload
  <2>2. order' = o
    BY <2>1 DEF Begin
  <2>3. /\ o \in [problem : Problems, mode : {"auto", "ensemble", "manual"},
                  pick : STRING \union {Nothing}, budget : Nat, smote : BOOLEAN,
                  calibrate : BOOLEAN, rows : Nat, ends : Seq(Nat)]
        /\ o.rows >= 3
        /\ o.problem = "classification" =>
             o.ends # <<>> /\ \A j \in DOMAIN o.ends : ClassSizes(o)[j] > 0
    BY DEF TrainingConstants
  <2>4. Sized(o)
    <3>1. o \in [problem : Problems, mode : {o.mode}, pick : {o.pick},
                 budget : {o.budget}, smote : {o.smote},
                 calibrate : {o.calibrate}, rows : Nat, ends : Seq(Nat)]
      BY <2>3
    <3> QED
      BY <2>3, <3>1 DEF Sized
  <2> QED
    BY <2>1, <2>2, <2>4
<1>2. CASE Retrain
  <2>1. PICK o \in Orders :
          Begin([o EXCEPT !.mode = meta.mode, !.budget = meta.budget,
                          !.smote = meta.smote, !.pick = meta.pick])
    BY <1>2 DEF Retrain
  <2>2. order' = [o EXCEPT !.mode = meta.mode, !.budget = meta.budget,
                           !.smote = meta.smote, !.pick = meta.pick]
    BY <2>1 DEF Begin
  <2>3. /\ o \in [problem : Problems, mode : {"auto", "ensemble", "manual"},
                  pick : STRING \union {Nothing}, budget : Nat, smote : BOOLEAN,
                  calibrate : BOOLEAN, rows : Nat, ends : Seq(Nat)]
        /\ o.rows >= 3
        /\ o.problem = "classification" =>
             o.ends # <<>> /\ \A j \in DOMAIN o.ends : ClassSizes(o)[j] > 0
    BY DEF TrainingConstants
  <2>4. /\ order' \in [problem : Problems, mode : {order'.mode},
                       pick : {order'.pick}, budget : {order'.budget},
                       smote : {order'.smote}, calibrate : {order'.calibrate},
                       rows : Nat, ends : Seq(Nat)]
        /\ order'.problem = o.problem /\ order'.rows = o.rows
        /\ order'.ends = o.ends
    <3>1. /\ o.problem \in Problems /\ o.rows \in Nat /\ o.ends \in Seq(Nat)
          /\ DOMAIN o = {"problem", "mode", "pick", "budget", "smote",
                         "calibrate", "rows", "ends"}
          /\ o = [problem |-> o.problem, mode |-> o.mode, pick |-> o.pick,
                  budget |-> o.budget, smote |-> o.smote,
                  calibrate |-> o.calibrate, rows |-> o.rows, ends |-> o.ends]
      BY <2>3
    <3>2. order' = [problem |-> o.problem, mode |-> meta.mode,
                    pick |-> meta.pick, budget |-> meta.budget,
                    smote |-> meta.smote, calibrate |-> o.calibrate,
                    rows |-> o.rows, ends |-> o.ends]
      BY <2>2, <3>1
    <3> QED
      BY <3>1, <3>2
  <2>6. ClassSizes(order') = ClassSizes(o)
    BY <2>4 DEF ClassSizes, Starts
  <2>7. order'.problem = "classification" =>
          order'.ends # <<>> /\ \A j \in DOMAIN order'.ends :
                                  ClassSizes(order')[j] > 0
    BY <2>3, <2>4, <2>6
  <2>5. Sized(order)'
    BY <2>3, <2>4, <2>7 DEF Sized
  <2> QED
    BY <2>1, <2>5
<1> QED
  BY <1>1, <1>2

\* The order stands until the next training, and the candidate steps lead to one
\* another or to the choice.
LEMMA Course ==
  ASSUME [TrainingNext]_trainingVars, ~Upload, ~Retrain,
         ~Calibrate, ~Compare
  PROVE  \/ order' = order /\ stage' \notin {"idle", "served"}
         \/ UNCHANGED trainingVars
<1>1. CASE Tune \/ CrossValidate
  BY <1>1 DEF Tune, CrossValidate
<1>2. CASE FitAndScore \/ Skip
  BY <1>2 DEF FitAndScore, Skip, Advance
<1>3. CASE Select
  BY <1>3 DEF Select
<1>4. CASE NoVote \/ FitEnsemble \/ ScoreEnsemble \/ EnsembleFails
  BY <1>4 DEF NoVote, FitEnsemble, ScoreEnsemble, EnsembleFails, Settle
<1> QED
  BY <1>1, <1>2, <1>3, <1>4 DEF TrainingNext

LEMMA OrderKept ==
  ASSUME TrainingConstants, OrderInv, [TrainingNext]_trainingVars
  PROVE  OrderInv'
<1>1. CASE Upload \/ Retrain
  BY <1>1, BeginsSized DEF OrderInv
<1>2. CASE Calibrate \/ Compare
  <2>1. stage' = "served"
    BY <1>2 DEF Calibrate, Compare, Register, Return
  <2> QED
    BY <2>1 DEF OrderInv
<1>3. CASE ~Upload /\ ~Retrain /\ ~Calibrate /\ ~Compare
  <2>1. CASE UNCHANGED trainingVars
    BY <2>1 DEF trainingVars, OrderInv, Sized
  <2>2. CASE ~UNCHANGED trainingVars
    <3>1. order' = order
      BY <1>3, <2>2, Course
    <3>2. stage \notin {"idle", "served"}
      BY <1>3, <2>2 DEF TrainingNext, Tune, CrossValidate, FitAndScore, Skip,
                        Select, NoVote, FitEnsemble, ScoreEnsemble,
                        EnsembleFails
    <3> QED
      BY <3>1, <3>2 DEF OrderInv, Sized
  <2> QED
    BY <2>1, <2>2
<1> QED
  BY <1>1, <1>2, <1>3

LEMMA FailKept ==
  ASSUME FailInv, [TrainingNext]_trainingVars
  PROVE  FailInv'
<1>1. CASE Upload \/ Retrain
  <2>1. PICK o : Begin(o)
    BY <1>1 DEF Upload, Retrain
  <2>2. /\ order' = o /\ failed' = {}
        /\ stage' = IF Candidates(o) = <<>> THEN "failed" ELSE "tune"
    BY <2>1 DEF Begin, Blank
  <2>3. stage' = "failed" => Candidates(order') = <<>>
    BY <2>2
  <2> QED
    BY <2>2, <2>3 DEF FailInv
<1>2. CASE Calibrate \/ Compare \/ Select \/ NoVote \/ FitEnsemble
             \/ ScoreEnsemble \/ EnsembleFails
  <2>1. stage' \in {"served", "vote", "voted", "chosen"}
    BY <1>2 DEF Calibrate, Compare, Register, Return, Select, NoVote,
                FitEnsemble, ScoreEnsemble, EnsembleFails, Settle
  <2> QED
    BY <2>1 DEF FailInv
<1>3. CASE Tune \/ CrossValidate
  <2>1. /\ stage \in {"tune", "fold"} /\ stage' \in {"fold", "fit"}
        /\ UNCHANGED <<order, failed, raised>>
    BY <1>3 DEF Tune, CrossValidate
  <2> QED
    BY <2>1 DEF FailInv
<1>4. CASE FitAndScore
  <2>1. /\ stage = "fit" /\ stage' \in {"tune", "select"}
        /\ UNCHANGED <<order, failed, raised>>
    BY <1>4 DEF FitAndScore, Advance
  <2> QED
    BY <2>1 DEF FailInv
<1>5. CASE Skip
  <2>1. /\ stage \in {"tune", "fold", "fit"} /\ order' = order
        /\ failed' = failed \union {Head(left)}
        /\ \/ SoundFolds(order, Folds(order)) = 0 /\ raised' = raised
           \/ raised' = TRUE
    BY <1>5 DEF Skip
  <2>2. failed' # {}
    BY <2>1
  <2>3. ~raised' => SoundFolds(order, Folds(order)) = 0
    BY <2>1
  <2>4. (SoundFolds(order, Folds(order)) = 0)'
          <=> SoundFolds(order, Folds(order)) = 0
    BY <2>1
  <2> QED
    BY <2>2, <2>3, <2>4 DEF FailInv
<1>6. CASE UNCHANGED trainingVars
  BY <1>6 DEF trainingVars, FailInv
<1> QED
  BY <1>1, <1>2, <1>3, <1>4, <1>5, <1>6 DEF TrainingNext

\* A set with fewer than two members, or than three.
LEMMA FewerThanTwo ==
  ASSUME NEW S, IsFiniteSet(S), Cardinality(S) < 2,
         NEW a \in S, NEW b \in S
  PROVE  a = b
<1>1. ASSUME a # b
      PROVE  FALSE
  <2>1. IsFiniteSet({a}) /\ Cardinality({a}) = 1
    BY FS_Singleton
  <2>2. Cardinality({a} \union {b}) = Cardinality({a}) + 1
    BY <1>1, <2>1, FS_AddElement
  <2>3. {a} \union {b} \in SUBSET S
    OBVIOUS
  <2>4. Cardinality({a} \union {b}) <= Cardinality(S)
    BY <2>3, FS_Subset
  <2>5. Cardinality(S) \in Nat
    BY FS_CardinalityType
  <2> QED
    BY <2>1, <2>2, <2>4, <2>5
<1> QED
  BY <1>1

LEMMA FewerThanThree ==
  ASSUME NEW S, IsFiniteSet(S), Cardinality(S) < 3
  PROVE  \E a, b : \A c \in S : c = a \/ c = b
<1>1. CASE S = {}
  BY <1>1
<1>2. CASE S # {}
  <2>1. PICK a \in S : TRUE
    BY <1>2
  <2>2. IsFiniteSet(S \ {a}) /\ Cardinality(S \ {a}) = Cardinality(S) - 1
    BY <2>1, FS_RemoveElement
  <2>3. Cardinality(S) \in Nat
    BY FS_CardinalityType
  <2>4. Cardinality(S \ {a}) < 2
    BY <2>2, <2>3
  <2>5. \A b, c \in S \ {a} : c = b
    BY <2>2, <2>4, FewerThanTwo
  <2>6. CASE \E b \in S : b # a
    BY <2>5, <2>6
  <2>7. CASE ~\E b \in S : b # a
    BY <2>7
  <2> QED
    BY <2>6, <2>7
<1> QED
  BY <1>1, <1>2

\* What is left of a class of n rows, from the s-th on, without a fold of five,
\* or of three.
LEMMA PartsOfFive ==
  ASSUME NEW s \in Nat, NEW n \in Nat, n >= 6, NEW i \in 0 .. 4,
         NEW part, part = n - (Dealt(s + n, 5, i) - Dealt(s, 5, i))
  PROVE  /\ part \in Int
         /\ n = 6 => part = 5 \/ i = s % 5
         /\ n = 7 => part > 5 \/ i = s % 5 \/ i = (s + 1) % 5
         /\ n > 7 => part > 5
<1> DEFINE q == s \div 5
           r == s % 5
<1>1. q \in Nat /\ r \in 0 .. 4 /\ s = 5 * q + r
  OBVIOUS
<1> HIDE DEF q
<1>2. (s + 1) % 5 = IF r = 4 THEN 0 ELSE r + 1
  BY <1>1
<1>3. Dealt(s, 5, i) = q + (IF i < r THEN 1 ELSE 0)
  BY <1>1 DEF Dealt
<1>4. Dealt(s + n, 5, i) \in Int /\ 5 * Dealt(s + n, 5, i) <= s + n + 4 - i
      /\ s + n + 4 - i < 5 * Dealt(s + n, 5, i) + 5
  BY DEF Dealt
<1> QED
  BY <1>1, <1>2, <1>3, <1>4

LEMMA PartsOfThree ==
  ASSUME NEW s \in Nat, NEW n \in Nat, n >= 8, NEW i \in 0 .. 2,
         NEW part, part = n - (Dealt(s + n, 3, i) - Dealt(s, 3, i))
  PROVE  /\ part \in Int
         /\ n = 8 => part > 5 \/ i = s % 3 \/ i = (s + 1) % 3
         /\ n > 8 => part > 5
<1> DEFINE q == s \div 3
           r == s % 3
<1>1. q \in Nat /\ r \in 0 .. 2 /\ s = 3 * q + r
  OBVIOUS
<1> HIDE DEF q
<1>2. (s + 1) % 3 = IF r = 2 THEN 0 ELSE r + 1
  BY <1>1
<1>3. Dealt(s, 3, i) = q + (IF i < r THEN 1 ELSE 0)
  BY <1>1 DEF Dealt
<1>4. Dealt(s + n, 3, i) \in Int /\ 3 * Dealt(s + n, 3, i) <= s + n + 2 - i
      /\ s + n + 2 - i < 3 * Dealt(s + n, 3, i) + 3
  BY DEF Dealt
<1> QED
  BY <1>1, <1>2, <1>3, <1>4

\* An order to which SMOTE is applied.
LEMMA SmotedSizes ==
  ASSUME NEW o, Sized(o), Smotes(o)
  PROVE  /\ Folds(o) \in {3, 5} /\ Neighbours(o) = 5
         /\ Smallest(o) \in Nat /\ Smallest(o) >= 6
         /\ o.ends \in Seq(Nat)
         /\ \A j \in DOMAIN o.ends :
              /\ Starts(o, j) \in Nat
              /\ ClassSizes(o)[j] \in Nat /\ ClassSizes(o)[j] >= Smallest(o)
              /\ o.ends[j] = Starts(o, j) + ClassSizes(o)[j]
<1>1. /\ o.problem = "classification" /\ o.ends \in Seq(Nat) /\ o.ends # <<>>
      /\ \A j \in DOMAIN o.ends : ClassSizes(o)[j] > 0
      /\ o.rows \in Nat /\ o.rows >= 3 /\ Smallest(o) >= 6
  BY DEF Sized, Smotes, CanUseSmote
<1>2. ASSUME NEW j \in DOMAIN o.ends
      PROVE  /\ Starts(o, j) \in Nat /\ ClassSizes(o)[j] \in Nat
             /\ o.ends[j] = Starts(o, j) + ClassSizes(o)[j]
  <2>1. o.ends[j] \in Nat /\ j \in Nat /\ j >= 1 /\ j <= Len(o.ends)
    BY <1>1
  <2>2. j # 1 => j - 1 \in DOMAIN o.ends
    BY <1>1, <2>1
  <2>3. Starts(o, j) \in Nat
    BY <1>1, <2>2 DEF Starts
  <2>4. ClassSizes(o)[j] = o.ends[j] - Starts(o, j)
    BY DEF ClassSizes
  <2>5. ClassSizes(o)[j] > 0
    BY <1>1
  <2> QED
    BY <2>1, <2>3, <2>4, <2>5
<1>3. /\ Range(ClassSizes(o)) \subseteq Nat /\ Range(ClassSizes(o)) # {}
      /\ \A j \in DOMAIN o.ends : ClassSizes(o)[j] \in Range(ClassSizes(o))
  <2>1. DOMAIN ClassSizes(o) = DOMAIN o.ends
    BY DEF ClassSizes
  <2>2. 1 \in DOMAIN o.ends
    BY <1>1
  <2> QED
    BY <1>2, <2>1, <2>2 DEF Range
<1>4. /\ Smallest(o) \in Nat
      /\ \A j \in DOMAIN o.ends : ClassSizes(o)[j] >= Smallest(o)
  BY <1>2, <1>3, LeastOf DEF Smallest
<1>5. Development(o) \in Nat
  BY <1>1 DEF Development, Holdout
<1>6. Folds(o) \in {3, 5}
  BY <1>1, <1>4, <1>5 DEF Folds, Least
<1>7. Neighbours(o) = 5
  BY <1>1, <1>4 DEF Neighbours, Least
<1> QED
  BY <1>1, <1>2, <1>4, <1>6, <1>7

\* Three folds are left a sound one by a class of eight, and by larger ones.
LEMMA SoundOfThree ==
  ASSUME NEW o, Sized(o), Smotes(o), Smallest(o) > 7, ClassesOf(o, 8) < 2
  PROVE  \E i \in 0 .. 2 : Sound(o, 3, i)
<1> DEFINE eights == {j \in DOMAIN o.ends : ClassSizes(o)[j] = 8}
<1>1. IsFiniteSet(eights)
  <2>1. DOMAIN o.ends = 1 .. Len(o.ends) /\ Len(o.ends) \in Nat
    BY SmotedSizes
  <2>2. IsFiniteSet(DOMAIN o.ends)
    BY <2>1, FS_Interval
  <2> QED
    BY <2>2, FS_Subset
<1>2. \A j, l \in eights : j = l
  BY <1>1, FewerThanTwo DEF ClassesOf
<1>3. PICK x \in Nat : \A j \in eights : Starts(o, j) = x
  BY <1>2, SmotedSizes
<1>4. PICK i \in 0 .. 2 : i # x % 3 /\ i # (x + 1) % 3
  OBVIOUS
<1>5. ASSUME NEW j \in DOMAIN o.ends
      PROVE  Part(o, 3, i)[j] > 5
  <2>1. /\ Starts(o, j) \in Nat /\ ClassSizes(o)[j] \in Nat
        /\ ClassSizes(o)[j] >= 8
        /\ o.ends[j] = Starts(o, j) + ClassSizes(o)[j]
    BY SmotedSizes
  <2>2. Part(o, 3, i)[j] = ClassSizes(o)[j]
          - (Dealt(Starts(o, j) + ClassSizes(o)[j], 3, i)
               - Dealt(Starts(o, j), 3, i))
    BY <2>1 DEF Part
  <2>3. ClassSizes(o)[j] = 8 => Starts(o, j) = x
    BY <1>3
  <2> DEFINE start == Starts(o, j)
             size == ClassSizes(o)[j]
             part == Part(o, 3, i)[j]
  <2> HIDE DEF start, size, part
  <2>4. /\ part \in Int
        /\ size = 8 => part > 5 \/ i = start % 3 \/ i = (start + 1) % 3
        /\ size > 8 => part > 5
    BY <2>1, <2>2, PartsOfThree DEF start, size, part
  <2>5. size = 8 => part > 5
    BY <1>4, <2>3, <2>4 DEF start, size
  <2> QED
    BY <2>1, <2>4, <2>5 DEF size, part
<1>6. Neighbours(o) = 5
  BY SmotedSizes
<1> QED
  BY <1>5, <1>6 DEF Sound

\* Of five folds, four choices leave one.
LEMMA OneOfFive ==
  ASSUME NEW a, NEW b, NEW c, NEW d
  PROVE  \E i \in 0 .. 4 : i # a /\ i # b /\ i # c /\ i # d
<1>1. CASE 0 \notin {a, b, c, d}
  BY <1>1
<1>2. CASE 1 \notin {a, b, c, d}
  BY <1>2
<1>3. CASE 2 \notin {a, b, c, d}
  BY <1>3
<1>4. CASE 3 \notin {a, b, c, d}
  BY <1>4
<1>5. CASE 4 \notin {a, b, c, d}
  BY <1>5
<1> QED
  BY <1>1, <1>2, <1>3, <1>4, <1>5

\* Five folds are left one by two classes of seven, and by larger ones ...
LEMMA SoundOfFive ==
  ASSUME NEW o, Sized(o), Smotes(o), Smallest(o) > 6, ClassesOf(o, 7) < 3
  PROVE  \E i \in 0 .. 4 : Sound(o, 5, i)
<1> DEFINE sevens == {j \in DOMAIN o.ends : ClassSizes(o)[j] = 7}
<1>1. IsFiniteSet(sevens)
  <2>1. DOMAIN o.ends = 1 .. Len(o.ends) /\ Len(o.ends) \in Nat
    BY SmotedSizes
  <2>2. IsFiniteSet(DOMAIN o.ends)
    BY <2>1, FS_Interval
  <2> QED
    BY <2>2, FS_Subset
<1>2. PICK a, b : \A j \in sevens : j = a \/ j = b
  BY <1>1, FewerThanThree DEF ClassesOf
<1>3. PICK x \in Nat, y \in Nat :
        \A j \in sevens : Starts(o, j) = x \/ Starts(o, j) = y
  <2> DEFINE start(j) == IF j \in sevens THEN Starts(o, j) ELSE 0
  <2>1. start(a) \in Nat /\ start(b) \in Nat
    BY SmotedSizes
  <2>2. \A j \in sevens : Starts(o, j) = start(a) \/ Starts(o, j) = start(b)
    BY <1>2
  <2> QED
    BY <2>1, <2>2
<1>4. PICK i \in 0 .. 4 : /\ i # x % 5 /\ i # (x + 1) % 5
                          /\ i # y % 5 /\ i # (y + 1) % 5
  BY OneOfFive
<1>5. ASSUME NEW j \in DOMAIN o.ends
      PROVE  Part(o, 5, i)[j] > 5
  <2>1. /\ Starts(o, j) \in Nat /\ ClassSizes(o)[j] \in Nat
        /\ ClassSizes(o)[j] >= 7
        /\ o.ends[j] = Starts(o, j) + ClassSizes(o)[j]
    BY SmotedSizes
  <2>2. Part(o, 5, i)[j] = ClassSizes(o)[j]
          - (Dealt(Starts(o, j) + ClassSizes(o)[j], 5, i)
               - Dealt(Starts(o, j), 5, i))
    BY <2>1 DEF Part
  <2>3. ClassSizes(o)[j] = 7 => Starts(o, j) = x \/ Starts(o, j) = y
    BY <1>3
  <2> DEFINE start == Starts(o, j)
             size == ClassSizes(o)[j]
             part == Part(o, 5, i)[j]
  <2> HIDE DEF start, size, part
  <2>6. /\ start \in Nat /\ size \in Nat /\ size >= 6
        /\ part = size - (Dealt(start + size, 5, i) - Dealt(start, 5, i))
    BY <2>1, <2>2 DEF start, size, part
  <2>4. /\ size = 7 => part > 5 \/ i = start % 5 \/ i = (start + 1) % 5
        /\ size > 7 => part > 5
    BY <2>6, PartsOfFive
  <2>5. size = 7 => part > 5
    BY <1>4, <2>3, <2>4 DEF start, size
  <2> QED
    BY <2>1, <2>4, <2>5 DEF size, part
<1>6. Neighbours(o) = 5
  BY SmotedSizes
<1> QED
  BY <1>5, <1>6 DEF Sound

\* ... and by up to four classes of six that are all there is: in one fold none
\* of them is smaller than another.
LEMMA SoundOfEqual ==
  ASSUME NEW o, Sized(o), Smotes(o), Smallest(o) = 6, Len(o.ends) < 5,
         ~(ClassesOf(o, 6) < Len(o.ends))
  PROVE  \E i \in 0 .. 4 : Sound(o, 5, i)
<1> DEFINE sixes == {j \in DOMAIN o.ends : ClassSizes(o)[j] = 6}
<1>1. DOMAIN o.ends = 1 .. Len(o.ends) /\ Len(o.ends) \in Nat
  BY SmotedSizes
<1>2. IsFiniteSet(DOMAIN o.ends) /\ Cardinality(DOMAIN o.ends) = Len(o.ends)
  <2>1. 1 \in Int /\ Len(o.ends) \in Int
    BY <1>1
  <2>2. /\ IsFiniteSet(1 .. Len(o.ends))
        /\ Cardinality(1 .. Len(o.ends))
             = IF 1 > Len(o.ends) THEN 0 ELSE Len(o.ends) - 1 + 1
    BY <2>1, FS_Interval
  <2> QED
    BY <1>1, <2>2
<1>3. sixes = DOMAIN o.ends
  <2>1. sixes \in SUBSET DOMAIN o.ends
    OBVIOUS
  <2>2. IsFiniteSet(sixes) /\ Cardinality(sixes) <= Cardinality(DOMAIN o.ends)
    BY <1>2, <2>1, FS_Subset
  <2>3. Cardinality(sixes) \in Nat
    BY <2>2, FS_CardinalityType
  <2>4. Cardinality(sixes) = Cardinality(DOMAIN o.ends)
    BY <1>1, <1>2, <2>2, <2>3 DEF ClassesOf
  <2> HIDE DEF sixes
  <2> QED
    BY <1>2, <2>1, <2>4, FS_Subset
<1> DEFINE share(j) == IF j \in DOMAIN o.ends THEN Starts(o, j) % 5 ELSE 0
<1>4. PICK i \in 0 .. 4 : /\ i # share(1) /\ i # share(2)
                          /\ i # share(3) /\ i # share(4)
  BY OneOfFive
<1>5. ASSUME NEW j \in DOMAIN o.ends
      PROVE  Part(o, 5, i)[j] = 5
  <2>1. /\ Starts(o, j) \in Nat /\ ClassSizes(o)[j] = 6
        /\ o.ends[j] = Starts(o, j) + 6
    BY <1>3, SmotedSizes
  <2>2. Part(o, 5, i)[j]
          = 6 - (Dealt(Starts(o, j) + 6, 5, i) - Dealt(Starts(o, j), 5, i))
    BY <2>1 DEF Part
  <2>3. i # Starts(o, j) % 5
    <3>1. j \in {1, 2, 3, 4}
      BY <1>1
    <3> QED
      BY <1>4, <3>1
  <2> DEFINE start == Starts(o, j)
             size == ClassSizes(o)[j]
             part == Part(o, 5, i)[j]
  <2> HIDE DEF start, size, part
  <2>5. /\ start \in Nat /\ size \in Nat /\ size >= 6 /\ size = 6
        /\ part = size - (Dealt(start + size, 5, i) - Dealt(start, 5, i))
    BY <2>1, <2>2 DEF start, size, part
  <2>4. part = 5 \/ i = start % 5
    BY <2>5, PartsOfFive
  <2> QED
    BY <2>3, <2>4 DEF start, part
<1>6. Sound(o, 5, i)
  BY <1>5 DEF Sound
<1> QED
  BY <1>6

\* No fold is sound only where a small class, or several, spoil all of them.
LEMMA NoSoundFold ==
  ASSUME NEW o, Sized(o), SoundFolds(o, Folds(o)) = 0
  PROVE  /\ Smotes(o)
         /\ IF Folds(o) = 3
            THEN Smallest(o) \in 6 .. 7 \/ ClassesOf(o, 8) >= 2
            ELSE \/ /\ Smallest(o) = 6
                    /\ ClassesOf(o, 6) < Len(o.ends) \/ Len(o.ends) >= 5
                 \/ ClassesOf(o, 7) >= 3
<1>1. Smotes(o)
  <2>1. Folds(o) # 0
    <3>1. o.rows \in Nat /\ o.rows >= 3
      BY DEF Sized
    <3>2. Development(o) \in Nat /\ Development(o) >= 2
      BY <3>1 DEF Development, Holdout
    <3>3. CASE o.problem = "classification" /\ Smallest(o) >= 2
      BY <3>3 DEF Folds, Least
    <3>4. CASE ~(o.problem = "classification" /\ Smallest(o) >= 2)
      BY <3>2, <3>4 DEF Folds, Least
    <3> QED
      BY <3>3, <3>4
  <2> QED
    BY <2>1 DEF SoundFolds
<1>2. /\ Folds(o) \in {3, 5} /\ Smallest(o) \in Nat /\ Smallest(o) >= 6
      /\ Len(o.ends) \in Nat
  BY <1>1, SmotedSizes
<1>3. \A i \in 0 .. Folds(o) - 1 : ~Sound(o, Folds(o), i)
  <2> DEFINE sound == {i \in 0 .. Folds(o) - 1 : Sound(o, Folds(o), i)}
  <2>0. 0 \in Int /\ Folds(o) - 1 \in Int
    BY <1>2
  <2>1. IsFiniteSet(0 .. Folds(o) - 1)
    BY <2>0, FS_Interval
  <2>2. IsFiniteSet(sound)
    BY <2>1, FS_Subset
  <2>3. Cardinality(sound) = 0
    BY <1>1 DEF SoundFolds
  <2> HIDE DEF sound
  <2>4. sound = {}
    BY <2>2, <2>3, FS_EmptySet
  <2> QED
    BY <2>4 DEF sound
<1>4. ClassesOf(o, 7) \in Nat /\ ClassesOf(o, 8) \in Nat
  <2>0. /\ 1 \in Int /\ Len(o.ends) \in Int
        /\ DOMAIN o.ends = 1 .. Len(o.ends)
    BY <1>1, <1>2, SmotedSizes
  <2>1. IsFiniteSet(DOMAIN o.ends)
    BY <2>0, FS_Interval
  <2>2. \A n : IsFiniteSet({j \in DOMAIN o.ends : ClassSizes(o)[j] = n})
    BY <2>1, FS_Subset
  <2> QED
    BY <2>2, FS_CardinalityType DEF ClassesOf
<1>5. CASE Folds(o) = 3
  <2>1. ~\E i \in 0 .. 2 : Sound(o, 3, i)
    BY <1>3, <1>5
  <2> QED
    BY <1>1, <1>2, <1>4, <1>5, <2>1, SoundOfThree
<1>6. CASE Folds(o) = 5
  <2>1. ~\E i \in 0 .. 4 : Sound(o, 5, i)
    BY <1>3, <1>6
  <2> QED
    BY <1>1, <1>2, <1>4, <1>6, <2>1, SoundOfFive, SoundOfEqual
<1> QED
  BY <1>2, <1>5, <1>6

\* The methods that could be tried leave a least error, if they leave any.
LEMMA CalibrationReports ==
  ASSUME TrainingConstants, NEW before \in Errors,
         NEW report \in Calibrated(before)
  PROVE  \/ report = Kept(before)
         \/ \E after \in Errors : report = Outcome(before, after)
<1>1. PICK e \in {[m \in Methods |-> IF CanCalibrate THEN f[m] ELSE Nothing] :
                    f \in [Methods -> Errors \union {Nothing}]} :
        report = LET had == Range(e) \ {Nothing}
                 IN IF had = {} THEN Kept(before)
                    ELSE Outcome(before,
                                 CHOOSE x \in had : \A y \in had : x <= y)
  BY DEF Calibrated
<1> DEFINE had == Range(e) \ {Nothing}
<1>2. report = IF had = {} THEN Kept(before)
               ELSE Outcome(before, CHOOSE x \in had : \A y \in had : x <= y)
  BY <1>1
<1>3. e \in [Methods -> Errors \union {Nothing}]
  <2>1. PICK f \in [Methods -> Errors \union {Nothing}] :
          e = [m \in Methods |-> IF CanCalibrate THEN f[m] ELSE Nothing]
    BY <1>1
  <2> QED
    BY <2>1
<1>4. had \subseteq Errors /\ Errors \subseteq Nat
  BY <1>3 DEF Range, TrainingConstants
<1>5. \E a, b \in Range(e) : Range(e) = {a, b}
  <2>1. Methods = {"sigmoid"} \/ Methods = {"isotonic", "sigmoid"}
    BY DEF Methods
  <2>2. CASE Methods = {"sigmoid"}
    <3>1. Range(e) = {e["sigmoid"], e["sigmoid"]}
      BY <1>3, <2>2 DEF Range
    <3> QED
      BY <3>1
  <2>3. CASE Methods = {"isotonic", "sigmoid"}
    <3>1. Range(e) = {e["isotonic"], e["sigmoid"]}
      BY <1>3, <2>3 DEF Range
    <3> QED
      BY <3>1
  <2> QED
    BY <2>1, <2>2, <2>3
<1>6. had # {} => \E x \in had : \A y \in had : x <= y
  <2>1. PICK a, b \in Range(e) : Range(e) = {a, b}
    BY <1>5
  <2>2. \A x, y \in had : x \in Nat /\ y \in Nat
    BY <1>4
  <2>3. CASE a \in had /\ b \in had
    BY <2>1, <2>2, <2>3
  <2>4. CASE a \notin had \/ b \notin had
    BY <2>1, <2>2, <2>4
  <2> QED
    BY <2>3, <2>4
<1>7. CASE had = {}
  BY <1>2, <1>7
<1>8. CASE had # {}
  <2>1. (CHOOSE x \in had : \A y \in had : x <= y) \in had
    BY <1>6, <1>8
  <2> QED
    BY <1>2, <1>4, <1>8, <2>1
<1> QED
  BY <1>7, <1>8

\* What the first version is registered with, and what is said of it.
LEMMA RegistersTheTruth ==
  ASSUME TrainingConstants, Calibrate
  PROVE  ConfidenceFitsTheFirst'
<1>1. Errors \subseteq Nat /\ Nothing \notin Nat
  BY DEF TrainingConstants
<1>2. ASSUME NEW report, Register(report)
      PROVE  /\ meta'.before = report.before /\ meta'.after = report.after
             /\ meta'.applied = report.applied
             /\ meta'.verdict = report.verdict
             /\ served'.calibrated = report.applied
             /\ served'.error = IF report.applied THEN report.after
                                ELSE report.before
  BY <1>2 DEF Register
<1>3. CASE Register(Unmeasured)
  <2>1. /\ meta'.before = Nothing /\ meta'.after = Nothing
        /\ meta'.applied = FALSE /\ meta'.verdict = "unmeasured"
        /\ served'.calibrated = FALSE /\ served'.error = Nothing
    BY <1>2, <1>3 DEF Unmeasured, Report
  <2> QED
    BY <2>1 DEF ConfidenceFitsTheFirst, ConfidenceIsCalibrated, QuotedError
<1>4. ASSUME NEW before \in Errors, Register(Kept(before))
      PROVE  ConfidenceFitsTheFirst'
  <2>1. /\ meta'.before = before /\ meta'.after = Nothing
        /\ meta'.applied = FALSE
        /\ meta'.verdict \in {"unmeasured", Verdict(before)}
        /\ served'.calibrated = FALSE /\ served'.error = before
    BY <1>2, <1>4 DEF Kept, Report
  <2> QED
    BY <2>1 DEF ConfidenceFitsTheFirst, ConfidenceIsCalibrated, QuotedError
<1>5. ASSUME NEW before \in Errors, NEW after \in Errors,
             Register(Outcome(before, after))
      PROVE  ConfidenceFitsTheFirst'
  <2>1. before \in Nat /\ after \in Nat /\ after # Nothing
    BY <1>1
  <2>2. CASE before - after >= 2
    <3>1. /\ meta'.before = before /\ meta'.after = after
          /\ meta'.applied = TRUE /\ meta'.verdict = Verdict(after)
          /\ served'.calibrated = TRUE /\ served'.error = after
      BY <1>2, <1>5, <2>2 DEF Outcome, Report
    <3> QED
      BY <2>1, <2>2, <3>1
         DEF ConfidenceFitsTheFirst, ConfidenceIsCalibrated, QuotedError
  <2>3. CASE ~(before - after >= 2)
    <3>1. /\ meta'.before = before /\ meta'.after = after
          /\ meta'.applied = FALSE /\ meta'.verdict = Verdict(before)
          /\ served'.calibrated = FALSE /\ served'.error = before
      BY <1>2, <1>5, <2>3 DEF Outcome, Report
    <3>2. after > before - 2
      BY <2>1, <2>3
    <3> QED
      BY <3>1, <3>2
         DEF ConfidenceFitsTheFirst, ConfidenceIsCalibrated, QuotedError
  <2> QED
    BY <2>2, <2>3
<1> QED
  BY <1>3, <1>4, <1>5, CalibrationReports DEF Calibrate

LEMMA ClaimKept ==
  ASSUME TrainingConstants, ClaimInv, [TrainingNext]_trainingVars
  PROVE  ClaimInv'
<1>1. CASE Upload
  <2>1. UNCHANGED <<meta, served, retrains>> /\ stage = "idle"
    BY <1>1 DEF Upload, versions
  <2> QED
    BY <2>1 DEF ClaimInv, ConfidenceFitsTheFirst, ConfidenceIsCalibrated,
                QuotedError
<1>2. CASE Retrain
  <2>1. UNCHANGED <<meta, served>> /\ retrains' = retrains + 1
    BY <1>2 DEF Retrain
  <2>2. retrains' \in Nat /\ retrains' >= 1
    BY <2>1 DEF ClaimInv
  <2> QED
    BY <2>1, <2>2 DEF ClaimInv, ConfidenceFitsTheFirst, ConfidenceIsCalibrated,
                      QuotedError
<1>3. CASE Calibrate
  <2>1. stage' = "served" /\ retrains' = retrains
    BY <1>3 DEF Calibrate, Register, Return
  <2> QED
    BY <1>3, <2>1, RegistersTheTruth DEF ClaimInv
<1>4. CASE Compare
  <2>1. stage' = "served" /\ UNCHANGED <<meta, retrains>>
    BY <1>4 DEF Compare, Return
  <2>2. CASE served' = served
    BY <2>1, <2>2 DEF ClaimInv, ConfidenceFitsTheFirst, ConfidenceIsCalibrated,
                      QuotedError
  <2>3. CASE served' # served
    <3>1. served'.version = retrains + 1
      BY <1>4, <2>3 DEF Compare
    <3>2. retrains \in Nat /\ retrains >= 1
      BY <1>4 DEF Compare, ClaimInv
    <3>3. served'.version # 1
      BY <3>1, <3>2
    <3> QED
      BY <2>1, <3>3 DEF ClaimInv, ConfidenceFitsTheFirst
  <2> QED
    BY <2>2, <2>3
<1>5. CASE Tune \/ CrossValidate \/ FitAndScore \/ Skip
  <2>1. UNCHANGED <<meta, served, retrains>> /\ stage # "served"
    BY <1>5 DEF Tune, CrossValidate, FitAndScore, Skip, versions
  <2> QED
    BY <2>1 DEF ClaimInv, ConfidenceFitsTheFirst, ConfidenceIsCalibrated,
                QuotedError
<1>6. CASE Select \/ NoVote \/ FitEnsemble \/ ScoreEnsemble \/ EnsembleFails
  <2>1. UNCHANGED <<meta, served, retrains>> /\ stage # "served"
    BY <1>6 DEF Select, NoVote, FitEnsemble, ScoreEnsemble, EnsembleFails,
                versions
  <2> QED
    BY <2>1 DEF ClaimInv, ConfidenceFitsTheFirst, ConfidenceIsCalibrated,
                QuotedError
<1>7. CASE UNCHANGED trainingVars
  BY <1>7 DEF trainingVars, versions, ClaimInv, ConfidenceFitsTheFirst,
              ConfidenceIsCalibrated, QuotedError
<1> QED
  BY <1>1, <1>2, <1>3, <1>4, <1>5, <1>6, <1>7 DEF TrainingNext

TrainingInv == OrderInv /\ FailInv /\ ClaimInv

LEMMA SpecTrainingInv ==
  ASSUME TrainingConstants
  PROVE  TrainingSpec => []TrainingInv
<1>1. TrainingInit => TrainingInv
  <2> SUFFICES ASSUME TrainingInit
               PROVE  TrainingInv
    OBVIOUS
  <2>1. OrderInv /\ FailInv
    BY DEF TrainingInit, OrderInv, FailInv
  <2>2. ClaimInv
    BY DEF TrainingInit, ClaimInv, NoRun, NoModel, ConfidenceFitsTheFirst
  <2> QED
    BY <2>1, <2>2 DEF TrainingInv
<1>2. TrainingInv /\ [TrainingNext]_trainingVars => TrainingInv'
  BY OrderKept, FailKept, ClaimKept DEF TrainingInv
<1> QED
  BY <1>1, <1>2, PTL DEF TrainingSpec

\* Where no learner raises by itself, a training with a candidate fails only for
\* a class of six, or of seven in three folds, that SMOTE was let loose on
\* (can_use_smote, build_cv, build_pipeline).
THEOREM TrainingsFailAtTheBoundary ==
  ASSUME TrainingConstants
  PROVE  TrainingSpec => []FailsOnlyAtTheBoundary
<1>1. TrainingInv => FailsOnlyAtTheBoundary
  <2> SUFFICES ASSUME TrainingInv, stage = "failed", ~raised,
                      Candidates(order) # <<>>
               PROVE  /\ Smotes(order)
                      /\ IF Folds(order) = 3
                         THEN Smallest(order) \in 6..7 \/ ClassesOf(order, 8) >= 2
                         ELSE \/ /\ Smallest(order) = 6
                                 /\ ClassesOf(order, 6) < Len(order.ends)
                                      \/ Len(order.ends) >= 5
                              \/ ClassesOf(order, 7) >= 3
    BY DEF FailsOnlyAtTheBoundary
  <2>1. Sized(order)
    BY DEF TrainingInv, OrderInv
  <2>2. SoundFolds(order, Folds(order)) = 0
    BY DEF TrainingInv, FailInv
  <2> QED
    BY <2>1, <2>2, NoSoundFold
<1> QED
  BY <1>1, SpecTrainingInv, PTL

\* What is said of the confidence of the version an upload registered is true
\* of it, but for the error of a calibration that was refused (calibrate of
\* ml/calibration.py, _build_response of routes/predict.py).
THEOREM FirstClaimsAreTrue ==
  ASSUME TrainingConstants
  PROVE  TrainingSpec => []ConfidenceFitsTheFirst
<1>1. TrainingInv => ConfidenceFitsTheFirst
  BY DEF TrainingInv, ClaimInv
<1> QED
  BY <1>1, SpecTrainingInv, PTL

-----------------------------------------------------------------------------
(* Training: what is selected was earned                                    *)

Trying == {"tune", "fold", "fit"}
Summary == [mean : Means, std : Spreads]
Singles == trained \ {"Ensemble"}

\* Every candidate is in one of three places, and in one only.
CandidatesKept ==
  /\ trained \intersect failed = {}
  /\ (trained \union failed) \intersect Range(left) = {}
  /\ "Ensemble" \notin Range(left)
  /\ ((trained \union failed) \ {"Ensemble"}) \union Range(left)
       = Range(Candidates(order))
  /\ stage # "chosen" => "Ensemble" \notin trained \union failed
  /\ stage \in Trying =>
       left \in Seq(STRING \ {"Ensemble"}) /\ left # <<>> /\ IsInjective(left)
  /\ stage \notin Trying => Range(left) = {}

\* What was fitted has a summary, and the other way round.
SummariesKept ==
  /\ DOMAIN cv \ {"Ensemble"} = Singles
  /\ "Ensemble" \in DOMAIN cv => stage \in {"voted", "chosen"}
  /\ \A l \in Singles : cv[l] \in Summary
  /\ stage = "fit" => drawn \in Summary

\* The best is best, and the vote is of those that beat the baseline.
ChoiceKept ==
  /\ stage \in {"vote", "voted", "chosen"} =>
       /\ best \in Singles
       /\ \A l \in Singles \ {best} : ~Ahead(cv[l], cv[best])
  /\ stage = "voted" => members = Voters /\ Cardinality(members) >= 2
  /\ members # {} => stage \in {"voted", "chosen"}
  /\ Cardinality(members) # 1
  /\ \A l \in members : l \in Singles /\ Beats(cv[l].mean, baseline)
  /\ stage = "chosen" => selected \in {best, "Ensemble"} \intersect trained

SelectionInv ==
  stage \notin {"idle", "served", "failed"} =>
    CandidatesKept /\ SummariesKept /\ ChoiceKept

LEMMA TailOnce ==
  ASSUME NEW S, NEW s \in Seq(S), s # <<>>, IsInjective(s)
  PROVE  /\ Tail(s) \in Seq(S) /\ IsInjective(Tail(s))
         /\ Head(s) \in Range(s) /\ Head(s) \in S
         /\ Range(Tail(s)) = Range(s) \ {Head(s)}
         /\ ~(Len(s) > 1) => Range(Tail(s)) = {}
         /\ Len(s) > 1 => Tail(s) # <<>>
<1>1. /\ Len(s) \in Nat /\ Len(s) >= 1 /\ DOMAIN s = 1 .. Len(s)
      /\ Head(s) = s[1] /\ 1 \in DOMAIN s
  OBVIOUS
<1>2. /\ Tail(s) \in Seq(S) /\ Len(Tail(s)) = Len(s) - 1
      /\ DOMAIN Tail(s) = 1 .. Len(s) - 1
      /\ \A i \in 1 .. Len(s) - 1 : Tail(s)[i] = s[i + 1]
  BY <1>1
<1>3. IsInjective(Tail(s))
  <2> SUFFICES ASSUME NEW i \in 1 .. Len(s) - 1, NEW j \in 1 .. Len(s) - 1,
                      s[i + 1] = s[j + 1]
               PROVE  i = j
    BY <1>2 DEF IsInjective
  <2>1. i + 1 \in DOMAIN s /\ j + 1 \in DOMAIN s
    BY <1>1
  <2>2. i + 1 = j + 1
    BY <2>1 DEF IsInjective
  <2> QED
    BY <1>1, <2>2
<1>4. Head(s) \in Range(s) /\ Head(s) \in S
  BY <1>1 DEF Range
<1>5. ASSUME NEW x \in Range(Tail(s))
      PROVE  x \in Range(s) \ {Head(s)}
  <2>1. PICK i \in 1 .. Len(s) - 1 : x = s[i + 1]
    BY <1>2 DEF Range
  <2>2. i + 1 \in DOMAIN s /\ i + 1 # 1
    BY <1>1
  <2> QED
    BY <1>1, <2>1, <2>2 DEF Range, IsInjective
<1>6. ASSUME NEW x \in Range(s) \ {Head(s)}
      PROVE  x \in Range(Tail(s))
  <2>1. PICK i \in 1 .. Len(s) : x = s[i]
    BY <1>1 DEF Range
  <2>2. i - 1 \in 1 .. Len(s) - 1
    BY <1>1, <2>1
  <2>3. Tail(s)[i - 1] = s[i]
    BY <1>1, <1>2, <2>2
  <2> QED
    BY <1>2, <2>1, <2>2, <2>3 DEF Range
<1>7. ~(Len(s) > 1) => Range(Tail(s)) = {}
  BY <1>1, <1>2 DEF Range
<1>8. Len(s) > 1 => Tail(s) # <<>>
  <2>1. Len(s) > 1 => Len(Tail(s)) # 0
    BY <1>1, <1>2
  <2>2. Len(<<>>) = 0
    OBVIOUS
  <2> QED
    BY <2>1, <2>2
<1> QED
  BY <1>2, <1>3, <1>4, <1>5, <1>6, <1>7, <1>8

\* A training begins with each of its candidates once.
LEMMA CandidatesOnce ==
  ASSUME TrainingConstants, TriedOnce, NEW o, Sized(o)
  PROVE  Candidates(o) \in Seq(STRING \ {"Ensemble"})
           /\ IsInjective(Candidates(o))
<1>1. PICK asked \in Orders : asked.problem = o.problem /\ asked.rows = o.rows
  BY DEF Sized
<1>2. /\ Pruned(o.problem, o.rows) \in Seq(STRING \ {"Ensemble"})
      /\ IsInjective(Pruned(o.problem, o.rows))
  BY <1>1 DEF TriedOnce
<1>3. o.problem \in Problems
  BY DEF Sized
<1>4. /\ Registry[o.problem] \in Seq(STRING \ {"Ensemble"})
      /\ IsInjective(Registry[o.problem])
  BY <1>3 DEF TrainingConstants
<1>5. CASE o.mode # "manual"
  BY <1>2, <1>5 DEF Candidates
<1>6. CASE o.mode = "manual" /\ o.pick = Nothing
  BY <1>4, <1>6 DEF Candidates
<1>7. CASE o.mode = "manual" /\ o.pick # Nothing
  <2>1. CASE o.pick \in Range(Registry[o.problem])
    <3>1. o.pick \in STRING \ {"Ensemble"}
      BY <1>4, <2>1 DEF Range
    <3>2. Candidates(o) = <<o.pick>>
      BY <1>7, <2>1 DEF Candidates
    <3> QED
      BY <3>1, <3>2 DEF IsInjective
  <2>2. CASE o.pick \notin Range(Registry[o.problem])
    <3>1. Candidates(o) = <<>>
      BY <1>7, <2>2 DEF Candidates
    <3> QED
      BY <3>1 DEF IsInjective
  <2> QED
    BY <2>1, <2>2
<1> QED
  BY <1>5, <1>6, <1>7

LEMMA BeginSelection ==
  ASSUME TrainingConstants, TriedOnce, Upload \/ Retrain
  PROVE  SelectionInv'
<1>1. Sized(order)'
  BY BeginsSized
<1>2. PICK o : Begin(o)
  BY BeginsSized
<1>3. /\ order' = o /\ left' = Candidates(o)
      /\ stage' = IF Candidates(o) = <<>> THEN "failed" ELSE "tune"
      /\ trained' = {} /\ failed' = {} /\ cv' = <<>> /\ members' = {}
  BY <1>2 DEF Begin, Blank
<1>4. Sized(o)
  BY <1>1, <1>3
<1>5. Candidates(o) \in Seq(STRING \ {"Ensemble"}) /\ IsInjective(Candidates(o))
  BY <1>4, CandidatesOnce
<1>6. "Ensemble" \notin Range(Candidates(o))
  BY <1>5 DEF Range
<1>7. SUFFICES ASSUME stage' # "failed"
               PROVE  CandidatesKept' /\ SummariesKept' /\ ChoiceKept'
  BY DEF SelectionInv
<1>8. stage' = "tune" /\ Candidates(o) # <<>>
  BY <1>3, <1>7
<1>9. CandidatesKept'
  BY <1>3, <1>5, <1>6, <1>8 DEF CandidatesKept, Trying
<1>10. SummariesKept'
  BY <1>3, <1>8 DEF SummariesKept, Singles
<1>11. ChoiceKept'
  BY <1>3, <1>8, FS_EmptySet DEF ChoiceKept
<1> QED
  BY <1>9, <1>10, <1>11

\* What a candidate's turn ends with, whether it was fitted or skipped.
LEMMA AdvanceSelection ==
  ASSUME TrainingConstants, CandidatesKept, SummariesKept, ChoiceKept,
         FitAndScore \/ Skip
  PROVE  SelectionInv'
<1> DEFINE h == Head(left)
<1>1. /\ stage \in Trying /\ left' = Tail(left) /\ members' = members
      /\ order' = order
      /\ stage' = IF Len(left) > 1 THEN "tune"
                  ELSE IF trained' = {} THEN "failed" ELSE "select"
  BY DEF FitAndScore, Skip, Advance, Trying, choice
<1>2. left \in Seq(STRING \ {"Ensemble"}) /\ left # <<>> /\ IsInjective(left)
  BY <1>1 DEF CandidatesKept
<1>3. /\ Tail(left) \in Seq(STRING \ {"Ensemble"}) /\ IsInjective(Tail(left))
      /\ h \in Range(left) /\ h \in STRING \ {"Ensemble"}
      /\ Range(Tail(left)) = Range(left) \ {h}
      /\ ~(Len(left) > 1) => Range(Tail(left)) = {}
      /\ Len(left) > 1 => Tail(left) # <<>>
  BY <1>2, TailOnce
<1>4. /\ h \notin trained \union failed /\ h # "Ensemble"
      /\ \/ trained' = trained \union {h} /\ failed' = failed
         \/ trained' = trained /\ failed' = failed \union {h}
  BY <1>1, <1>3 DEF CandidatesKept, FitAndScore, Skip
<1>5. stage' \in {"tune", "failed", "select"}
  BY <1>1
<1>6. Candidates(order)' = Candidates(order)
  BY <1>1
<1>7. CandidatesKept'
  <2>1. Range(left') = Range(left) \ {h}
    BY <1>1, <1>3
  <2>2. trained' \union failed' = (trained \union failed) \union {h}
    BY <1>4
  <2>3. /\ trained \intersect failed = {}
        /\ (trained \union failed) \intersect Range(left) = {}
        /\ "Ensemble" \notin Range(left)
        /\ ((trained \union failed) \ {"Ensemble"}) \union Range(left)
             = Range(Candidates(order))
        /\ "Ensemble" \notin trained \union failed
    BY <1>1 DEF CandidatesKept, Trying
  <2>4. trained' \intersect failed' = {}
    BY <1>4, <2>3
  <2>5. /\ (trained' \union failed') \intersect Range(left') = {}
        /\ "Ensemble" \notin Range(left')
        /\ "Ensemble" \notin trained' \union failed'
    BY <1>4, <2>1, <2>2, <2>3
  <2>6. ((trained' \union failed') \ {"Ensemble"}) \union Range(left')
          = Range(Candidates(order))
    BY <1>3, <1>4, <2>1, <2>2, <2>3
  <2>7. stage' \in Trying =>
          /\ left' \in Seq(STRING \ {"Ensemble"}) /\ left' # <<>>
          /\ IsInjective(left')
    BY <1>1, <1>3 DEF Trying
  <2>8. stage' \notin Trying => Range(left') = {}
    BY <1>1, <1>3 DEF Trying
  <2> QED
    BY <1>6, <2>4, <2>5, <2>6, <2>7, <2>8 DEF CandidatesKept
<1>8. SummariesKept'
  <2>1. DOMAIN cv = trained /\ "Ensemble" \notin trained
    BY <1>1 DEF SummariesKept, CandidatesKept, Singles, Trying
  <2>2. CASE FitAndScore
    <3>1. cv' = [l \in DOMAIN cv \union {h} |-> IF l = h THEN drawn ELSE cv[l]]
          /\ trained' = trained \union {h} /\ drawn \in Summary
      BY <2>2 DEF FitAndScore, Keep, SummariesKept
    <3>2. DOMAIN cv' = trained' /\ "Ensemble" \notin trained'
      BY <1>4, <2>1, <3>1
    <3>3. \A l \in trained' : cv'[l] \in Summary
      BY <2>1, <3>1 DEF SummariesKept, Singles
    <3> QED
      BY <1>5, <3>2, <3>3 DEF SummariesKept, Singles, Summary
  <2>3. CASE Skip
    <3>1. cv' = cv /\ trained' = trained
      BY <2>3 DEF Skip
    <3> QED
      BY <1>5, <2>1, <3>1 DEF SummariesKept, Singles, Summary
  <2> QED
    BY <2>2, <2>3
<1>9. ChoiceKept'
  BY <1>1, <1>5, FS_EmptySet DEF ChoiceKept, Trying
<1> QED
  BY <1>7, <1>8, <1>9 DEF SelectionInv

LEMMA TrySelection ==
  ASSUME TrainingConstants, CandidatesKept, SummariesKept, ChoiceKept,
         Tune \/ CrossValidate
  PROVE  SelectionInv'
<1>1. /\ stage \in Trying /\ stage' \in Trying /\ order' = order
      /\ UNCHANGED <<left, cv, trained, failed, members>>
      /\ stage' = "fit" => drawn' \in Summary
  BY DEF Tune, CrossValidate, Trying, scores, choice, Summary
<1>2. CandidatesKept'
  BY <1>1 DEF CandidatesKept, Trying
<1>3. SummariesKept'
  BY <1>1 DEF SummariesKept, Singles, Trying, Summary
<1>4. ChoiceKept'
  BY <1>1, FS_EmptySet DEF ChoiceKept, Trying
<1> QED
  BY <1>2, <1>3, <1>4 DEF SelectionInv

\* What the steps of the choice leave alone.
LEMMA AccountsStand ==
  ASSUME CandidatesKept, SummariesKept,
         stage \notin Trying, stage' \notin Trying,
         order' = order, left' = left,
         trained' \ {"Ensemble"} = trained \ {"Ensemble"},
         failed' \ {"Ensemble"} = failed \ {"Ensemble"},
         trained' \intersect failed' = {},
         stage' # "chosen" => "Ensemble" \notin trained' \union failed',
         DOMAIN cv' \ {"Ensemble"} = DOMAIN cv \ {"Ensemble"},
         "Ensemble" \in DOMAIN cv' => stage' \in {"voted", "chosen"},
         \A l \in Singles : cv'[l] = cv[l]
  PROVE  CandidatesKept' /\ SummariesKept' /\ Singles' = Singles
<1>1. Singles' = Singles
  BY DEF Singles
<1>2. Range(left) = {} /\ Range(left') = {}
  BY DEF CandidatesKept
<1>3. ((trained' \union failed') \ {"Ensemble"}) \union Range(left')
        = ((trained \union failed) \ {"Ensemble"}) \union Range(left)
  OBVIOUS
<1>4. CandidatesKept'
  BY <1>2, <1>3 DEF CandidatesKept
<1>5. SummariesKept'
  BY <1>1 DEF SummariesKept, Trying, Summary
<1> QED
  BY <1>1, <1>4, <1>5

LEMMA ChooseSelection ==
  ASSUME TrainingConstants, CandidatesKept, SummariesKept, ChoiceKept,
         Select \/ NoVote \/ FitEnsemble \/ ScoreEnsemble \/ EnsembleFails
  PROVE  SelectionInv'
<1>1. CASE Select
  <2>1. /\ stage = "select" /\ order' = order
        /\ UNCHANGED <<left, cv, trained, failed, members, baseline>>
        /\ stage' \in {"vote", "chosen"} /\ selected' = best'
        /\ best' \in DOMAIN cv
        /\ \A other \in DOMAIN cv \ {best'} : ~Ahead(cv[other], cv[best'])
    BY <1>1 DEF Select, search, scores
  <2>2. /\ members = {} /\ DOMAIN cv = Singles
        /\ "Ensemble" \notin trained \union failed
    BY <2>1 DEF ChoiceKept, SummariesKept, CandidatesKept
  <2>3. /\ CandidatesKept' /\ SummariesKept' /\ Singles' = Singles
    BY <2>1, <2>2, AccountsStand DEF Trying, CandidatesKept, Singles
  <2>4. best' \in Singles /\ best' \in trained
    BY <2>1, <2>2 DEF Singles
  <2>5. \A l \in Singles' \ {best'} : ~Ahead(cv[l], cv[best'])
    BY <2>1, <2>2, <2>3
  <2>6. \A l \in Singles' \ {best'} : ~Ahead(cv[l], cv[best])'
    BY <2>1, <2>5 DEF Ahead, Beats
  <2>7. ChoiceKept'
    BY <2>1, <2>2, <2>3, <2>4, <2>6, FS_EmptySet DEF ChoiceKept
  <2> QED
    BY <2>3, <2>7 DEF SelectionInv
<1>2. CASE NoVote
  <2>1. /\ stage = "vote" /\ stage' = "chosen" /\ selected' = best
        /\ UNCHANGED <<order, left, cv, trained, failed, members, baseline,
                       best>>
    BY <1>2 DEF NoVote, Settle, search, scores
  <2>2. members = {} /\ best \in Singles
    BY <2>1 DEF ChoiceKept
  <2>3. CandidatesKept' /\ SummariesKept' /\ Singles' = Singles
    <3>1. "Ensemble" \notin DOMAIN cv /\ trained \intersect failed = {}
      BY <2>1 DEF SummariesKept, CandidatesKept
    <3> QED
      BY <2>1, <3>1, AccountsStand DEF Trying
  <2>4. \A l \in Singles' \ {best'} : ~Ahead(cv[l], cv[best])'
    BY <2>1, <2>3 DEF ChoiceKept, Ahead, Beats
  <2>5. ChoiceKept'
    BY <2>1, <2>2, <2>3, <2>4, FS_EmptySet DEF ChoiceKept, Singles
  <2> QED
    BY <2>3, <2>5 DEF SelectionInv
<1>3. CASE FitEnsemble
  <2>1. /\ stage = "vote" /\ stage' = "voted" /\ members' = Voters
        /\ Cardinality(Voters) >= 2
        /\ UNCHANGED <<order, left, trained, failed, baseline, best>>
    BY <1>3 DEF FitEnsemble, search
  <2>2. PICK summary :
          cv' = [l \in DOMAIN cv \union {"Ensemble"} |->
                   IF l = "Ensemble" THEN summary ELSE cv[l]]
    BY <1>3 DEF FitEnsemble, Keep
  <2>3. /\ \A l \in Singles : l \in DOMAIN cv /\ l # "Ensemble"
        /\ "Ensemble" \notin trained /\ trained = Singles
        /\ trained \intersect failed = {} /\ "Ensemble" \notin failed
    BY <2>1 DEF SummariesKept, CandidatesKept, Singles
  <2>4. \A l \in Singles : cv'[l] = cv[l]
    BY <2>2, <2>3
  <2>5. DOMAIN cv' \ {"Ensemble"} = DOMAIN cv \ {"Ensemble"}
    BY <2>2
  <2>6. CandidatesKept' /\ SummariesKept' /\ Singles' = Singles
    BY <2>1, <2>3, <2>4, <2>5, AccountsStand DEF Trying
  <2>7. \A l \in Singles' \ {best'} : ~Ahead(cv[l], cv[best])'
    BY <2>1, <2>4, <2>6 DEF ChoiceKept, Ahead, Beats
  <2>8. Voters' = Voters
    BY <2>1, <2>3, <2>4 DEF Voters, Beats
  <2>9. \A l \in Voters : l \in Singles /\ Beats(cv[l].mean, baseline)
    BY <2>3 DEF Voters
  <2>10. \A l \in members' : l \in Singles' /\ Beats(cv[l].mean, baseline)'
    BY <2>1, <2>4, <2>6, <2>9 DEF Beats
  <2>11. best' \in Singles'
    BY <2>1, <2>6 DEF ChoiceKept
  <2>12. ChoiceKept'
    BY <2>1, <2>7, <2>8, <2>10, <2>11 DEF ChoiceKept
  <2> QED
    BY <2>6, <2>12 DEF SelectionInv
<1>4. CASE ScoreEnsemble
  <2>1. /\ stage = "voted" /\ stage' = "chosen" /\ selected' = "Ensemble"
        /\ trained' = trained \union {"Ensemble"}
        /\ UNCHANGED <<order, left, cv, failed, members, baseline, best>>
    BY <1>4 DEF ScoreEnsemble, Settle, search
  <2>2. /\ trained \intersect failed = {} /\ "Ensemble" \notin failed
    BY <2>1 DEF CandidatesKept
  <2>3. CandidatesKept' /\ SummariesKept' /\ Singles' = Singles
    BY <2>1, <2>2, AccountsStand DEF Trying
  <2>4. \A l \in Singles' \ {best'} : ~Ahead(cv[l], cv[best])'
    BY <2>1, <2>3 DEF ChoiceKept, Ahead, Beats
  <2>5. \A l \in members' : l \in Singles' /\ Beats(cv[l].mean, baseline)'
    BY <2>1, <2>3 DEF ChoiceKept, Beats
  <2>6. best' \in Singles' /\ Cardinality(members') # 1
    BY <2>1, <2>3 DEF ChoiceKept
  <2>7. ChoiceKept'
    BY <2>1, <2>4, <2>5, <2>6 DEF ChoiceKept
  <2> QED
    BY <2>3, <2>7 DEF SelectionInv
<1>5. CASE EnsembleFails
  <2>1. /\ stage \in {"vote", "voted"} /\ stage' = "chosen"
        /\ selected' = best /\ failed' = failed \union {"Ensemble"}
        /\ members' = Voters
        /\ UNCHANGED <<order, left, cv, trained, baseline, best>>
    BY <1>5 DEF EnsembleFails, Settle, search, scores
  <2>2. Cardinality(Voters) >= 2
    BY <1>5 DEF EnsembleFails, ChoiceKept
  <2>3. /\ trained \intersect failed = {} /\ "Ensemble" \notin trained
        /\ trained = Singles
    BY <2>1 DEF CandidatesKept, Singles
  <2>4. CandidatesKept' /\ SummariesKept' /\ Singles' = Singles
    BY <2>1, <2>3, AccountsStand DEF Trying
  <2>5. \A l \in Singles' \ {best'} : ~Ahead(cv[l], cv[best])'
    BY <2>1, <2>4 DEF ChoiceKept, Ahead, Beats
  <2>6. \A l \in Voters : l \in Singles /\ Beats(cv[l].mean, baseline)
    BY <2>3 DEF Voters
  <2>7. \A l \in members' : l \in Singles' /\ Beats(cv[l].mean, baseline)'
    BY <2>1, <2>4, <2>6 DEF Beats
  <2>8. best' \in Singles' /\ best' \in trained'
    BY <2>1, <2>3, <2>4 DEF ChoiceKept
  <2>9. ChoiceKept'
    BY <2>1, <2>2, <2>5, <2>7, <2>8 DEF ChoiceKept
  <2> QED
    BY <2>4, <2>9 DEF SelectionInv
<1> QED
  BY <1>1, <1>2, <1>3, <1>4, <1>5

LEMMA SelectionStep ==
  ASSUME TrainingConstants, TriedOnce, SelectionInv,
         [TrainingNext]_trainingVars
  PROVE  SelectionInv'
<1>1. CASE Upload \/ Retrain
  BY <1>1, BeginSelection
<1>2. CASE Calibrate \/ Compare
  <2>1. stage' = "served"
    BY <1>2 DEF Calibrate, Compare, Register, Return
  <2> QED
    BY <2>1 DEF SelectionInv
<1>3. CASE Tune \/ CrossValidate
  <2>1. stage \notin {"idle", "served", "failed"}
    BY <1>3 DEF Tune, CrossValidate
  <2> QED
    BY <1>3, <2>1, TrySelection DEF SelectionInv
<1>4. CASE FitAndScore \/ Skip
  <2>1. stage \notin {"idle", "served", "failed"}
    BY <1>4 DEF FitAndScore, Skip
  <2> QED
    BY <1>4, <2>1, AdvanceSelection DEF SelectionInv
<1>5. CASE Select \/ NoVote \/ FitEnsemble \/ ScoreEnsemble \/ EnsembleFails
  <2>1. stage \notin {"idle", "served", "failed"}
    BY <1>5 DEF Select, NoVote, FitEnsemble, ScoreEnsemble, EnsembleFails
  <2> QED
    BY <1>5, <2>1, ChooseSelection DEF SelectionInv
<1>6. CASE UNCHANGED trainingVars
  <2>1. UNCHANGED <<stage, order, baseline, left, drawn, cv, trained, failed,
                    best, members, selected>>
    BY <1>6 DEF trainingVars, search, scores, choice
  <2>2. CandidatesKept' <=> CandidatesKept
    BY <2>1 DEF CandidatesKept
  <2>3. SummariesKept' <=> SummariesKept
    BY <2>1 DEF SummariesKept, Singles, Summary
  <2>4. ChoiceKept' <=> ChoiceKept
    BY <2>1 DEF ChoiceKept, Singles, Ahead, Beats, Voters
  <2> QED
    BY <2>1, <2>2, <2>3, <2>4 DEF SelectionInv
<1> QED
  BY <1>1, <1>2, <1>3, <1>4, <1>5, <1>6 DEF TrainingNext

\* Whatever learners raise and whether or not the budget runs out: what is
\* selected was fitted and scored, no model is ahead of the best, every member
\* of a vote beats the baseline, and each candidate is accounted for once
\* (train_models, select_best, build_ensemble).
THEOREM SelectionsAreEarned ==
  ASSUME TrainingConstants, TriedOnce
  PROVE  TrainingSpec => []SelectionIsEarned
<1>1. TrainingInit => SelectionInv
  BY DEF TrainingInit, SelectionInv
<1>2. SelectionInv /\ [TrainingNext]_trainingVars => SelectionInv'
  BY SelectionStep
<1>3. TrainingInv /\ SelectionInv => SelectionIsEarned
  <2> SUFFICES ASSUME TrainingInv, SelectionInv, stage = "chosen"
               PROVE  SelectionIsEarned
    BY DEF SelectionIsEarned
  <2>1. CandidatesKept /\ SummariesKept /\ ChoiceKept
    BY DEF SelectionInv
  <2>2. order.problem \in Problems
    BY DEF TrainingInv, OrderInv, Sized
  <2>3. Means \subseteq Nat /\ Spreads \subseteq Nat
    BY DEF TrainingConstants
  <2>4. selected \in {best, "Ensemble"} \intersect trained /\ best \in DOMAIN cv
    BY <2>1 DEF SummariesKept, ChoiceKept
  <2>5. ASSUME NEW l \in DOMAIN cv \ {"Ensemble"}
        PROVE  LET gain == IF order.problem = "regression"
                           THEN cv[best].mean - cv[l].mean
                           ELSE cv[l].mean - cv[best].mean
               IN gain >= 0 => gain = 0 /\ cv[best].std <= cv[l].std
    <3>1. l \in Singles /\ best \in Singles
      BY <2>1 DEF SummariesKept, ChoiceKept
    <3>2. cv[l] \in Summary /\ cv[best] \in Summary
      BY <2>1, <3>1 DEF SummariesKept
    <3>3. /\ cv[l].mean \in Nat /\ cv[l].std \in Nat
          /\ cv[best].mean \in Nat /\ cv[best].std \in Nat
      BY <2>3, <3>2 DEF Summary
    <3>4. CASE l = best
      BY <3>3, <3>4
    <3>5. CASE l # best
      <4>1. ~Ahead(cv[l], cv[best])
        BY <2>1, <3>1, <3>5 DEF ChoiceKept
      <4> QED
        BY <2>2, <3>3, <4>1 DEF Ahead, Beats, Problems
    <3> QED
      BY <3>4, <3>5
  <2>6. \A l \in members :
          IF order.problem = "regression" THEN cv[l].mean < baseline
                                          ELSE cv[l].mean > baseline
    BY <2>1, <2>2 DEF ChoiceKept, Beats, Problems
  <2>7. /\ Cardinality(members) # 1
        /\ trained \intersect failed = {}
        /\ (trained \union failed) \ {"Ensemble"} = Range(Candidates(order))
    BY <2>1 DEF ChoiceKept, CandidatesKept, Trying
  <2> QED
    BY <2>4, <2>5, <2>6, <2>7 DEF SelectionIsEarned
<1> QED
  BY <1>1, <1>2, <1>3, SpecTrainingInv, PTL DEF TrainingSpec

=============================================================================
