----------------------------- MODULE Assistant ------------------------------
(***************************************************************************)
(* Questions about a run (routes/chat.py, analyst/agent.py, limits.py): the *)
(* ceilings of the account and of the conversation, the history given to    *)
(* the model, the loop of the agent, and the accounting of what it cost.    *)
(* One account; its questions and reports run on the threads of the API.    *)
(* Whose run it is was checked before (ModelRegistry, Accounts).            *)
(***************************************************************************)
EXTENDS Integers, Sequences, FiniteSets, FiniteSetsExt, SequencesExt

CONSTANTS Clients,       \* requests under way at once
          Conversations, \* conversations that may be opened
          MaxCalls,      \* settings.principal_max_llm_calls_per_hour
          MaxMessages,   \* settings.chat_max_messages_per_hour
          TokenBudget,   \* settings.chat_token_budget
          MaxSteps,      \* settings.agent_max_steps
          ListLimit,     \* the limit of list_messages
          Sizes,         \* tokens of a question; an answer has 1, and a call
                         \* is said to have taken 1, or none
          MaxAsks,       \* bound on the requests
          MaxFaults      \* bound on the questions that are spoiled

\* What the constants have to be.
AssistantConstants ==
  /\ IsFiniteSet(Clients) /\ Clients # {}
  /\ {MaxCalls, MaxMessages, TokenBudget, MaxSteps, ListLimit} \subseteq
       Nat \ {0}
  /\ Sizes \subseteq Nat \ {0}
  /\ MaxAsks \in Nat /\ MaxFaults \in Nat

VARIABLES
  opened,   \* the rows of conversations
  messages, \* the messages of a conversation, by id
  recent,   \* how many of its questions are younger than an hour
  tokens,   \* ConversationRecord.total_tokens
  rows,     \* the rows of llm_usage younger than an hour
  req,      \* each request: where it is, and its local variables
  asks,     \* requests so far
  unseen,   \* calls that were paid for and that no row of llm_usage tells of
  silent,   \* reports that were paid for, with no word of what they took
  spoiled,  \* questions that failed or died, or whose row was not written
  clashed   \* conversations where two answers were appended at once

book == <<unseen, silent, spoiled>>
talk == <<opened, messages, recent, tokens, clashed>>
assistantVars == <<talk, rows, req, asks, book>>

NoRequest == [at |-> "idle", kind |-> "chat", conv |-> 0, ask |-> 0,
              seen |-> 0, degraded |-> FALSE, beside |-> FALSE,
              heard |-> 0, turns |-> <<>>, steps |-> 0, used |-> 0]

AssistantInit ==
  /\ opened = {}
  /\ messages = [c \in Conversations |-> <<>>]
  /\ recent = [c \in Conversations |-> 0]
  /\ tokens = [c \in Conversations |-> 0]
  /\ rows = 0
  /\ req = [r \in Clients |-> NoRequest]
  /\ asks = 0 /\ unseen = 0 /\ silent = 0 /\ spoiled = 0
  /\ clashed = {}

At(r, place) == req[r].at = place
Goes(r, place) == req' = [req EXCEPT ![r].at = place]
Ends(r) == req' = [req EXCEPT ![r] = NoRequest]

-----------------------------------------------------------------------------
(* The ceilings                                                             *)

\* POST /chat: a conversation of the account is looked up, or made.
Ask(r) ==
  /\ At(r, "idle") /\ asks < MaxAsks
  /\ asks' = asks + 1
  /\ \E c \in Conversations :
       /\ opened' = opened \union {c}
       /\ req' = [req EXCEPT ![r] =
            [NoRequest EXCEPT !.at = "quota", !.conv = c, !.ask = asks',
                              !.seen = tokens[c]]]
  /\ UNCHANGED <<messages, recent, tokens, clashed, rows, book>>

\* POST /report: one call, without tools.
AskReport(r) ==
  /\ At(r, "idle") /\ asks < MaxAsks
  /\ asks' = asks + 1
  /\ req' = [req EXCEPT ![r] =
       [NoRequest EXCEPT !.at = "quota", !.kind = "report"]]
  /\ UNCHANGED <<talk, rows, book>>

\* A report ends without a call if the run has no snapshot, or there is no
\* model.
Proceeds(r) ==
  IF req[r].kind = "chat" THEN Goes(r, "guards")
                          ELSE Goes(r, "calling") \/ Ends(r)

\* A slip: the call that reaches the ceiling is followed by one more.
CheckQuota_OneMore(r) ==
  /\ At(r, "quota")
  /\ IF rows > MaxCalls THEN Ends(r) ELSE Proceeds(r)
  /\ UNCHANGED <<talk, rows, asks, book>>

\* check_llm_quota; the daily spend is compared in the same way.
CheckQuota(r) ==
  /\ At(r, "quota")
  /\ IF rows >= MaxCalls THEN Ends(r) ELSE Proceeds(r)
  /\ UNCHANGED <<talk, rows, asks, book>>

\* The guards of the conversation; then there may be no model, or no snapshot.
CheckConversation(r) ==
  /\ At(r, "guards")
  /\ IF recent[req[r].conv] >= MaxMessages \/ req[r].seen >= TokenBudget
     THEN Ends(r)
     ELSE \E none \in BOOLEAN :
            req' = [req EXCEPT ![r].at = "asking", ![r].degraded = none]
  /\ UNCHANGED <<talk, rows, asks, book>>

-----------------------------------------------------------------------------
(* The history                                                              *)

Message(role, r, size, used) ==
  [role |-> role, ask |-> req[r].ask, size |-> size, used |-> used]

\* append_message, but for what it does to total_tokens: nothing, for the 0
\* tokens of a question or an apology.  A request about to list the messages
\* of this conversation has company.
AppendMessage(r, message, after) ==
  LET c == req[r].conv
      Beside(q) == q # r /\ At(q, "listing") /\ req[q].conv = c
  IN /\ messages' = [messages EXCEPT ![c] = Append(@, message)]
     /\ req' = [q \in Clients |->
          IF q = r THEN after
          ELSE [req[q] EXCEPT !.beside = @ \/ Beside(q)]]

AppendQuestion(r) ==
  /\ At(r, "asking")
  /\ \E size \in Sizes :
       AppendMessage(r, Message("user", r, size, 0),
         [req[r] EXCEPT !.at = IF req[r].degraded THEN "sorry" ELSE "listing"])
  /\ recent' = [recent EXCEPT ![req[r].conv] = @ + 1]
  /\ UNCHANGED <<opened, tokens, clashed, rows, asks, book>>

\* The answer of an assistant that has no model, or no data, or failed.
Apologise(r) ==
  /\ At(r, "sorry")
  /\ AppendMessage(r, Message("assistant", r, 1, 0), NoRequest)
  /\ UNCHANGED <<opened, recent, tokens, clashed, rows, asks, book>>

Take(s, n) == SubSeq(s, 1, IF Len(s) < n THEN Len(s) ELSE n)
From(s, k) == SubSeq(s, k, Len(s))
Cost(turns) == FoldSeq(LAMBDA turn, sum : turn.size + sum, 0, turns)
Fits(turns, budget) == budget <= 0 \/ Cost(turns) <= budget

\* A slip: the turn that fits exactly is dropped.
Trim_DropsExactFit(turns, budget) ==
  IF Fits(turns, budget) THEN turns
  ELSE From(turns, Min({k \in 1 .. Len(turns) :
                          k = Len(turns) \/ Cost(From(turns, k)) < budget}))

\* trim_to_budget: the newest turns that fit, or the newest one.  A stored
\* message is of the user or of the assistant: none begins with a tool result.
Trim(turns, budget) ==
  IF Fits(turns, budget) THEN turns
  ELSE From(turns, Min({k \in 1 .. Len(turns) :
                          k = Len(turns) \/ Fits(From(turns, k), budget)}))

\* list_messages gives the oldest ones.
ListMessages(r) ==
  /\ At(r, "listing")
  /\ LET listing == Take(messages[req[r].conv], ListLimit)
     IN req' = [req EXCEPT ![r].at = "calling", ![r].heard = Len(listing),
                           ![r].turns = Trim(listing, TokenBudget \div 2)]
  /\ UNCHANGED <<talk, rows, asks, book>>

-----------------------------------------------------------------------------
(* The agent                                                                *)

LastChance(r) == req[r].kind = "report" \/ req[r].steps = MaxSteps

\* provider.complete: the call is paid for, and the reply may leave out what it
\* took, which then counts as none.
Completes(r, after) ==
  /\ At(r, "calling")
  /\ \E took \in 0..1 :
       req' = [req EXCEPT ![r] = [after EXCEPT !.steps = @ + 1,
                                               !.used = @ + took]]
  /\ unseen' = unseen + 1
  /\ UNCHANGED <<talk, rows, asks, silent, spoiled>>

\* run_agent: a reply with tool calls, whose results, failures included, go
\* back to the model; there are none on the last chance.
UseTools(r) == ~LastChance(r) /\ Completes(r, req[r])

\* run_agent, _narrate: a reply without tool calls, or any on the last chance.
Conclude(r) ==
  Completes(r, [req[r] EXCEPT !.turns = <<>>, !.heard = 0, !.beside = FALSE,
                  !.at = IF req[r].kind = "chat" THEN "answering" ELSE "recording"])

\* The provider raises: what was paid before is forgotten.
ProviderFails(r) ==
  /\ At(r, "calling") /\ spoiled < MaxFaults
  /\ spoiled' = spoiled + 1
  /\ IF req[r].kind = "chat" THEN Goes(r, "sorry") ELSE Ends(r)
  /\ UNCHANGED <<talk, rows, asks, unseen, silent>>

\* A slip: what the request read at its start is counted on.
ReadTokens_FromTheStart(r) ==
  /\ At(r, "answering")
  /\ req' = [req EXCEPT ![r].at = "appending"]
  /\ clashed' = IF \E q \in Clients \ {r} : At(q, "appending")
                                              /\ req[q].conv = req[r].conv
                THEN clashed \union {req[r].conv} ELSE clashed
  /\ UNCHANGED <<opened, messages, recent, tokens, rows, asks, book>>

\* append_message reads the row of the conversation ...
ReadTokens(r) ==
  /\ At(r, "answering")
  /\ req' = [req EXCEPT ![r].at = "appending",
                        ![r].seen = tokens[req[r].conv]]
  /\ clashed' = IF \E q \in Clients \ {r} : At(q, "appending")
                                              /\ req[q].conv = req[r].conv
                THEN clashed \union {req[r].conv} ELSE clashed
  /\ UNCHANGED <<opened, messages, recent, tokens, rows, asks, book>>

\* ... and writes the sum, with the answer.
AppendAnswer(r) ==
  /\ At(r, "appending")
  /\ AppendMessage(r, Message("assistant", r, 1, req[r].used),
                   [req[r] EXCEPT !.at = "recording"])
  /\ tokens' = [tokens EXCEPT ![req[r].conv] = req[r].seen + req[r].used]
  /\ UNCHANGED <<opened, recent, clashed, rows, asks, book>>

\* The row of a question tells of all its calls, also of those of which no
\* tokens are known; a report without tokens has no row.
Accounted(r) == req[r].kind = "chat" \/ req[r].used > 0

\* A slip: an answer at the step limit is not accounted for.
RecordUsage_UnlessStopped(r) ==
  /\ At(r, "recording")
  /\ IF Accounted(r) /\ req[r].steps <= MaxSteps
     THEN rows' = rows + 1 /\ unseen' = unseen - req[r].steps
     ELSE UNCHANGED <<rows, unseen>>
  /\ silent' = IF Accounted(r) THEN silent ELSE silent + 1
  /\ Ends(r)
  /\ UNCHANGED <<talk, asks, spoiled>>

\* record_llm_usage: one row for all the calls of an answer.
RecordUsage(r) ==
  /\ At(r, "recording")
  /\ IF Accounted(r)
     THEN rows' = rows + 1 /\ unseen' = unseen - req[r].steps /\ silent' = silent
     ELSE silent' = silent + 1 /\ UNCHANGED <<rows, unseen>>
  /\ Ends(r)
  /\ UNCHANGED <<talk, asks, spoiled>>

\* "Accounting must never break the answer."
RecordFails(r) ==
  /\ At(r, "recording") /\ Accounted(r) /\ spoiled < MaxFaults
  /\ spoiled' = spoiled + 1
  /\ Ends(r)
  /\ UNCHANGED <<talk, rows, asks, unseen, silent>>

-----------------------------------------------------------------------------
(* What happens around them                                                 *)

InFlight == {r \in Clients : ~At(r, "idle")}

\* The process of the API dies, and every request with it.
Die ==
  /\ InFlight # {} /\ spoiled < MaxFaults
  /\ spoiled' = spoiled + Cardinality(InFlight)
  /\ req' = [r \in Clients |-> NoRequest]
  /\ UNCHANGED <<talk, rows, asks, unseen, silent>>

\* What is in the table is an hour old; the windows slide, here at one go.
HourPasses ==
  /\ rows' = 0
  /\ recent' = [c \in Conversations |-> 0]
  /\ UNCHANGED <<opened, messages, tokens, clashed, req, asks, book>>

AssistantNext ==
  \/ \E r \in Clients :
       \/ Ask(r) \/ AskReport(r)
       \/ CheckQuota(r) \/ CheckConversation(r)
       \/ AppendQuestion(r) \/ Apologise(r) \/ ListMessages(r)
       \/ UseTools(r) \/ Conclude(r) \/ ProviderFails(r)
       \/ ReadTokens(r) \/ AppendAnswer(r) \/ RecordUsage(r) \/ RecordFails(r)
  \/ Die \/ HourPasses

AssistantSpec == AssistantInit /\ [][AssistantNext]_assistantVars

-----------------------------------------------------------------------------
(* Properties                                                               *)

\* Requests the account's ceiling has let through.
Admitted == {r \in Clients : ~At(r, "idle") /\ ~At(r, "quota")}

\* The ceiling of an account is checked before a call and the row written
\* after it (limits.py): a burst passes it, but by no more than the requests
\* under way at once, whatever conversations they open; so do the questions
\* of one conversation.
BurstIsBounded ==
  /\ rows + Cardinality(Admitted) <= MaxCalls + Cardinality(Clients) - 1
  /\ \A c \in Conversations :
       recent[c] + Cardinality({r \in Clients : req[r].conv = c
                                                /\ At(r, "asking")})
         <= MaxMessages + Cardinality(Clients) - 1

\* Every call that was paid for is told of by a row of llm_usage, which is what
\* the ceilings and /api/usage read, or belongs to a request under way or to
\* one of the questions that failed, died or could not be recorded, each of
\* which hides at most the calls of one question; or is the one call of a
\* report whose provider did not say what it took (routes/chat.py,
\* generate_report), which no ceiling ever sees.
SpendIsSeen ==
  unseen <= (MaxSteps + 1) * (spoiled + Cardinality(InFlight)) + silent

\* What the model is shown ends with the question that was asked, and is the
\* newest part of the conversation that fits half the budget, as long as it
\* can be; unless another request wrote to the conversation in between, or it
\* is longer than list_messages gives.
QuestionIsHeard ==
  \A r \in Clients :
    LET shown == req[r].turns
        all == Take(messages[req[r].conv], req[r].heard)
        budget == TokenBudget \div 2
    IN shown # <<>> =>
         /\ req[r].heard < ListLimit /\ ~req[r].beside =>
              Last(shown).role = "user" /\ Last(shown).ask = req[r].ask
         /\ IsSuffix(shown, all)
         /\ Fits(shown, budget) \/ Len(shown) = 1
         /\ Len(shown) < Len(all) =>
              ~Fits(From(all, Len(all) - Len(shown)), budget)

\* What the messages of a conversation took, added up one after the other.
Used(said) ==
  LET total[n \in 0 .. Len(said)] ==
        IF n = 0 THEN 0 ELSE total[n - 1] + said[n].used
  IN total[Len(said)]

\* The tokens of a conversation, on which its budget is measured, are those
\* of all its answers; unless two answers were appended at once.
BudgetSeesAnswers ==
  \A c \in Conversations \ clashed : tokens[c] = Used(messages[c])

=============================================================================
