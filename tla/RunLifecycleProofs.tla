------------------------- MODULE RunLifecycleProofs -------------------------
(***************************************************************************)
(* What a deletion of a run guarantees for any number of uploads, retrains, *)
(* conversations, other requests and deletions, of any kind, interleaved    *)
(* and dying in any way: types, that a deletion which answers has taken     *)
(* every row and message that was there when it began, and what purges may  *)
(* be repeated and may take; and that a deletion nothing interferes with    *)
(* leaves nothing of the run (CInv).                                        *)
(***************************************************************************)
EXTENDS RunLifecycle, TLAPS

-----------------------------------------------------------------------------
(* The order of the steps                                                   *)

\* "end" is the last of the eight steps of every path, and only the last.
LEMMA EndIsLast ==
  \A kind : /\ StepsOf(kind)[8] = "end"
            /\ \A i \in 1..7 : StepsOf(kind)[i] # "end"
  BY DEF StepsOf

\* Every path empties every table and the conversations before it answers.
LEMMA EveryTableHasATurn ==
  ASSUME NEW kind, NEW table \in Tables \union {"conversations"}
  PROVE  \E i \in 1..8 : i < 8 /\ StepsOf(kind)[i] = table
<1>1. StepsOf(kind)[2] = "conversations" \/ StepsOf(kind)[1] = "conversations"
  BY DEF StepsOf
<1>2. StepsOf(kind)[3] = "predictions" \/ StepsOf(kind)[2] = "predictions"
  BY DEF StepsOf
<1>3. StepsOf(kind)[6] = "links" \/ StepsOf(kind)[5] = "links"
  BY DEF StepsOf
<1>4. StepsOf(kind)[7] = "schedules" \/ StepsOf(kind)[6] = "schedules"
  BY DEF StepsOf
<1> QED
  BY <1>1, <1>2, <1>3, <1>4 DEF Tables

LEMMA TurnIsEarly ==
  ASSUME TypeOK, NEW d \in Deleters, NEW step, step # "end", Turn(d, step)
  PROVE  at[d] \in 1..7 /\ at[d] + 1 \in 1..8
<1>1. at[d] \in 1..8
  BY DEF TypeOK
<1>2. at[d] # 8
  BY EndIsLast DEF Turn
<1> QED
  BY <1>1, <1>2

LEMMA AdvanceType ==
  ASSUME TypeOK, NEW d \in Deleters, NEW step, step # "end", Turn(d, step),
         Advance(d)
  PROVE  at' \in [Deleters -> 1..8]
  BY TurnIsEarly DEF TypeOK, Advance

-----------------------------------------------------------------------------
(* Type correctness                                                         *)

LEMMA InitType == Init => TypeOK
<1> SUFFICES ASSUME Init
             PROVE  TypeOK
  OBVIOUS
<1>1. slot \in [Retrainers -> Versions] /\ at \in [Deleters -> 1..8]
  BY LifecycleAssumption DEF Init, Versions
<1>2. /\ todo \in [Deleters -> SUBSET Files]
      /\ before \in [Deleters -> [rows : SUBSET (Adders \X Tables),
                                  messages : SUBSET (Chats \X Roles)]]
  BY DEF Init
<1>3. /\ conversations \subseteq Chats /\ messages \subseteq Chats \X Roles
      /\ rows \subseteq Adders \X Tables
      /\ versions \subseteq Versions /\ disk \subseteq Files
      /\ crashed \subseteq Procs
  BY DEF Init
<1> QED
  BY <1>1, <1>2, <1>3 DEF Init, TypeOK, Places

LEMMA BeganType ==
  ASSUME NEW p, overlapped \in BOOLEAN, Began(p)
  PROVE  overlapped' \in BOOLEAN
  BY Zenon DEF Began

LEMMA StepType == TypeOK /\ [Next]_vars => TypeOK'
<1> SUFFICES ASSUME TypeOK, [Next]_vars
             PROVE  TypeOK'
  OBVIOUS
<1> USE DEF TypeOK, Places
<1>0. Users \subseteq Procs /\ Deleters \subseteq Procs /\ Requests \subseteq Users
  BY DEF Procs, Users
<1>1. ASSUME NEW u \in Uploads, UploadStep(u)
      PROVE  TypeOK'
  <2>1. CASE UploadStart(u)
    <3>1. overlapped' \in BOOLEAN
      BY <2>1, BeganType DEF UploadStart
    <3> QED
      BY <2>1, <3>1 DEF UploadStart, Goto, tables, locals
  <2>2. CASE WriteBundle(u) \/ WriteMetadata(u)
    <3>1. 0 \in Files /\ 1 \in Files
      BY LifecycleAssumption DEF Files, Versions
    <3>2. disk' \subseteq Files
      BY <2>2, <3>1 DEF WriteBundle, WriteMetadata
    <3> QED
      BY <2>2, <3>2 DEF WriteBundle, WriteMetadata, Goto, tables, locals
  <2>3. CASE RegisterRun(u) \/ RegisterVersion(u)
    <3>1. 1 \in Versions
      BY LifecycleAssumption DEF Versions
    <3>2. versions' \subseteq Versions /\ run' \in {"none", "current", "expired"}
      BY <2>3, <3>1 DEF RegisterRun, RegisterVersion
    <3> QED
      BY <2>3, <3>2 DEF RegisterRun, RegisterVersion, Goto, locals
  <2> QED
    BY <1>1, <2>1, <2>2, <2>3 DEF UploadStep
<1>2. ASSUME NEW p \in Requests, Authorise(p)
      PROVE  TypeOK'
  <2>1. overlapped' \in BOOLEAN
    BY <1>2, BeganType DEF Authorise
  <2> QED
    BY <1>2, <2>1 DEF Authorise, Goto, tables, locals
<1>3. ASSUME NEW r \in Retrainers, RetrainStep(r)
      PROVE  TypeOK'
  <2>1. CASE Authorise(r)
    BY <2>1, <1>2 DEF Requests
  <2>2. CASE ReadChampion(r) \/ ReadHistory(r)
    BY <2>2 DEF ReadChampion, ReadHistory, Goto, tables, locals
  <2>3. CASE NumberVersion(r)
    BY <2>3 DEF NumberVersion, Goto, tables
  <2>4. CASE DumpBundle(r) \/ WriteHistory(r)
    <3>1. slot[r] \in Files /\ 0 \in Files
      BY DEF Files
    <3>2. disk' \subseteq Files
      BY <2>4, <3>1 DEF DumpBundle, WriteHistory
    <3> QED
      BY <2>4, <3>2 DEF DumpBundle, WriteHistory, Goto, tables, locals
  <2>5. CASE AddVersion(r)
    BY <2>5 DEF AddVersion, Goto, locals
  <2> QED
    BY <1>3, <2>1, <2>2, <2>3, <2>4, <2>5 DEF RetrainStep
<1>4. ASSUME NEW c \in Chats, ChatStep(c)
      PROVE  TypeOK'
  <2>1. CASE Authorise(c)
    BY <2>1, <1>2 DEF Requests
  <2>2. CASE OpenConversation(c)
    BY <2>2 DEF OpenConversation, Goto, locals
  <2>3. CASE Ask(c) \/ Answer(c)
    <3>1. messages' \subseteq Chats \X Roles
      BY <2>3 DEF Ask, Answer, Roles
    <3>2. pc' = [pc EXCEPT ![c] = "asked"] \/ pc' = [pc EXCEPT ![c] = "refused"]
            \/ pc' = [pc EXCEPT ![c] = "done"]
      BY <2>3 DEF Ask, Answer, Goto
    <3>3. UNCHANGED <<run, conversations, rows, versions, disk, locals,
                      overlapped, crashed>>
      BY <2>3 DEF Ask, Answer
    <3>4. pc' \in [Procs -> Places]
      BY <3>2 DEF Places
    <3> QED
      BY <3>1, <3>3, <3>4 DEF locals
  <2> QED
    BY <1>4, <2>1, <2>2, <2>3 DEF ChatStep
<1>5. ASSUME NEW p \in Adders, AdderStep(p)
      PROVE  TypeOK'
  <2>1. CASE Authorise(p)
    BY <2>1, <1>2 DEF Requests
  <2>2. CASE LoadBundle(p)
    BY <2>2 DEF LoadBundle, Goto, tables, locals
  <2>3. CASE AddRow(p)
    <3>1. rows' \subseteq Adders \X Tables
      BY <2>3 DEF AddRow
    <3> QED
      BY <2>3, <3>1 DEF AddRow, Goto, locals, Places
  <2> QED
    BY <1>5, <2>1, <2>2, <2>3 DEF AdderStep
<1>6. ASSUME NEW d \in Deleters, DeleterStep(d)
      PROVE  TypeOK'
  <2>1. CASE BeginDeletion(d)
    <3>1. overlapped' \in BOOLEAN
      BY <2>1, BeganType DEF BeginDeletion
    <3>2. before' \in [Deleters -> [rows : SUBSET (Adders \X Tables),
                                    messages : SUBSET (Chats \X Roles)]]
      BY <2>1 DEF BeginDeletion
    <3> QED
      BY <2>1, <3>1, <3>2 DEF BeginDeletion, Goto, tables
  <2>2. CASE DropRun(d)
    BY <2>2, AdvanceType DEF DropRun
  <2>3. CASE DropConversations(d)
    BY <2>3, AdvanceType DEF DropConversations
  <2>4. ASSUME NEW table \in Tables, DropRows(d, table)
        PROVE  TypeOK'
    <3>1. at' \in [Deleters -> 1..8]
      BY <2>4, AdvanceType DEF DropRows, Tables
    <3> QED
      BY <2>4, <3>1 DEF DropRows
  <2>5. CASE DropVersions(d)
    <3>1. at' \in [Deleters -> 1..8]
      BY <2>5, AdvanceType DEF DropVersions
    <3>2. {0, 1} \union versions \in SUBSET Files
      BY LifecycleAssumption DEF Files, Versions
    <3> QED
      BY <2>5, <3>1, <3>2 DEF DropVersions
  <2>6. CASE Unlink(d)
    BY <2>6 DEF Unlink, tables
  <2>7. CASE FilesDone(d)
    BY <2>7, AdvanceType DEF FilesDone, tables
  <2>8. CASE EndDeletion(d)
    BY <2>8 DEF EndDeletion, Goto, tables, locals
  <2> QED
    BY <1>6, <2>1, <2>2, <2>3, <2>4, <2>5, <2>6, <2>7, <2>8 DEF DeleterStep
<1>7. ASSUME NEW p \in Procs, Crash(p)
      PROVE  TypeOK'
  BY <1>7 DEF Crash, Goto, tables, locals
<1>8. CASE Expire
  BY <1>8 DEF Expire, locals
<1>9. CASE UNCHANGED vars
  BY <1>9 DEF vars, tables, locals
<1> QED
  BY <1>1, <1>3, <1>4, <1>5, <1>6, <1>7, <1>8, <1>9 DEF Next

\* Every variable of the run's model keeps its type.
THEOREM LifecycleTypeCorrect == Spec => []TypeOK
<1> QED
  BY InitType, StepType, PTL DEF Spec

-----------------------------------------------------------------------------
(* What was there when a deletion began does not come back, and goes        *)

Past == {"asked", "done", "dead"}

\* The writer of a message is past the step that writes it.
Written(m) == IF m[2] = "user" THEN pc[m[1]] \in Past ELSE pc[m[1]] = "done"

\* Rows and messages are of requests that will not add them again.
Settled(rs, ms) ==
  (\A row \in rs : pc[row[1]] = "done") /\ (\A m \in ms : Written(m))

NotYet(d, step) == \A i \in 1..8 : i < at[d] => StepsOf(Kind[d])[i] # step

\* What is left of the rows there were waits for a step still to come.
Owed(d) ==
  /\ \A row \in before[d].rows \intersect rows : NotYet(d, row[2])
  /\ \A m \in before[d].messages \intersect messages :
       m[1] \in conversations /\ NotYet(d, "conversations")

InOrder(d) ==
  (pc[d] = "idle" => at[d] = 1) /\ (pc[d] = "done" => at[d] = 8)

LInv ==
  /\ TypeOK
  /\ Settled(rows, messages)
  /\ \A d \in Deleters :
       /\ Settled(before[d].rows, before[d].messages)
       /\ Owed(d)
       /\ InOrder(d)

\* What a step of a request does to its place, the rows and the messages.
Going ==
  /\ \A p \in Users : pc[p] = "done" => pc'[p] = "done"
  /\ \A c \in Chats : pc[c] \in Past => pc'[c] \in Past
  /\ \A row \in rows' \ rows : pc[row[1]] # "done" /\ pc'[row[1]] = "done"
  /\ \A m \in messages' \ messages : ~Written(m) /\ Written(m)'

LEMMA Apart ==
  /\ Users \intersect Deleters = {}
  /\ Uploads \intersect Chats = {} /\ Retrainers \intersect Chats = {}
  /\ Adders \intersect Chats = {}
  /\ Uploads \subseteq Users /\ Requests \subseteq Users
  /\ Retrainers \subseteq Requests /\ Chats \subseteq Requests
  /\ Adders \subseteq Requests /\ Users \subseteq Procs /\ Deleters \subseteq Procs
  BY LifecycleAssumption DEF Users, Requests, Procs

\* A step that moves one process, which was not done.
LEMMA OneMoves ==
  ASSUME TypeOK, NEW p \in Procs, NEW place, pc[p] # "done", Goto(p, place),
         p \in Chats /\ pc[p] \in Past => place \in Past
  PROVE  /\ \A q \in Users : pc[q] = "done" => pc'[q] = "done"
         /\ \A c \in Chats : pc[c] \in Past => pc'[c] \in Past
  BY Apart DEF TypeOK, Goto

LEMMA UsersGo ==
  ASSUME TypeOK,
         \/ \E u \in Uploads : UploadStep(u)
         \/ \E r \in Retrainers : RetrainStep(r)
         \/ \E c \in Chats : ChatStep(c)
         \/ \E p \in Adders : AdderStep(p)
  PROVE  /\ Going
         /\ UNCHANGED <<at, before>>
         /\ conversations \subseteq conversations'
         /\ \A d \in Deleters : pc'[d] = pc[d]
<1>1. ASSUME NEW u \in Uploads, UploadStep(u)
      PROVE  /\ Going
             /\ UNCHANGED <<at, before, conversations>>
             /\ \A d \in Deleters : pc'[d] = pc[d]
  <2>1. PICK place : Goto(u, place) /\ pc[u] # "done"
    BY <1>1 DEF UploadStep, UploadStart, WriteBundle, WriteMetadata, RegisterRun,
                RegisterVersion
  <2>2. UNCHANGED <<rows, messages, at, before, conversations>>
    BY <1>1 DEF UploadStep, UploadStart, WriteBundle, WriteMetadata, RegisterRun,
                RegisterVersion, tables, locals
  <2>3. u \in Procs /\ u \notin Chats /\ u \notin Deleters
    BY Apart
  <2>4. \A d \in Deleters : pc'[d] = pc[d]
    BY <2>1, <2>3, Apart DEF TypeOK, Goto
  <2> QED
    BY <2>1, <2>2, <2>3, <2>4, OneMoves DEF Going
<1>2. ASSUME NEW r \in Retrainers, RetrainStep(r)
      PROVE  /\ Going
             /\ UNCHANGED <<at, before, conversations>>
             /\ \A d \in Deleters : pc'[d] = pc[d]
  <2>1. PICK place : Goto(r, place) /\ pc[r] # "done"
    BY <1>2 DEF RetrainStep, Authorise, ReadChampion, NumberVersion, DumpBundle,
                AddVersion, ReadHistory, WriteHistory
  <2>2. UNCHANGED <<rows, messages, at, before, conversations>>
    BY <1>2 DEF RetrainStep, Authorise, ReadChampion, NumberVersion, DumpBundle,
                AddVersion, ReadHistory, WriteHistory, tables, locals
  <2>3. r \in Procs /\ r \notin Chats /\ r \notin Deleters
    BY Apart
  <2>4. \A d \in Deleters : pc'[d] = pc[d]
    BY <2>1, <2>3, Apart DEF TypeOK, Goto
  <2> QED
    BY <2>1, <2>2, <2>3, <2>4, OneMoves DEF Going
<1>3. ASSUME NEW c \in Chats, ChatStep(c)
      PROVE  /\ Going
             /\ UNCHANGED <<at, before>>
             /\ conversations \subseteq conversations'
             /\ \A d \in Deleters : pc'[d] = pc[d]
  <2>1. PICK place : /\ Goto(c, place) /\ pc[c] # "done"
                     /\ pc[c] \in Past => place \in Past
    BY <1>3 DEF ChatStep, Authorise, OpenConversation, Ask, Answer, Past
  <2>2. UNCHANGED <<rows, at, before>> /\ conversations \subseteq conversations'
    BY <1>3 DEF ChatStep, Authorise, OpenConversation, Ask, Answer, tables, locals
  <2>3. c \in Procs /\ c \notin Deleters
    BY Apart
  <2>4. \A d \in Deleters : pc'[d] = pc[d]
    BY <2>1, <2>3, Apart DEF TypeOK, Goto
  <2>5. ASSUME NEW m \in messages' \ messages
        PROVE  ~Written(m) /\ Written(m)'
    <3>1. CASE Authorise(c) \/ OpenConversation(c)
      BY <3>1, <2>5 DEF Authorise, OpenConversation, tables
    <3>2. CASE Ask(c)
      <4>1. m = <<c, "user">> /\ pc[c] = "opened" /\ Goto(c, "asked")
        BY <3>2, <2>5 DEF Ask
      <4>2. pc'[c] = "asked"
        BY <4>1, <2>3 DEF Goto, TypeOK
      <4> QED
        BY <4>1, <4>2 DEF Written, Past
    <3>3. CASE Answer(c)
      <4>1. m = <<c, "assistant">> /\ pc[c] = "asked" /\ Goto(c, "done")
        BY <3>3, <2>5 DEF Answer
      <4>2. pc'[c] = "done"
        BY <4>1, <2>3 DEF Goto, TypeOK
      <4> QED
        BY <4>1, <4>2 DEF Written, Past
    <3> QED
      BY <1>3, <3>1, <3>2, <3>3 DEF ChatStep
  <2> QED
    BY <2>1, <2>2, <2>3, <2>4, <2>5, OneMoves DEF Going
<1>4. ASSUME NEW p \in Adders, AdderStep(p)
      PROVE  /\ Going
             /\ UNCHANGED <<at, before, conversations>>
             /\ \A d \in Deleters : pc'[d] = pc[d]
  <2>1. PICK place : Goto(p, place) /\ pc[p] # "done"
    BY <1>4 DEF AdderStep, Authorise, LoadBundle, AddRow, Tables
  <2>2. UNCHANGED <<messages, at, before, conversations>>
    BY <1>4 DEF AdderStep, Authorise, LoadBundle, AddRow, tables, locals
  <2>3. p \in Procs /\ p \notin Chats /\ p \notin Deleters
    BY Apart
  <2>4. \A d \in Deleters : pc'[d] = pc[d]
    BY <2>1, <2>3, Apart DEF TypeOK, Goto
  <2>5. ASSUME NEW row \in rows' \ rows
        PROVE  pc[row[1]] # "done" /\ pc'[row[1]] = "done"
    <3>1. AddRow(p)
      BY <1>4, <2>5 DEF AdderStep, Authorise, LoadBundle, tables
    <3>2. row[1] = p
      BY <3>1, <2>5 DEF AddRow
    <3>3. pc'[p] = "done"
      BY <3>1, <2>3 DEF AddRow, Goto, TypeOK
    <3> QED
      BY <3>2, <3>3, <2>1
  <2> QED
    BY <2>1, <2>2, <2>3, <2>4, <2>5, OneMoves DEF Going
<1> QED
  BY <1>1, <1>2, <1>3, <1>4


\* After any step that lets the requests go on, what was settled is settled.
LEMMA StaysSettled ==
  ASSUME TypeOK, Going, NEW rs \in SUBSET (Adders \X Tables),
         NEW ms \in SUBSET (Chats \X Roles), Settled(rs, ms)
  PROVE  /\ \A row \in rs : pc'[row[1]] = "done"
         /\ \A m \in ms : Written(m)'
<1>1. \A row \in rs : pc'[row[1]] = "done"
  BY Apart DEF Going, Settled
<1>2. ASSUME NEW m \in ms
      PROVE  Written(m)'
  <2>1. m[1] \in Chats /\ m[1] \in Users /\ Written(m)
    BY Apart DEF Settled
  <2> QED
    BY <2>1 DEF Written, Going
<1> QED
  BY <1>1, <1>2

LEMMA TablesSettled ==
  ASSUME TypeOK, Going, Settled(rows, messages), TypeOK'
  PROVE  Settled(rows, messages)'
<1>1. \A row \in rows : pc'[row[1]] = "done"
  BY StaysSettled DEF TypeOK
<1>2. \A m \in messages : Written(m)'
  BY StaysSettled DEF TypeOK
<1> QED
  BY <1>1, <1>2 DEF Settled, Going

LEMMA BeforeSettled ==
  ASSUME TypeOK, Going, NEW d \in Deleters, before'[d] = before[d],
         Settled(before[d].rows, before[d].messages)
  PROVE  Settled(before[d].rows, before[d].messages)'
<1>1. /\ before[d].rows \in SUBSET (Adders \X Tables)
      /\ before[d].messages \in SUBSET (Chats \X Roles)
  BY DEF TypeOK
<1>2. /\ \A row \in before[d].rows : pc'[row[1]] = "done"
      /\ \A m \in before[d].messages : Written(m)'
  BY <1>1, StaysSettled
<1> QED
  BY <1>2 DEF Settled

\* None of the rows and messages there were comes back.
LEMMA NothingComesBack ==
  ASSUME TypeOK, Going, NEW d \in Deleters,
         Settled(before[d].rows, before[d].messages)
  PROVE  /\ before[d].rows \intersect rows' \subseteq rows
         /\ before[d].messages \intersect messages' \subseteq messages
  BY DEF Going, Settled

LEMMA OwedStays ==
  ASSUME TypeOK, Going, NEW d \in Deleters,
         Settled(before[d].rows, before[d].messages), Owed(d),
         before'[d] = before[d], at'[d] = at[d],
         conversations \subseteq conversations'
  PROVE  Owed(d)'
<1>1. \A step : NotYet(d, step) => NotYet(d, step)'
  BY DEF NotYet
<1> QED
  BY <1>1, NothingComesBack DEF Owed

LEMMA OthersGo ==
  ASSUME LInv, TypeOK', Going, UNCHANGED <<at, before>>,
         conversations \subseteq conversations',
         \A d \in Deleters : pc'[d] = pc[d] \/ pc'[d] = "dead"
  PROVE  LInv'
<1>1. Settled(rows, messages)'
  BY TablesSettled DEF LInv
<1>2. ASSUME NEW d \in Deleters
      PROVE  (Settled(before[d].rows, before[d].messages) /\ Owed(d) /\ InOrder(d))'
  BY BeforeSettled, OwedStays DEF LInv, InOrder
<1> QED
  BY <1>1, <1>2 DEF LInv

\* A deletion whose step is none that a row waits for moves on.
LEMMA NotYetMovesOn ==
  ASSUME TypeOK, NEW d \in Deleters, NEW step, NEW turn,
         Turn(d, turn), turn # step, Advance(d), NotYet(d, step)
  PROVE  NotYet(d, step)'
<1> SUFFICES ASSUME NEW i \in 1..8, i < at'[d]
             PROVE  StepsOf(Kind[d])[i] # step
  BY DEF NotYet
<1>1. at'[d] = at[d] + 1 /\ at[d] \in 1..8
  BY DEF Advance, TypeOK
<1>2. i < at[d] \/ i = at[d]
  BY <1>1
<1> QED
  BY <1>2 DEF NotYet, Turn

LEMMA DeleterGoes ==
  ASSUME TypeOK, NEW d \in Deleters, DeleterStep(d)
  PROVE  /\ Going
         /\ \A e \in Deleters \ {d} :
              pc'[e] = pc[e] /\ at'[e] = at[e] /\ before'[e] = before[e]
<1>1. \/ UNCHANGED pc
      \/ Goto(d, "deleting") \/ Goto(d, "done")
  BY DEF DeleterStep, BeginDeletion, DropRun, DropConversations, DropRows,
         DropVersions, Unlink, FilesDone, EndDeletion
<1>2. rows' \subseteq rows /\ messages' \subseteq messages
  BY DEF DeleterStep, BeginDeletion, DropRun, DropConversations, DropRows,
         DropVersions, Unlink, FilesDone, EndDeletion, tables
<1>3. \A p \in Users : pc'[p] = pc[p]
  BY <1>1, Apart DEF TypeOK, Goto
<1>4. \A e \in Deleters \ {d} : pc'[e] = pc[e]
  BY <1>1, Apart DEF TypeOK, Goto
<1>5. \A e \in Deleters \ {d} : at'[e] = at[e] /\ before'[e] = before[e]
  BY DEF DeleterStep, BeginDeletion, DropRun, DropConversations, DropRows,
         DropVersions, Unlink, FilesDone, EndDeletion, Advance, locals, TypeOK
<1> QED
  BY <1>2, <1>3, <1>4, <1>5, Apart DEF Going

LEMMA DeletionKeeps ==
  ASSUME LInv, TypeOK', NEW d \in Deleters, DeleterStep(d)
  PROVE  LInv'
<1>1. TypeOK /\ Going
  BY DeleterGoes DEF LInv
<1>2. Settled(rows, messages)'
  BY <1>1, TablesSettled DEF LInv
<1>3. ASSUME NEW e \in Deleters
      PROVE  InOrder(e)'
  <2>1. CASE e # d
    BY <2>1, DeleterGoes, <1>1 DEF LInv, InOrder
  <2>2. CASE e = d /\ BeginDeletion(d)
    BY <2>2, <1>1, Apart DEF BeginDeletion, Goto, InOrder, TypeOK
  <2>3. CASE e = d /\ EndDeletion(d)
    <3>1. at[d] = 8
      BY <2>3, <1>1, EndIsLast DEF EndDeletion, Turn, TypeOK
    <3> QED
      BY <2>3, <3>1, <1>1, Apart DEF EndDeletion, Goto, InOrder, TypeOK, locals
  <2>4. CASE e = d /\ ~BeginDeletion(d) /\ ~EndDeletion(d)
    <3>1. pc'[d] = "deleting"
      BY <2>4 DEF DeleterStep, DropRun, DropConversations, DropRows,
                  DropVersions, Unlink, FilesDone, Turn
    <3> QED
      BY <2>4, <3>1 DEF InOrder
  <2> QED
    BY <2>1, <2>2, <2>3, <2>4
<1>4. CASE BeginDeletion(d)
  <2>1. at[d] = 1 /\ UNCHANGED <<at, rows, messages, conversations>>
    BY <1>4 DEF LInv, InOrder, BeginDeletion, tables
  <2>2. before'[d] = [rows |-> rows,
                      messages |-> {m \in messages : m[1] \in conversations}]
    BY <1>4, <1>1 DEF BeginDeletion, TypeOK
  <2>3. \A step : NotYet(d, step)'
    BY <2>1 DEF NotYet
  <2>4. Owed(d)'
    BY <2>1, <2>2, <2>3 DEF Owed
  <2>5. Settled(before[d].rows, before[d].messages)'
    BY <1>2, <2>1, <2>2 DEF Settled
  <2>6. ASSUME NEW e \in Deleters, e # d
        PROVE  (Settled(before[e].rows, before[e].messages) /\ Owed(e))'
    BY <2>6, <2>1, <1>1, DeleterGoes, BeforeSettled, OwedStays DEF LInv
  <2> QED
    BY <1>2, <1>3, <2>4, <2>5, <2>6 DEF LInv
<1>5. CASE ~BeginDeletion(d)
  <2>1. UNCHANGED before
    BY <1>5 DEF DeleterStep, DropRun, DropConversations, DropRows, DropVersions,
                Unlink, FilesDone, EndDeletion, locals
  <2>2. ASSUME NEW e \in Deleters
        PROVE  Settled(before[e].rows, before[e].messages)'
    BY <2>1, <1>1, BeforeSettled DEF LInv
  <2>3. ASSUME NEW e \in Deleters
        PROVE  Owed(e)'
    <3>1. Settled(before[e].rows, before[e].messages) /\ Owed(e) /\ before'[e] = before[e]
      BY <2>1 DEF LInv
    <3>2. /\ before[e].rows \intersect rows' \subseteq rows
          /\ before[e].messages \intersect messages' \subseteq messages
      BY <1>1, <3>1, NothingComesBack
    <3>3. before[e].rows \subseteq Adders \X Tables
      BY <1>1 DEF TypeOK
    <3>4. CASE Unlink(d) \/ EndDeletion(d)
      <4>1. UNCHANGED <<at, conversations>>
        BY <3>4 DEF Unlink, EndDeletion, tables, locals
      <4> QED
        BY <4>1, <3>1, <1>1, OwedStays
    <3>5. CASE DropRun(d) \/ DropVersions(d) \/ FilesDone(d)
      <4>1. PICK turn \in {"run", "versions", "files"} : Turn(d, turn) /\ Advance(d)
        BY <3>5 DEF DropRun, DropVersions, FilesDone
      <4>2. ASSUME NEW step \in Tables \union {"conversations"}, NotYet(e, step)
            PROVE  NotYet(e, step)'
        <5>1. turn # step
          BY <4>1 DEF Tables
        <5>2. CASE e = d
          BY <5>1, <5>2, <4>1, <4>2, <1>1, NotYetMovesOn
        <5>3. CASE e # d
          BY <5>3, <4>2, <1>1, DeleterGoes DEF NotYet
        <5> QED
          BY <5>2, <5>3
      <4>3. UNCHANGED conversations
        BY <3>5 DEF DropRun, DropVersions, FilesDone, tables
      <4> QED
        BY <4>2, <4>3, <3>1, <3>2, <3>3 DEF Owed
    <3>6. CASE DropConversations(d)
      <4>1. messages' = {m \in messages : m[1] \notin conversations}
        BY <3>6 DEF DropConversations
      <4>2. before[e].messages \intersect messages' = {}
        BY <4>1, <3>1 DEF Owed
      <4>3. Turn(d, "conversations") /\ Advance(d)
        BY <3>6 DEF DropConversations
      <4>4. ASSUME NEW step \in Tables, NotYet(e, step)
            PROVE  NotYet(e, step)'
        <5>1. "conversations" # step
          BY DEF Tables
        <5>2. CASE e = d
          BY <5>1, <5>2, <4>3, <4>4, <1>1, NotYetMovesOn
        <5>3. CASE e # d
          BY <5>3, <4>4, <1>1, DeleterGoes DEF NotYet
        <5> QED
          BY <5>2, <5>3
      <4> QED
        BY <4>2, <4>4, <3>1, <3>2, <3>3 DEF Owed
    <3>7. ASSUME NEW table \in Tables, DropRows(d, table)
          PROVE  Owed(e)'
      <4>1. /\ Turn(d, table) /\ Advance(d) /\ UNCHANGED <<conversations, messages>>
            /\ rows' = {row \in rows : row[2] # table}
        BY <3>7 DEF DropRows
      <4>2. ASSUME NEW step, step # table, NotYet(e, step)
            PROVE  NotYet(e, step)'
        <5>1. CASE e = d
          BY <5>1, <4>1, <4>2, <1>1, NotYetMovesOn
        <5>2. CASE e # d
          BY <5>2, <4>2, <1>1, DeleterGoes DEF NotYet
        <5> QED
          BY <5>1, <5>2
      <4>3. "conversations" # table
        BY DEF Tables
      <4> QED
        BY <4>1, <4>2, <4>3, <3>1, <3>2 DEF Owed
    <3> QED
      BY <1>5, <3>4, <3>5, <3>6, <3>7 DEF DeleterStep
  <2> QED
    BY <1>2, <1>3, <2>2, <2>3 DEF LInv
<1> QED
  BY <1>4, <1>5

LEMMA InitLInv == Init => LInv
<1> SUFFICES ASSUME Init
             PROVE  LInv
  OBVIOUS
<1>1. TypeOK
  BY InitType
<1>2. Settled(rows, messages)
  BY DEF Init, Settled
<1>3. ASSUME NEW d \in Deleters
      PROVE  Settled(before[d].rows, before[d].messages) /\ Owed(d) /\ InOrder(d)
  BY Apart DEF Init, Settled, Owed, InOrder
<1> QED
  BY <1>1, <1>2, <1>3 DEF LInv

LEMMA StepLInv == LInv /\ [Next]_vars => LInv'
<1> SUFFICES ASSUME LInv, [Next]_vars
             PROVE  LInv'
  OBVIOUS
<1>1. TypeOK /\ TypeOK'
  BY StepType DEF LInv
<1>2. CASE \/ \E u \in Uploads : UploadStep(u)
           \/ \E r \in Retrainers : RetrainStep(r)
           \/ \E c \in Chats : ChatStep(c)
           \/ \E p \in Adders : AdderStep(p)
  BY <1>1, <1>2, UsersGo, OthersGo
<1>3. ASSUME NEW d \in Deleters, DeleterStep(d)
      PROVE  LInv'
  BY <1>1, <1>3, DeletionKeeps
<1>4. ASSUME NEW p \in Procs, Crash(p)
      PROVE  LInv'
  <2>1. /\ Goto(p, "dead") /\ pc[p] # "done"
        /\ UNCHANGED <<rows, messages, conversations, at, before>>
    BY <1>4 DEF Crash, Busy, tables, locals
  <2>2. Going
    BY <2>1, <1>1, OneMoves DEF Going, Past
  <2>3. \A d \in Deleters : pc'[d] = pc[d] \/ pc'[d] = "dead"
    BY <2>1, <1>1, Apart DEF Goto, TypeOK
  <2> QED
    BY <2>1, <2>2, <2>3, <1>1, OthersGo
<1>5. CASE Expire
  <2>1. UNCHANGED <<rows, messages, conversations, pc, at, before>>
    BY <1>5 DEF Expire, locals
  <2>2. Going
    BY <2>1 DEF Going
  <2> QED
    BY <2>1, <2>2, <1>1, OthersGo
<1>6. CASE UNCHANGED vars
  <2>1. UNCHANGED <<rows, messages, conversations, pc, at, before>>
    BY <1>6 DEF vars, tables, locals
  <2>2. Going
    BY <2>1 DEF Going
  <2> QED
    BY <2>1, <2>2, <1>1, OthersGo
<1> QED
  BY <1>2, <1>3, <1>4, <1>5, <1>6 DEF Next

LEMMA LInvIsThorough == LInv => DeletionIsThorough
<1> SUFFICES ASSUME LInv, NEW d \in Deleters, pc[d] = "done"
             PROVE  /\ rows \intersect before[d].rows = {}
                    /\ messages \intersect before[d].messages = {}
  BY DEF DeletionIsThorough
<1>1. at[d] = 8 /\ Owed(d) /\ TypeOK
  BY DEF LInv, InOrder
<1>2. \A step \in Tables \union {"conversations"} : ~NotYet(d, step)
  BY <1>1, EveryTableHasATurn DEF NotYet
<1>3. \A row \in rows : row[2] \in Tables
  BY <1>1 DEF TypeOK
<1> QED
  BY <1>1, <1>2, <1>3 DEF Owed

\* A deletion that answers has taken every row and message that was there when
\* it began, beside any number of other requests and deletions, dead or alive.
THEOREM DeletionsAreThorough == Spec => []DeletionIsThorough
<1>1. Spec => []LInv
  BY InitLInv, StepLInv, PTL DEF Spec
<1> QED
  BY <1>1, LInvIsThorough, PTL

-----------------------------------------------------------------------------
(* Deletions that nothing interferes with leave nothing                     *)

\* A deletion has its step behind it.
Taken(d, step) == \E i \in 1..8 : i < at[d] /\ StepsOf(Kind[d])[i] = step

\* Those that died, if any, were purging or erasing.
Gentle == \A p \in crashed : p \in Deleters /\ Kind[p] # "delete"
NoDeletion == \A d \in Deleters : ~Busy(d)

Placed == \A d \in Deleters : pc[d] \in {"idle", "deleting", "done", "dead"}

\* A deletion under way has no company.
Alone ==
  \A d \in Deleters : Busy(d) => \A o \in Procs : Busy(o) => o = d

\* A request under way, and an upload that has registered it, has its run.
Rooted ==
  /\ \A p \in Requests : Busy(p) => run # "none"
  /\ \A u \in Uploads : pc[u] = "version" => run # "none"

\* A message, or a handler about to add one, has its conversation.
Transcribed ==
  /\ \A m \in messages : m[1] \in conversations
  /\ \A c \in Chats : pc[c] \in {"opened", "asked"} => c \in conversations

\* The files that may be there during a deletion.
Left(d) ==
  IF Taken(d, "files") THEN {}
  ELSE IF Taken(d, "versions") THEN todo[d] ELSE {0, 1} \union versions

\* A deletion has emptied what its steps so far were to empty, and nothing else.
SoFar(d) ==
  /\ ~Taken(d, "run") => run # "none" /\ (Kind[d] = "purge" => run = "expired")
  /\ Taken(d, "conversations") => conversations = {}
  /\ \A row \in rows : ~Taken(d, row[2])
  /\ Taken(d, "versions") => versions = {}
  /\ crashed = {} => disk \subseteq Left(d)
Underway == \A d \in Deleters : pc[d] = "deleting" => SoFar(d)

TablesEmpty ==
  conversations = {} /\ messages = {} /\ rows = {} /\ versions = {}
Emptied == Gentle /\ run = "none" /\ NoDeletion => TablesEmpty

\* Files without a run are those an upload under way has written.
Unfiled ==
  crashed = {} /\ run = "none" /\ NoDeletion
  => disk = {} \/ \E u \in Uploads : pc[u] \in {"metadata", "register"}

\* A bundle is the first, or of a version, or its version is about to be added.
FilesKnown ==
  crashed = {} /\ NoDeletion
  => \A f \in disk : \/ f \in {0, 1} \union versions
                     \/ \E r \in Retrainers : pc[r] = "add" /\ slot[r] = f

Clean ==
  Alone /\ Rooted /\ Transcribed /\ Underway /\ Emptied /\ Unfiled /\ FilesKnown

CInv == LInv /\ Placed /\ (~overlapped => Clean)

LEMMA OnlyOneMoves ==
  ASSUME TypeOK, NEW p \in Procs, NEW place, Goto(p, place)
  PROVE  pc'[p] = place /\ \A q \in Procs : q # p => pc'[q] = pc[q]
  BY DEF TypeOK, Goto

UserStep(p) ==
  \/ p \in Uploads /\ UploadStep(p)
  \/ p \in Retrainers /\ RetrainStep(p)
  \/ p \in Chats /\ ChatStep(p)
  \/ p \in Adders /\ AdderStep(p)

\* A request moves itself, and is under way or begins.
LEMMA UserMoves ==
  ASSUME NEW p \in Users, UserStep(p)
  PROVE  /\ \E place : Goto(p, place)
         /\ Began(p) \/ (Busy(p) /\ overlapped' = overlapped)
         /\ crashed' = crashed
<1>1. CASE p \in Uploads /\ UploadStep(p)
  BY <1>1 DEF UploadStep, UploadStart, WriteBundle, WriteMetadata, RegisterRun,
              RegisterVersion, Busy
<1>2. CASE p \in Retrainers /\ RetrainStep(p)
  BY <1>2 DEF RetrainStep, Authorise, ReadChampion, NumberVersion, DumpBundle,
              AddVersion, ReadHistory, WriteHistory, Busy
<1>3. CASE p \in Chats /\ ChatStep(p)
  BY <1>3 DEF ChatStep, Authorise, OpenConversation, Ask, Answer, Busy
<1>4. CASE p \in Adders /\ AdderStep(p)
  BY <1>4 DEF AdderStep, Authorise, LoadBundle, AddRow, Busy, Tables
<1> QED
  BY <1>1, <1>2, <1>3, <1>4 DEF UserStep

\* Unless it overlaps one, a request acts while no deletion is under way.
LEMMA UserHasNoDeletion ==
  ASSUME TypeOK, ~overlapped => Alone, NEW p \in Users, UserStep(p),
         ~overlapped'
  PROVE  /\ ~overlapped /\ NoDeletion /\ NoDeletion'
         /\ \A q \in Procs : q # p => pc'[q] = pc[q]
<1>1. p \in Procs /\ p \notin Deleters
  BY Apart
<1>2. ~overlapped
  BY UserMoves DEF Began
<1>3. NoDeletion
  <2>1. CASE Began(p)
    BY <2>1, <1>1, Apart DEF Began, NoDeletion
  <2>2. CASE Busy(p)
    BY <2>2, <1>1, <1>2 DEF Alone, NoDeletion
  <2> QED
    BY <2>1, <2>2, UserMoves
<1>4. \A q \in Procs : q # p => pc'[q] = pc[q]
  BY <1>1, UserMoves, OnlyOneMoves
<1> QED
  BY <1>1, <1>2, <1>3, <1>4, Apart DEF NoDeletion, Busy

\* A step of a request after which no deletion is under way.
UserCleans ==
  Rooted /\ Transcribed /\ Emptied /\ Unfiled /\ FilesKnown

LEMMA UploadKeepsClean ==
  ASSUME TypeOK, Clean, NoDeletion, NEW u \in Uploads, UploadStep(u),
         \A q \in Procs : q # u => pc'[q] = pc[q]
  PROVE  UserCleans'
<1>1. u \in Procs /\ u \notin Requests /\ u \notin Chats /\ u \notin Retrainers
  BY LifecycleAssumption, Apart DEF Requests
<1>2. \A p \in Requests : pc'[p] = pc[p]
  BY <1>1, Apart
<1>3. crashed' = crashed /\ messages' = messages /\ rows' = rows
        /\ conversations' = conversations /\ slot' = slot
  BY DEF UploadStep, UploadStart, WriteBundle, WriteMetadata, RegisterRun,
         RegisterVersion, tables, locals
<1>4. Transcribed'
  BY <1>2, <1>3, Apart DEF Clean, Transcribed
<1>5. run' = run \/ run' # "none"
  BY DEF UploadStep, UploadStart, WriteBundle, WriteMetadata, RegisterRun,
         RegisterVersion, tables
<1>6. Rooted'
  <2>1. \A p \in Requests : (Busy(p) => run # "none")'
    BY <1>2, <1>5 DEF Clean, Rooted, Busy
  <2>2. pc'[u] = "version" => run' # "none"
    BY <1>1, OnlyOneMoves DEF UploadStep, UploadStart, WriteBundle, WriteMetadata,
       RegisterRun, RegisterVersion
  <2>3. \A v \in Uploads : pc'[v] = "version" => run' # "none"
    BY <2>2, <1>5, Apart DEF Clean, Rooted
  <2> QED
    BY <2>1, <2>3 DEF Rooted
<1>7. Emptied'
  <2> SUFFICES ASSUME Gentle', run' = "none"
               PROVE  TablesEmpty'
    BY DEF Emptied
  <2>1. Gentle /\ run = "none" /\ TablesEmpty
    BY <1>3, <1>5 DEF Gentle, Clean, Emptied, UploadStep, UploadStart, WriteBundle,
       WriteMetadata, RegisterRun, RegisterVersion, tables
  <2>2. ~RegisterVersion(u)
    BY <2>1 DEF RegisterVersion, Clean, Rooted
  <2> QED
    BY <2>1, <2>2, <1>3 DEF TablesEmpty, UploadStep, UploadStart, WriteBundle,
       WriteMetadata, RegisterRun, tables
<1>8. Unfiled'
  <2> SUFFICES ASSUME crashed' = {}, run' = "none"
               PROVE  disk' = {} \/ \E v \in Uploads : pc'[v] \in {"metadata", "register"}
    BY DEF Unfiled
  <2>1. disk = {} \/ \E v \in Uploads : pc[v] \in {"metadata", "register"}
    BY <1>3 DEF Clean, Unfiled, UploadStep, UploadStart, WriteBundle,
       WriteMetadata, RegisterRun, RegisterVersion, tables
  <2>2. CASE UploadStart(u)
    BY <2>1, <2>2, Apart DEF UploadStart
  <2>3. CASE WriteBundle(u) \/ WriteMetadata(u)
    <3>1. pc'[u] \in {"metadata", "register"}
      BY <2>3, <1>1, OnlyOneMoves DEF WriteBundle, WriteMetadata
    <3> QED
      BY <3>1
  <2>4. ~RegisterRun(u)
    BY DEF RegisterRun
  <2>5. ~RegisterVersion(u)
    BY DEF RegisterVersion, Clean, Rooted
  <2> QED
    BY <2>2, <2>3, <2>4, <2>5 DEF UploadStep
<1>9. FilesKnown'
  <2>1. versions \subseteq versions' /\ disk' \subseteq disk \union {0, 1}
    BY DEF UploadStep, UploadStart, WriteBundle, WriteMetadata, RegisterRun,
       RegisterVersion, tables
  <2>2. \A r \in Retrainers : pc'[r] = pc[r]
    BY <1>2, Apart
  <2> QED
    BY <2>1, <2>2, <1>3 DEF Clean, FilesKnown
<1> QED
  BY <1>4, <1>6, <1>7, <1>8, <1>9 DEF UserCleans

\* A request that does not touch the run or the uploads.
LEMMA RequestKeepsUploads ==
  ASSUME TypeOK, Clean, NoDeletion, NEW p \in Requests,
         Busy(p) \/ run # "none", run' = run, crashed' = crashed,
         \A q \in Procs : q # p => pc'[q] = pc[q]
  PROVE  Rooted' /\ Emptied' /\ Unfiled'
<1>1. p \in Procs /\ p \notin Uploads /\ p \in Users
  BY LifecycleAssumption, Apart
<1>2. run # "none"
  BY DEF Clean, Rooted
<1>3. \A u \in Uploads : pc'[u] = pc[u]
  BY <1>1, Apart
<1> QED
  BY <1>2, <1>3 DEF Rooted, Emptied, Unfiled

LEMMA RetrainKeepsClean ==
  ASSUME TypeOK, Clean, NoDeletion, NEW r \in Retrainers, RetrainStep(r),
         \A q \in Procs : q # r => pc'[q] = pc[q]
  PROVE  UserCleans'
<1>1. r \in Requests /\ r \in Procs /\ r \notin Chats
  BY Apart
<1>2. Busy(r) \/ run # "none"
  BY DEF RetrainStep, Authorise, ReadChampion, NumberVersion, DumpBundle,
         AddVersion, ReadHistory, WriteHistory, Busy
<1>3. UNCHANGED <<run, crashed, messages, conversations>>
  BY DEF RetrainStep, Authorise, ReadChampion, NumberVersion, DumpBundle,
         AddVersion, ReadHistory, WriteHistory, tables, locals
<1>4. Rooted' /\ Emptied' /\ Unfiled'
  BY <1>1, <1>2, <1>3, RequestKeepsUploads
<1>5. Transcribed'
  BY <1>1, <1>3, Apart DEF Clean, Transcribed
<1>6. FilesKnown'
  <2> SUFFICES ASSUME crashed' = {}, NEW f \in disk'
               PROVE  \/ f \in {0, 1} \union versions'
                      \/ \E s \in Retrainers : pc'[s] = "add" /\ slot'[s] = f
    BY DEF FilesKnown
  <2>1. f \in disk =>
          \/ f \in {0, 1} \union versions
          \/ \E s \in Retrainers : pc[s] = "add" /\ slot[s] = f
    BY <1>3 DEF Clean, FilesKnown
  <2>2. \A s \in Retrainers : s # r => pc'[s] = pc[s]
    BY Apart
  <2>3. CASE DumpBundle(r)
    <3>1. disk' = disk \union {slot[r]} /\ UNCHANGED <<versions, slot>>
            /\ pc[r] = "dump" /\ pc'[r] = "add"
      BY <2>3, <1>1, OnlyOneMoves DEF DumpBundle, tables, locals
    <3> QED
      BY <3>1, <2>1, <2>2
  <2>4. CASE AddVersion(r)
    <3>1. /\ versions' = versions \union {slot[r]}
          /\ UNCHANGED <<disk, slot>>
      BY <2>4 DEF AddVersion, locals
    <3> QED
      BY <3>1, <2>1, <2>2
  <2>5. CASE NumberVersion(r)
    <3>1. /\ pc[r] = "fit" /\ UNCHANGED <<disk, versions>>
          /\ \A s \in Retrainers : s # r => slot'[s] = slot[s]
      BY <2>5 DEF NumberVersion, tables, TypeOK
    <3> QED
      BY <3>1, <2>1, <2>2
  <2>6. CASE Authorise(r) \/ ReadChampion(r) \/ ReadHistory(r) \/ WriteHistory(r)
    <3>1. /\ pc[r] # "add" /\ UNCHANGED <<versions, slot>>
          /\ disk' \subseteq disk \union {0}
      BY <2>6 DEF Authorise, ReadChampion, ReadHistory, WriteHistory, tables, locals
    <3> QED
      BY <3>1, <2>1, <2>2
  <2> QED
    BY <2>3, <2>4, <2>5, <2>6 DEF RetrainStep
<1> QED
  BY <1>4, <1>5, <1>6 DEF UserCleans

LEMMA ChatKeepsClean ==
  ASSUME TypeOK, Clean, NoDeletion, NEW c \in Chats, ChatStep(c),
         \A q \in Procs : q # c => pc'[q] = pc[q]
  PROVE  UserCleans'
<1>1. c \in Requests /\ c \in Procs /\ c \notin Retrainers
  BY Apart
<1>2. Busy(c) \/ run # "none"
  BY DEF ChatStep, Authorise, OpenConversation, Ask, Answer, Busy
<1>3. UNCHANGED <<run, crashed, versions, disk, slot>>
  BY DEF ChatStep, Authorise, OpenConversation, Ask, Answer, tables, locals
<1>4. Rooted' /\ Emptied' /\ Unfiled'
  BY <1>1, <1>2, <1>3, RequestKeepsUploads
<1>5. FilesKnown'
  BY <1>1, <1>3, Apart DEF Clean, FilesKnown
<1>6. Transcribed'
  <2>1. /\ conversations \subseteq conversations'
        /\ pc'[c] \in {"opened", "asked"} => c \in conversations'
        /\ \A m \in messages' \ messages : m[1] \in conversations
    <3>1. CASE Authorise(c)
      BY <3>1, <1>1, OnlyOneMoves DEF Authorise, tables
    <3>2. CASE OpenConversation(c)
      <4>1. \/ Goto(c, "refused")
            \/ Goto(c, "opened") /\ conversations' = conversations \union {c}
        BY <3>2 DEF OpenConversation
      <4>2. messages' = messages /\ conversations \subseteq conversations'
        BY <3>2 DEF OpenConversation
      <4> QED
        BY <4>1, <4>2, <1>1, OnlyOneMoves
    <3>3. CASE Ask(c) \/ Answer(c)
      BY <3>3 DEF Ask, Answer, Clean, Transcribed
    <3> QED
      BY <3>1, <3>2, <3>3 DEF ChatStep
  <2>2. \A b \in Chats : b # c => pc'[b] = pc[b]
    BY Apart
  <2> QED
    BY <2>1, <2>2 DEF Clean, Transcribed
<1> QED
  BY <1>4, <1>5, <1>6 DEF UserCleans

LEMMA AdderKeepsClean ==
  ASSUME TypeOK, Clean, NoDeletion, NEW p \in Adders, AdderStep(p),
         \A q \in Procs : q # p => pc'[q] = pc[q]
  PROVE  UserCleans'
<1>1. p \in Requests /\ p \in Procs /\ p \notin Retrainers /\ p \notin Chats
  BY LifecycleAssumption, Apart
<1>2. Busy(p) \/ run # "none"
  BY DEF AdderStep, Authorise, LoadBundle, AddRow, Busy, Tables
<1>3. UNCHANGED <<run, crashed, versions, disk, slot, messages, conversations>>
  BY DEF AdderStep, Authorise, LoadBundle, AddRow, tables, locals
<1>4. Rooted' /\ Emptied' /\ Unfiled'
  BY <1>1, <1>2, <1>3, RequestKeepsUploads
<1>5. FilesKnown' /\ Transcribed'
  <2>1. /\ \A r \in Retrainers : pc'[r] = pc[r]
        /\ \A c \in Chats : pc'[c] = pc[c]
    BY <1>1, Apart
  <2> QED
    BY <2>1, <1>3 DEF Clean, FilesKnown, Transcribed
<1> QED
  BY <1>4, <1>5 DEF UserCleans

LEMMA UserKeepsClean ==
  ASSUME CInv, NEW p \in Users, UserStep(p), ~overlapped'
  PROVE  Clean'
<1>1. TypeOK /\ (~overlapped => Clean)
  BY DEF CInv, LInv
<1>2. /\ ~overlapped /\ NoDeletion /\ NoDeletion'
      /\ \A q \in Procs : q # p => pc'[q] = pc[q]
  BY <1>1, UserHasNoDeletion DEF Clean
<1>3. UserCleans'
  BY <1>1, <1>2, UploadKeepsClean, RetrainKeepsClean, ChatKeepsClean,
     AdderKeepsClean DEF UserStep
<1>4. Alone' /\ Underway'
  BY <1>2 DEF NoDeletion, Alone, Underway, Busy
<1> QED
  BY <1>3, <1>4 DEF Clean, UserCleans

\* The steps of a path differ, and it removes the files after the versions.
LEMMA StepsDiffer ==
  ASSUME NEW kind, NEW i \in 1..8, NEW j \in 1..8, i < j
  PROVE  /\ StepsOf(kind)[i] # StepsOf(kind)[j]
         /\ StepsOf(kind)[j] = "files" => StepsOf(kind)[j - 1] = "versions"
         /\ StepsOf(kind)[i] = "run" /\ kind # "delete" => j = 8
<1>1. CASE kind = "delete"
  BY <1>1 DEF StepsOf
<1>2. CASE kind # "delete"
  BY <1>2 DEF StepsOf
<1> QED
  BY <1>1, <1>2

LEMMA FilesAreNotFirst ==
  ASSUME NEW kind, NEW j \in 1..8, StepsOf(kind)[j] = "files"
  PROVE  j - 1 \in 1..8 /\ StepsOf(kind)[j - 1] = "versions"
<1>1. j # 1
  BY DEF StepsOf
<1> QED
  BY <1>1, StepsDiffer

LEMMA TakenGrows ==
  ASSUME TypeOK, NEW d \in Deleters, NEW turn, Turn(d, turn), Advance(d)
  PROVE  \A step : Taken(d, step)' <=> Taken(d, step) \/ step = turn
<1>1. at[d] \in 1..8 /\ at'[d] = at[d] + 1
  BY DEF TypeOK, Advance
<1>2. \A i \in 1..8 : i < at'[d] <=> i < at[d] \/ i = at[d]
  BY <1>1
<1> QED
  BY <1>1, <1>2 DEF Taken, Turn

LEMMA TurnIsNotTaken ==
  ASSUME TypeOK, NEW d \in Deleters, NEW turn, Turn(d, turn)
  PROVE  ~Taken(d, turn)
  BY StepsDiffer DEF TypeOK, Taken, Turn

LEMMA FilesAfterVersions ==
  ASSUME TypeOK, NEW d \in Deleters, Turn(d, "files")
  PROVE  Taken(d, "versions")
<1>1. at[d] \in 1..8 /\ StepsOf(Kind[d])[at[d]] = "files"
  BY DEF TypeOK, Turn
<1>2. at[d] - 1 \in 1..8 /\ StepsOf(Kind[d])[at[d] - 1] = "versions"
  BY <1>1, FilesAreNotFirst
<1> QED
  BY <1>1, <1>2 DEF Taken

\* At its end a path has all of its steps behind it; so has one that has removed
\* the row of the run, unless it began with that.
LEMMA EndTakesAll ==
  ASSUME TypeOK, NEW d \in Deleters,
         at[d] = 8 \/ (Taken(d, "run") /\ Kind[d] # "delete")
  PROVE  \A step \in {"conversations", "versions", "files"} \union Tables :
           Taken(d, step)
<1>1. at[d] = 8
  BY StepsDiffer DEF Taken, TypeOK
<1>2. ASSUME NEW step \in {"conversations", "versions", "files"} \union Tables
      PROVE  \E i \in 1..8 : i < 8 /\ StepsOf(Kind[d])[i] = step
  <2>1. CASE step \in Tables \union {"conversations"}
    BY <2>1, EveryTableHasATurn
  <2>2. CASE step = "versions"
    <3>1. StepsOf(Kind[d])[4] = "versions" \/ StepsOf(Kind[d])[3] = "versions"
      BY DEF StepsOf
    <3> QED
      BY <2>2, <3>1
  <2>3. CASE step = "files"
    <3>1. StepsOf(Kind[d])[5] = "files" \/ StepsOf(Kind[d])[4] = "files"
      BY DEF StepsOf
    <3> QED
      BY <2>3, <3>1
  <2> QED
    BY <2>1, <2>2, <2>3
<1> QED
  BY <1>1, <1>2 DEF Taken

LEMMA AllTakenIsEmpty ==
  ASSUME TypeOK, NEW d \in Deleters, SoFar(d), Transcribed,
         at[d] = 8 \/ (Taken(d, "run") /\ Kind[d] # "delete")
  PROVE  TablesEmpty /\ (crashed = {} => disk = {})
<1>1. \A row \in rows : row[2] \in Tables
  BY DEF TypeOK
<1> QED
  BY <1>1, EndTakesAll DEF SoFar, Left, TablesEmpty, Transcribed

\* A deletion moves itself, and is under way or begins.
LEMMA DeleterMoves ==
  ASSUME TypeOK, NEW d \in Deleters, DeleterStep(d), ~overlapped => Alone,
         ~overlapped'
  PROVE  /\ ~overlapped /\ crashed' = crashed
         /\ \A o \in Procs : o # d => ~Busy(o) /\ pc'[o] = pc[o]
<1>1. /\ \/ UNCHANGED pc
         \/ Goto(d, "deleting") \/ Goto(d, "done")
      /\ (BeginDeletion(d) /\ Began(d)) \/ (Busy(d) /\ overlapped' = overlapped)
      /\ crashed' = crashed
  BY DEF DeleterStep, BeginDeletion, DropRun, DropConversations, DropRows,
         DropVersions, Unlink, FilesDone, EndDeletion, Turn, Busy
<1>2. d \in Procs
  BY Apart
<1>3. ~overlapped
  BY <1>1 DEF Began
<1>4. \A o \in Procs : o # d => ~Busy(o)
  BY <1>1, <1>2, <1>3 DEF Began, Alone
<1> QED
  BY <1>1, <1>2, <1>3, <1>4, OnlyOneMoves

LEMMA BeginKeepsClean ==
  ASSUME CInv, TypeOK, Clean, NEW d \in Deleters, BeginDeletion(d),
         \A o \in Procs : o # d => ~Busy(o)
  PROVE  SoFar(d)'
<1>1. at[d] = 1 /\ UNCHANGED <<at, run, conversations, rows, versions, disk, crashed>>
  BY DEF CInv, LInv, InOrder, BeginDeletion, tables
<1>2. \A step : ~Taken(d, step)'
  BY <1>1 DEF Taken
<1>3. run # "none" /\ (Kind[d] = "purge" => run = "expired")
  BY DEF BeginDeletion, Listed
<1>4. NoDeletion /\ \A r \in Retrainers : pc[r] # "add"
  BY Apart DEF NoDeletion, BeginDeletion, Busy
<1>5. crashed = {} => disk \subseteq {0, 1} \union versions
  BY <1>4 DEF Clean, FilesKnown
<1> QED
  BY <1>1, <1>2, <1>3, <1>5 DEF SoFar, Left

LEMMA DeletionGoesOn ==
  ASSUME TypeOK, NEW d \in Deleters, SoFar(d), DeleterStep(d),
         ~BeginDeletion(d), ~EndDeletion(d)
  PROVE  SoFar(d)'
<1>1. CASE DropRun(d)
  <2>1. /\ Turn(d, "run") /\ Advance(d)
        /\ UNCHANGED <<conversations, rows, versions, disk, todo, crashed>>
    BY <1>1 DEF DropRun
  <2>2. \A step : Taken(d, step)' <=> Taken(d, step) \/ step = "run"
    BY <2>1, TakenGrows
  <2> QED
    BY <2>1, <2>2 DEF SoFar, Left, TypeOK, Tables
<1>2. CASE DropConversations(d)
  <2>1. /\ Turn(d, "conversations") /\ Advance(d) /\ conversations' = {}
        /\ UNCHANGED <<run, rows, versions, disk, todo, crashed>>
    BY <1>2 DEF DropConversations
  <2>2. \A step : Taken(d, step)' <=> Taken(d, step) \/ step = "conversations"
    BY <2>1, TakenGrows
  <2> QED
    BY <2>1, <2>2 DEF SoFar, Left, TypeOK, Tables
<1>3. ASSUME NEW table \in Tables, DropRows(d, table)
      PROVE  SoFar(d)'
  <2>1. /\ Turn(d, table) /\ Advance(d) /\ rows' = {row \in rows : row[2] # table}
        /\ UNCHANGED <<run, conversations, versions, disk, todo, crashed>>
    BY <1>3 DEF DropRows
  <2>2. \A step : Taken(d, step)' <=> Taken(d, step) \/ step = table
    BY <2>1, TakenGrows
  <2>3. table \notin {"run", "conversations", "versions", "files"}
    BY DEF Tables
  <2> QED
    BY <2>1, <2>2, <2>3 DEF SoFar, Left
<1>4. CASE DropVersions(d)
  <2>1. /\ Turn(d, "versions") /\ Advance(d) /\ versions' = {}
        /\ todo'[d] = {0, 1} \union versions
        /\ UNCHANGED <<run, conversations, rows, disk, crashed>>
    BY <1>4 DEF DropVersions, TypeOK
  <2>2. \A step : Taken(d, step)' <=> Taken(d, step) \/ step = "versions"
    BY <2>1, TakenGrows
  <2>3. ~Taken(d, "versions")
    BY <2>1, TurnIsNotTaken
  <2> QED
    BY <2>1, <2>2, <2>3 DEF SoFar, Left, TypeOK, Tables
<1>5. CASE Unlink(d)
  <2>1. /\ Turn(d, "files") /\ UNCHANGED <<tables, at, crashed>>
    BY <1>5 DEF Unlink
  <2>2. Taken(d, "versions") /\ ~Taken(d, "files")
    BY <2>1, FilesAfterVersions, TurnIsNotTaken
  <2>3. PICK f \in todo[d] : disk' = disk \ {f} /\ todo'[d] = todo[d] \ {f}
    BY <1>5 DEF Unlink, TypeOK
  <2>4. \A step : Taken(d, step)' <=> Taken(d, step)
    BY <2>1 DEF Taken
  <2> QED
    BY <2>1, <2>2, <2>3, <2>4 DEF SoFar, Left, tables
<1>6. CASE FilesDone(d)
  <2>1. /\ Turn(d, "files") /\ Advance(d) /\ todo[d] = {}
        /\ UNCHANGED <<tables, disk, crashed>>
    BY <1>6 DEF FilesDone
  <2>2. \A step : Taken(d, step)' <=> Taken(d, step) \/ step = "files"
    BY <2>1, TakenGrows
  <2>3. Taken(d, "versions") /\ ~Taken(d, "files")
    BY <2>1, FilesAfterVersions, TurnIsNotTaken
  <2> QED
    BY <2>1, <2>2, <2>3 DEF SoFar, Left, TypeOK, Tables, tables
<1> QED
  BY <1>1, <1>2, <1>3, <1>4, <1>5, <1>6 DEF DeleterStep

LEMMA DeletionKeepsClean ==
  ASSUME CInv, LInv', NEW d \in Deleters, DeleterStep(d), ~overlapped'
  PROVE  Clean'
<1>1. TypeOK /\ Clean /\ crashed' = crashed
        /\ \A o \in Procs : o # d => ~Busy(o) /\ pc'[o] = pc[o]
  BY DeleterMoves DEF CInv, LInv, Clean
<1>2. d \in Procs /\ d \notin Requests /\ d \notin Chats /\ d \notin Uploads
  BY Apart
<1>3. \A o \in Procs : o # d => ~Busy(o)'
  BY <1>1 DEF Busy
<1>4. Alone' /\ Rooted'
  <2>1. \A u \in Uploads : pc'[u] # "version"
    BY <1>1, <1>2, Apart DEF Busy
  <2> QED
    BY <2>1, <1>2, <1>3, Apart DEF Alone, Rooted
<1>5. Transcribed'
  <2>1. \A c \in Chats : pc'[c] \notin {"opened", "asked"}
    BY <1>1, <1>2, Apart DEF Busy
  <2>2. \A m \in messages' : m[1] \in conversations'
    <3>1. CASE DropConversations(d)
      BY <3>1, <1>1 DEF DropConversations, Clean, Transcribed
    <3>2. CASE ~DropConversations(d)
      <4>1. messages' = messages /\ conversations' = conversations
        BY <3>2 DEF DeleterStep, BeginDeletion, DropRun, DropRows, DropVersions,
           Unlink, FilesDone, EndDeletion, tables
      <4> QED
        BY <4>1, <1>1 DEF Clean, Transcribed
    <3> QED
      BY <3>1, <3>2
  <2> QED
    BY <2>1, <2>2 DEF Transcribed
<1>6. CASE EndDeletion(d)
  <2>1. /\ Turn(d, "end") /\ UNCHANGED <<tables, disk, at, crashed>>
        /\ pc'[d] = "done"
    BY <1>6, <1>1, <1>2, OnlyOneMoves DEF EndDeletion, locals
  <2>2. at[d] = 8 /\ SoFar(d)
    BY <2>1, <1>1, EndIsLast DEF Turn, TypeOK, Clean, Underway
  <2>3. TablesEmpty /\ (crashed = {} => disk = {})
    BY <2>2, <1>1, AllTakenIsEmpty DEF Clean
  <2>4. Emptied' /\ Unfiled' /\ FilesKnown'
    BY <2>1, <2>3 DEF Emptied, Unfiled, FilesKnown, TablesEmpty, tables
  <2>5. Underway'
    BY <2>1, <1>1, Apart DEF Underway, Busy
  <2> QED
    BY <2>4, <2>5, <1>4, <1>5 DEF Clean
<1>7. CASE ~EndDeletion(d)
  <2>1. SoFar(d)'
    <3>1. CASE BeginDeletion(d)
      BY <3>1, <1>1, BeginKeepsClean
    <3>2. CASE ~BeginDeletion(d)
      <4>1. pc[d] = "deleting"
        BY <1>7, <3>2 DEF DeleterStep, DropRun, DropConversations, DropRows,
           DropVersions, Unlink, FilesDone, Turn
      <4> QED
        BY <4>1, <1>7, <3>2, <1>1, DeletionGoesOn DEF Clean, Underway
    <3> QED
      BY <3>1, <3>2
  <2>2. pc'[d] = "deleting"
    <3>1. CASE BeginDeletion(d)
      BY <3>1, <1>1, <1>2, OnlyOneMoves DEF BeginDeletion
    <3>2. CASE ~BeginDeletion(d)
      BY <3>2, <1>7 DEF DeleterStep, DropRun, DropConversations, DropRows,
           DropVersions, Unlink, FilesDone, Turn, tables
    <3> QED
      BY <3>1, <3>2
  <2>3. ~NoDeletion'
    BY <2>2 DEF NoDeletion, Busy
  <2>4. Underway'
    BY <2>1, <1>1, Apart DEF Underway, Busy
  <2> QED
    BY <2>3, <2>4, <1>4, <1>5 DEF Clean, Emptied, Unfiled, FilesKnown
<1> QED
  BY <1>6, <1>7

LEMMA CrashKeepsClean ==
  ASSUME CInv, NEW p \in Procs, Crash(p), ~overlapped'
  PROVE  Clean'
<1>1. TypeOK /\ Clean /\ Placed
  BY DEF CInv, LInv, Crash
<1>2. /\ crashed' = crashed \union {p} /\ Busy(p) /\ pc'[p] = "dead"
      /\ \A q \in Procs : q # p => pc'[q] = pc[q]
      /\ UNCHANGED <<run, conversations, messages, rows, versions, disk, slot,
                     at, todo>>
  BY <1>1, OnlyOneMoves DEF Crash, tables, locals
<1>3. \A q \in Procs : Busy(q)' => Busy(q) /\ pc'[q] = pc[q]
  BY <1>2 DEF Busy
<1>4. Alone' /\ Rooted' /\ Transcribed'
  BY <1>1, <1>2, <1>3, Apart DEF Clean, Alone, Rooted, Transcribed
<1>5. Underway'
  <2> SUFFICES ASSUME NEW d \in Deleters, pc'[d] = "deleting"
               PROVE  SoFar(d)'
    BY DEF Underway
  <2>1. SoFar(d)
    BY <1>1, <1>2, Apart DEF Clean, Underway
  <2>2. \A step : Taken(d, step)' <=> Taken(d, step)
    BY <1>2 DEF Taken
  <2> QED
    BY <2>1, <2>2, <1>2 DEF SoFar
<1>6. Unfiled' /\ FilesKnown'
  BY <1>2 DEF Unfiled, FilesKnown
<1>7. Emptied'
  <2> SUFFICES ASSUME Gentle', run' = "none", NoDeletion'
               PROVE  TablesEmpty'
    BY DEF Emptied
  <2>1. Gentle /\ p \in Deleters /\ Kind[p] # "delete"
    BY <1>2 DEF Gentle
  <2>2. SoFar(p)
    BY <2>1, <1>1, <1>2 DEF Clean, Underway, Placed, Busy
  <2>3. TablesEmpty
    BY <2>1, <2>2, <1>1, <1>2, AllTakenIsEmpty DEF SoFar, Clean
  <2> QED
    BY <2>3, <1>2 DEF TablesEmpty
<1> QED
  BY <1>4, <1>5, <1>6, <1>7 DEF Clean

LEMMA ExpiryKeepsClean ==
  ASSUME CInv, Expire \/ UNCHANGED vars, ~overlapped'
  PROVE  Clean'
<1>1. /\ UNCHANGED <<conversations, messages, rows, versions, disk, pc, slot, at,
                     todo, crashed>>
      /\ run' = run \/ (run # "none" /\ run' = "expired")
      /\ Clean
  BY DEF Expire, vars, tables, locals, CInv
<1>2. \A p \in Procs : Busy(p)' <=> Busy(p)
  BY <1>1 DEF Busy
<1>3. Alone' /\ Rooted' /\ Transcribed' /\ Emptied' /\ Unfiled' /\ FilesKnown'
  BY <1>1, <1>2, Apart DEF Clean, Alone, Rooted, Transcribed, Emptied, Unfiled,
     FilesKnown, NoDeletion, Gentle, TablesEmpty
<1>4. Underway'
  <2> SUFFICES ASSUME NEW d \in Deleters, pc[d] = "deleting"
               PROVE  SoFar(d)'
    BY <1>1 DEF Underway
  <2>1. \A step : Taken(d, step)' <=> Taken(d, step)
    BY <1>1 DEF Taken
  <2> QED
    BY <2>1, <1>1 DEF Clean, Underway, SoFar, Left
<1> QED
  BY <1>3, <1>4 DEF Clean

LEMMA InitCInv == Init => CInv
<1> SUFFICES ASSUME Init
             PROVE  CInv
  OBVIOUS
<1>1. LInv
  BY InitLInv
<1>2. \A p \in Procs : pc[p] = "idle" /\ ~Busy(p)
  BY DEF Init, Busy
<1>3. Placed /\ Alone /\ Rooted /\ Transcribed /\ Underway
  BY <1>2, Apart DEF Init, Placed, Alone, Rooted, Transcribed, Underway
<1>4. Emptied /\ Unfiled /\ FilesKnown
  BY DEF Init, Emptied, Unfiled, FilesKnown, TablesEmpty
<1> QED
  BY <1>1, <1>3, <1>4 DEF CInv, Clean

LEMMA PlacedStays ==
  ASSUME TypeOK, Placed, [Next]_vars
  PROVE  Placed'
<1> SUFFICES ASSUME NEW e \in Deleters
             PROVE  pc'[e] \in {"idle", "deleting", "done", "dead"}
  BY DEF Placed
<1>0. e \in Procs
  BY Apart
<1>1. CASE \/ \E u \in Uploads : UploadStep(u)
           \/ \E r \in Retrainers : RetrainStep(r)
           \/ \E c \in Chats : ChatStep(c)
           \/ \E p \in Adders : AdderStep(p)
  BY <1>1, UsersGo DEF Placed
<1>2. ASSUME NEW d \in Deleters, DeleterStep(d)
      PROVE  pc'[e] \in {"idle", "deleting", "done", "dead"}
  <2>1. UNCHANGED pc \/ Goto(d, "deleting") \/ Goto(d, "done")
    BY <1>2 DEF DeleterStep, BeginDeletion, DropRun, DropConversations, DropRows,
         DropVersions, Unlink, FilesDone, EndDeletion
  <2> QED
    BY <2>1, <1>0, Apart, OnlyOneMoves DEF Placed
<1>3. ASSUME NEW p \in Procs, Crash(p)
      PROVE  pc'[e] \in {"idle", "deleting", "done", "dead"}
  BY <1>3, <1>0, OnlyOneMoves DEF Crash, Placed
<1>4. CASE Expire \/ UNCHANGED vars
  BY <1>4 DEF Expire, vars, Placed
<1> QED
  BY <1>1, <1>2, <1>3, <1>4 DEF Next

LEMMA StepCInv == CInv /\ [Next]_vars => CInv'
<1> SUFFICES ASSUME CInv, [Next]_vars
             PROVE  CInv'
  OBVIOUS
<1>1. LInv' /\ Placed'
  BY StepLInv, PlacedStays DEF CInv, LInv
<1>2. ASSUME ~overlapped'
      PROVE  Clean'
  <2>1. CASE \/ \E u \in Uploads : UploadStep(u)
             \/ \E r \in Retrainers : RetrainStep(r)
             \/ \E c \in Chats : ChatStep(c)
             \/ \E p \in Adders : AdderStep(p)
    <3>1. \E p \in Users : UserStep(p)
      BY <2>1, Apart DEF UserStep
    <3> QED
      BY <3>1, <1>2, UserKeepsClean
  <2>2. CASE \E d \in Deleters : DeleterStep(d)
    BY <2>2, <1>1, <1>2, DeletionKeepsClean
  <2>3. CASE \E p \in Procs : Crash(p)
    BY <2>3, <1>2, CrashKeepsClean
  <2>4. CASE Expire \/ UNCHANGED vars
    BY <2>4, <1>2, ExpiryKeepsClean
  <2> QED
    BY <2>1, <2>2, <2>3, <2>4 DEF Next
<1> QED
  BY <1>1, <1>2 DEF CInv

LEMMA CInvLeavesNothing ==
  CInv => NothingOutlivesTheRun /\ DeadPurgeIsRepeatable
<1> SUFFICES ASSUME CInv, run = "none", Quiet, ~overlapped
             PROVE  /\ Gentle => TablesEmpty
                    /\ crashed = {} => TablesEmpty /\ disk = {}
  BY DEF NothingOutlivesTheRun, DeadPurgeIsRepeatable, Gentle, TablesEmpty
<1>1. Clean /\ NoDeletion
  BY Apart DEF CInv, Quiet, NoDeletion
<1>2. \A u \in Uploads : pc[u] \notin {"metadata", "register"}
  BY Apart DEF Quiet, Busy
<1> QED
  BY <1>1, <1>2 DEF Clean, Emptied, Unfiled, Gentle

\* A run that is gone has left no row and no file behind, retrained bundles
\* included, unless a deletion ran beside another handler or somebody died.
THEOREM DeletedRunLeavesNothing == Spec => []NothingOutlivesTheRun
<1>1. Spec => []CInv
  BY InitCInv, StepCInv, PTL DEF Spec
<1> QED
  BY <1>1, CInvLeavesNothing, PTL

\* Whatever purges and erasures died half way, as long as a row refers to the run
\* its own row is there to list it by.
THEOREM DeadPurgesAreRepeatable == Spec => []DeadPurgeIsRepeatable
<1>1. Spec => []CInv
  BY InitCInv, StepCInv, PTL DEF Spec
<1> QED
  BY <1>1, CInvLeavesNothing, PTL

PurgeStep ==
  \A d \in Deleters :
    Kind[d] = "purge" /\ at'[d] # at[d] /\ run # "none" /\ run' = "none"
      => run = "expired" \/ overlapped

LEMMA PurgeStepTakesExpired == CInv /\ [Next]_vars => PurgeStep
<1> SUFFICES ASSUME CInv, [Next]_vars, NEW d \in Deleters, Kind[d] = "purge",
                    at'[d] # at[d], run # "none", run' = "none", ~overlapped
             PROVE  run = "expired"
  BY DEF PurgeStep
<1>1. TypeOK /\ Clean
  BY DEF CInv, LInv
<1>2. ~\/ \E u \in Uploads : UploadStep(u)
       \/ \E r \in Retrainers : RetrainStep(r)
       \/ \E c \in Chats : ChatStep(c)
       \/ \E p \in Adders : AdderStep(p)
  BY <1>1, UsersGo
<1>3. PICK e \in Deleters : DeleterStep(e)
  BY <1>2 DEF Next, Crash, Expire, vars, locals
<1>4. e = d
  BY <1>1, <1>3, DeleterGoes
<1>5. DropRun(d)
  BY <1>3, <1>4 DEF DeleterStep, BeginDeletion, DropConversations, DropRows,
     DropVersions, Unlink, FilesDone, EndDeletion, tables
<1>6. ~Taken(d, "run") /\ SoFar(d)
  BY <1>1, <1>5, TurnIsNotTaken DEF DropRun, Turn, Clean, Underway
<1> QED
  BY <1>6 DEF SoFar

\* A purge that runs by itself takes the row of no run that has not expired,
\* however long ago it listed it.
THEOREM PurgesTakeOnlyExpired == Spec => PurgeTakesOnlyExpired
<1>1. Spec => []CInv
  BY InitCInv, StepCInv, PTL DEF Spec
<1>2. CInv /\ [Next]_vars => [PurgeStep]_vars
  BY PurgeStepTakesExpired
<1> QED
  BY <1>1, <1>2, PTL DEF Spec, PurgeTakesOnlyExpired, PurgeStep

=============================================================================
