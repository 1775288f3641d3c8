------------------------- MODULE JobLifecycleProofs -------------------------
(***************************************************************************)
(* What recovery at startup, the job table and the two limits guarantee,    *)
(* for any number of uploads, workers and API processes, kills and outages, *)
(* on the deployments the comment in main.lifespan has in mind: one API     *)
(* process that runs its own jobs, or API processes that all use the queue. *)
(***************************************************************************)
EXTENDS JobLifecycle, FiniteSetTheorems, TLAPS

OneProcess == \E a \in Apis : Apis = {a} /\ Backend[a] = "inline"
Queued == \A a \in Apis : Backend[a] = "rq"
SoundDeployment == OneProcess \/ Queued

\* No process has fallen back to a queue of its own beside another one.
Steady == OneProcess \/ NoFallback

Live == {"created"} \union Pending \union Pipeline

\* An upload that has no job row yet.
EarlyHasNoRow ==
  \A j \in Jobs : pc[j] \in Early => row[j] = NoRow /\ told[j] = "none"

\* A job something is still at work on has a row, and nothing but a recovery
\* has put it in a final state.
LiveHasRow ==
  \A j \in Jobs : pc[j] \in Live =>
    \/ row[j].state \in Active
    \/ row[j].state = "failed" /\ row[j].error = "interrupted"

\* A pipeline that returned has left a final state.
EndedIsFinal ==
  \A j \in Jobs : pc[j] = "ended" => row[j].state \notin Active

\* Only what came to rest grows old.
AgedIsAtRest == \A j \in aged : pc[j] \in {"ended", "dead"}

\* A worker works on a job that is under way.
HandsHold ==
  \A w \in Workers : hands[w] # NoJob => pc[hands[w]] \in Pipeline

\* A single process queues nothing, and while it is down nothing is under way.
SingleHoldsAll ==
  OneProcess =>
    /\ \A a \in Apis : api[a] # "rq"
    /\ \A w \in Workers : hands[w] = NoJob
    /\ \A j \in Jobs : pc[j] # "waiting"
    /\ \A a \in Apis : api[a] = "down" =>
         \A j \in Jobs : pc[j] \notin Request \union {"task"} \union Pipeline

\* Redis is there until something takes it down.
RedisIsUp == outages = 0 => redis

\* A process that was never killed has no uploads before it starts.
FirstStart ==
  apiKills = 0 => \A j \in Jobs : api[server[j]] = "down" => pc[j] = "new"

\* On a steady deployment a job something is at work on is active and nothing
\* has failed it; InterruptedIsDead and ToldIsFinal without their condition.
LiveIsActive ==
  \A j \in Jobs : pc[j] \in Live => row[j].state \in Active /\ row[j].error = "none"
DeadWhenInterrupted ==
  \A j \in Jobs : row[j].error = "interrupted" => pc[j] = "dead"
AnswerStands ==
  \A j \in Jobs : told[j] # "none" => row[j].state \in {told[j], "absent"}

ProcessesOK == SingleHoldsAll /\ RedisIsUp /\ FirstStart
RowsOK == EarlyHasNoRow /\ LiveHasRow /\ EndedIsFinal /\ AgedIsAtRest
Honest == LiveIsActive /\ DeadWhenInterrupted /\ AnswerStands

\* What holds however a process fell back, and what holds while none has.
JInv == TypeOK /\ HandsHold /\ ProcessesOK /\ RowsOK /\ (Steady => Honest)

-----------------------------------------------------------------------------
(* Type correctness, on every deployment                                    *)

LEMMA LeaveType ==
  ASSUME TypeOK, NEW j \in Jobs, NEW place \in Places, Leave(j, place)
  PROVE  pc' \in [Jobs -> Places] /\ hands' \in [Workers -> Jobs \union {NoJob}]
  BY DEF TypeOK, Leave, Goto

LEMMA InitType == Init => TypeOK
  BY JobsAssumption DEF Init, TypeOK, Row, NoRow, Places, Final

LEMMA StepType == TypeOK /\ [Next]_vars => TypeOK'
<1> SUFFICES ASSUME TypeOK, [Next]_vars
             PROVE  TypeOK'
  OBVIOUS
<1> USE DEF TypeOK
<1>1. ASSUME NEW j \in Jobs, CheckStorage(j) \/ CheckJobs(j) \/ ReadRefuses(j)
                               \/ AddTask(j) \/ Enqueue(j) \/ StartTask(j)
      PROVE  TypeOK'
  BY <1>1 DEF CheckStorage, CheckJobs, ReadRefuses, AddTask, Enqueue, StartTask,
              Goto, Places, Request, Pending, Pipeline, faults
<1>2. ASSUME NEW j \in Jobs, CreateJob(j)
      PROVE  TypeOK'
  BY <1>2 DEF CreateJob, Goto, Places, Request, Row, Active, faults
<1>3. ASSUME NEW j \in Jobs, HandOverFails(j)
      PROVE  TypeOK'
  BY <1>3, JobsAssumption DEF HandOverFails, Goto, Places
<1>4. ASSUME NEW j \in Jobs, Poll(j)
      PROVE  TypeOK'
  BY <1>4 DEF Poll, Final, faults
<1>5. ASSUME NEW j \in Jobs, Age(j)
      PROVE  TypeOK'
  BY <1>5 DEF Age, faults
<1>6. ASSUME NEW j \in Jobs, AppendStep(j)
      PROVE  TypeOK'
  BY <1>6 DEF AppendStep, Goto, Places, Pipeline, Row, Active, faults
<1>7. ASSUME NEW j \in Jobs, RegisterRun(j)
      PROVE  TypeOK'
  <2>1. RunOf[j] \in Runs
    BY JobsAssumption
  <2>2. runs' \subseteq Runs
    BY <1>7, <2>1 DEF RegisterRun
  <2> QED
    BY <1>7, <2>2 DEF RegisterRun, Goto, Places, Pipeline, faults
<1>8. ASSUME NEW j \in Jobs, CompleteJob(j)
      PROVE  TypeOK'
  <2>1. row' \in [Jobs -> Row]
    BY <1>8 DEF CompleteJob, Row, Final
  <2>2. pc' \in [Jobs -> Places] /\ hands' \in [Workers -> Jobs \union {NoJob}]
    BY <1>8, LeaveType DEF CompleteJob, Places
  <2> QED
    BY <1>8, <2>1, <2>2 DEF CompleteJob, faults
<1>9. ASSUME NEW j \in Jobs, FailJob(j)
      PROVE  TypeOK'
  <2>1. row' \in [Jobs -> Row]
    BY <1>9 DEF FailJob, Row, Final
  <2>2. pc' \in [Jobs -> Places] /\ hands' \in [Workers -> Jobs \union {NoJob}]
    BY <1>9, LeaveType DEF FailJob, Places
  <2> QED
    BY <1>9, <2>1, <2>2 DEF FailJob, faults
<1>10. ASSUME NEW w \in Workers, NEW j \in Jobs, WorkerTakes(w, j)
       PROVE  TypeOK'
  BY <1>10 DEF WorkerTakes, Goto, Places, Pipeline, faults
<1>11. ASSUME NEW w \in Workers, KillWorker(w)
       PROVE  TypeOK'
  <2>1. hands[w] \in Jobs
    BY <1>11 DEF KillWorker
  <2>2. pc' \in [Jobs -> Places] /\ hands' \in [Workers -> Jobs \union {NoJob}]
    BY <1>11, <2>1, LeaveType DEF KillWorker, Places
  <2> QED
    BY <1>11, <2>2, JobsAssumption DEF KillWorker
<1>12. ASSUME NEW a \in Apis, StartApi(a)
       PROVE  TypeOK'
  <2>1. row' \in [Jobs -> Row]
    BY <1>12 DEF StartApi, Recovered, Row, NoRow, Final
  <2>2. api' \in [Apis -> {"down", "inline", "rq"}]
    BY <1>12 DEF StartApi, QueueOf
  <2> QED
    BY <1>12, <2>1, <2>2 DEF StartApi, faults
<1>13. ASSUME NEW a \in Apis, KillApi(a)
       PROVE  TypeOK'
  BY <1>13, JobsAssumption DEF KillApi, Places
<1>14. ASSUME RedisDown
       PROVE  TypeOK'
  <2>1. outages' \in 0..MaxOutages
    BY <1>14, JobsAssumption DEF RedisDown
  <2>2. pc' \in [Jobs -> Places] /\ redis' \in BOOLEAN
    BY <1>14 DEF RedisDown, Places
  <2> QED
    BY <1>14, <2>1, <2>2 DEF RedisDown
<1>15. ASSUME RedisUp
       PROVE  TypeOK'
  BY <1>15 DEF RedisUp, faults
<1>16. ASSUME UNCHANGED vars
       PROVE  TypeOK'
  BY <1>16 DEF vars, faults
<1> QED
  BY <1>1, <1>2, <1>3, <1>4, <1>5, <1>6, <1>7, <1>8, <1>9, <1>10, <1>11, <1>12,
     <1>13, <1>14, <1>15, <1>16 DEF Next, Handle, Finish

\* Every variable of the job model keeps its type, on every deployment.
THEOREM JobsTypeCorrect == Spec => []TypeOK
  BY InitType, StepType, PTL DEF Spec

-----------------------------------------------------------------------------
(* A completed job has a run that is listed                                 *)

\* The run row is written before the job row that announces it.
RegisteredIsListed ==
  \A j \in Jobs : pc[j] = "registered" => RunOf[j] \in runs

LInv == TypeOK /\ RegisteredIsListed /\ CompletedIsListed

\* Steps that complete nothing and lead nowhere near completion.
LEMMA ListedKept ==
  ASSUME LInv, runs \subseteq runs',
         \A j \in Jobs : pc'[j] = "registered" => pc[j] = "registered",
         \A j \in Jobs : row'[j].state = "completed" => row[j].state = "completed"
  PROVE  RegisteredIsListed' /\ CompletedIsListed'
  BY DEF LInv, RegisteredIsListed, CompletedIsListed

LEMMA StepListed == LInv /\ [Next]_vars => LInv'
<1> SUFFICES ASSUME LInv, [Next]_vars
             PROVE  RegisteredIsListed' /\ CompletedIsListed'
  BY StepType DEF LInv
<1> USE DEF TypeOK
<1>0. TypeOK
  BY DEF LInv
<1>1. ASSUME NEW j \in Jobs, CheckStorage(j) \/ CheckJobs(j) \/ ReadRefuses(j)
                               \/ AddTask(j) \/ Enqueue(j) \/ StartTask(j)
                               \/ HandOverFails(j) \/ Poll(j) \/ Age(j)
      PROVE  RegisteredIsListed' /\ CompletedIsListed'
  BY <1>0, <1>1, ListedKept
     DEF CheckStorage, CheckJobs, ReadRefuses, AddTask, Enqueue, StartTask,
         HandOverFails, Poll, Age, Goto
<1>2. ASSUME NEW j \in Jobs, CreateJob(j) \/ AppendStep(j)
      PROVE  RegisteredIsListed' /\ CompletedIsListed'
  <2>1. \A i \in Jobs : row'[i].state = "completed" => row[i].state = "completed"
    BY <1>0, <1>2 DEF CreateJob, AppendStep, Row
  <2>2. \A i \in Jobs : pc'[i] = "registered" => pc[i] = "registered"
    BY <1>0, <1>2 DEF CreateJob, AppendStep, Goto
  <2> QED
    BY <1>2, <2>1, <2>2, ListedKept DEF CreateJob, AppendStep
<1>3. ASSUME NEW j \in Jobs, RegisterRun(j)
      PROVE  RegisteredIsListed' /\ CompletedIsListed'
  BY <1>0, <1>3 DEF RegisterRun, Goto, LInv, RegisteredIsListed, CompletedIsListed
<1>4. ASSUME NEW j \in Jobs, CompleteJob(j)
      PROVE  RegisteredIsListed' /\ CompletedIsListed'
  BY <1>0, <1>4
     DEF CompleteJob, Leave, Goto, LInv, RegisteredIsListed, CompletedIsListed
<1>5. ASSUME NEW j \in Jobs, FailJob(j)
      PROVE  RegisteredIsListed' /\ CompletedIsListed'
  <2>1. \A i \in Jobs : pc'[i] = "registered" => pc[i] = "registered"
    BY <1>0, <1>5 DEF FailJob, Leave, Goto
  <2>2. \A i \in Jobs : row'[i].state = "completed" => row[i].state = "completed"
    BY <1>0, <1>5 DEF FailJob
  <2> QED
    BY <1>5, <2>1, <2>2, ListedKept DEF FailJob
<1>6. ASSUME NEW w \in Workers, NEW j \in Jobs, WorkerTakes(w, j)
      PROVE  RegisteredIsListed' /\ CompletedIsListed'
  BY <1>0, <1>6, ListedKept DEF WorkerTakes, Goto
<1>7. ASSUME NEW w \in Workers, KillWorker(w)
      PROVE  RegisteredIsListed' /\ CompletedIsListed'
  BY <1>0, <1>7, ListedKept DEF KillWorker, Leave, Goto
<1>8. ASSUME NEW a \in Apis, StartApi(a)
      PROVE  RegisteredIsListed' /\ CompletedIsListed'
  <2>1. \A i \in Jobs : row'[i].state = "completed" => row[i].state = "completed"
    BY <1>0, <1>8 DEF StartApi, Recovered, NoRow
  <2> QED
    BY <1>8, <2>1, ListedKept DEF StartApi
<1>9. ASSUME NEW a \in Apis, KillApi(a)
      PROVE  RegisteredIsListed' /\ CompletedIsListed'
  BY <1>0, <1>9, ListedKept DEF KillApi
<1>10. CASE RedisDown \/ RedisUp \/ UNCHANGED vars
  BY <1>0, <1>10, ListedKept DEF RedisDown, RedisUp, vars
<1> QED
  BY <1>1, <1>2, <1>3, <1>4, <1>5, <1>6, <1>7, <1>8, <1>9, <1>10
     DEF Next, Handle, Finish

\* A job that is reported as completed has a run the workspace lists: no kill,
\* outage or recovery comes between the two rows in the wrong order.
THEOREM CompletedHasRun == Spec => []CompletedIsListed
<1>1. Init => LInv
  BY InitType DEF Init, LInv, RegisteredIsListed, CompletedIsListed, NoRow
<1> QED
  BY <1>1, StepListed, PTL DEF Spec, LInv

-----------------------------------------------------------------------------
(* Recovery and the answers clients got                                     *)

LEMMA InitJInv == Init => JInv
<1> SUFFICES ASSUME Init
             PROVE  JInv
  OBVIOUS
<1>1. TypeOK
  BY InitType
<1>2. HandsHold
  BY DEF Init, HandsHold
<1>3. ProcessesOK
  BY DEF Init, ProcessesOK, SingleHoldsAll, RedisIsUp, FirstStart, Request, Pipeline
<1>4. RowsOK
  BY DEF Init, RowsOK, EarlyHasNoRow, LiveHasRow, EndedIsFinal, AgedIsAtRest,
         NoRow, Live, Pending, Pipeline
<1>5. Honest
  BY DEF Init, Honest, LiveIsActive, DeadWhenInterrupted, AnswerStands, NoRow,
         Live, Pending, Pipeline
<1> QED
  BY <1>1, <1>2, <1>3, <1>4, <1>5 DEF JInv

\* A worker's job stays under way until the worker lets go of it.
LEMMA StepHands == JInv /\ [Next]_vars => HandsHold'
<1> SUFFICES ASSUME JInv, [Next]_vars
             PROVE  HandsHold'
  OBVIOUS
<1>0. TypeOK /\ HandsHold
  BY DEF JInv
<1> USE DEF HandsHold, TypeOK
<1>1. ASSUME NEW j \in Jobs,
             CheckStorage(j) \/ CheckJobs(j) \/ ReadRefuses(j) \/ CreateJob(j)
               \/ AddTask(j) \/ Enqueue(j) \/ HandOverFails(j) \/ StartTask(j)
      PROVE  HandsHold'
  BY <1>0, <1>1 DEF CheckStorage, CheckJobs, ReadRefuses, CreateJob, AddTask,
                    Enqueue, HandOverFails, StartTask, Goto, Pipeline
<1>2. ASSUME NEW j \in Jobs, Poll(j) \/ Age(j)
      PROVE  HandsHold'
  BY <1>0, <1>2 DEF Poll, Age
<1>3. ASSUME NEW j \in Jobs, AppendStep(j) \/ RegisterRun(j)
      PROVE  HandsHold'
  BY <1>0, <1>3 DEF AppendStep, RegisterRun, Goto, Pipeline
<1>4. ASSUME NEW j \in Jobs, CompleteJob(j) \/ FailJob(j)
      PROVE  HandsHold'
  <2>1. Leave(j, "ended")
    BY <1>4 DEF CompleteJob, FailJob
  <2> QED
    BY <1>0, <2>1, JobsAssumption DEF Leave, Goto
<1>5. ASSUME NEW w \in Workers, NEW j \in Jobs, WorkerTakes(w, j)
      PROVE  HandsHold'
  BY <1>0, <1>5 DEF WorkerTakes, Goto, Pipeline
<1>6. ASSUME NEW w \in Workers, KillWorker(w)
      PROVE  HandsHold'
  <2>1. Leave(hands[w], "dead") /\ hands[w] \in Jobs
    BY <1>0, <1>6 DEF KillWorker
  <2> QED
    BY <1>0, <2>1, JobsAssumption DEF Leave, Goto
<1>7. ASSUME NEW a \in Apis, StartApi(a) \/ KillApi(a)
      PROVE  HandsHold'
  BY <1>0, <1>7 DEF StartApi, KillApi, InProcess, OnWorker
<1>8. CASE RedisDown \/ RedisUp \/ UNCHANGED vars
  BY <1>0, <1>8 DEF RedisDown, RedisUp, vars, Pipeline
<1> QED
  BY <1>1, <1>2, <1>3, <1>4, <1>5, <1>6, <1>7, <1>8 DEF Next, Handle, Finish

\* Steps that start and kill no API process, and move no upload that a process
\* which never started could have.
LEMMA FirstStartKept ==
  ASSUME FirstStart, api' = api, server' = server, apiKills' = apiKills,
         \A j \in Jobs : \/ pc'[j] = pc[j]
                         \/ pc[j] # "new"
                         \/ api[server[j]] # "down"
  PROVE  FirstStart'
  BY DEF FirstStart

LEMMA StepFirstStart == JInv /\ [Next]_vars => FirstStart'
<1> SUFFICES ASSUME JInv, [Next]_vars
             PROVE  FirstStart'
  OBVIOUS
<1>0. TypeOK /\ FirstStart /\ HandsHold
  BY DEF JInv, ProcessesOK
<1>a. /\ pc \in [Jobs -> Places] /\ server \in [Jobs -> Apis]
      /\ apiKills \in Nat /\ api \in [Apis -> {"down", "inline", "rq"}]
  BY <1>0, JobsAssumption DEF TypeOK
<1>1. ASSUME NEW j \in Jobs, CheckStorage(j) \/ CheckJobs(j) \/ ReadRefuses(j)
                               \/ CreateJob(j) \/ AddTask(j) \/ Enqueue(j)
      PROVE  FirstStart'
  BY <1>0, <1>a, <1>1, FirstStartKept
     DEF CheckStorage, CheckJobs, ReadRefuses, CreateJob, AddTask, Enqueue, Goto,
         faults
<1>2. ASSUME NEW j \in Jobs, HandOverFails(j) \/ Poll(j) \/ Age(j) \/ StartTask(j)
                               \/ AppendStep(j) \/ RegisterRun(j)
      PROVE  FirstStart'
  BY <1>0, <1>a, <1>2, FirstStartKept
     DEF HandOverFails, Poll, Age, StartTask, AppendStep, RegisterRun, Goto, faults
<1>3. ASSUME NEW j \in Jobs, CompleteJob(j) \/ FailJob(j)
      PROVE  FirstStart'
  BY <1>0, <1>a, <1>3, FirstStartKept
     DEF CompleteJob, FailJob, Leave, Goto, Pipeline, faults
<1>4. ASSUME NEW w \in Workers, NEW j \in Jobs, WorkerTakes(w, j)
      PROVE  FirstStart'
  BY <1>0, <1>a, <1>4, FirstStartKept DEF WorkerTakes, Goto, faults
<1>5. ASSUME NEW w \in Workers, KillWorker(w)
      PROVE  FirstStart'
  <2>1. pc[hands[w]] # "new"
    BY <1>0, <1>5 DEF KillWorker, HandsHold, Pipeline
  <2> QED
    BY <1>0, <1>a, <1>5, <2>1, FirstStartKept DEF KillWorker, Leave, Goto
<1>6. ASSUME NEW a \in Apis, StartApi(a)
      PROVE  FirstStart'
  BY <1>0, <1>a, <1>6 DEF StartApi, QueueOf, FirstStart, faults
<1>7. ASSUME NEW a \in Apis, KillApi(a)
      PROVE  FirstStart'
  BY <1>a, <1>7 DEF KillApi, FirstStart
<1>8. CASE RedisDown \/ RedisUp \/ UNCHANGED vars
  BY <1>0, <1>a, <1>8, FirstStartKept DEF RedisDown, RedisUp, vars, faults
<1> QED
  BY <1>1, <1>2, <1>3, <1>4, <1>5, <1>6, <1>7, <1>8 DEF Next, Handle, Finish

LEMMA StepRedis == JInv /\ [Next]_vars => RedisIsUp'
<1> SUFFICES ASSUME JInv, [Next]_vars
             PROVE  RedisIsUp'
  OBVIOUS
<1>0. RedisIsUp /\ outages \in Nat
  BY JobsAssumption DEF JInv, ProcessesOK, TypeOK
<1>1. ASSUME NEW j \in Jobs,
             CheckStorage(j) \/ CheckJobs(j) \/ ReadRefuses(j) \/ CreateJob(j)
               \/ AddTask(j) \/ Enqueue(j) \/ Poll(j) \/ Age(j) \/ StartTask(j)
      PROVE  redis' = redis /\ outages' = outages
  BY <1>1 DEF CheckStorage, CheckJobs, ReadRefuses, CreateJob, AddTask, Enqueue,
              Poll, Age, StartTask, faults
<1>2. ASSUME NEW j \in Jobs, AppendStep(j) \/ Finish(j)
      PROVE  redis' = redis /\ outages' = outages
  BY <1>2 DEF AppendStep, Finish, RegisterRun, CompleteJob, FailJob, faults
<1>3. ASSUME NEW j \in Jobs, HandOverFails(j)
      PROVE  RedisIsUp'
  BY <1>0, <1>3 DEF HandOverFails, RedisIsUp
<1>4. ASSUME NEW w \in Workers, KillWorker(w) \/ \E j \in Jobs : WorkerTakes(w, j)
      PROVE  redis' = redis /\ outages' = outages
  BY <1>4 DEF KillWorker, WorkerTakes, faults
<1>5. ASSUME NEW a \in Apis, StartApi(a) \/ KillApi(a)
      PROVE  redis' = redis /\ outages' = outages
  BY <1>5 DEF StartApi, KillApi, faults
<1>6. CASE RedisDown \/ RedisUp
  BY <1>0, <1>6 DEF RedisDown, RedisUp, RedisIsUp
<1>7. CASE UNCHANGED vars
  BY <1>0, <1>7 DEF vars, faults, RedisIsUp
<1> QED
  BY <1>0, <1>1, <1>2, <1>3, <1>4, <1>5, <1>6, <1>7 DEF Next, Handle, RedisIsUp

\* With one process nothing is ever queued, and nothing is under way while the
\* process is down.
LEMMA StepProcesses == JInv /\ [Next]_vars => ProcessesOK'
<1> SUFFICES ASSUME JInv, [Next]_vars
             PROVE  ProcessesOK'
  OBVIOUS
<1>0. TypeOK /\ SingleHoldsAll
  BY DEF JInv, ProcessesOK
<1>1. FirstStart' /\ RedisIsUp'
  BY StepFirstStart, StepRedis
<1>2. ASSUME OneProcess
      PROVE  /\ \A a \in Apis : api'[a] # "rq"
             /\ \A w \in Workers : hands'[w] = NoJob
             /\ \A j \in Jobs : pc'[j] # "waiting"
             /\ \A a \in Apis : api'[a] = "down" =>
                  \A j \in Jobs :
                    pc'[j] \notin Request \union {"task"} \union Pipeline
  <2>1. PICK b \in Apis : Apis = {b} /\ Backend[b] = "inline"
    BY <1>2 DEF OneProcess
  <2>2. /\ api[b] # "rq"
        /\ \A w \in Workers : hands[w] = NoJob
        /\ \A j \in Jobs : pc[j] # "waiting"
        /\ api[b] = "down" =>
             \A j \in Jobs : pc[j] \notin Request \union {"task"} \union Pipeline
    BY <1>0, <1>2 DEF SingleHoldsAll
  <2>3. \A j \in Jobs : server[j] = b
    BY <1>0, <2>1 DEF TypeOK
  <2> SUFFICES /\ api'[b] # "rq"
               /\ \A w \in Workers : hands'[w] = NoJob
               /\ \A j \in Jobs : pc'[j] # "waiting"
               /\ api'[b] = "down" =>
                    \A j \in Jobs :
                      pc'[j] \notin Request \union {"task"} \union Pipeline
    BY <2>1
  <2> USE <1>0, <2>1, <2>2, <2>3 DEF TypeOK
  <2>4. ASSUME NEW j \in Jobs,
               CheckStorage(j) \/ CheckJobs(j) \/ ReadRefuses(j) \/ CreateJob(j)
                 \/ AddTask(j) \/ Enqueue(j) \/ HandOverFails(j) \/ StartTask(j)
        PROVE  /\ api' = api /\ hands' = hands
               /\ \A i \in Jobs : pc'[i] # "waiting"
               /\ api[b] # "down"
    BY <2>4 DEF CheckStorage, CheckJobs, ReadRefuses, CreateJob, AddTask, Enqueue,
                HandOverFails, StartTask, Goto, Request
  <2>5. ASSUME NEW j \in Jobs, AppendStep(j) \/ RegisterRun(j)
        PROVE  /\ api' = api /\ hands' = hands
               /\ \A i \in Jobs : pc'[i] # "waiting"
               /\ api[b] # "down"
    BY <2>5 DEF AppendStep, RegisterRun, Goto, Pipeline
  <2>6. ASSUME NEW j \in Jobs, CompleteJob(j) \/ FailJob(j)
        PROVE  /\ api' = api
               /\ \A w \in Workers : hands'[w] = NoJob
               /\ \A i \in Jobs : pc'[i] # "waiting"
               /\ api[b] # "down"
    <3>1. Leave(j, "ended") /\ api' = api /\ pc[j] \in Pipeline
      BY <2>6 DEF CompleteJob, FailJob, Pipeline
    <3> QED
      BY <3>1 DEF Leave, Goto
  <2>7. ASSUME NEW j \in Jobs, Poll(j) \/ Age(j)
        PROVE  api' = api /\ hands' = hands /\ pc' = pc
    BY <2>7 DEF Poll, Age
  <2>8. ASSUME NEW w \in Workers, KillWorker(w) \/ \E j \in Jobs : WorkerTakes(w, j)
        PROVE  FALSE
    BY <2>8 DEF KillWorker, WorkerTakes
  <2>9. ASSUME StartApi(b)
        PROVE  /\ api'[b] = "inline"
               /\ hands' = hands /\ pc' = pc
    BY <2>9 DEF StartApi, QueueOf
  <2>10. ASSUME KillApi(b)
         PROVE  /\ api'[b] = "down" /\ hands' = hands
                /\ \A j \in Jobs :
                     pc'[j] \notin Request \union {"task", "waiting"} \union Pipeline
    <3>1. \A j \in Jobs : ~OnWorker(j)
      BY JobsAssumption DEF OnWorker
    <3>2. \A j \in Jobs : j \notin InProcess(b) =>
            pc[j] \notin Request \union {"task"} \union Pipeline
      BY <3>1 DEF InProcess
    <3> QED
      BY <2>10, <3>2 DEF KillApi, Request, Pipeline
  <2>11. ASSUME RedisDown \/ RedisUp \/ UNCHANGED vars
         PROVE  api' = api /\ hands' = hands /\ \A j \in Jobs : pc'[j] = pc[j]
    BY <2>11 DEF RedisDown, RedisUp, vars
  <2> QED
    BY <2>4, <2>5, <2>6, <2>7, <2>8, <2>9, <2>10, <2>11 DEF Next, Handle, Finish
<1> QED
  BY <1>1, <1>2 DEF ProcessesOK, SingleHoldsAll

\* Steps that leave the rows and the answers alone and move no upload to a
\* place that says something else about its row.
LEMMA RowsKept ==
  ASSUME TypeOK, RowsOK, row' = row, told' = told, aged' = aged,
         \A j \in Jobs : \/ pc'[j] = pc[j]
                         \/ pc[j] \in Early /\ pc'[j] \in Early
                         \/ pc[j] \in Live /\ pc'[j] \in Live \union {"dead"}
                         \/ pc[j] \in Early /\ pc'[j] = "dead"
  PROVE  RowsOK' /\ (Honest => Honest')
<1> USE DEF TypeOK, RowsOK
<1>1. EarlyHasNoRow'
  BY DEF EarlyHasNoRow, Early, Live, Pending, Pipeline
<1>2. LiveHasRow'
  BY DEF LiveHasRow, Early, Live, Pending, Pipeline
<1>3. EndedIsFinal'
  BY DEF EndedIsFinal, Early, Live, Pending, Pipeline
<1>4. AgedIsAtRest'
  BY DEF AgedIsAtRest, Early, Live, Pending, Pipeline
<1>5. LiveIsActive => LiveIsActive'
  BY DEF LiveIsActive, Early, Live, Pending, Pipeline
<1>6. LiveIsActive /\ DeadWhenInterrupted => DeadWhenInterrupted'
  BY DEF DeadWhenInterrupted, EarlyHasNoRow, LiveIsActive, NoRow, Early, Live
<1>7. AnswerStands => AnswerStands'
  BY DEF AnswerStands
<1> QED
  BY <1>1, <1>2, <1>3, <1>4, <1>5, <1>6, <1>7 DEF Honest

\* Steps that change the row of one upload under way, or give it its first.
LEMMA RowsChanged ==
  ASSUME TypeOK, RowsOK, NEW j \in Jobs, pc[j] \in Live \union {"reading"},
         told' = told, aged' = aged,
         \A i \in Jobs \ {j} : row'[i] = row[i] /\ pc'[i] = pc[i],
         \/ pc'[j] \in Live /\ row'[j].state \in Active
         \/ pc'[j] = "ended" /\ row'[j].state \in Final
  PROVE  RowsOK'
<1> USE DEF TypeOK, RowsOK
<1>1. j \notin aged
  BY DEF AgedIsAtRest, Live, Pending, Pipeline
<1>2. pc'[j] \notin Early \union {"dead"} /\ (pc'[j] = "ended" => pc'[j] \notin Live)
  BY DEF Early, Live, Pending, Pipeline
<1>3. Active \intersect Final = {}
  BY DEF Active, Final
<1>4. EarlyHasNoRow'
  BY <1>2 DEF EarlyHasNoRow
<1>5. LiveHasRow'
  BY <1>2 DEF LiveHasRow
<1>6. EndedIsFinal'
  BY <1>3 DEF EndedIsFinal, Live, Pending, Pipeline
<1>7. AgedIsAtRest'
  BY <1>1 DEF AgedIsAtRest
<1> QED
  BY <1>4, <1>5, <1>6, <1>7

\* The same steps, where no recovery came in between.
LEMMA HonestChanged ==
  ASSUME TypeOK, RowsOK, Honest, NEW j \in Jobs, pc[j] \in Live \union {"reading"},
         told' = told,
         \A i \in Jobs \ {j} : row'[i] = row[i] /\ pc'[i] = pc[i],
         row'[j].error # "interrupted",
         pc'[j] \in Live => row'[j].state \in Active /\ row'[j].error = "none"
  PROVE  Honest'
<1>1. told[j] = "none"
  BY DEF TypeOK, RowsOK, Honest, AnswerStands, EarlyHasNoRow, LiveIsActive, Early,
         Active, Final
<1>2. LiveIsActive'
  BY DEF Honest, LiveIsActive
<1>3. DeadWhenInterrupted'
  BY DEF Honest, DeadWhenInterrupted
<1>4. AnswerStands'
  BY <1>1 DEF Honest, AnswerStands
<1> QED
  BY <1>2, <1>3, <1>4 DEF Honest

\* Steps that change nothing about the rows but where an upload stands.
LEMMA PlaceStep ==
  ASSUME JInv,
         \/ \E j \in Jobs : \/ CheckStorage(j) \/ CheckJobs(j) \/ ReadRefuses(j)
                            \/ AddTask(j) \/ Enqueue(j) \/ HandOverFails(j)
                            \/ StartTask(j) \/ RegisterRun(j)
         \/ \E w \in Workers : KillWorker(w) \/ \E j \in Jobs : WorkerTakes(w, j)
         \/ \E a \in Apis : KillApi(a)
         \/ RedisDown \/ RedisUp \/ UNCHANGED vars
  PROVE  RowsOK' /\ (Honest => Honest')
<1> DEFINE Moved(i) == \/ pc'[i] = pc[i]
                       \/ pc[i] \in Early /\ pc'[i] \in Early
                       \/ pc[i] \in Live /\ pc'[i] \in Live \union {"dead"}
                       \/ pc[i] \in Early /\ pc'[i] = "dead"
<1>0. TypeOK /\ RowsOK /\ HandsHold
  BY DEF JInv
<1>a. pc \in [Jobs -> Places]
  BY <1>0 DEF TypeOK
<1>1. ASSUME NEW j \in Jobs,
             CheckStorage(j) \/ CheckJobs(j) \/ ReadRefuses(j) \/ AddTask(j)
               \/ Enqueue(j) \/ HandOverFails(j) \/ StartTask(j) \/ RegisterRun(j)
      PROVE  row' = row /\ told' = told /\ aged' = aged /\ \A i \in Jobs : Moved(i)
  BY <1>a, <1>1 DEF CheckStorage, CheckJobs, ReadRefuses, AddTask, Enqueue,
                    HandOverFails, StartTask, RegisterRun, Goto, Early, Live,
                    Pending, Pipeline
<1>2. ASSUME NEW w \in Workers, NEW j \in Jobs, WorkerTakes(w, j)
      PROVE  row' = row /\ told' = told /\ aged' = aged /\ \A i \in Jobs : Moved(i)
  BY <1>a, <1>2 DEF WorkerTakes, Goto, Live, Pending, Pipeline
<1>3. ASSUME NEW w \in Workers, KillWorker(w)
      PROVE  row' = row /\ told' = told /\ aged' = aged /\ \A i \in Jobs : Moved(i)
  <2>1. hands[w] \in Jobs /\ pc[hands[w]] \in Live
    BY <1>0, <1>3 DEF KillWorker, HandsHold, TypeOK, Live
  <2> QED
    BY <1>a, <1>3, <2>1 DEF KillWorker, Leave, Goto
<1>4. ASSUME NEW a \in Apis, KillApi(a)
      PROVE  row' = row /\ told' = told /\ aged' = aged /\ \A i \in Jobs : Moved(i)
  BY <1>a, <1>4 DEF KillApi, InProcess, Request, Early, Live, Pending
<1>5. CASE RedisDown \/ RedisUp \/ UNCHANGED vars
  <2>1. row' = row /\ told' = told /\ aged' = aged /\ \A i \in Jobs : Moved(i)
    BY <1>a, <1>5 DEF RedisDown, RedisUp, vars, Live, Pending
  <2> QED
    BY <1>0, <2>1, RowsKept
<1> QED
  BY <1>0, <1>1, <1>2, <1>3, <1>4, <1>5, RowsKept

\* The rows of a step of a pipeline, or of the request that makes the first.
LEMMA RowStep ==
  ASSUME JInv, NEW j \in Jobs,
         CreateJob(j) \/ AppendStep(j) \/ CompleteJob(j) \/ FailJob(j)
  PROVE  RowsOK' /\ (Honest => Honest')
<1>0. TypeOK /\ RowsOK
  BY DEF JInv
<1>a. pc \in [Jobs -> Places] /\ row \in [Jobs -> Row]
  BY <1>0 DEF TypeOK
<1>1. /\ told' = told /\ aged' = aged
      /\ pc[j] \in Live \union {"reading"}
      /\ pc[j] \notin Live => pc[j] = "reading" /\ CreateJob(j)
  BY DEF CreateJob, AppendStep, CompleteJob, FailJob, Live, Pipeline
<1>2. \A i \in Jobs \ {j} : row'[i] = row[i] /\ pc'[i] = pc[i]
  BY <1>a DEF CreateJob, AppendStep, CompleteJob, FailJob, Leave, Goto
<1>3. pc[j] \in Live => row[j].state # "absent"
  BY <1>0 DEF RowsOK, LiveHasRow, Active
<1>4. CASE CreateJob(j)
  <2>1. pc'[j] \in Live /\ row'[j].state \in Active /\ row'[j].error = "none"
    BY <1>a, <1>4 DEF CreateJob, Goto, Live, Active
  <2> QED
    BY <1>0, <1>1, <1>2, <2>1, RowsChanged, HonestChanged
<1>5. CASE AppendStep(j)
  <2>1. /\ pc'[j] \in Live /\ pc[j] \in Live
        /\ row'[j].state = "running" /\ row'[j].error = row[j].error
    BY <1>a, <1>3, <1>5 DEF AppendStep, Goto, Live, Pipeline, Row
  <2>2. Honest => row[j].error = "none"
    BY <2>1 DEF Honest, LiveIsActive
  <2> QED
    BY <1>0, <1>1, <1>2, <2>1, <2>2, RowsChanged, HonestChanged DEF Active
<1>6. CASE CompleteJob(j)
  <2>1. /\ pc'[j] = "ended" /\ pc[j] \in Live
        /\ row'[j].state = "completed" /\ row'[j].error = row[j].error
    BY <1>a, <1>3, <1>6 DEF CompleteJob, Leave, Goto, Live, Pipeline, Row
  <2>2. Honest => row[j].error = "none"
    BY <2>1 DEF Honest, LiveIsActive
  <2>3. "ended" \notin Live
    BY DEF Live, Pending, Pipeline
  <2> QED
    BY <1>0, <1>1, <1>2, <2>1, <2>2, <2>3, RowsChanged, HonestChanged DEF Final
<1>7. CASE FailJob(j)
  <2>1. /\ pc'[j] = "ended" /\ pc[j] \in Live
        /\ row'[j].state = "failed" /\ row'[j].error = "pipeline"
    BY <1>a, <1>3, <1>7 DEF FailJob, Leave, Goto, Live, Row
  <2>2. "ended" \notin Live
    BY DEF Live, Pending, Pipeline
  <2> QED
    BY <1>0, <1>1, <1>2, <2>1, <2>2, RowsChanged, HonestChanged DEF Final
<1> QED
  BY <1>4, <1>5, <1>6, <1>7

\* An outage counts as a fallback once a process may have started since, and
\* nothing ends that.
LEMMA DegradedStays ==
  ASSUME TypeOK, apiKills' \in {apiKills, apiKills + 1},
         outages' \in {outages, outages + 1}
  PROVE  NoFallback' => NoFallback
  BY JobsAssumption DEF TypeOK, NoFallback

LEMMA FallbackKept ==
  ASSUME UNCHANGED faults
  PROVE  NoFallback' = NoFallback
  BY DEF NoFallback, faults

LEMMA FaultsGrow ==
  ASSUME [Next]_vars
  PROVE  apiKills' \in {apiKills, apiKills + 1} /\ outages' \in {outages, outages + 1}
<1>1. ASSUME NEW j \in Jobs, CheckStorage(j) \/ CheckJobs(j) \/ ReadRefuses(j)
                               \/ CreateJob(j) \/ AddTask(j) \/ Enqueue(j)
                               \/ Poll(j) \/ Age(j) \/ StartTask(j)
      PROVE  UNCHANGED faults
  BY <1>1 DEF CheckStorage, CheckJobs, ReadRefuses, CreateJob, AddTask, Enqueue,
              Poll, Age, StartTask
<1>2. ASSUME NEW j \in Jobs, AppendStep(j) \/ Finish(j)
      PROVE  UNCHANGED faults
  BY <1>2 DEF AppendStep, Finish, RegisterRun, CompleteJob, FailJob
<1>3. ASSUME NEW j \in Jobs, HandOverFails(j)
      PROVE  apiKills' = apiKills /\ outages' \in {outages, outages + 1}
  BY <1>3 DEF HandOverFails
<1>4. ASSUME NEW w \in Workers, KillWorker(w) \/ \E j \in Jobs : WorkerTakes(w, j)
      PROVE  apiKills' = apiKills /\ outages' = outages
  BY <1>4 DEF KillWorker, WorkerTakes, faults
<1>5. ASSUME NEW a \in Apis, StartApi(a) \/ KillApi(a)
      PROVE  apiKills' \in {apiKills, apiKills + 1} /\ outages' = outages
  BY <1>5 DEF StartApi, KillApi, faults
<1>6. CASE RedisDown \/ RedisUp \/ UNCHANGED vars
  BY <1>6 DEF RedisDown, RedisUp, vars, faults
<1> QED
  BY <1>1, <1>2, <1>3, <1>4, <1>5, <1>6 DEF Next, Handle, faults

LEMMA SteadyBefore ==
  ASSUME TypeOK, [Next]_vars, Steady'
  PROVE  Steady
<1>1. CASE OneProcess
  BY <1>1 DEF Steady
<1>2. CASE NoFallback'
  BY <1>2, FaultsGrow, DegradedStays DEF Steady
<1> QED
  BY <1>1, <1>2 DEF Steady, OneProcess

\* The heart of the argument: who recovers the active jobs on a steady
\* deployment, a single process or the first start while Redis is away, finds
\* nothing under way.
LEMMA RecoveryFindsNothing ==
  ASSUME SoundDeployment, JInv, Steady, NEW a \in Apis, api[a] = "down",
         QueueOf(a) = "inline"
  PROVE  \A j \in Jobs : pc[j] \notin Live
<1>1. CASE OneProcess
  BY <1>1 DEF JInv, ProcessesOK, SingleHoldsAll, Live, Request, Pending
<1>2. CASE ~OneProcess
  <2>1. NoFallback /\ ~redis
    BY <1>2 DEF Steady, SoundDeployment, Queued, QueueOf
  <2>2. apiKills = 0 /\ Cardinality(Apis) = 1
    BY <2>1 DEF JInv, ProcessesOK, RedisIsUp, NoFallback
  <2>3. PICK b : Apis = {b}
    BY <2>2, FS_Singleton, JobsAssumption
  <2>4. \A j \in Jobs : server[j] = a
    BY <2>3 DEF JInv, TypeOK
  <2> QED
    BY <2>2, <2>4 DEF JInv, ProcessesOK, FirstStart, Live, Pending, Pipeline
<1> QED
  BY <1>1, <1>2

\* What a start does to the rows: old ones go, active ones may be failed.
LEMMA StartRows ==
  ASSUME JInv, NEW a \in Apis, StartApi(a)
  PROVE  /\ RowsOK'
         /\ (QueueOf(a) = "inline" => \A j \in Jobs : pc[j] \notin Live)
              => (Honest => Honest')
<1>0. TypeOK /\ RowsOK
  BY DEF JInv
<1>a. pc \in [Jobs -> Places] /\ row \in [Jobs -> Row]
  BY <1>0 DEF TypeOK
<1>1. /\ pc' = pc /\ told' = told /\ aged' = {}
      /\ \A j \in Jobs : \/ row'[j] = NoRow /\ j \in aged
                         \/ row'[j] = row[j]
                         \/ /\ row[j].state \in Active /\ QueueOf(a) = "inline"
                            /\ row'[j] = [state |-> "failed", error |-> "interrupted"]
  BY <1>a DEF StartApi, Recovered
<1>2. EarlyHasNoRow'
  BY <1>0, <1>1 DEF RowsOK, EarlyHasNoRow, NoRow, Active
<1>3. LiveHasRow'
  BY <1>0, <1>1 DEF RowsOK, LiveHasRow, AgedIsAtRest, Live, Pending, Pipeline
<1>4. EndedIsFinal'
  BY <1>0, <1>1 DEF RowsOK, EndedIsFinal, NoRow, Active
<1>5. AgedIsAtRest'
  BY <1>1 DEF AgedIsAtRest
<1>6. ASSUME QueueOf(a) = "inline" => \A j \in Jobs : pc[j] \notin Live, Honest
      PROVE  Honest'
  <2>1. \A j \in Jobs : row'[j].error = "interrupted" => pc[j] = "dead"
    <3> SUFFICES ASSUME NEW j \in Jobs, row'[j].error = "interrupted",
                        row'[j] # row[j]
                 PROVE  pc[j] = "dead"
      BY <1>6 DEF Honest, DeadWhenInterrupted
    <3>1. row[j].state \in Active /\ QueueOf(a) = "inline"
      BY <1>1 DEF NoRow
    <3>2. pc[j] \notin Early \union {"ended"} \union Live
      BY <1>0, <1>6, <3>1 DEF RowsOK, EarlyHasNoRow, EndedIsFinal, NoRow, Active
    <3> QED
      BY <1>a, <3>2 DEF Places, Early, Live, Request
  <2>2. LiveIsActive'
    BY <1>0, <1>1, <1>6
       DEF RowsOK, Honest, LiveIsActive, AgedIsAtRest, Live, Pending, Pipeline
  <2>3. AnswerStands'
    BY <1>0, <1>1, <1>6 DEF Honest, AnswerStands, TypeOK, NoRow, Active, Final
  <2> QED
    BY <1>1, <2>1, <2>2, <2>3 DEF Honest, DeadWhenInterrupted
<1> QED
  BY <1>2, <1>3, <1>4, <1>5, <1>6 DEF RowsOK

\* A poll and the passing of time.
LEMMA WatchStep ==
  ASSUME JInv, NEW j \in Jobs, Poll(j) \/ Age(j)
  PROVE  RowsOK' /\ (Honest => Honest')
<1>0. TypeOK /\ RowsOK
  BY DEF JInv
<1>1. row' = row /\ pc' = pc
  BY DEF Poll, Age
<1>2. CASE Poll(j)
  <2>1. pc[j] \notin Early
    BY <1>0, <1>2 DEF Poll, RowsOK, EarlyHasNoRow, NoRow, Final
  <2> QED
    BY <1>0, <1>1, <1>2, <2>1
       DEF Poll, TypeOK, RowsOK, Honest, EarlyHasNoRow, LiveHasRow, EndedIsFinal,
           AgedIsAtRest, LiveIsActive, DeadWhenInterrupted, AnswerStands
<1>3. CASE Age(j)
  BY <1>0, <1>1, <1>3
     DEF Age, RowsOK, Honest, EarlyHasNoRow, LiveHasRow, EndedIsFinal,
         AgedIsAtRest, LiveIsActive, DeadWhenInterrupted, AnswerStands
<1> QED
  BY <1>2, <1>3

LEMMA StepRows ==
  SoundDeployment /\ JInv /\ [Next]_vars => RowsOK' /\ (Steady' => Honest')
<1> SUFFICES ASSUME SoundDeployment, JInv, [Next]_vars
             PROVE  RowsOK' /\ (Steady' => Honest')
  OBVIOUS
<1>0. (Steady' => Steady) /\ (Steady => Honest)
  BY SteadyBefore DEF JInv
<1>1. ASSUME NEW j \in Jobs, CreateJob(j) \/ AppendStep(j) \/ CompleteJob(j)
                               \/ FailJob(j)
      PROVE  RowsOK' /\ (Honest => Honest')
  BY <1>1, RowStep
<1>2. ASSUME NEW j \in Jobs, Poll(j) \/ Age(j)
      PROVE  RowsOK' /\ (Honest => Honest')
  BY <1>2, WatchStep
<1>3. ASSUME NEW a \in Apis, StartApi(a)
      PROVE  RowsOK' /\ (Steady => (Honest => Honest'))
  BY <1>3, StartRows, RecoveryFindsNothing DEF StartApi
<1> QED
  BY <1>0, <1>1, <1>2, <1>3, PlaceStep DEF Next, Handle, Finish

LEMMA StepJInv == SoundDeployment /\ JInv /\ [Next]_vars => JInv'
  BY StepType, StepHands, StepProcesses, StepRows DEF JInv

\* On a sound deployment recovery at startup fails only jobs that died, never
\* one that waits in the queue or that a process is still working on, as long
\* as no process fell back to its own queue beside another one.
THEOREM RecoveryIsSound == SoundDeployment => (Spec => []InterruptedIsDead)
<1> SUFFICES ASSUME SoundDeployment
             PROVE  Spec => []InterruptedIsDead
  OBVIOUS
<1>1. JInv => InterruptedIsDead
  BY DEF JInv, Steady, Honest, InterruptedIsDead, DeadWhenInterrupted
<1>2. JInv /\ [Next]_vars => JInv'
  BY StepJInv
<1> QED
  BY InitJInv, <1>1, <1>2, PTL DEF Spec

\* On a sound deployment the final state a client was told is never taken
\* back, whatever is killed and restarted afterwards, under the same condition.
THEOREM AnswersAreFinal == SoundDeployment => (Spec => []ToldIsFinal)
<1> SUFFICES ASSUME SoundDeployment
             PROVE  Spec => []ToldIsFinal
  OBVIOUS
<1>1. JInv => ToldIsFinal
  BY DEF JInv, Steady, Honest, ToldIsFinal, AnswerStands
<1>2. JInv /\ [Next]_vars => JInv'
  BY StepJInv
<1> QED
  BY InitJInv, <1>1, <1>2, PTL DEF Spec

-----------------------------------------------------------------------------
(* The implementation of the contract                                       *)

LEMMA ViewKept ==
  ASSUME TypeOK, row' = row,
         \A j \in Jobs : pc'[j] \in Early <=> pc[j] \in Early
  PROVE  ClientState' = ClientState
  BY DEF ClientState, ClientView

LEMMA ViewMoves ==
  ASSUME TypeOK, NEW j \in Jobs, NEW there,
         \A i \in Jobs \ {j} : row'[i] = row[i] /\ pc'[i] = pc[i],
         ClientView(row'[j], pc'[j]) = there
  PROVE  Contract!Move(j, there)
<1>1. \A i \in Jobs : ClientState'[i] = IF i = j THEN there ELSE ClientState[i]
  BY DEF ClientState
<1> QED
  BY <1>1 DEF Contract!Move, ClientState

LEMMA UnderWayView ==
  ASSUME NEW j \in Jobs, row[j].state \in Active
  PROVE  ClientState[j] \in Contract!UnderWay
  BY DEF ClientState, ClientView, Active, Contract!UnderWay

\* A job something is at work on is under way for its client, or was interrupted
\* by a process that fell back.
LEMMA LiveView ==
  ASSUME JInv, NEW j \in Jobs, pc[j] \in Live
  PROVE  \/ ClientState[j] \in Contract!UnderWay
         \/ ClientState[j] = "interrupted" /\ ~NoFallback
<1>1. CASE row[j].state \in Active
  BY <1>1, UnderWayView
<1>2. CASE row[j].state = "failed" /\ row[j].error = "interrupted"
  <2>1. ~Honest
    BY <1>2 DEF Honest, LiveIsActive
  <2>2. ClientState[j] = "interrupted"
    BY <1>2 DEF ClientState, ClientView
  <2> QED
    BY <2>1, <2>2 DEF JInv, Steady
<1> QED
  BY <1>1, <1>2 DEF JInv, RowsOK, LiveHasRow

LEMMA InitContract == Init => Contract!Init
  BY DEF Init, Contract!Init, ClientState, ClientView, NoRow, Early, NoFallback

\* Each step of the implementation is a step of the contract, or none of its
\* business.
LEMMA StepContract ==
  JInv /\ LInv /\ [Next]_vars => [Contract!Next]_(Contract!vars)
<1> SUFFICES ASSUME JInv, LInv, [Next]_vars
             PROVE  [Contract!Next]_(Contract!vars)
  OBVIOUS
<1>0. TypeOK /\ RowsOK
  BY DEF JInv
<1>a. pc \in [Jobs -> Places] /\ row \in [Jobs -> Row]
  BY <1>0 DEF TypeOK
<1>1. ASSUME NEW j \in Jobs,
             CheckStorage(j) \/ CheckJobs(j) \/ ReadRefuses(j) \/ AddTask(j)
               \/ Enqueue(j) \/ StartTask(j)
      PROVE  UNCHANGED Contract!vars
  <2>1. row' = row /\ UNCHANGED <<told, runs, faults>>
    BY <1>1 DEF CheckStorage, CheckJobs, ReadRefuses, AddTask, Enqueue, StartTask
  <2>2. \A i \in Jobs : pc'[i] \in Early <=> pc[i] \in Early
    BY <1>a, <1>1 DEF CheckStorage, CheckJobs, ReadRefuses, AddTask, Enqueue,
                      StartTask, Goto, Early
  <2> QED
    BY <1>0, <2>1, <2>2, ViewKept, FallbackKept DEF Contract!vars
<1>2. ASSUME NEW j \in Jobs, HandOverFails(j)
      PROVE  [Contract!Next]_(Contract!vars)
  <2>1. ClientState' = ClientState
    BY <1>0, <1>a, <1>2, ViewKept DEF HandOverFails, Goto, Early
  <2>2. NoFallback' => NoFallback
    BY <1>0, <1>2, DegradedStays DEF HandOverFails
  <2>3. NoFallback \in BOOLEAN /\ NoFallback' \in BOOLEAN
    BY DEF NoFallback
  <2> QED
    BY <1>2, <2>1, <2>2, <2>3
       DEF HandOverFails, Contract!Next, Contract!Degrade, Contract!vars
<1>3. ASSUME NEW j \in Jobs, CreateJob(j)
      PROVE  Contract!Accept(j)
  <2>1. row[j] = NoRow
    BY <1>0, <1>3 DEF CreateJob, RowsOK, EarlyHasNoRow, Early
  <2>2. ClientState[j] = "new"
    BY <1>3, <2>1 DEF CreateJob, ClientState, ClientView, NoRow, Early
  <2>3. Contract!Move(j, "queued")
    BY <1>0, <1>a, <1>3, ViewMoves DEF CreateJob, Goto, ClientView
  <2> QED
    BY <1>3, <2>2, <2>3, FallbackKept DEF CreateJob, Contract!Accept
<1>4. ASSUME NEW j \in Jobs, AppendStep(j)
      PROVE  Contract!Report(j) \/ Contract!Revive(j)
  <2>1. pc[j] \in Live
    BY <1>4 DEF AppendStep, Live, Pipeline
  <2>2. row'[j].state = "running"
    BY <1>0, <1>a, <1>4, <2>1 DEF AppendStep, RowsOK, LiveHasRow, Active
  <2>3. Contract!Move(j, "running")
    BY <1>0, <1>a, <1>4, <2>2, ViewMoves DEF AppendStep, Goto, ClientView
  <2> QED
    BY <1>4, <2>1, <2>3, LiveView, FallbackKept
       DEF AppendStep, Contract!Report, Contract!Revive
<1>5. ASSUME NEW j \in Jobs, RegisterRun(j)
      PROVE  Contract!ListRun(RunOf[j])
  <2>1. ClientState' = ClientState
    BY <1>0, <1>a, <1>5, ViewKept DEF RegisterRun, Goto, Early
  <2> QED
    BY <1>5, <2>1, FallbackKept DEF RegisterRun, Contract!ListRun
<1>6. ASSUME NEW j \in Jobs, CompleteJob(j)
      PROVE  Contract!Complete(j) \/ Contract!Revive(j)
  <2>1. pc[j] \in Live
    BY <1>6 DEF CompleteJob, Live, Pipeline
  <2>2. row'[j].state = "completed"
    BY <1>0, <1>a, <1>6, <2>1 DEF CompleteJob, RowsOK, LiveHasRow, Active
  <2>3. \A i \in Jobs \ {j} : row'[i] = row[i] /\ pc'[i] = pc[i]
    BY <1>a, <1>6 DEF CompleteJob, Leave, Goto
  <2>4. Contract!Move(j, "completed")
    BY <1>0, <2>2, <2>3, ViewMoves DEF ClientView
  <2>5. RunOf[j] \in runs
    BY <1>6 DEF CompleteJob, LInv, RegisteredIsListed
  <2> QED
    BY <1>6, <2>1, <2>4, <2>5, LiveView, FallbackKept
       DEF CompleteJob, Contract!Complete, Contract!Revive
<1>7. ASSUME NEW j \in Jobs, FailJob(j)
      PROVE  Contract!Fail(j) \/ Contract!Revive(j)
  <2>1. pc[j] \in Live
    BY <1>7 DEF FailJob, Live
  <2>2. row'[j].state = "failed" /\ row'[j].error = "pipeline"
    BY <1>0, <1>a, <1>7, <2>1 DEF FailJob, RowsOK, LiveHasRow, Active
  <2>3. \A i \in Jobs \ {j} : row'[i] = row[i] /\ pc'[i] = pc[i]
    BY <1>a, <1>7 DEF FailJob, Leave, Goto
  <2>4. Contract!Move(j, "failed")
    BY <1>0, <2>2, <2>3, ViewMoves DEF ClientView
  <2> QED
    BY <1>7, <2>1, <2>4, LiveView, FallbackKept
       DEF FailJob, Contract!Fail, Contract!Revive
<1>8. ASSUME NEW j \in Jobs, Poll(j)
      PROVE  Contract!Tell(j)
  <2>1. ClientState' = ClientState
    BY <1>0, <1>8, ViewKept DEF Poll
  <2>2. /\ ClientState[j] \in Contract!Over
        /\ (ClientState[j] = "completed") <=> (row[j].state = "completed")
        /\ row[j].state \in {"completed", "failed"}
    BY <1>8 DEF Poll, ClientState, ClientView, Final, Contract!Over
  <2>3. row[j].state = IF ClientState[j] = "completed" THEN "completed" ELSE "failed"
    BY <2>2
  <2>4. NoFallback' = NoFallback /\ runs' = runs
    BY <1>8, FallbackKept DEF Poll
  <2>5. /\ told[j] = "none"
        /\ told' = [told EXCEPT ![j] =
                      IF ClientState[j] = "completed" THEN "completed" ELSE "failed"]
    BY <1>8, <2>3, Zenon DEF Poll
  <2> QED
    BY <2>1, <2>2, <2>4, <2>5, Zenon DEF Contract!Tell
<1>9. ASSUME NEW j \in Jobs, Age(j)
      PROVE  UNCHANGED Contract!vars
  BY <1>0, <1>9, ViewKept, FallbackKept DEF Age, Contract!vars
<1>10. ASSUME NEW w \in Workers, NEW j \in Jobs, WorkerTakes(w, j)
       PROVE  UNCHANGED Contract!vars
  <2>1. \A i \in Jobs : pc'[i] \in Early <=> pc[i] \in Early
    BY <1>a, <1>10 DEF WorkerTakes, Goto, Early
  <2> QED
    BY <1>0, <1>10, <2>1, ViewKept, FallbackKept DEF WorkerTakes, Contract!vars
<1>11. ASSUME NEW w \in Workers, KillWorker(w)
       PROVE  UNCHANGED Contract!vars
  <2>1. hands[w] \in Jobs /\ pc[hands[w]] \notin Early
    BY <1>0, <1>11 DEF KillWorker, JInv, HandsHold, TypeOK, Pipeline, Early
  <2>2. \A i \in Jobs : pc'[i] \in Early <=> pc[i] \in Early
    BY <1>a, <1>11, <2>1 DEF KillWorker, Leave, Goto, Early
  <2>3. NoFallback' = NoFallback
    BY <1>11 DEF KillWorker, NoFallback
  <2> QED
    BY <1>0, <1>11, <2>2, <2>3, ViewKept DEF KillWorker, Contract!vars
<1>12. ASSUME NEW a \in Apis, StartApi(a) \/ KillApi(a)
       PROVE  Contract!Restart
  <2> DEFINE lost == {j \in Jobs : /\ row'[j].state = "failed"
                                   /\ row'[j].error = "interrupted"
                                   /\ row[j].state \in Active}
             gone == {j \in Jobs : row'[j].state = "absent" /\ pc'[j] \notin Early}
  <2>1. \A j \in Jobs :
          \/ row'[j] = NoRow /\ pc'[j] = pc[j] /\ j \in aged
          \/ row'[j] = row[j] /\ pc'[j] = pc[j]
          \/ row'[j] = row[j] /\ pc'[j] = "dead"
          \/ /\ row[j].state \in Active /\ pc'[j] = pc[j]
             /\ row'[j] = [state |-> "failed", error |-> "interrupted"]
    BY <1>a, <1>12 DEF StartApi, Recovered, KillApi
  <2>2. \A j \in aged : pc[j] \notin Early
    BY <1>0 DEF RowsOK, AgedIsAtRest, Early
  <2>3. \A j \in Jobs : pc[j] \in Early => row[j].state = "absent"
    BY <1>0 DEF RowsOK, EarlyHasNoRow, NoRow
  <2>4. \A j \in Jobs :
          ClientView(row'[j], pc'[j]) =
            IF j \in gone THEN "gone"
            ELSE IF j \in lost THEN "interrupted" ELSE ClientView(row[j], pc[j])
    BY <1>a, <2>1, <2>2, <2>3 DEF ClientView, NoRow, Active, Early, Row
  <2>5. ClientState' = [j \in Jobs |-> IF j \in gone THEN "gone"
                                       ELSE IF j \in lost THEN "interrupted"
                                       ELSE ClientState[j]]
    BY <2>4 DEF ClientState
  <2>6. lost \in SUBSET {j \in Jobs : ClientState[j] \in Contract!UnderWay}
    BY UnderWayView
  <2>7. gone \in SUBSET Jobs
    OBVIOUS
  <2>8. NoFallback' => NoFallback
    <3>1. apiKills' \in {apiKills, apiKills + 1} /\ outages' \in {outages, outages + 1}
      BY <1>12 DEF StartApi, KillApi, faults
    <3> QED
      BY <1>0, <3>1, DegradedStays
  <2>9. UNCHANGED <<told, runs>>
    BY <1>12 DEF StartApi, KillApi
  <2>10. NoFallback \in BOOLEAN /\ NoFallback' \in BOOLEAN
    BY DEF NoFallback
  <2>11. \E l \in SUBSET {j \in Jobs : ClientState[j] \in Contract!UnderWay},
            g \in SUBSET Jobs :
           ClientState' = [j \in Jobs |-> IF j \in g THEN "gone"
                                          ELSE IF j \in l THEN "interrupted"
                                          ELSE ClientState[j]]
    <3> HIDE DEF lost, gone
    <3> QED
      BY <2>5, <2>6, <2>7
  <2> QED
    BY <2>8, <2>9, <2>10, <2>11 DEF Contract!Restart
<1>13. CASE RedisDown
  <2>1. ClientState' = ClientState
    BY <1>0, <1>a, <1>13, ViewKept DEF RedisDown, Early
  <2>2. NoFallback' => NoFallback
    BY <1>0, <1>13, DegradedStays DEF RedisDown
  <2>3. NoFallback \in BOOLEAN /\ NoFallback' \in BOOLEAN
    BY DEF NoFallback
  <2> QED
    BY <1>13, <2>1, <2>2, <2>3
       DEF RedisDown, Contract!Next, Contract!Degrade, Contract!vars
<1>14. CASE RedisUp \/ UNCHANGED vars
  <2>1. row' = row /\ pc' = pc /\ UNCHANGED <<told, runs, faults>>
    BY <1>14 DEF RedisUp, vars
  <2> QED
    BY <1>0, <2>1, ViewKept, FallbackKept DEF Contract!vars
<1>15. \A j \in Jobs : RunOf[j] \in Runs
  BY JobsAssumption
<1> QED
  BY <1>1, <1>2, <1>3, <1>4, <1>5, <1>6, <1>7, <1>8, <1>9, <1>10, <1>11, <1>12,
     <1>13, <1>14, <1>15 DEF Next, Handle, Finish, Contract!Next

\* On a sound deployment the job table, the processes and the queue implement
\* the contract of JobContract, whatever is killed and restarted and however
\* often Redis goes: once a process fell back to its own queue, the contract's
\* Revive is all that is added.
THEOREM JobsKeepContract == SoundDeployment => (Spec => KeepsContract)
<1> SUFFICES ASSUME SoundDeployment
             PROVE  Spec => KeepsContract
  OBVIOUS
<1>1. Init => LInv
  BY InitType DEF Init, LInv, RegisteredIsListed, CompletedIsListed, NoRow
<1>2. JInv /\ LInv /\ [Next]_vars => JInv' /\ LInv'
  BY StepJInv, StepListed
<1>3. JInv /\ LInv /\ [Next]_vars => [Contract!Next]_(Contract!vars)
  BY StepContract
<1> QED
  BY InitJInv, InitContract, <1>1, <1>2, <1>3, PTL
     DEF Spec, KeepsContract, Contract!Spec

-----------------------------------------------------------------------------
(* The two limits of an account                                             *)

\* Between the check of the limit and the row; and between the check of the
\* storage quota and the run.
Reading == {j \in Jobs : pc[j] = "reading"}
WillList == {j \in Jobs : pc[j] \in {"checked", "reading", "created", "working", "stepped"}
                                      \union Pending}

\* At most the burst is admitted and not yet counted.
BurstHolds == IsFiniteSet(Uncounted) /\ Cardinality(Uncounted) <= MaxBurst

\* What was let in by the first limit becomes an active job, and by the second
\* a run: the sums only grow where the limit is looked at.
JobsHold ==
  /\ IsFiniteSet(Counted)
  /\ Cardinality(Counted) + Cardinality(Reading) < MaxJobs + MaxBurst
RunsHold ==
  Cardinality(runs) + Cardinality(WillList)
    <= MaxRuns + MaxJobs + 2 * (MaxBurst - 1)

BInv ==
  /\ BurstHolds /\ IsFiniteSet(runs)
  /\ Steady => JobsHold /\ RunsHold

\* Counting sets that gain or lose at most one member.
LEMMA Subset ==
  ASSUME NEW S, IsFiniteSet(S), NEW T, T \subseteq S
  PROVE  /\ IsFiniteSet(T) /\ {Cardinality(S), Cardinality(T)} \subseteq Nat
         /\ Cardinality(T) <= Cardinality(S)
  BY FS_Subset, FS_CardinalityType

LEMMA Gains ==
  ASSUME NEW S, IsFiniteSet(S), NEW x, NEW T, T \subseteq S \union {x}
  PROVE  /\ IsFiniteSet(T) /\ {Cardinality(S), Cardinality(T)} \subseteq Nat
         /\ Cardinality(T) <= Cardinality(S) + 1
<1>1. /\ IsFiniteSet(S \union {x}) /\ Cardinality(S) \in Nat
      /\ Cardinality(S \union {x}) <= Cardinality(S) + 1
  <2>1. Cardinality(S) \in Nat
    BY FS_CardinalityType
  <2>2. /\ IsFiniteSet(S \union {x})
        /\ \/ Cardinality(S \union {x}) = Cardinality(S)
           \/ Cardinality(S \union {x}) = Cardinality(S) + 1
    BY FS_AddElement
  <2> QED
    BY <2>1, <2>2
<1> QED
  BY <1>1, Subset

LEMMA Loses ==
  ASSUME NEW S, IsFiniteSet(S), NEW x \in S, NEW T, T \subseteq S \ {x}
  PROVE  /\ IsFiniteSet(T) /\ {Cardinality(S), Cardinality(T)} \subseteq Nat
         /\ Cardinality(T) + 1 <= Cardinality(S)
<1>1. /\ IsFiniteSet(S \ {x}) /\ Cardinality(S) \in Nat
      /\ Cardinality(S \ {x}) = Cardinality(S) - 1
  <2>1. Cardinality(S) \in Nat
    BY FS_CardinalityType
  <2>2. IsFiniteSet(S \ {x}) /\ Cardinality(S \ {x}) = Cardinality(S) - 1
    BY FS_RemoveElement
  <2> QED
    BY <2>1, <2>2
<1> QED
  BY <1>1, Subset

LEMMA Unites ==
  ASSUME NEW S, IsFiniteSet(S), NEW T, IsFiniteSet(T)
  PROVE  /\ IsFiniteSet(S \union T)
         /\ {Cardinality(S), Cardinality(T), Cardinality(S \union T)} \subseteq Nat
         /\ Cardinality(S \union T) <= Cardinality(S) + Cardinality(T)
<1>1. IsFiniteSet(S \union T) /\ IsFiniteSet(S \intersect T)
  BY FS_Union, FS_Subset
<1>2. Cardinality(S \union T)
        = Cardinality(S) + Cardinality(T) - Cardinality(S \intersect T)
  BY FS_Union
<1>3. /\ Cardinality(S) \in Nat /\ Cardinality(T) \in Nat
      /\ Cardinality(S \intersect T) \in Nat /\ Cardinality(S \union T) \in Nat
  BY <1>1, FS_CardinalityType
<1> QED
  BY <1>1, <1>2, <1>3

LEMMA BoundTypes ==
  /\ MaxJobs \in Nat /\ MaxJobs >= 1
  /\ MaxRuns \in Nat /\ MaxRuns >= 1
  /\ MaxBurst \in Nat /\ MaxBurst >= 1
  BY JobsAssumption

\* Who will list a run holds a place in the burst or an active row.
LEMMA WillListCounted ==
  ASSUME JInv, Steady
  PROVE  WillList \subseteq Uncounted \union Counted
  BY DEF JInv, Honest, LiveIsActive, WillList, Uncounted, Counted, Live, Pipeline

LEMMA AllFinite ==
  ASSUME JInv, Steady, BInv
  PROVE  /\ IsFiniteSet(Counted) /\ Cardinality(Counted) \in Nat
         /\ IsFiniteSet(Uncounted) /\ Cardinality(Uncounted) \in Nat
         /\ IsFiniteSet(Reading) /\ Cardinality(Reading) \in Nat
         /\ Cardinality(Reading) <= Cardinality(Uncounted)
         /\ IsFiniteSet(WillList) /\ Cardinality(WillList) \in Nat
         /\ Cardinality(WillList) <= Cardinality(Uncounted) + Cardinality(Counted)
         /\ IsFiniteSet(runs) /\ Cardinality(runs) \in Nat
<1>1. IsFiniteSet(Counted) /\ IsFiniteSet(Uncounted) /\ IsFiniteSet(runs)
  BY DEF BInv, BurstHolds, JobsHold
<1>2. Reading \subseteq Uncounted
  BY DEF Reading, Uncounted
<1>3. /\ IsFiniteSet(Uncounted \union Counted)
      /\ Cardinality(Uncounted \union Counted) <= Cardinality(Uncounted) + Cardinality(Counted)
      /\ Cardinality(Uncounted) \in Nat /\ Cardinality(Counted) \in Nat
      /\ Cardinality(Uncounted \union Counted) \in Nat
  BY <1>1, Unites
<1>4. /\ IsFiniteSet(WillList) /\ Cardinality(WillList) \in Nat
      /\ Cardinality(WillList) <= Cardinality(Uncounted \union Counted)
  BY <1>3, WillListCounted, Subset
<1>5. /\ IsFiniteSet(Reading) /\ Cardinality(Reading) \in Nat
      /\ Cardinality(Reading) <= Cardinality(Uncounted)
  BY <1>1, <1>2, Subset
<1>6. Cardinality(Uncounted) + Cardinality(Counted) \in Nat
  BY <1>3
<1> QED
  BY <1>1, <1>3, <1>4, <1>5, FS_CardinalityType

\* Steps that let nobody in and list nothing.
LEMMA BoundsKept ==
  ASSUME JInv, BInv, Steady' => Steady, runs' = runs,
         Uncounted' \subseteq Uncounted,
         Steady => Counted' \subseteq Counted,
         Reading' \subseteq Reading, WillList' \subseteq WillList
  PROVE  BInv'
<1>1. BurstHolds' /\ IsFiniteSet(runs)'
  BY Subset, BoundTypes DEF BInv, BurstHolds
<1>2. ASSUME Steady'
      PROVE  JobsHold' /\ RunsHold'
  <2>1. Steady /\ Counted' \subseteq Counted
    BY <1>2
  <2>2. /\ IsFiniteSet(Counted') /\ Cardinality(Counted') <= Cardinality(Counted)
        /\ Cardinality(Counted') \in Nat
    BY <2>1, AllFinite, Subset
  <2>3. /\ Cardinality(Reading') <= Cardinality(Reading)
        /\ Cardinality(Reading') \in Nat
    BY <2>1, AllFinite, Subset
  <2>4. /\ Cardinality(WillList') <= Cardinality(WillList)
        /\ Cardinality(WillList') \in Nat
    BY <2>1, AllFinite, Subset
  <2>5. JobsHold'
    BY <2>1, <2>2, <2>3, AllFinite, BoundTypes DEF BInv, JobsHold
  <2>6. RunsHold'
    BY <2>1, <2>4, AllFinite, BoundTypes DEF BInv, RunsHold
  <2> QED
    BY <2>5, <2>6
<1> QED
  BY <1>1, <1>2 DEF BInv

\* The storage quota is looked at: the burst grows, within its bound, and with it
\* what may still be listed.
LEMMA StorageBounds ==
  ASSUME JInv, BInv, NEW j \in Jobs, CheckStorage(j), Steady' => Steady
  PROVE  BInv'
<1>a. pc \in [Jobs -> Places]
  BY DEF JInv, TypeOK
<1>1. /\ Uncounted' \subseteq Uncounted \union {j}
      /\ Reading' \subseteq Reading /\ Counted' = Counted /\ runs' = runs
  BY <1>a DEF CheckStorage, Goto, Uncounted, Reading, Counted
<1>2. /\ IsFiniteSet(Uncounted') /\ Cardinality(Uncounted') \in Nat
      /\ Cardinality(Uncounted') <= MaxBurst
  <2>1. IsFiniteSet(Uncounted) /\ Cardinality(Uncounted) < MaxBurst
    BY DEF BInv, BurstHolds, CheckStorage
  <2>2. /\ IsFiniteSet(Uncounted') /\ Cardinality(Uncounted') \in Nat
        /\ Cardinality(Uncounted) \in Nat
        /\ Cardinality(Uncounted') <= Cardinality(Uncounted) + 1
    BY <1>1, <2>1, Gains
  <2> QED
    BY <2>1, <2>2, BoundTypes
<1>3. ASSUME Steady'
      PROVE  JobsHold' /\ RunsHold'
  <2>1. Steady
    BY <1>3
  <2>2. Cardinality(Reading') <= Cardinality(Reading) /\ Cardinality(Reading') \in Nat
    BY <1>1, <2>1, AllFinite, Subset
  <2>3. JobsHold'
    BY <1>1, <2>1, <2>2, AllFinite, BoundTypes DEF BInv, JobsHold
  <2>4. CASE Cardinality(runs) < MaxRuns
    <3>1. WillList' \subseteq Uncounted' \union Counted
      BY <1>a, <2>1, WillListCounted
         DEF CheckStorage, Goto, WillList, Uncounted, Pending
    <3>2. /\ IsFiniteSet(Uncounted' \union Counted)
          /\ Cardinality(Uncounted' \union Counted)
               <= Cardinality(Uncounted') + Cardinality(Counted)
      BY <1>2, <2>1, AllFinite, Unites
    <3>3. /\ Cardinality(WillList') <= Cardinality(Uncounted' \union Counted)
          /\ Cardinality(WillList') \in Nat
          /\ Cardinality(Uncounted' \union Counted) \in Nat
      BY <3>1, <3>2, Subset
    <3>4. Cardinality(Counted) < MaxJobs + MaxBurst
      BY <2>1, AllFinite, BoundTypes DEF BInv, JobsHold
    <3> QED
      BY <1>1, <1>2, <2>1, <2>3, <2>4, <3>2, <3>3, <3>4, AllFinite, BoundTypes
         DEF RunsHold
  <2>5. CASE ~(Cardinality(runs) < MaxRuns)
    <3>1. WillList' \subseteq WillList
      BY <1>a, <2>5 DEF CheckStorage, Goto, WillList, Pending
    <3>2. Cardinality(WillList') <= Cardinality(WillList) /\ Cardinality(WillList') \in Nat
      BY <2>1, <3>1, AllFinite, Subset
    <3> QED
      BY <1>1, <2>1, <2>3, <3>2, AllFinite, BoundTypes DEF BInv, RunsHold
  <2> QED
    BY <2>4, <2>5
<1>4. IsFiniteSet(runs')
  BY <1>1 DEF BInv
<1> QED
  BY <1>2, <1>3, <1>4 DEF BInv, BurstHolds

\* The other limit is looked at: fewer than MaxJobs are active, and no more than
\* the burst reads.
LEMMA ConcurrencyBounds ==
  ASSUME JInv, BInv, NEW j \in Jobs, CheckJobs(j), Steady' => Steady
  PROVE  BInv'
<1>a. pc \in [Jobs -> Places]
  BY DEF JInv, TypeOK
<1>1. /\ Uncounted' \subseteq Uncounted /\ WillList' \subseteq WillList
      /\ Counted' = Counted /\ runs' = runs
  BY <1>a DEF CheckJobs, Goto, Uncounted, WillList, Pending, Counted
<1>2. CASE Cardinality(Counted) < MaxJobs
  <2>1. /\ IsFiniteSet(Uncounted') /\ Cardinality(Uncounted') \in Nat
        /\ Cardinality(Uncounted') <= MaxBurst
    <3>1. IsFiniteSet(Uncounted) /\ Cardinality(Uncounted) <= MaxBurst
      BY DEF BInv, BurstHolds
    <3> QED
      BY <1>1, <3>1, Subset, BoundTypes
  <2>2. /\ Cardinality(Reading') <= Cardinality(Uncounted')
        /\ Cardinality(Reading') \in Nat
    <3>1. Reading' \subseteq Uncounted'
      BY DEF Reading, Uncounted
    <3> QED
      BY <2>1, <3>1, Subset
  <2>3. ASSUME Steady'
        PROVE  JobsHold' /\ RunsHold'
    <3>1. Steady
      BY <2>3
    <3>2. Cardinality(WillList') <= Cardinality(WillList) /\ Cardinality(WillList') \in Nat
      BY <1>1, <3>1, AllFinite, Subset
    <3>3. JobsHold'
      BY <1>1, <1>2, <2>1, <2>2, <3>1, AllFinite, BoundTypes DEF BInv, JobsHold
    <3>4. RunsHold'
      BY <1>1, <3>1, <3>2, AllFinite, BoundTypes DEF BInv, RunsHold
    <3> QED
      BY <3>3, <3>4
  <2>4. IsFiniteSet(runs')
    BY <1>1 DEF BInv
  <2> QED
    BY <2>1, <2>3, <2>4 DEF BInv, BurstHolds
<1>3. CASE ~(Cardinality(Counted) < MaxJobs)
  <2>1. Reading' \subseteq Reading
    BY <1>a, <1>3 DEF CheckJobs, Goto, Reading
  <2> QED
    BY <1>1, <2>1, BoundsKept
<1> QED
  BY <1>2, <1>3

\* An upload that was let in gets its row.
LEMMA CreateBounds ==
  ASSUME JInv, BInv, NEW j \in Jobs, CreateJob(j), Steady' => Steady
  PROVE  BInv'
<1>a. pc \in [Jobs -> Places] /\ row \in [Jobs -> Row]
  BY DEF JInv, TypeOK
<1>1. /\ Uncounted' \subseteq Uncounted /\ WillList' \subseteq WillList
      /\ Counted' \subseteq Counted \union {j} /\ j \in Reading
      /\ Reading' \subseteq Reading \ {j} /\ runs' = runs
  BY <1>a DEF CreateJob, Goto, Uncounted, WillList, Counted, Reading
<1>2. IsFiniteSet(Uncounted') /\ Cardinality(Uncounted') <= MaxBurst
  <2>1. IsFiniteSet(Uncounted) /\ Cardinality(Uncounted) <= MaxBurst
    BY DEF BInv, BurstHolds
  <2> QED
    BY <1>1, <2>1, Subset, BoundTypes
<1>3. ASSUME Steady'
      PROVE  JobsHold' /\ RunsHold'
  <2>1. Steady
    BY <1>3
  <2>2. /\ IsFiniteSet(Counted') /\ Cardinality(Counted') \in Nat
        /\ Cardinality(Counted') <= Cardinality(Counted) + 1
    BY <1>1, <2>1, AllFinite, Gains
  <2>3. /\ Cardinality(Reading') + 1 <= Cardinality(Reading)
        /\ Cardinality(Reading') \in Nat
    BY <1>1, <2>1, AllFinite, Loses
  <2>4. Cardinality(WillList') <= Cardinality(WillList) /\ Cardinality(WillList') \in Nat
    BY <1>1, <2>1, AllFinite, Subset
  <2>5. JobsHold'
    BY <2>1, <2>2, <2>3, AllFinite, BoundTypes DEF BInv, JobsHold
  <2>6. RunsHold'
    BY <1>1, <2>1, <2>4, AllFinite, BoundTypes DEF BInv, RunsHold
  <2> QED
    BY <2>5, <2>6
<1>4. IsFiniteSet(runs')
  BY <1>1 DEF BInv
<1> QED
  BY <1>2, <1>3, <1>4 DEF BInv, BurstHolds

\* A pipeline lists its run, and will not list another.
LEMMA RegisterBounds ==
  ASSUME JInv, BInv, NEW j \in Jobs, RegisterRun(j), Steady' => Steady
  PROVE  BInv'
<1>a. pc \in [Jobs -> Places]
  BY DEF JInv, TypeOK
<1>1. /\ Uncounted' = Uncounted /\ Counted' = Counted /\ Reading' = Reading
      /\ runs' \subseteq runs \union {RunOf[j]}
      /\ j \in WillList /\ WillList' \subseteq WillList \ {j}
  BY <1>a DEF RegisterRun, Goto, Uncounted, Counted, Reading, WillList, Pending
<1>2. /\ IsFiniteSet(runs') /\ Cardinality(runs') \in Nat
      /\ Cardinality(runs') <= Cardinality(runs) + 1
  BY <1>1, Gains DEF BInv
<1>3. ASSUME Steady'
      PROVE  JobsHold' /\ RunsHold'
  <2>1. Steady
    BY <1>3
  <2>2. /\ Cardinality(WillList') + 1 <= Cardinality(WillList)
        /\ Cardinality(WillList') \in Nat
    BY <1>1, <2>1, AllFinite, Loses
  <2>3. JobsHold'
    BY <1>1, <2>1 DEF BInv, JobsHold
  <2>4. RunsHold'
    BY <1>2, <2>1, <2>2, AllFinite, BoundTypes DEF BInv, RunsHold
  <2> QED
    BY <2>3, <2>4
<1> QED
  BY <1>1, <1>2, <1>3 DEF BInv, BurstHolds

LEMMA StepBounds ==
  SoundDeployment /\ JInv /\ BInv /\ [Next]_vars => BInv'
<1> SUFFICES ASSUME JInv, BInv, [Next]_vars
             PROVE  BInv'
  OBVIOUS
<1>0. TypeOK /\ HandsHold /\ RowsOK /\ (Steady => Honest)
  BY DEF JInv
<1>a. pc \in [Jobs -> Places] /\ row \in [Jobs -> Row]
  BY <1>0 DEF TypeOK
<1>b. Steady' => Steady
  BY <1>0, SteadyBefore
<1> DEFINE Shrinks == /\ Uncounted' \subseteq Uncounted
                      /\ Reading' \subseteq Reading /\ WillList' \subseteq WillList
           NoMore == Steady => Counted' \subseteq Counted
<1>1. ASSUME NEW j \in Jobs, ReadRefuses(j) \/ AddTask(j) \/ Enqueue(j)
                               \/ HandOverFails(j) \/ StartTask(j)
      PROVE  BInv'
  <2>1. Shrinks
    BY <1>a, <1>1 DEF ReadRefuses, AddTask, Enqueue, HandOverFails, StartTask, Goto,
                      Uncounted, Reading, WillList, Pending
  <2>2. row' = row /\ runs' = runs
    BY <1>1 DEF ReadRefuses, AddTask, Enqueue, HandOverFails, StartTask
  <2>3. NoMore
    BY <2>2 DEF Counted
  <2> QED
    BY <1>b, <2>1, <2>2, <2>3, BoundsKept
<1>2. ASSUME NEW j \in Jobs, AppendStep(j) \/ CompleteJob(j) \/ FailJob(j)
      PROVE  BInv'
  <2>1. Shrinks /\ runs' = runs
    BY <1>a, <1>2 DEF AppendStep, CompleteJob, FailJob, Leave, Goto, Uncounted,
                      Reading, WillList, Pending, Pipeline
  <2>2. Steady => j \in Counted
    BY <1>0, <1>2 DEF AppendStep, CompleteJob, FailJob, Honest, LiveIsActive, Live,
                      Pipeline, Counted
  <2>3. \A i \in Jobs \ {j} : row'[i] = row[i]
    BY <1>a, <1>2 DEF AppendStep, CompleteJob, FailJob
  <2>4. NoMore
    BY <2>2, <2>3 DEF Counted
  <2> QED
    BY <1>b, <2>1, <2>4, BoundsKept
<1>3. ASSUME NEW j \in Jobs, Poll(j) \/ Age(j)
      PROVE  BInv'
  BY <1>b, <1>3, BoundsKept DEF Poll, Age, Uncounted, Reading, WillList, Counted
<1>4. ASSUME NEW w \in Workers, NEW j \in Jobs, WorkerTakes(w, j)
      PROVE  BInv'
  <2>1. Shrinks
    BY <1>a, <1>4 DEF WorkerTakes, Goto, Uncounted, Reading, WillList, Pending
  <2> QED
    BY <1>b, <1>4, <2>1, BoundsKept DEF WorkerTakes, Counted
<1>5. ASSUME NEW w \in Workers, KillWorker(w)
      PROVE  BInv'
  <2>1. Shrinks
    BY <1>a, <1>5 DEF KillWorker, Leave, Goto, Uncounted, Reading, WillList, Pending
  <2> QED
    BY <1>b, <1>5, <2>1, BoundsKept DEF KillWorker, Counted
<1>6. ASSUME NEW a \in Apis, StartApi(a)
      PROVE  BInv'
  <2>1. \A i \in Jobs : row'[i].state \in Active => row[i].state \in Active
    BY <1>a, <1>6 DEF StartApi, Recovered, NoRow, Active
  <2>2. Counted' \subseteq Counted
    BY <2>1 DEF Counted
  <2> QED
    BY <1>b, <1>6, <2>2, BoundsKept DEF StartApi, Uncounted, Reading, WillList
<1>7. ASSUME NEW a \in Apis, KillApi(a)
      PROVE  BInv'
  <2>1. Shrinks
    BY <1>a, <1>7 DEF KillApi, Uncounted, Reading, WillList, Pending
  <2> QED
    BY <1>b, <1>7, <2>1, BoundsKept DEF KillApi, Counted
<1>8. CASE RedisDown \/ RedisUp \/ UNCHANGED vars
  <2>1. Shrinks
    BY <1>a, <1>8 DEF RedisDown, RedisUp, vars, Uncounted, Reading, WillList, Pending
  <2>2. row' = row /\ runs' = runs
    BY <1>8 DEF RedisDown, RedisUp, vars
  <2> QED
    BY <1>b, <2>1, <2>2, BoundsKept DEF Counted
<1> QED
  BY <1>b, <1>1, <1>2, <1>3, <1>4, <1>5, <1>6, <1>7, <1>8, StorageBounds,
     ConcurrencyBounds, CreateBounds, RegisterBounds DEF Next, Handle, Finish

LEMMA InitBounds == Init => BInv
<1> SUFFICES ASSUME Init
             PROVE  BInv
  OBVIOUS
<1>1. Uncounted = {} /\ Counted = {} /\ Reading = {} /\ WillList = {} /\ runs = {}
  BY DEF Init, Uncounted, Counted, Reading, WillList, Pending, NoRow, Active
<1> QED
  BY <1>1, FS_EmptySet, BoundTypes DEF BInv, BurstHolds, JobsHold, RunsHold

\* On a sound deployment a burst of uploads overshoots the account's share of
\* the workers by less than its size, whatever fails and restarts meanwhile.
THEOREM JobsAreLimited == SoundDeployment => (Spec => []ActiveWithinLimit)
<1> SUFFICES ASSUME SoundDeployment
             PROVE  Spec => []ActiveWithinLimit
  OBVIOUS
<1>1. JInv /\ BInv => ActiveWithinLimit
  BY AllFinite, BoundTypes
     DEF ActiveWithinLimit, Steady, BInv, JobsHold, Counted
<1>2. JInv /\ [Next]_vars => JInv'
  BY StepJInv
<1>3. JInv /\ BInv /\ [Next]_vars => BInv'
  BY StepBounds
<1> QED
  BY InitJInv, InitBounds, <1>1, <1>2, <1>3, PTL DEF Spec

\* On a sound deployment the stored runs overshoot their quota by no more than
\* the concurrency ceiling and twice what a burst adds.
THEOREM RunsAreLimited == SoundDeployment => (Spec => []StoredRunsBounded)
<1> SUFFICES ASSUME SoundDeployment
             PROVE  Spec => []StoredRunsBounded
  OBVIOUS
<1>1. JInv /\ BInv => StoredRunsBounded
  BY AllFinite, BoundTypes DEF StoredRunsBounded, Steady, BInv, RunsHold
<1>2. JInv /\ [Next]_vars => JInv'
  BY StepJInv
<1>3. JInv /\ BInv /\ [Next]_vars => BInv'
  BY StepBounds
<1> QED
  BY InitJInv, InitBounds, <1>1, <1>2, <1>3, PTL DEF Spec

=============================================================================
