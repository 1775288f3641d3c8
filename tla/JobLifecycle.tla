---------------------------- MODULE JobLifecycle ----------------------------
(***************************************************************************)
(* The upload jobs of one account: the rows of the table jobs (db.py), the  *)
(* request that admits an upload and hands it over (routes/upload.py,       *)
(* limits.py), the process that runs its pipeline (an API process, or an RQ *)
(* worker behind Redis: utils/queue.py, worker.py), and what an API process *)
(* does to the table when it starts (main.lifespan).                        *)
(*                                                                          *)
(* One session_scope() is one step.  A process may be killed between any    *)
(* two steps; Redis keeps nothing on disk, so an outage empties the queue.  *)
(***************************************************************************)
EXTENDS Naturals, FiniteSets

CONSTANTS Jobs,           \* uploads that may be sent, one job id each
          Runs,           \* run keys
          RunOf,          \* the run key an upload resolves to
          Apis,           \* API processes, all on one database
          Backend,        \* QUEUE_BACKEND of each
          Workers,        \* RQ workers
          MaxJobs,        \* settings.principal_max_concurrent_jobs
          MaxRuns,        \* settings.principal_max_runs
          MaxBurst,       \* bound on the uploads of the account admitted at once
          MaxApiKills,    \* bound on the API processes that are killed
          MaxWorkerKills, \* bound on the workers that are killed
          MaxOutages,     \* bound on outages of Redis and of the spool volume
          NoJob           \* a worker that is not working

ASSUME JobsAssumption ==
  /\ RunOf \in [Jobs -> Runs]
  /\ Backend \in [Apis -> {"inline", "rq"}]
  /\ Apis # {} /\ IsFiniteSet(Apis)
  /\ NoJob \notin Jobs
  /\ {MaxJobs, MaxRuns, MaxBurst} \subseteq Nat \ {0}
  /\ {MaxApiKills, MaxWorkerKills, MaxOutages} \subseteq Nat

VARIABLES
  row,         \* per job, its row in the table jobs
  aged,        \* jobs whose row is older than the 72 hours of purge_old_jobs
  runs,        \* run keys with a row in the table runs
  pc,          \* where the upload stands, in its request or in its pipeline
  server,      \* the API process its request came to
  api,         \* per API process, "down" or the queue get_queue() cached
  redis,       \* Redis answers
  hands,       \* per worker, the job it is working on
  told,        \* the final state the client that polls a job was told
  apiKills, workerKills, outages

faults == <<apiKills, workerKills, outages>>
vars == <<row, aged, runs, pc, server, api, redis, hands, told, faults>>

\* ACTIVE_JOB_STATES, and the states a client stops polling at.
Active == {"queued", "running"}
Final == {"completed", "failed"}
Row == [state : {"absent"} \union Active \union Final,
        error : {"none", "pipeline", "interrupted"}]
NoRow == [state |-> "absent", error |-> "none"]

\* A request before the hand-over, and a pipeline under way.
Request == {"checked", "reading", "created"}
Pipeline == {"working", "stepped", "registered"}
\* An upload that has no job row yet.
Early == {"new", "refused", "checked", "reading"}
Pending == {"task", "waiting"}
Places == {"new", "refused", "dead", "ended"}
            \union Request \union Pending \union Pipeline

\* A slip: counting what trains and not what waits.
Counted_Running == {j \in Jobs : row[j].state = "running"}
\* db.count_active_jobs.
Counted == {j \in Jobs : row[j].state \in Active}

OnWorker(j) == \E w \in Workers : hands[w] = j
\* What is lost with an API process: its requests, its background tasks.
InProcess(a) ==
  {j \in Jobs : /\ server[j] = a
                /\ pc[j] \in Request \union {"task"} \union Pipeline
                /\ ~OnWorker(j)}

Goto(j, place) == pc' = [pc EXCEPT ![j] = place]
\* `except`-branches leave the process; a worker is then free again.
Leave(j, place) ==
  /\ Goto(j, place)
  /\ hands' = [w \in Workers |-> IF hands[w] = j THEN NoJob ELSE hands[w]]

Init ==
  /\ row = [j \in Jobs |-> NoRow]
  /\ aged = {} /\ runs = {}
  /\ pc = [j \in Jobs |-> "new"]
  /\ server \in [Jobs -> Apis]
  /\ api = [a \in Apis |-> "down"]
  /\ redis = TRUE
  /\ hands = [w \in Workers |-> NoJob]
  /\ told = [j \in Jobs |-> "none"]
  /\ apiKills = 0 /\ workerKills = 0 /\ outages = 0

-----------------------------------------------------------------------------
(* POST /upload.  The handler is a coroutine that awaits only the file: its  *)
(* checks, and its last steps from create_job on, are not interleaved with   *)
(* another request of the same process.                                      *)

LoopIsFree(j) ==
  \A i \in Jobs \ {j} : server[i] = server[j] => pc[i] \notin {"checked", "created"}

\* Between its first check and its job row an upload is counted nowhere.
Uncounted == {i \in Jobs : pc[i] \in {"checked", "reading"}}

\* A slip: an account at its limit is let in.
CheckStorage_OffByOne(j) ==
  /\ pc[j] = "new"
  /\ LoopIsFree(j)
  /\ Cardinality(Uncounted) < MaxBurst
  /\ api[server[j]] # "down"
  /\ Goto(j, IF Cardinality(runs) <= MaxRuns THEN "checked" ELSE "refused")
  /\ UNCHANGED <<row, aged, runs, server, api, redis, hands, told, faults>>

\* limits.check_storage_quota counts the stored runs: 413 at the limit.
CheckStorage(j) ==
  /\ pc[j] = "new"
  /\ LoopIsFree(j)
  /\ Cardinality(Uncounted) < MaxBurst
  /\ api[server[j]] # "down"
  /\ Goto(j, IF Cardinality(runs) < MaxRuns THEN "checked" ELSE "refused")
  /\ UNCHANGED <<row, aged, runs, server, api, redis, hands, told, faults>>

\* limits.check_job_concurrency counts the account's active jobs: 429.
CheckJobs(j) ==
  /\ pc[j] = "checked"
  /\ Goto(j, IF Cardinality(Counted) < MaxJobs THEN "reading" ELSE "refused")
  /\ UNCHANGED <<row, aged, runs, server, api, redis, hands, told, faults>>

\* read_upload_to_temp is awaited, and may refuse the file: 400 or 413.
ReadRefuses(j) ==
  /\ pc[j] = "reading"
  /\ LoopIsFree(j)
  /\ Goto(j, "refused")
  /\ UNCHANGED <<row, aged, runs, server, api, redis, hands, told, faults>>

\* The file is on disk; db.create_job.
CreateJob(j) ==
  /\ pc[j] = "reading"
  /\ LoopIsFree(j)
  /\ row' = [row EXCEPT ![j] = [state |-> "queued", error |-> "none"]]
  /\ Goto(j, "created")
  /\ UNCHANGED <<aged, runs, server, api, redis, hands, told, faults>>

\* Where get_queue() is in-process, a background task of this API process.
AddTask(j) ==
  /\ pc[j] = "created"
  /\ api[server[j]] = "inline"
  /\ Goto(j, "task")
  /\ UNCHANGED <<row, aged, runs, server, api, redis, hands, told, faults>>

\* Otherwise the file is moved to the spool and the job pushed to Redis.
Enqueue(j) ==
  /\ pc[j] = "created"
  /\ api[server[j]] = "rq"
  /\ redis
  /\ Goto(j, "waiting")
  /\ UNCHANGED <<row, aged, runs, server, api, redis, hands, told, faults>>

\* relocate or enqueue raises: the client gets an error, the row stays.
HandOverFails(j) ==
  /\ pc[j] = "created"
  /\ api[server[j]] = "rq"
  /\ \/ ~redis /\ UNCHANGED outages
     \/ outages < MaxOutages /\ outages' = outages + 1
  /\ Goto(j, "dead")
  /\ UNCHANGED <<row, aged, runs, server, api, redis, hands, told, apiKills,
                 workerKills>>

\* GET /upload/status/{job_id}: the client polls until a final state.
Poll(j) ==
  /\ told[j] = "none"
  /\ row[j].state \in Final
  /\ \E a \in Apis : api[a] # "down"
  /\ told' = [told EXCEPT ![j] = row[j].state]
  /\ UNCHANGED <<row, aged, runs, pc, server, api, redis, hands, faults>>

-----------------------------------------------------------------------------
(* _run_upload_pipeline                                                     *)

StartTask(j) ==
  /\ pc[j] = "task"
  /\ Goto(j, "working")
  /\ UNCHANGED <<row, aged, runs, server, api, redis, hands, told, faults>>

\* RQ gives a waiting job to an idle worker.
WorkerTakes(w, j) ==
  /\ pc[j] = "waiting"
  /\ redis
  /\ hands[w] = NoJob
  /\ hands' = [hands EXCEPT ![w] = j]
  /\ Goto(j, "working")
  /\ UNCHANGED <<row, aged, runs, server, api, redis, told, faults>>

\* db.append_step sets "running" whatever the state was; a row that is gone
\* stays gone.
AppendStep(j) ==
  /\ pc[j] \in {"working", "stepped"}
  /\ row' = [row EXCEPT ![j].state = IF @ = "absent" THEN @ ELSE "running"]
  /\ Goto(j, "stepped")
  /\ UNCHANGED <<aged, runs, server, api, redis, hands, told, faults>>

\* _register_run: upsert_run under the run key, from a fit or a cache hit.
RegisterRun(j) ==
  /\ pc[j] = "stepped"
  /\ runs' = runs \union {RunOf[j]}
  /\ Goto(j, "registered")
  /\ UNCHANGED <<row, aged, server, api, redis, hands, told, faults>>

\* A slip: the job is completed before its run is registered.
CompleteJob_BeforeRegister(j) ==
  /\ pc[j] \in {"stepped", "registered"}
  /\ row' = [row EXCEPT ![j].state = IF @ = "absent" THEN @ ELSE "completed"]
  /\ IF pc[j] = "stepped" THEN Goto(j, "stepped") /\ UNCHANGED hands
                          ELSE Leave(j, "ended")
  /\ UNCHANGED <<aged, runs, server, api, redis, told, faults>>

\* db.complete_job: the last call of the pipeline; error is left as it was.
CompleteJob(j) ==
  /\ pc[j] = "registered"
  /\ row' = [row EXCEPT ![j].state = IF @ = "absent" THEN @ ELSE "completed"]
  /\ Leave(j, "ended")
  /\ UNCHANGED <<aged, runs, server, api, redis, told, faults>>

\* A slip: a pipeline that raises and does not record it.
FailJob_Silently(j) ==
  /\ pc[j] \in Pipeline
  /\ Leave(j, "ended")
  /\ UNCHANGED <<row, aged, runs, server, api, redis, told, faults>>

\* Any step may raise, and RQ's job timeout raises too: db.fail_job.
FailJob(j) ==
  /\ pc[j] \in Pipeline
  /\ row' = [row EXCEPT ![j] = IF @.state = "absent" THEN @
                  ELSE [state |-> "failed", error |-> "pipeline"]]
  /\ Leave(j, "ended")
  /\ UNCHANGED <<aged, runs, server, api, redis, told, faults>>

-----------------------------------------------------------------------------
(* Processes                                                                *)

\* get_queue: Redis is asked once, and the answer is kept by the process.
QueueOf(a) == IF Backend[a] = "rq" /\ redis THEN "rq" ELSE "inline"

\* Two slips: recovering only what had begun, and recovering every row.
Recovered_Running(r) ==
  IF r.state = "running" THEN [state |-> "failed", error |-> "interrupted"]
                         ELSE r
Recovered_All(r) ==
  IF r.state # "absent" THEN [state |-> "failed", error |-> "interrupted"]
                        ELSE r

\* db.recover_interrupted_jobs.
Recovered(r) ==
  IF r.state \in Active THEN [state |-> "failed", error |-> "interrupted"]
                        ELSE r

\* A slip: recovering behind a queue too.
StartApi_RecoversAlways(a) ==
  /\ api[a] = "down"
  /\ api' = [api EXCEPT ![a] = QueueOf(a)]
  /\ row' = [j \in Jobs |-> IF j \in aged THEN NoRow ELSE Recovered(row[j])]
  /\ aged' = {}
  /\ UNCHANGED <<runs, pc, server, redis, hands, told, faults>>

\* lifespan: with an in-process queue every active job is taken for a dead
\* one; then purge_old_jobs.
StartApi(a) ==
  /\ api[a] = "down"
  /\ api' = [api EXCEPT ![a] = QueueOf(a)]
  /\ row' = [j \in Jobs |->
               IF j \in aged THEN NoRow
               ELSE IF QueueOf(a) = "inline" THEN Recovered(row[j]) ELSE row[j]]
  /\ aged' = {}
  /\ UNCHANGED <<runs, pc, server, redis, hands, told, faults>>

KillApi(a) ==
  /\ api[a] # "down"
  /\ apiKills < MaxApiKills
  /\ apiKills' = apiKills + 1
  /\ api' = [api EXCEPT ![a] = "down"]
  /\ pc' = [j \in Jobs |-> IF j \in InProcess(a) THEN "dead" ELSE pc[j]]
  /\ UNCHANGED <<row, aged, runs, server, redis, hands, told, workerKills,
                 outages>>

\* The job is enqueued without a retry, so RQ puts it among its failed jobs
\* and nothing here reads those.  The supervisor starts the worker again.
KillWorker(w) ==
  /\ hands[w] # NoJob
  /\ workerKills < MaxWorkerKills
  /\ workerKills' = workerKills + 1
  /\ Leave(hands[w], "dead")
  /\ UNCHANGED <<row, aged, runs, server, api, redis, told, apiKills, outages>>

RedisDown ==
  /\ redis
  /\ outages < MaxOutages
  /\ outages' = outages + 1
  /\ redis' = FALSE
  /\ pc' = [j \in Jobs |-> IF pc[j] = "waiting" THEN "dead" ELSE pc[j]]
  /\ UNCHANGED <<row, aged, runs, server, api, hands, told, apiKills,
                 workerKills>>

RedisUp ==
  /\ ~redis
  /\ redis' = TRUE
  /\ UNCHANGED <<row, aged, runs, pc, server, api, hands, told, faults>>

\* 72 hours pass.  No job waits or runs that long: a worker's job is stopped
\* after queue_job_timeout_seconds.
Age(j) ==
  /\ pc[j] \in {"ended", "dead"}
  /\ row[j].state # "absent"
  /\ j \notin aged
  /\ aged' = aged \union {j}
  /\ UNCHANGED <<row, runs, pc, server, api, redis, hands, told, faults>>

-----------------------------------------------------------------------------
Handle(j) ==
  \/ CheckJobs(j) \/ ReadRefuses(j) \/ CreateJob(j)
  \/ AddTask(j) \/ Enqueue(j) \/ HandOverFails(j)

Finish(j) == RegisterRun(j) \/ CompleteJob(j) \/ FailJob(j)

Next ==
  \/ \E j \in Jobs : \/ CheckStorage(j) \/ Handle(j) \/ Poll(j) \/ Age(j)
                     \/ StartTask(j) \/ AppendStep(j) \/ Finish(j)
  \/ \E w \in Workers, j \in Jobs : WorkerTakes(w, j)
  \/ \E w \in Workers : KillWorker(w)
  \/ \E a \in Apis : StartApi(a) \/ KillApi(a)
  \/ RedisDown \/ RedisUp

Spec == Init /\ [][Next]_vars

\* Requests and pipelines go on while their process lives; workers take what
\* waits; the supervisor (restart: unless-stopped) starts an API process and
\* Redis again.  No client is made to upload or to poll, and no fit is made
\* to report progress twice.
Fairness ==
  /\ \A j \in Jobs : /\ WF_vars(Handle(j)) /\ WF_vars(StartTask(j))
                     /\ WF_vars(Finish(j))
                     /\ SF_vars(\E w \in Workers : WorkerTakes(w, j))
  /\ \A a \in Apis : WF_vars(StartApi(a))
  /\ WF_vars(RedisUp)

FairSpec == Spec /\ Fairness

-----------------------------------------------------------------------------
(* Properties                                                               *)

TypeOK ==
  /\ row \in [Jobs -> Row]
  /\ aged \subseteq Jobs
  /\ runs \subseteq Runs
  /\ pc \in [Jobs -> Places]
  /\ server \in [Jobs -> Apis]
  /\ api \in [Apis -> {"down", "inline", "rq"}]
  /\ redis \in BOOLEAN
  /\ hands \in [Workers -> Jobs \union {NoJob}]
  /\ told \in [Jobs -> Final \union {"none"}]
  /\ apiKills \in 0..MaxApiKills
  /\ workerKills \in 0..MaxWorkerKills
  /\ outages \in 0..MaxOutages

\* No process has started while Redis was down and another one was at work: the
\* start at which get_queue falls back and recovery takes every active job.
NoFallback == outages = 0 \/ (apiKills = 0 /\ Cardinality(Apis) = 1)

\* Recovery at startup fails only jobs whose process died: it never reaches a
\* job that waits in a queue or that a worker is still fitting (the comment
\* in main.lifespan), as long as Redis answers the processes that start.
InterruptedIsDead ==
  NoFallback =>
    \A j \in Jobs : row[j].error = "interrupted" => pc[j] = "dead"

\* What GET /upload/status says of a job.  A request that died before its row
\* was made leaves nothing behind, like a row that was purged.
ClientView(r, place) ==
  IF r.state = "absent" THEN IF place \in Early THEN "new" ELSE "gone"
  ELSE IF r.state = "failed" /\ r.error = "interrupted" THEN "interrupted"
  ELSE r.state
ClientState == [j \in Jobs |-> ClientView(row[j], pc[j])]

Contract == INSTANCE JobContract WITH
  state <- ClientState, listed <- runs, degraded <- ~NoFallback

\* The table, the queue and the workers together keep the contract an upload
\* makes with the browser that polls it: accepted once, forward only, completed
\* only when listed, and revived only where a process fell back to its own
\* queue (routes/upload.py, db.py, worker.py, main.lifespan as a whole).
KeepsContract == Contract!Spec

\* The part of it the queue exists for: an API process that starts never fails
\* a job that waits in Redis or that a worker is fitting.
QueueIsSpared ==
  \A j \in Jobs : row[j].error = "interrupted" => pc[j] # "waiting" /\ ~OnWorker(j)

\* What a client was told when it stopped polling stays true: no late progress
\* report or completion revives a job that was reported as failed.
ToldIsFinal ==
  NoFallback =>
    \A j \in Jobs : told[j] # "none" => row[j].state \in {told[j], "absent"}

\* A job that is reported as completed has a run the workspace lists, on
\* whichever process the fit took place.
CompletedIsListed ==
  \A j \in Jobs : row[j].state = "completed" => RunOf[j] \in runs

\* Uploads sent together overshoot the account's share of the workers by less
\* than the burst, and uploads sent one after the other never do
\* (limits.check_job_concurrency): no failure and no restart lets a job back in
\* that was counted out.
ActiveWithinLimit ==
  NoFallback =>
    Cardinality({j \in Jobs : row[j].state \in Active}) < MaxJobs + MaxBurst

\* The two limits as a pair bound the burst: uploads that were admitted before
\* the registry reached its limit overshoot it by no more than the concurrency
\* ceiling (limits.check_storage_quota), and a burst by what it adds to either.
StoredRunsBounded ==
  NoFallback =>
    Cardinality(runs) <= MaxRuns + MaxJobs + 2 * (MaxBurst - 1)

\* No job polls as queued or running forever.
JobsEnd ==
  \A j \in Jobs : row[j].state \in Active ~> row[j].state \notin Active

\* A job that was handed over is carried through, however often the API
\* processes are restarted meanwhile (worker.py); only the worker that took it
\* can lose it, or Redis.
HandedOverEnds ==
  \A j \in Jobs :
    pc[j] = "waiting" ~>
      \/ row[j].state = "absent"
      \/ pc[j] = "ended" /\ row[j].state \in Final
      \/ pc[j] = "dead" /\ workerKills + outages > 0

=============================================================================
