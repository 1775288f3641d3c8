# A verification of the autonomous AI analyst

This directory holds TLA+ models of the parts of the application in which the
order of events, or a boundary of a computation, decides whether it is right:
the model registry, training, the upload jobs with their queue and recovery,
the life of a run from upload to deletion, accounts and keys, chat with its
ceilings, share links, scheduled reports, the analysis sandbox, schema
migrations and the monitoring of drift. TLC checks the models on small
instances; TLAPS proves the theorems listed below for every instance. Paths
without a prefix are under `src/backend/`.

Run a check with `tlc -config X.cfg M` and a proof with `tlapm M.tla`, in this
directory. `PROJECT.json` lists the components, the runs, the source lines
every definition stands for, the hazards, the findings and the theorems. A
definition whose name has a suffix and whose comment begins with "A slip:" is a
plausible mistake in the definition that follows it; each property has one that
makes it fail.

## 1. The system

A user uploads a table; the back end (FastAPI) trains models on it, stores the
artifacts and serves dashboards, predictions, reports and a chat about them. A
*run* is one dataset with one configuration, named by a hash, the run key.
State lives in four places: an SQL database (SQLite or PostgreSQL), the disk of
each host, an optional bucket (S3) and, where a queue is configured, Redis. No
component locks anything across two database transactions; a transaction is a
`session_scope()` in `db.py`.

| component | its state | operations | talks to |
|---|---|---|---|
| Upload pipeline and jobs (`routes/upload.py`, `utils/uploads.py`) | row in `jobs`, spooled file | admit, create job, hand over, report steps, complete, fail | limits, queue, registry, storage |
| Queue and worker (`utils/queue.py`, `worker.py`) | cached queue object per process; Redis list; the job in hand | enqueue, run inline, take | the pipeline |
| Start-up and recovery (`main.py`) | none of its own | fail interrupted jobs, age out old ones, purge expired runs | jobs, lifecycle |
| Limits (`limits.py`) | none: it counts rows of other tables | storage, concurrency and LLM ceilings | upload, retrain, chat |
| Model registry and retraining (`registry.py`, `retraining.py`) | rows in `model_versions` | register first version, challenge, promote, resolve | storage, predictions |
| Artifact storage (`utils/storage.py`, `utils/artifacts.py`) | bundle and `.sig` files, bucket objects | dump, sign, load, publish, fetch, purge | everything that holds a model |
| Prediction serving (`routes/predict.py`, `monitoring.py`) | rows in `predictions` | resolve a version, load, answer, log | registry, storage |
| Run lifecycle (`lifecycle.py`, `routes/runs.py`) | row in `runs` | delete, purge expired, erase an account | every table and file of a run |
| Chat and agent (`routes/chat.py`, `analyst/`) | `conversations`, `messages`, `llm_usage` | open, ask, loop over model and tools, answer | limits, providers, sandbox |
| Analysis sandbox (`analyst/sandbox.py`, `analyst/runner.py`, `analyst/container.py`) | child process or container | run, time out, kill | tools |
| Sharing (`sharing.py`) | `share_links` | create, open, revoke | runs |
| Report schedules (`report_schedule.py`) | `report_schedules` | create, find due, enqueue, process | queue, report |
| Accounts, keys, audit (`auth.py`, `audit.py`, `routes/admin.py`) | `users`, `api_keys`, `audit_log` | issue, revoke, rotate, authorise | every route |
| Drift monitoring (`monitoring.py`, `ml/drift.py`) | none: it reads `predictions` | compare with the training distribution | predictions |
| Training (`ml/`) | none between calls | prepare, fit, evaluate, explain | pipeline, retraining |
| Migrations (`utils/migrations.py`) | revision of the database | adopt, upgrade | start-up |
| Browser (`src/frontend/`) | the job it polls | poll, stop at a final state | jobs |

What is hard here, and what would make each part correct:

* **Registry.** Retrains take minutes, read the champion first and promote
  last; numbers are "greatest plus one"; a host never replaces a file it has.
  Correct: exactly one champion, replaced only by a challenger that beat it;
  the version an answer is logged under is the model that answered; a
  champion's bundle reaches the bucket.
* **Training.** Every candidate may raise at three places, a search has a
  budget, SMOTE needs neighbours in every fold. Correct: what is selected was fitted,
  scored and not beaten; a training fails only if its learners do; what is said
  of a model's confidence is said of that model.
* **Jobs.** Five independent things fail: the request, the pipeline, the API
  process, the worker, Redis. Correct: recovery fails only jobs that are dead;
  what a client was told stays true; a completed job has a run; the ceilings
  hold; every job ends.
* **Run lifecycle.** Three paths delete seven kinds of things in two orders,
  without a foreign key, beside handlers that add them. Correct: nothing
  outlives the run; a purge that died can be repeated; a deletion that answers
  was thorough; a purge takes only what expired.
* **Accounts.** Checks and writes are in separate transactions. Correct: a
  revoked key stays out, no account loses its last key or exceeds its ceiling,
  some admin remains.
* **Chat.** Spending is recorded after the fact. Correct: a bounded overshoot,
  no call unaccounted for but where one failed or said nothing, a history that fits its budget and ends with the
  question.
* **Share links.** Correct: a link that was revoked, expired or lost its run
  shows nothing any more.
* **Report schedules.** A schedule is due until a worker has processed it.
  Correct: one report per interval, none lost.
* **Sandbox.** Whoever is waited for may end before what it started. Correct: a
  call is answered, and nothing runs on after it but what nobody could stop.
* **Migrations.** Two processes start together on a database of any age.
  Correct: stamped at head means whole, and every start succeeds.
* **Drift.** Correct: what is called stable is near the training data, what is
  called drift is not the same, and the log represents what was served.

## 2. The modules

    PromotionRule ──> PromotionChain ┐
         │            Assistant      ├──> PromotionChainProofs
         │            Training       ┘
         └──────────> ModelRegistry  ───> ModelRegistryProofs
    RegistryContract <╌╌╌┘
    JobContract <╌╌╌╌ JobLifecycle   ───> JobLifecycleProofs
                      RunLifecycle   ───> RunLifecycleProofs
                      Accounts       ───> AccountsProofs
                      ShareLinks     ┐
                     ReportSchedules ┴──> SharingProofs
                      Sandbox        ┐
                      Migrations     ┴──> ServicesProofs
                      Drift          ───> DriftProofs

    MCPromotionChain : PromotionChain │ Assistant │ Training
    MCInterleaved    : ModelRegistry  │ Accounts
    MCServices       : Migrations │ ReportSchedules │ ShareLinks │ Sandbox │ Drift

A solid arrow is read "is extended by", the dashed one "implements". A bar
separates models that share no state and are checked in one run: the variable
`focus` says which of them takes its steps in a behaviour, and the others stay
as they began. Every behaviour of each model is a behaviour of the composition
and the state spaces add up instead of multiplying; fairness is stated for the
steps of every model, and a model out of focus has no step it has to take. The
other `MC` modules name the small instance of one model. Every `MC` module
extends the models it checks, and every module of proofs the models it is about,
so that TLC and the prover read the same definitions.

### PromotionRule, PromotionChain (`registry.py`: `better`)

`Promotes(metric, new, old)` is the comparison of a challenger with a champion,
with integer scores and the relative margin as a fraction, as the code computes
it: the improvement in the metric's direction, divided by the magnitude of the
champion's score. `PromotionChain` applies it again and again to models scored
once on one holdout. What it leaves out is the rounding of floating point, and
that each retrain brings a holdout of its own.

### ModelRegistry (`registry.py`, `retraining.py`, `utils/storage.py`, `utils/artifacts.py`, `routes/predict.py`)

All versions of one run. `versions` and `row` are the table; `disk` and
`bucket` hold, for each version number, a bundle and its signature as two files
that can come from different fits; `pc` and the local variables say how far
each execution of a handler is and what it holds in its hands (the champion it
read, the number it took, the verdict). `promote_model_version` is two steps,
its read and its commit, since neither database is asked for serialisable
transactions; a transaction that only inserts, or that reads one snapshot, is
one step. `EnsureLocal` fetches only what the disk does not have, file by file.
`Crash` ends a handler between any two of its steps.

`SerialSpec` restricts `Next` to installations in which one upload or retrain
changes the run at a time; predictions run beside it, and deaths are not
restrained.

### RegistryContract (`registry.py`: what those who predict may rely on)

The abstract specification of a registry, without handlers, hosts, files,
signatures or version numbers: versions that are only added, champions, the
challengers that beat one (`won`, a pair), predictions under way with the
version they resolved, and the log. A challenger is promoted only while the
champion it beat is the only one, and takes its place in that same step; a
prediction asks the champion, or nobody if there is none, and is logged under
what it resolved. `Disturb` is a death: it may cost challengers their promotion
and is the one thing after which an answer may be misnamed. `ModelRegistry`
implements it under `SerialSpec`, with the mapping in that module: `Champions`
of the table, `Won` of the retrains between registration and commit, `Resolved`
of the predictions, `Named` and `Misnamed` of the log, and `disturbed` as
`crashes > 0`. The refinement is a property of `registry_serial` and a theorem.
It does not hold of `Spec`: finding 1 and the first of the departures below are
steps the contract does not have.

### JobLifecycle (`routes/upload.py`, `utils/queue.py`, `worker.py`, `main.py`, `limits.py`)

All uploads of one account. `row` is the table `jobs`, `runs` the table the
pipeline registers into, `api` what `get_queue()` cached in each API process
when it started, `hands` what each worker is executing, `told` the final state
the browser was told, `aged` the jobs old enough for `purge_old_jobs`. The
upload handler is a coroutine which awaits only the file, hence `LoopIsFree`:
between its checks and again between `create_job` and the hand-over it is not
interleaved with another request of the same process. `KillApi`, `KillWorker`
and `RedisDown` are external: they lose what the process, the worker or Redis
held in memory. `StartApi` is `lifespan`: it probes Redis once, falls back to
inline execution if it does not answer, and then recovers or spares the active
jobs accordingly.

### RunLifecycle (`lifecycle.py`, `routes/runs.py`, `db.py`, `utils/storage.py`, with the handlers that add to a run)

One run key. `run` is its row, past its `expires_at` or not; `conversations`,
`messages`, `rows` (predictions, share links, schedules) and `versions` are
what refers to it; `disk` holds the metadata with the snapshot (0) and the
bundle of each version. A deletion walks through `StepsOf(kind)`: the user's
deletion removes the row of the run first, a purge and an erasure remove it
last. `DropVersions` hands over the names of the retrained bundles to `Unlink`,
and they exist nowhere else after that. `before` remembers what there was when
a deletion began, `overlapped` whether a deletion ever ran beside another
handler; both are history variables only the properties read.

The model assumes that accounts are enabled (without them `require_owned_run`
returns at once), that artifacts are on the local disk only, and that a
conversation has one exchange. Which version is champion is left to
ModelRegistry. The refusals of a chat that is over a ceiling are a choice.

### JobContract (`useUploadJob.js`: what a poller may rely on)

The abstract specification of a job, without processes, queues or workers:
accepted once, forward only, completed only when its run is listed, and final
once told. `Interrupt` fails any set of jobs together, as a restart does;
`Revive` is allowed only when a process may have fallen back to its own queue
(`degraded`). `JobLifecycle` implements it under the mapping in that module:
`ClientState` is what GET /upload/status would answer, and `degraded` is the
negation of `NoFallback`. The refinement is a property of `jobs_queue` and a
theorem.

### Accounts (`auth.py`, `routes/admin.py`, `audit.py`)

`user`, `key` and `log` are the tables; each request is at a place `pc` with
what it holds in `req`. The two look-ups of a key, the check of an address and
the insertion of a user, the row of the user and the row of its key, the count
of active keys and the new key, the check for the last key and its revocation
are two steps each, because they are two transactions. `Init` is a new
database, or one that was adopted with an empty table of keys (see the
departures): there an account has the hash on its user row and nothing else.
`late` (the key was already barred when it was presented), `raced` and `twins`
are history variables.

### Assistant (`routes/chat.py`, `analyst/agent.py`, `limits.py`)

One account's questions, each a thread: quota, conversation, question, history,
trimming, the loop over model and tools up to `agent_max_steps`, the stored
answer, the token counter, the usage row. A question can fail at any call, die
between steps, or lose the usage row. A reply takes one token or does not say
what it took (`Completes`), which counts as none: the row of a question is
written all the same, that of a report is not (`Accounted`). Tokens are small
integers.

### Training (`ml/train.py`, `ml/tuning.py`, `ml/imbalance.py`, `ml/calibration.py`, `retraining.py`)

The orchestration of one training, with a nondeterministic score for every fit
and a nondeterministic failure of every call: pruning of the learners, SMOTE
or class weights, search with a budget, cross-validation, holdout, vote,
selection, calibration, and a retrain with what it takes from the metadata.
Fold and class sizes are real numbers of rows. An order has the sizes of all its
classes (`ends`): stratified folds deal the rows, sorted by class, in turn
(`Dealt`, `Part`), and SMOTE adds to every class smaller than another one, so a
fold is sound if each of those keeps more rows there than it has neighbours.

### ReportSchedules, ShareLinks, Sandbox, Migrations, Drift

* `ReportSchedules` counts the ticks to `next_run_at`; cron calls hand over what
  is due, at most `MaxDue` at once in any order, to RQ or to themselves.
* `ShareLinks` has one run key whose uploads are numbered (`era`), one maker per
  token and visitors; days pass in `age` and in what is left of each link.
* `Sandbox` has the thread of the API, the client of the container runtime, the
  daemon's side and the interpreter as four parties of one call; the code inside
  ends, spins or sleeps. The call returns when the process it started ends,
  which with a container is the client: `ClientEnds` lets it fail at once, be
  killed or lose its daemon, with no kill of the container after it. `Guard`
  may or may not have put a limit on CPU time.
* `Migrations` has `disk` (committed) and `work` (the transaction under way),
  which differ on PostgreSQL and, for table definitions, coincide on SQLite.
  `Initial` databases are empty, from before the migration tool with any prefix of today's
  tables, or at a revision.
* `Drift` has a column as a function from the rows that have a value, and
  computes bins, fractions and the stability index with integers, the index in
  thousandths from a table of logarithms. The table is a constant (`Ln`), of
  which `LogarithmsOK` says what makes it one. The frames are chosen, not
  enumerated: see the comments in `MCServices`. A sampled batch is logged at any
  of the positions floating point may compute (`Pickings`): a product that
  should be whole may come out just below it, as `int(100 * 1.15)` is 114.

## 3. What the runs check

| run | instance | what it shows |
|---|---|---|
| `promotion_chain` | scores -4..7, margin 1/4, both directions; 2 clients, 3 questions, 1 fault; 4 and 2 learners, 1 retrain, 15 distributions of classes around the SMOTE boundary | a beaten model never comes back; ceilings on calls are passed by a burst only, and every call is seen but a silent report's; the model hears the question; the selection is earned; a training fails only at the SMOTE boundary; the first version's confidence is its own |
| `registry_interleaved` | 2 hosts, 1 upload, 2 retrains, 1 death, any interleaving; 2 accounts, 3 keys, 2 requests, 1 fault | a refused challenger is never champion; a registered version has a bundle; only winners are published; never without a champion; the four properties of `Accounts` |
| `registry_serial` | the registry with predictions, one writer at a time | one champion; truthful answers; the contract of `RegistryContract`, by which only a winner ousts; a champion reaches the bucket |
| `jobs_inline` | 2 uploads, 1 API process with its own jobs, 2 kills | answers are final; jobs end |
| `jobs_queue` | 3 uploads one after the other, 1 API process, 1 worker, each and Redis fail once | recovery spares what lives; both ceilings; the contract with the browser; a job handed over is carried through |
| `run_lifecycle` | 2 uploads, 1 other request, a purge and a user's deletion, 1 death | nothing outlives a run; a purge is repeatable; deletions are thorough; a purge takes only what expired |
| `services` | 2 starting processes, 4 revisions, 2 deaths; 2 schedules of 1 and 2 ticks, 1 cron, 1 worker, 1 fault; 1 link, 2 visitors, 2 uploads; 1 execution in each backend; 5 training frames, 7 batches | head is whole and starts succeed; one report per interval and none lost; a link that ended stays shut; nothing runs on but a container left to itself, and every call ends; the drift status matches what moved; samples are even |
| `registry_lost_champion` | 2 uploads on one host | finding 1 |
| `jobs_fallback` | 2 uploads, API and Redis fail once | finding 2 |
| `jobs_dead_worker` | 2 uploads, a worker dies once | finding 3 |
| `run_transcript` | an upload, a chat, a deletion | finding 4 |
| `confidence_claim` | as `promotion_chain` | finding 5 |

**Bounds.** Two writers on two hosts are the smallest instance in which a host
can have a stale copy, a promotion can find another champion than the one
compared and a number can be taken twice; three version ids let every retrain
register beside the upload. Three jobs against ceilings of one in `jobs_queue`
let one be admitted, one be refused and one come after a slot was freed; two kills in `jobs_inline` let
recovery meet the work of a process that itself recovered. In `run_lifecycle`
the second upload brings back a run that was deleted or is being deleted, and
`MaxRequests = 1` means one retrain, one chat or one other request in each
behaviour, at any point. Two requests and three keys against a ceiling of two
let two requests of one account race at the ceiling and at the last key, and
two requests of two accounts bar each other. A list limit of 3 and a budget of 5
tokens let a conversation outgrow both within three questions; ceilings of one
call and one question let two requests at once pass them and a third not. The
orders with SMOTE have one class of 5 to 9 rows beside a large one, in five
folds and in three; two classes of seven, three of seven and two of eight; and
two and five classes of six that are all there is: both sides of every case in
`FailsOnlyAtTheBoundary`. `MaxDue = 1` with
two schedules lets the cut of a cron call bite; a second upload lets a link meet
a run that came back. Eleven rows against a log of twelve, and fourteen against
it, are on both sides of sampling, and 14/12 has a whole product between the
ends, which may come out short; the training frames are an even spread with
a pooled tail, a constant, a heap with a gap, and one with a missing value.

The counters of failures and the version numbers are the only quantities the
code does not bound; they are named in the guards (`MaxCrashes`, `MaxApiKills`,
`MaxWorkerKills`, `MaxOutages`, `MaxVersion`, `MaxRequests`, `MaxFaults`,
`MaxDeaths`, `MaxAsks`, `MaxRetrains`, `MaxQueued`, `MaxEras`, `MaxLogged`, and
`MaxBurst`, the uploads of one account between their first check and their job
row). The uploads of `run_lifecycle` are interchangeable, and so are the
accounts, the keys and the requests of `Accounts` and the threads of
`Assistant`; hence the symmetries, which
are used in runs without liveness only. Deadlock is not checked: when every
request has been answered and no failure is left the system rests.

**Fairness.** `ModelRegistry`: a handler that has begun goes on until it returns
or dies; no client is made to begin one. `JobLifecycle`: a process that lives
goes on with its requests and pipelines; the supervisor
(`restart: unless-stopped` in `docker-compose.yml`) starts API processes and
Redis again; a job that keeps waiting in a queue that keeps working is taken in
the end, since RQ is first in, first out (strong fairness, because an outage
of Redis interrupts the waiting). No fit is made to report progress twice, no
client to poll or upload, and nothing is fair about failures.
`ReportSchedules`: the operator's cron keeps calling, a worker keeps taking, and
whoever processes a schedule goes on. `Migrations`: the database answers some
day, the supervisor starts what died, and a start goes on. `Sandbox`: the thread
of the API goes on, and the interpreter executes what it was given; a daemon that
was asked starts the container or forgets it; nothing makes a kill reach one.

**Properties with a condition.** The system is not right in every deployment,
and the properties say where it is:

* `NoFallback` (in `JobLifecycle`): no API process starts while Redis is down and
  something else is at work. Finding 2 is what happens if one does.
* `crashes = 0` in `AnswersNameTheirModel` and the last disjunct of
  `ChampionReachesBucket`: see the departures below.
* `~overlapped` in `RunLifecycle`: a deletion beside a handler that adds to the
  run can leave what it adds. `DeletionIsThorough` is the part that holds without
  the condition.
* `raced` and `twins` in `Accounts`, `doubled` in `ReportSchedules`, `strays` in
  `ShareLinks`, `clashed`, `beside`, `spoiled` and `silent` in `Assistant`,
  `missed` and `limited` in `Sandbox`, `Gapped` and `Torn` in `Migrations`: each names the one race or
  fault that breaks the promise. The property says that nothing else does.

## 4. Findings

1. `registry_lost_champion` (`db.py`, `promote_model_version`). Its docstring
   promises one champion in one transaction, "a run with none serves nothing at
   all". Two uploads of one file that register together each read the other's
   row as incumbent, and each demotes it: the run has two versions and no
   champion.
2. `jobs_fallback` (`utils/queue.py`, `main.py`). An API process that starts
   while Redis does not answer falls back to inline execution and then fails, as
   interrupted, jobs a worker is still fitting.
3. `jobs_dead_worker` (`main.py`, `worker.py`). The row of a job whose worker was
   killed stays "running" until it is purged; nothing transfers what RQ's
   registry of failed jobs knows to the table.
4. `run_transcript` (`db.py`, `append_message`). A question or answer stored
   after its conversation was deleted stays in `messages`, where no later
   deletion finds it, since all of them go by the conversations of a run.
5. `confidence_claim` (`routes/predict.py:180`). A prediction quotes the error
   "after" calibration whenever there is one, also when the calibration was
   refused and nobody serves that variant; and after a retrain was promoted it
   speaks of the calibration of the model the upload made.

Other departures TLC shows when the conditions above are dropped, for which no
sentence of the repository promises the opposite:

* Two retrains on two hosts at once: the later promotion ousts a champion it
  was never compared with, and both can take one version number.
* A retrain that dies after writing its bundle leaves a file under a number the
  next retrain takes again; a host that has it serves it under the new version.
* A process that dies between promoting and publishing leaves a champion no
  other host can load; nothing publishes it later.
* Uploads sent together are all checked against the same counts: `MaxBurst` of
  them exceed the concurrency ceiling by `MaxBurst - 1`.
* With several API processes that run their own jobs on one database, each one
  that starts fails the jobs of the others.
* A hand-over that raises (spool volume full, Redis lost between probe and
  enqueue) leaves a "queued" row no one will run and that counts against the
  ceiling.
* A purge that dies between deleting the version rows and unlinking leaves the
  retrained bundles on disk: the next purge does not know their names.
* A purge that listed a run deletes it even if an upload renewed it meanwhile.

Registration, keys and adoption:

* Two registrations at once are both let through and make two admins, each of
  whom can deactivate the other.
* Two concurrent revocations lock an account out; two concurrent requests for a
  key pass the ceiling.
* A process that dies between the creation of a user and its answer leaves an
  account whose key nobody has been shown, and registration closed.
* A database whose later tables `create_all` had made is stamped past their data
  migrations: the hashes of its users are not copied to `api_keys`, and their
  keys work by the fall-back but can be neither listed nor revoked.
* If `create_all` made a later table without all of those before, no start
  succeeds. The same holds for an SQLite file on which a process died between a
  table and its revision, because each definition is committed by itself.

Chat, reports, links, sandbox:

* `limits.py:10-11` speaks of every paid call; an answer has one row whatever the
  agent called, and a question that fails or dies has none. Nor has a report
  whose provider told no token counts, which was paid for and which no ceiling
  ever sees (`routes/chat.py:326`; the providers count an absent number as 0).
* `agent_max_steps` caps the replies of the model, not the tool calls in each.
* `list_messages` returns the oldest 200: beyond them the model is shown neither
  the question nor anything new.
* Of two answers appended at once one is missing from `total_tokens`.
* More due schedules than one cron call takes can starve some of them, since
  the query states no order. Without RQ the reports are built in the request of
  the cron, although the module's introduction says a worker does it.
* A link made beside a deletion outlives it and opens on the run when its
  dataset is uploaded again.
* A container that was not there yet when its client timed out runs on after
  the call was answered; so does one whose client ended by itself, killed or cut
  off from its daemon: `_run_code` kills on a timeout only. RLIMIT_CPU does not
  stop code that sleeps, and the death of the API leaves its child behind; where
  there is no `resource` module, or the memory limit, which is set first, is
  refused, nothing but the wall clock of a living parent stops code that spins. Code that prints the marker of the
  runner's envelope loses its result.

Training and monitoring:

* `can_use_smote` looks at the smallest development class, not at the folds, in
  which every class but the largest needs its neighbours. With a class of 6
  beside a larger one, five classes of 6, or three classes of 7 that fall right,
  none of five folds is large enough; with a class of 6 or 7, or two of 8, none
  of three. Then every candidate fails, where falling back on class weights is
  promised. In other cases only some folds fail, and `summarise_cv` drops them: a
  candidate with one fold left has no spread and can win a tie.
* A vote is selected in "ensemble" mode whatever it scored. The verdict of a
  calibration is taken on the holdout, which `train.py` says no selection
  decision touches. The budget of a search counts the wall clock of everything
  else too.
* A retrain's "rows neither model was fitted on" can be rows the champion was
  trained on, since the split is made anew; and it takes mode, metric and pick of
  the first training even if the data is of the other problem.
* Nothing refreshes `drift_reference`: after a promotion drift and the advice to
  retrain still speak of the first model's data.
* A column that was constant in training has no index when it moves and is left
  out of the status, and so is one that had no label in training and has labels
  now (this the attempt to prove `StatusMatchesMove` brought out). A pooled tail of 5 % or more makes data identical to the
  training frame "moderate". A reference that was salvaged from charts has bins
  closed on the right, read as closed on the left, so identical data can be
  called drift. Movement inside the outer bins cannot be seen.

## 5. What is proved

The proofs are for every value of the constants: any number of uploads,
retrains, hosts, jobs, workers, processes, deletions, accounts, keys, requests,
links, schedules, conversations, candidates and executions, and any number of
deaths. Every safety property a passing run checks is a theorem. Hardly any of them is inductive; for each group the invariant
that is, and why it has to say more, is given below. Each was checked by TLC
before it was proved.

**The registry** (`ModelRegistryProofs`), in three layers.

* Under any interleaving (`Spec`): `TypeCorrect`, `RefusedIsNeverServed`,
  `RegisteredHasBundle`, `BucketHoldsWinners`. `IInv` adds what a handler holds
  at each place: a version about to be promoted has a row that did not lose its
  comparison; the id of a fit not registered yet is its own; an upload under way
  has the first bundle on its host's disk; and a retrain, from the dump of its
  bundle to its publication, has its own model in the slot of its number on its
  host, which is never the first. That needs one retrain per host
  (`OneRetrainPerHost`: the handler is a coroutine that does not await while it
  fits).
* Where one handler writes at a time (`SerialSpec`): `ExactlyOneChampion`,
  `OnlyWinnersOust`, `LogNamesTheModel` and the refinement
  `RegistryKeepsContract`. `TInv` adds what the one writer knows: that the
  champion its challenger was compared with is still there, that the number it
  took is still free, and that what `promote_model_version` read is still so; who
  rests knows nothing, so each step needs a look at one handler only. It follows
  that a commit by a retrain replaces the one champion and a commit by an upload
  changes nothing (`CommitReplaces`). `NInv` adds, as long as nothing died, that
  each file of a disk or the bucket holds the model of the version of its number
  or one that a retrain has yet to register; `QInv` that answers name versions
  that exist. The refinement has one lemma per handler: which action of the
  contract its step is, or that it leaves the mapped variables alone.
* With one upload (`OneUpload`) and any interleaving with any number of retrains:
  `AlwaysAChampion`. `PInv` says that a challenger on its way is seen as champion
  by nobody, and that whoever read its own target as champion already saw
  another one or leaves one standing. Two uploads are what finding 1 needs.

**The promotion rule** (`PromotionChainProofs`): `EveryPromotionGains`,
`NoCycleOfPromotions`. A promotion is a strict gain in the metric's direction;
the invariant says that the champion is at least as good as every model that was
ever champion, so a model that was beaten can never win.

**The jobs** (`JobLifecycleProofs`): `JobsTypeCorrect` and `CompletedHasRun` on
every deployment; `RecoveryIsSound`, `AnswersAreFinal`, `JobsAreLimited`,
`RunsAreLimited` and the refinement `JobsKeepContract` for a `SoundDeployment`,
that is one API process that runs its own jobs, or API processes that all use
the queue (until one falls back to its own beside another, which is what
`NoFallback` in the properties says).
`JInv` adds that a job something works on has an active row which nothing has
failed, that a pipeline that returned left a final state, that a worker holds
a job that is under way, and for each deployment what its processes can look
like. `BInv` bounds two sums: the active jobs with the uploads let in and not
yet counted, and the stored runs with the jobs that will add one. They only grow
at the step that looks at the ceiling, and there by no more than `MaxBurst`. The
refinement has one step per action of the model.

**The life of a run** (`RunLifecycleProofs`): `LifecycleTypeCorrect`,
`DeletionsAreThorough`, `DeletedRunLeavesNothing`, `DeadPurgesAreRepeatable`,
`PurgesTakeOnlyExpired`. `LInv` says that a row which was there when a deletion
began belongs to a request that will not add it again, that as long as it is
there the deletion has its step still to come, and that a deletion which
answered has taken all of its eight steps. `CInv` is what holds until a deletion
runs beside something else: a deletion under way is alone, has emptied what its
steps so far were to empty and nothing else, the files that are left are those
whose names it still holds, and outside of deletions there is no row, message or
file without a run, but for what an upload under way has written.

**Accounts** (`AccountsProofs`): `AccountTypes`, `BarredIsKeptOut`,
`SomeAdminRemains`, `LockedOutOnlyByARace`, `CeilingGivesWayToARace`. `AInv` says
what a handler holds at each place; that a key which a handler holds or an owner
knows is somebody's (it has a row, or is the hash on a user row); that between
the two rows of a new account nobody else has its key; and that a key which was
barred when presented is still barred at the first look-up, and its account at
the second. It rests on two facts about all steps: rows keep their owner and
users their hash, while what is inactive stays so (`StepGrows`), and a key
without a row is given one only by the registration that made it
(`RowlessStays`). `MInv` adds for the administrators that either nobody is there
and one registration at most is under way, or exactly one admin is there, active,
and nobody else acts as one; for the last key that where no revocations raced one
at most is under way per account, with another key that stands; and for the
ceiling that active keys and requests let through are counted together.

**Chat** (`PromotionChainProofs`): `BurstsAreBounded`, `SpendIsAccounted`,
`QuestionsAreHeard`, `BudgetsSeeAnswers`. `SpendIsSeen` is not inductive, because
a request that ends takes with it the calls it made, not those it might have
made: `SpendInv` counts one pair for each call of a request under way that is
still to be recorded (`Owing`), and one call for each silent report. `HeardInv` says that what was listed stays the
beginning of the conversation, which only grows. `BudgetInv` says that a request
about to add to the total holds the total there is, unless two met; that the
recursive sum of the answers grows by the answer appended is induction over the
messages, done as an argument on the least position at which it would fail
(`Totals`, `LeastOf`).

**Training** (`PromotionChainProofs`): `TrainingsFailAtTheBoundary`,
`FirstClaimsAreTrue`, `SelectionsAreEarned`. `FailInv` says that as long as no
learner raised, a candidate was skipped only if no fold of this data could be
fitted; which data that is follows from how many rows of a class a fold takes
(`PartsOfFive`, `PartsOfThree`), for any number of classes (`NoSoundFold`); `ClaimInv` is about the first version and rests on what calibration left
of it; `SelectionInv` accounts for every candidate in one of three places, and
for the best among those tried so far. Its last theorem has the hypothesis
`TriedOnce`, that no learner is listed twice, a fact about the registries of
`ml/train.py`.

**Share links** (`SharingProofs`): `LinkTypes`, `EndedLinksStayShut`. `LInv`
says that what a link has left and its age stay within `MaxTtl`; that a token
which was not beside a deletion belongs to an era that has not ended, or has no
link; and that a deletion takes the row before it ends. From these a link that
has ended is dead (`EndedIsDead`), and a dead link stays dead (`DeadStays`), so
what a visitor came too late with is refused at the look-up.

**Report schedules** (`SharingProofs`): `ScheduleTypes`,
`SecondReportNeedsDoubling`. `RInv` says of every schedule that is not `doubled`:
it is in one place and there once (a batch, the queue or a hand); nothing has
been sent while it is due and not in hand, or before its processing comes to its
end; and what was handed over stays due until it is recorded. The two lemmas
about sequences say what `Append` and `Tail` do to "at most once".

**Sandbox and migrations** (`ServicesProofs`): `SandboxTypes`,
`AnsweredRunsNothing`, `NewestIsWhole`. `SInv` adds to the property what the
daemon may yet start for a client that has asked, and that only the call of a
container is ever killing. `GInv` says
of the committed database and of the transaction under way that whatever its
revision claims is whole and was copied, that the revision does not move before
its script's definitions are there, and how far an adoption and a script have
come; the lock makes the one who holds it the only one to speak of.

**Drift** (`DriftProofs`): `SamplesAreEven`, `VerdictTells`, `StatusTellsOfMoves`,
for every number of bins and categories, every cap and every frame. `LogInv` and
a lemma about division give the evenness of samples, to within one row and that
row included, whichever whole products come out short. `StatusTellsOfMoves` is
about what is computed, so its invariant is small: `ReportInv` says that the
reference is that of a training frame, that the window is a sample of the log,
and that the status is what `compare` says of the two. The rest is about
`compare`:

* `VerdictTells`: two samples are sorted into the same bins, and the shares of
  some set of bins differ by g. Each term (u - v)(ln u - ln v) of the index is at
  least 2(u - v)^2/(u + v), which lies above every line that touches it
  (`TermOfBin`). The terms of one line sum to a line in g (`SumAboveLine`), and
  at the best of them an index below 0.1 leaves g below 0.16, what the rounding
  to thousandths adds included (`StableIsNear`). If no bin differs the index is 0
  (`NoGapNoIndex`).
* That what is compared are two such sortings: the edges, quantiles or equal
  widths, are in order (`EdgesOrdered`), so the bins below an edge hold the values
  below it (`BinBelow`) and the counts of both histograms tally
  (`HistogramTallies`); of labels each is a bin, what has none is the last
  (`NumericTells`, `CategoricalTells`, `ComparisonTells`).

Its hypothesis about the logarithms, `LogarithmsOK`, is the inequality used of a
term with a thousandth for rounding, and that EPSILON is far below one row of a
sample. Any table rounded to thousandths has the first: four roundings move the
left side by less than the slack near equality, and where the two shares are
further apart than 3 to 1 the inequality of logarithms is far from tight. TLC
evaluates both for the run's table.
That a sum over bins exists and can be split is induction over a finite set, done
by the least counterexample (`SumsExist`, `FiniteInduction`).

**Assumptions.** They are those named in the modules (`ValuesAssumption`,
`ProcsAssumption`, `OneRetrainPerHost`, `MarginAssumption`, `JobsAssumption` and
the like), which TLC evaluates on every run, or an operator `ConstantsOK`,
`AssistantConstants`, `TrainingConstants` and so on, where several models are
checked in one run: it is a hypothesis of the theorem, and the `MC` module assumes
it of its instance, `TriedOnce` included.

**Only model-checked.** All liveness (`ChampionReachesBucket`, `JobsEnd`,
`HandedOverEnds`, `StartsSucceed`, `DueIsProcessed`, `CallsAndStraysEnd`) and
ENABLED, which are beyond the prover.
The library's induction theorems take an operator as parameter, which these
provers cannot instantiate; where an induction over data was needed, on sums,
smallest elements or the even spread of a sample, it is done by the least
counterexample. No module here declares a RECURSIVE operator.

## 6. What is not modelled

* The numbers: preprocessing, fitting, metrics, explanations, diagnostics,
  profiles, health and quality statistics, the model card and the export. They
  are sequential, numerical and keep nothing between calls; a score is a
  nondeterministic value here. Rounding is left out, except where a property is
  about it.
* The text of prompts, reports and tools; what the restricted interpreter
  allows.
* The spooled upload file and the dataset checks, beyond the step at which they
  refuse.
* A file torn by a death in the middle of one write: bundle, metadata. The
  metadata's list of retrains (RunLifecycle has its rewrite as an effect on the
  file, not the list).
* Deletion in object storage, several runs in one purge.
* That a retrain is an async handler which fits on the event loop: for minutes
  that process answers nothing. No state depends on it.
* Logging, metrics, rendering, read-only routes, operations scripts, the views
  of the front end.

## 7. What could come next

1. The bucket in `RunLifecycle`, and the spooled file in `JobLifecycle`.
2. Performance against outcomes (`monitoring.py`) beside `Drift`.
3. The deployments left out of `SoundDeployment`: an API process with its own
   queue beside others, where recovery takes their jobs even without an outage.
