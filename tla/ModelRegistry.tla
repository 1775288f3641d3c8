--------------------------- MODULE ModelRegistry ---------------------------
(***************************************************************************)
(* The versions of one run's model: the table model_versions (db.py), the   *)
(* bundles on the disk of every host and in the bucket (utils/storage.py,   *)
(* utils/artifacts.py), and the handlers that read and write them:          *)
(*                                                                          *)
(*   Uploads     the tail of _run_upload_pipeline: fit or cache hit, then   *)
(*               registry.register_initial and publish_run                  *)
(*   Retrainers  POST /runs/{run_key}/retrain: retraining.retrain           *)
(*   Predictors  POST /predict/{run_key}: predict._load_bundle and the log  *)
(*                                                                          *)
(* One session_scope() is one step, except promote_model_version, which     *)
(* reads rows and then updates them in a transaction that neither SQLite's  *)
(* driver nor PostgreSQL's READ COMMITTED makes serialisable: its reads and *)
(* its commit are two steps.  A handler may die between any two steps.      *)
(***************************************************************************)
EXTENDS PromotionRule, FiniteSets

CONSTANTS VersionIds,  \* the uuids that name versions; each is drawn once
          Hosts,       \* machines that run the API, each with a disk
          Uploads, Retrainers, Predictors, \* executions of the handlers
          HostOf,      \* the host each execution runs on
          Metric,      \* the run's selection metric
          Scores,      \* scores a fit may get on a holdout
          MaxVersion,  \* bound on the version numbers
          MaxCrashes,  \* bound on the handlers that die half way
          NoVersion,   \* the None of a version id
          NoModel,     \* there is no file
          InitialModel \* the model the run's own file and settings produce

Writers == Uploads \union Retrainers
Procs == Writers \union Predictors

ASSUME ProcsAssumption ==
  /\ Uploads \intersect Retrainers = {}
  /\ Predictors \intersect Writers = {}
  /\ HostOf \in [Procs -> Hosts]

\* The retrain handler is a coroutine that never awaits while it fits, so a
\* host runs one retrain at a time.
ASSUME OneRetrainPerHost ==
  \A r, s \in Retrainers : HostOf[r] = HostOf[s] => r = s

ASSUME ValuesAssumption ==
  /\ NoVersion \notin VersionIds
  /\ NoModel \notin VersionIds
  /\ InitialModel \notin VersionIds
  /\ NoModel # InitialModel
  /\ MaxVersion \in Nat \ {0}
  /\ MaxCrashes \in Nat
  /\ Scores \subseteq Int

VARIABLES
  versions, \* ids of the rows in model_versions
  row,      \* their columns: version, is_champion and how they were judged
  drawn,    \* ids already drawn: _version_id() never repeats one
  disk,     \* per host and version number, the bundle file and its .sig
  bucket,   \* per version number, the bundle object and its .sig
  pc,       \* where each execution stands
  target,   \* the version an execution is about
  slot,     \* the version number whose bundle it handles
  against,  \* the champion a retrain read when it began
  verdict,  \* the outcome of better() the execution holds
  seen,     \* champions promote_model_version read
  held,     \* whether its target was among them
  answers,  \* logged predictions: the version named, the model that answered
  crashes

tableVars == <<versions, row, drawn>>
fileVars == <<disk, bucket>>
localVars == <<target, slot, against, verdict, seen, held>>
vars == <<versions, row, drawn, disk, bucket, pc, target, slot, against,
          verdict, seen, held, answers, crashes>>

Slots == 1..MaxVersion
Models == VersionIds \union {InitialModel, NoModel}
Bundle == [model : Models, sig : Models]
NoBundle == [model |-> NoModel, sig |-> NoModel]
Signed(m) == [model |-> m, sig |-> m]
Verdicts == {"initial", "promote", "refuse"}
Row == [version : Nat, champion : BOOLEAN, judged : Verdicts]
NoRow == [version |-> 0, champion |-> FALSE, judged |-> "refuse"]

\* The model a version was registered for.
ModelOf(v) == IF row[v].judged = "initial" THEN InitialModel ELSE v

OnDisk(p) == disk[HostOf[p]]
SetDisk(p, n, b) == disk' = [disk EXCEPT ![HostOf[p]][n] = b]
Goto(p, place) == pc' = [pc EXCEPT ![p] = place]
Fresh == VersionIds \ drawn

\* db.champion_version: the champion row with the highest version number.
IsServed(v) ==
  /\ v \in versions
  /\ row[v].champion
  /\ \A w \in versions : row[w].champion => row[w].version <= row[v].version

\* db.next_model_version: one more than the highest number in the table.
IsNextVersion(n) ==
  /\ \A v \in versions : row[v].version < n
  /\ n = 1 \/ \E v \in versions : row[v].version = n - 1

\* utils.artifacts.load_bundle: the signature must verify.
Loads(b) == b.model # NoModel /\ b.sig = b.model

\* A bundle and its signature are two files: each is taken from `first` and,
\* where it is missing there, from `second`.
Either(first, second) ==
  [model |-> IF first.model = NoModel THEN second.model ELSE first.model,
   sig |-> IF first.sig = NoModel THEN second.sig ELSE first.sig]

\* utils.storage.ensure_local: a file this host already has is never fetched,
\* and the default bundle name is always among the files asked for.
Fetched(p, n) == Either(OnDisk(p)[n], bucket[n])
EnsureLocal(p, n) ==
  disk' = [disk EXCEPT ![HostOf[p]] =
             [m \in Slots |-> IF m \in {1, n} THEN Fetched(p, m) ELSE @[m]]]

Init ==
  /\ versions = {} /\ drawn = {}
  /\ row = [v \in VersionIds |-> NoRow]
  /\ disk = [h \in Hosts |-> [n \in Slots |-> NoBundle]]
  /\ bucket = [n \in Slots |-> NoBundle]
  /\ pc = [p \in Procs |-> "idle"]
  /\ target = [p \in Procs |-> NoVersion]
  /\ slot = [p \in Procs |-> 1]
  /\ against = [r \in Retrainers |-> NoVersion]
  /\ verdict = [w \in Writers |-> "initial"]
  /\ seen = [w \in Writers |-> {}]
  /\ held = [w \in Writers |-> FALSE]
  /\ answers = {}
  /\ crashes = 0

-----------------------------------------------------------------------------
(* The upload pipeline, from "is it cached?" on.                            *)

\* ensure_local, then a cache hit goes straight to registration.
UploadCacheHit(u) ==
  /\ pc[u] = "idle"
  /\ Fetched(u, 1).model # NoModel
  /\ EnsureLocal(u, 1)
  /\ Goto(u, "registerReused")
  /\ UNCHANGED <<tableVars, bucket, localVars, answers, crashes>>

\* A miss fits the models and saves the bundle, its signature and metadata.
\* The run key is a hash of the file and the settings, so every fit of it
\* writes the same model and the order of those three files is not modelled.
UploadFit(u) ==
  /\ pc[u] = "idle"
  /\ Fetched(u, 1).model = NoModel
  /\ SetDisk(u, 1, Signed(InitialModel))
  /\ Goto(u, "registerTrained")
  /\ UNCHANGED <<tableVars, bucket, localVars, answers, crashes>>

\* register_initial, a run that already has versions: nothing is added.  Only
\* a run that was just trained is published.
RegisterKnown(u) ==
  /\ pc[u] \in {"registerReused", "registerTrained"}
  /\ versions # {}
  /\ Goto(u, IF pc[u] = "registerTrained" THEN "publish" ELSE "done")
  /\ UNCHANGED <<tableVars, fileVars, localVars, answers, crashes>>

\* register_initial, list_model_versions found nothing: version 1 is to be
\* added.  The list was read in its own session.
RegisterListed(u) ==
  /\ pc[u] \in {"registerReused", "registerTrained"}
  /\ versions = {}
  /\ Goto(u, IF pc[u] = "registerTrained" THEN "addTrained" ELSE "addReused")
  /\ UNCHANGED <<tableVars, fileVars, localVars, answers, crashes>>

\* register_initial, add_model_version(version=1, is_champion=True).
AddInitial(u) ==
  /\ pc[u] \in {"addTrained", "addReused"}
  /\ \E v \in Fresh :
       /\ versions' = versions \union {v}
       /\ drawn' = drawn \union {v}
       /\ row' = [row EXCEPT ![v] =
                    [version |-> 1, champion |-> TRUE, judged |-> "initial"]]
       /\ target' = [target EXCEPT ![u] = v]
  /\ Goto(u, IF pc[u] = "addTrained" THEN "promoteTrained" ELSE "promoteReused")
  /\ UNCHANGED <<fileVars, slot, against, verdict, seen, held, answers, crashes>>

-----------------------------------------------------------------------------
(* promote_model_version, called by register_initial and by                 *)
(* register_challenger.                                                     *)

Promoting == {"promoteTrained", "promoteReused", "promoteChallenger"}
Committing == {"commitTrained", "commitReused", "commitChallenger"}

CommitOf(place) ==
  CASE place = "promoteTrained" -> "commitTrained"
    [] place = "promoteReused" -> "commitReused"
    [] OTHER -> "commitChallenger"

\* The target's row and the rows that are champion are read.
PromoteRead(w) ==
  /\ pc[w] \in Promoting
  /\ seen' = [seen EXCEPT ![w] =
                {v \in versions : row[v].champion} \ {target[w]}]
  /\ held' = [held EXCEPT ![w] = row[target[w]].champion]
  /\ Goto(w, CommitOf(pc[w]))
  /\ UNCHANGED <<tableVars, fileVars, target, slot, against, verdict, answers,
                 crashes>>

\* Two slips: forgetting to raise the target, and forgetting the incumbents.
PromotedRow_OnlyDemotes(w) ==
  [v \in VersionIds |->
     IF v \in seen[w] THEN [row[v] EXCEPT !.champion = FALSE] ELSE row[v]]
PromotedRow_OnlyRaises(w) ==
  [v \in VersionIds |->
     IF v = target[w] THEN [row[v] EXCEPT !.champion = TRUE] ELSE row[v]]

\* The commit.  The ORM updates the columns whose value changed: every
\* incumbent it read is demoted, and the target is raised only if it was read
\* as no champion.
PromotedRow(w) ==
  [v \in VersionIds |->
     IF v \in seen[w] THEN [row[v] EXCEPT !.champion = FALSE]
     ELSE IF v = target[w] /\ ~held[w] THEN [row[v] EXCEPT !.champion = TRUE]
     ELSE row[v]]

PromoteCommit(w) ==
  /\ pc[w] \in Committing
  /\ row' = PromotedRow(w)
  /\ Goto(w, IF pc[w] = "commitReused" THEN "done" ELSE "publish")
  /\ UNCHANGED <<versions, drawn, fileVars, localVars, answers, crashes>>

\* A slip: mirroring only the names ARTIFACT_SUFFIXES knows.
Publish_DefaultOnly(w) ==
  /\ pc[w] = "publish"
  /\ bucket' = [bucket EXCEPT ![1] = Either(OnDisk(w)[1], bucket[1])]
  /\ Goto(w, IF w \in Uploads THEN "done" ELSE "idle")
  /\ UNCHANGED <<tableVars, disk, localVars, answers, crashes>>

\* publish_run: the default bundle name and the suffix it is given, from this
\* host's disk; a file that is not there is skipped.
Publish(w) ==
  /\ pc[w] = "publish"
  /\ bucket' = [n \in Slots |->
                  IF n \in {1, slot[w]} THEN Either(OnDisk(w)[n], bucket[n])
                                        ELSE bucket[n]]
  /\ Goto(w, IF w \in Uploads THEN "done" ELSE "idle")
  /\ UNCHANGED <<tableVars, disk, localVars, answers, crashes>>

-----------------------------------------------------------------------------
(* retraining.retrain                                                       *)

\* monitoring._metadata brings the default files to this host; the champion is
\* read once, before the fit.  Without one the request is refused.
ReadChampion(r) ==
  /\ pc[r] = "idle"
  /\ Fetched(r, 1).model # NoModel
  /\ EnsureLocal(r, 1)
  /\ \E v \in VersionIds :
       /\ IsServed(v)
       /\ against' = [against EXCEPT ![r] = v]
  /\ Goto(r, "fit")
  /\ UNCHANGED <<tableVars, bucket, target, slot, verdict, seen, held, answers,
                 crashes>>

\* The fit, and both scores on the challenger's holdout.  A champion whose
\* bundle this host cannot load has no score.
ChampionScores(r) ==
  IF Loads(OnDisk(r)[row[against[r]].version]) THEN Scores \union {NoScore}
                                               ELSE {NoScore}

FitAndCompare(r) ==
  /\ pc[r] = "fit"
  /\ \E v \in Fresh :
       /\ drawn' = drawn \union {v}
       /\ target' = [target EXCEPT ![r] = v]
  /\ \E challenger \in Scores \union {NoScore}, champion \in ChampionScores(r) :
       verdict' = [verdict EXCEPT ![r] =
         IF Promotes(Metric, challenger, champion) THEN "promote" ELSE "refuse"]
  /\ Goto(r, "number")
  /\ UNCHANGED <<versions, row, fileVars, slot, against, seen, held, answers,
                 crashes>>

\* A slip: registering the row before the bundle exists.
NumberVersion_RowFirst(r) ==
  /\ pc[r] = "number"
  /\ \E n \in Slots : IsNextVersion(n) /\ slot' = [slot EXCEPT ![r] = n]
  /\ Goto(r, "add")
  /\ UNCHANGED <<tableVars, fileVars, target, against, verdict, seen, held,
                 answers, crashes>>

\* db.next_model_version, called once the comparison is made.
NumberVersion(r) ==
  /\ pc[r] = "number"
  /\ \E n \in Slots : IsNextVersion(n) /\ slot' = [slot EXCEPT ![r] = n]
  /\ Goto(r, "dump")
  /\ UNCHANGED <<tableVars, fileVars, target, against, verdict, seen, held,
                 answers, crashes>>

\* dump_bundle: the pickle is overwritten first, its signature afterwards.
DumpBundle(r) ==
  /\ pc[r] = "dump"
  /\ SetDisk(r, slot[r], [OnDisk(r)[slot[r]] EXCEPT !.model = target[r]])
  /\ Goto(r, "sign")
  /\ UNCHANGED <<tableVars, bucket, localVars, answers, crashes>>

SignBundle(r) ==
  /\ pc[r] = "sign"
  /\ SetDisk(r, slot[r], Signed(OnDisk(r)[slot[r]].model))
  /\ Goto(r, "add")
  /\ UNCHANGED <<tableVars, bucket, localVars, answers, crashes>>

\* Two slips: promoting whatever the comparison said, and publishing it.
AddChallenger_PromotesAll(r) ==
  /\ pc[r] = "add"
  /\ versions' = versions \union {target[r]}
  /\ row' = [row EXCEPT ![target[r]] =
               [version |-> slot[r], champion |-> FALSE, judged |-> verdict[r]]]
  /\ Goto(r, "promoteChallenger")
  /\ UNCHANGED <<drawn, fileVars, localVars, answers, crashes>>
AddChallenger_PublishesAll(r) ==
  /\ pc[r] = "add"
  /\ versions' = versions \union {target[r]}
  /\ row' = [row EXCEPT ![target[r]] =
               [version |-> slot[r], champion |-> FALSE, judged |-> verdict[r]]]
  /\ Goto(r, IF verdict[r] = "promote" THEN "promoteChallenger" ELSE "publish")
  /\ UNCHANGED <<drawn, fileVars, localVars, answers, crashes>>

\* register_challenger: the row is added as no champion, and promoted only if
\* the comparison said so.
AddChallenger(r) ==
  /\ pc[r] = "add"
  /\ versions' = versions \union {target[r]}
  /\ row' = [row EXCEPT ![target[r]] =
               [version |-> slot[r], champion |-> FALSE, judged |-> verdict[r]]]
  /\ Goto(r, IF verdict[r] = "promote" THEN "promoteChallenger" ELSE "idle")
  /\ UNCHANGED <<drawn, fileVars, localVars, answers, crashes>>

-----------------------------------------------------------------------------
(* predict._load_bundle, and the log of what answered                       *)

\* A slip: naming the champion but opening the default bundle name.
Resolve_DefaultBundle(q) ==
  /\ pc[q] = "idle"
  /\ \/ \E v \in VersionIds : IsServed(v) /\ target' = [target EXCEPT ![q] = v]
     \/ /\ \A v \in versions : ~row[v].champion
        /\ target' = [target EXCEPT ![q] = NoVersion]
  /\ slot' = [slot EXCEPT ![q] = 1]
  /\ Goto(q, "load")
  /\ UNCHANGED <<tableVars, fileVars, against, verdict, seen, held, answers,
                 crashes>>

\* registry.resolve: the champion, or the original file when there is none.
Resolve(q) ==
  /\ pc[q] = "idle"
  /\ \/ \E v \in VersionIds :
          /\ IsServed(v)
          /\ target' = [target EXCEPT ![q] = v]
          /\ slot' = [slot EXCEPT ![q] = row[v].version]
     \/ /\ \A v \in versions : ~row[v].champion
        /\ target' = [target EXCEPT ![q] = NoVersion]
        /\ slot' = [slot EXCEPT ![q] = 1]
  /\ Goto(q, "load")
  /\ UNCHANGED <<tableVars, fileVars, against, verdict, seen, held, answers,
                 crashes>>

\* ensure_local and load_bundle; the answer is logged under the version that
\* was resolved.
Answer(q) ==
  /\ pc[q] = "load"
  /\ Loads(Fetched(q, slot[q]))
  /\ EnsureLocal(q, slot[q])
  /\ answers' = answers \union {<<target[q], Fetched(q, slot[q]).model>>}
  /\ Goto(q, "idle")
  /\ UNCHANGED <<tableVars, bucket, localVars, crashes>>

\* No file (503 or 404) or a signature that does not verify: no answer.
Refuse(q) ==
  /\ pc[q] = "load"
  /\ ~Loads(Fetched(q, slot[q]))
  /\ EnsureLocal(q, slot[q])
  /\ Goto(q, "idle")
  /\ UNCHANGED <<tableVars, bucket, localVars, answers, crashes>>

-----------------------------------------------------------------------------
\* The process dies, or the handler raises, between two of its steps.  At
\* "publish" this is also a put() that fails: publish_run logs it and goes on.
Crash(w) ==
  /\ pc[w] \notin {"idle", "done"}
  /\ crashes < MaxCrashes
  /\ crashes' = crashes + 1
  /\ Goto(w, "idle")
  /\ UNCHANGED <<tableVars, fileVars, localVars, answers>>

UploadStep(u) ==
  \/ UploadCacheHit(u) \/ UploadFit(u)
  \/ RegisterKnown(u) \/ RegisterListed(u) \/ AddInitial(u)

RetrainStep(r) ==
  \/ FitAndCompare(r) \/ NumberVersion(r)
  \/ DumpBundle(r) \/ SignBundle(r) \/ AddChallenger(r)

WriterStep(w) == PromoteRead(w) \/ PromoteCommit(w) \/ Publish(w)

Next ==
  \/ \E u \in Uploads : UploadStep(u)
  \/ \E r \in Retrainers : ReadChampion(r) \/ RetrainStep(r)
  \/ \E w \in Writers : WriterStep(w) \/ Crash(w)
  \/ \E q \in Predictors : Resolve(q) \/ Answer(q) \/ Refuse(q)

Spec == Init /\ [][Next]_vars

\* A handler that has begun goes on until it returns, unless it dies.  Nothing
\* makes a client send a request.
Fairness ==
  /\ \A u \in Uploads : WF_vars(pc[u] # "idle" /\ UploadStep(u))
  /\ \A r \in Retrainers : WF_vars(RetrainStep(r))
  /\ \A w \in Writers : WF_vars(WriterStep(w))
  /\ \A q \in Predictors : WF_vars(Answer(q) \/ Refuse(q))

FairSpec == Spec /\ Fairness

-----------------------------------------------------------------------------
(* The same handlers on an installation where only one of them changes the  *)
(* run at a time: one API process, and no second upload of a file that is   *)
(* still being registered.  Predictions and crashes are not restrained.     *)

Busy(w) == pc[w] \notin {"idle", "done"}
OneWriter == \A v, w \in Writers : Busy(v) /\ Busy(w) => v = w
SerialSpec == Init /\ [][Next /\ OneWriter']_vars
FairSerialSpec == SerialSpec /\ Fairness

-----------------------------------------------------------------------------
(* Properties                                                               *)

TypeOK ==
  /\ versions \subseteq drawn
  /\ drawn \subseteq VersionIds
  /\ row \in [VersionIds -> Row]
  /\ disk \in [Hosts -> [Slots -> Bundle]]
  /\ bucket \in [Slots -> Bundle]
  /\ pc \in [Procs -> {"idle", "done", "registerReused", "registerTrained",
                       "addReused", "addTrained", "fit", "number", "dump",
                       "sign", "add", "publish", "load"}
                      \union Promoting \union Committing]
  /\ target \in [Procs -> VersionIds \union {NoVersion}]
  /\ slot \in [Procs -> Slots]
  /\ against \in [Retrainers -> VersionIds \union {NoVersion}]
  /\ verdict \in [Writers -> Verdicts]
  /\ seen \in [Writers -> SUBSET VersionIds]
  /\ held \in [Writers -> BOOLEAN]
  /\ answers \subseteq (VersionIds \union {NoVersion}) \X Models
  /\ crashes \in 0..MaxCrashes

\* registry.register_challenger records a challenger that lost its comparison;
\* no interleaving of uploads, retrains and crashes makes it the champion.
RefusedNeverServed ==
  \A v \in versions : row[v].champion => row[v].judged # "refuse"

\* The bundle is on the disk of the host that fitted it before the row that
\* names it exists, so a crash leaves a file without a row and never a row
\* without a file (retraining.retrain, _run_upload_pipeline).
RegisteredBundleExists ==
  \A v \in versions :
    \E h \in Hosts : disk[h][row[v].version].model # NoModel

\* Only a model that won its comparison reaches the bucket other hosts load
\* from; a challenger is published after it is registered and promoted.
OnlyWinnersPublished ==
  \A n \in Slots : bucket[n].model \in VersionIds =>
    /\ bucket[n].model \in versions
    /\ row[bucket[n].model].judged = "promote"
    /\ row[bucket[n].model].version = n

\* Once a run has a version it has a champion: what promote_model_version
\* promises with "a run with none serves nothing at all".
NeverWithoutChampion ==
  versions # {} => \E v \in versions : row[v].champion

\* "Exactly one of them is champion."
OneChampion ==
  versions # {} => \E v \in versions : {w \in versions : row[w].champion} = {v}

\* "Which model said this" stays answerable: a logged prediction names the
\* version whose model answered, whatever uploads and retrains did meanwhile on
\* its host or on another.  (A retrain that dies leaves its bundle on its host,
\* which serves it once another host has registered a version of that number.)
AnswersNameTheirModel ==
  crashes = 0 =>
    \A a \in answers :
      a[2] = IF a[1] = NoVersion THEN InitialModel ELSE ModelOf(a[1])

-----------------------------------------------------------------------------
(* The contract                                                             *)

Champions == {v \in versions : row[v].champion}

\* A retrain on its way to raise a challenger, which won its comparison.
Challenging == {"promoteChallenger", "commitChallenger"}
Winners ==
  {r \in Retrainers : pc[r] \in Challenging /\ row[target[r]].judged = "promote"}
Won == {<<target[r], against[r]>> : r \in Winners}
Resolved == {<<q, target[q]>> : q \in {p \in Predictors : pc[p] = "load"}}

NamedModel(v) == IF v = NoVersion THEN InitialModel ELSE ModelOf(v)
Named == {a[1] : a \in answers}
Misnamed == {a[1] : a \in {b \in answers : b[2] # NamedModel(b[1])}}

Contract == INSTANCE RegistryContract WITH
  Versions <- VersionIds, Askers <- Predictors,
  listed <- versions, champions <- Champions, won <- Won,
  asking <- Resolved, named <- Named, misnamed <- Misnamed,
  disturbed <- crashes > 0

\* Handlers, table, files and hosts together keep what the registry promises
\* (the module docstring of registry.py): exactly one champion, replaced only by
\* a challenger that beat that very champion, and predictions logged under the
\* version that was champion when they resolved it and whose model answered.
KeepsRegistryContract == Contract!Spec

\* A champion is replaced only by a challenger that was compared with that
\* very champion and won (the module docstring of registry.py).
OnlyAWinnerOusts ==
  [][\A v \in versions : row[v].champion /\ ~row'[v].champion =>
       \E r \in Retrainers :
         /\ pc[r] = "commitChallenger"
         /\ against[r] = v
         /\ row[target[r]].judged = "promote"
         /\ row'[target[r]].champion]_vars

\* A champion's bundle reaches the bucket, unless it is superseded first or the
\* process that promoted it died: a host that has not synced is only briefly
\* without it (retraining.retrain).
ChampionReachesBucket ==
  \A v \in VersionIds :
    (v \in versions /\ row[v].champion) ~>
      \/ \E n \in Slots : row[v].version = n /\ bucket[n] = Signed(ModelOf(v))
      \/ ~row[v].champion
      \/ crashes > 0

=============================================================================
