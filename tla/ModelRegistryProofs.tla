------------------------ MODULE ModelRegistryProofs ------------------------
(***************************************************************************)
(* Proofs about ModelRegistry for every number of hosts, uploads,           *)
(* retrains, predictions and crashes: what holds however they interleave    *)
(* (IInv), what holds where only one handler writes at a time (TInv, and    *)
(* NInv for what a prediction is logged under), that the registry then      *)
(* implements RegistryContract (QInv), and that retrains alone never leave  *)
(* a run without a champion (PInv).                                         *)
(***************************************************************************)
EXTENDS ModelRegistry, TLAPS

USE DEF Writers, Procs, Promoting, Committing

-----------------------------------------------------------------------------
(* The inductive invariant                                                  *)

\* What promote_model_version is called for is a row of the table that did not
\* lose its comparison.
PromotesARow ==
  \A w \in Writers : pc[w] \in Promoting \union Committing =>
    /\ target[w] \in versions
    /\ row[target[w]].judged # "refuse"

\* A fit that is not registered yet holds an id that is its own.
Unregistered == {"number", "dump", "sign", "add"}
OwnsItsId ==
  \A r \in Retrainers : pc[r] \in Unregistered =>
    /\ target[r] \in drawn \ versions
    /\ \A s \in Retrainers :
         pc[s] \in Unregistered /\ s # r => target[s] # target[r]

\* Places only an upload's pipeline reaches.
UploadPlaces == {"promoteTrained", "promoteReused", "commitTrained",
                 "commitReused"}

\* Uploads handle version 1 and never fit a challenger; a prediction writes no
\* row.
Places ==
  /\ \A u \in Uploads : /\ slot[u] = 1
                        /\ pc[u] \notin Unregistered \union
                             {"fit", "promoteChallenger", "commitChallenger"}
  /\ \A r \in Retrainers : pc[r] \notin UploadPlaces
  /\ \A q \in Predictors : pc[q] \in {"idle", "load"}

\* A registered version has a number within the bound.
Numbered == \A v \in versions : row[v].version \in Slots

\* A retrain found a champion, so what it registers is not version 1; the
\* bundle of its slot on its host is its own from the dump to the publication.
Holding == {"sign", "add", "promoteChallenger", "commitChallenger", "publish"}
Registered == {"promoteChallenger", "commitChallenger", "publish"}
RetrainHolding(r) ==
  /\ pc[r] \in {"fit", "number"} => versions # {}
  /\ pc[r] \in {"dump"} \union Holding => slot[r] # 1
  /\ pc[r] \in Holding => disk[HostOf[r]][slot[r]].model = target[r]
  /\ pc[r] \in Registered =>
       /\ target[r] \in versions
       /\ row[target[r]].judged = "promote"
       /\ row[target[r]].version = slot[r]
RetrainHolds == \A r \in Retrainers : RetrainHolding(r)

\* An upload under way has the first bundle on its host's disk.
UploadHolds ==
  \A u \in Uploads : pc[u] \notin {"idle", "done"} =>
    disk[HostOf[u]][1].model # NoModel

\* No challenger is ever stored under the name of version 1.
FirstIsInitial ==
  /\ \A h \in Hosts : disk[h][1].model \notin VersionIds
  /\ bucket[1].model \notin VersionIds

IInv == /\ TypeOK /\ PromotesARow /\ OwnsItsId /\ Places /\ Numbered
        /\ RetrainHolds /\ UploadHolds /\ FirstIsInitial
        /\ RefusedNeverServed /\ RegisteredBundleExists /\ OnlyWinnersPublished

-----------------------------------------------------------------------------
LEMMA FetchedType ==
  ASSUME TypeOK, NEW p \in Procs, NEW n \in Slots
  PROVE  Fetched(p, n) \in Bundle
<1>1. disk[HostOf[p]][n] \in Bundle /\ bucket[n] \in Bundle
  BY ProcsAssumption DEF TypeOK
<1> QED
  BY <1>1 DEF Fetched, Either, OnDisk, Bundle

LEMMA EnsureLocalType ==
  ASSUME TypeOK, NEW p \in Procs, NEW n \in Slots, EnsureLocal(p, n)
  PROVE  disk' \in [Hosts -> [Slots -> Bundle]]
<1>1. \A m \in Slots : Fetched(p, m) \in Bundle
  BY FetchedType
<1>2. HostOf[p] \in Hosts /\ disk \in [Hosts -> [Slots -> Bundle]]
  BY ProcsAssumption DEF TypeOK
<1>3. [m \in Slots |-> IF m \in {1, n} THEN Fetched(p, m)
                       ELSE disk[HostOf[p]][m]] \in [Slots -> Bundle]
  BY <1>1, <1>2
<1> QED
  BY <1>2, <1>3 DEF EnsureLocal

LEMMA SetDiskType ==
  ASSUME TypeOK, NEW p \in Procs, NEW n \in Slots, NEW b \in Bundle,
         SetDisk(p, n, b)
  PROVE  disk' \in [Hosts -> [Slots -> Bundle]]
<1>1. HostOf[p] \in Hosts /\ disk \in [Hosts -> [Slots -> Bundle]]
  BY ProcsAssumption DEF TypeOK
<1>2. [disk[HostOf[p]] EXCEPT ![n] = b] \in [Slots -> Bundle]
  BY <1>1
<1> QED
  BY <1>1, <1>2 DEF SetDisk

\* What a disk holds after one file of it is written, or fetched.
LEMMA SetDiskEffect ==
  ASSUME TypeOK, NEW p \in Procs, NEW n \in Slots, NEW b, SetDisk(p, n, b),
         NEW h \in Hosts, NEW m \in Slots
  PROVE  disk'[h][m] = IF h = HostOf[p] /\ m = n THEN b ELSE disk[h][m]
<1>1. /\ disk \in [Hosts -> [Slots -> Bundle]]
      /\ HostOf[p] \in Hosts
      /\ disk[HostOf[p]] \in [Slots -> Bundle]
  BY ProcsAssumption DEF TypeOK
<1>2. disk' = [disk EXCEPT ![HostOf[p]] = [disk[HostOf[p]] EXCEPT ![n] = b]]
  BY DEF SetDisk
<1>3. disk'[h] = IF h = HostOf[p] THEN [disk[HostOf[p]] EXCEPT ![n] = b]
                                  ELSE disk[h]
  BY <1>1, <1>2
<1> QED
  BY <1>1, <1>3

LEMMA EnsureLocalEffect ==
  ASSUME TypeOK, NEW p \in Procs, NEW n \in Slots, EnsureLocal(p, n),
         NEW h \in Hosts, NEW m \in Slots
  PROVE  disk'[h][m] = IF h = HostOf[p] /\ m \in {1, n} THEN Fetched(p, m)
                                                       ELSE disk[h][m]
<1>1. disk \in [Hosts -> [Slots -> Bundle]] /\ HostOf[p] \in Hosts
  BY ProcsAssumption DEF TypeOK
<1> QED
  BY <1>1 DEF EnsureLocal

LEMMA GotoType ==
  ASSUME TypeOK, NEW p \in Procs,
         NEW place \in {"idle", "done", "registerReused", "registerTrained",
                        "addReused", "addTrained", "fit", "number", "dump",
                        "sign", "add", "publish", "load"}
                       \union Promoting \union Committing,
         Goto(p, place)
  PROVE  pc' \in [Procs -> {"idle", "done", "registerReused",
                       "registerTrained", "addReused", "addTrained", "fit",
                       "number", "dump", "sign", "add", "publish", "load"}
                      \union Promoting \union Committing]
BY DEF TypeOK, Goto

LEMMA InitIInv == Init => IInv
<1> SUFFICES ASSUME Init PROVE IInv
  OBVIOUS
<1>1. TypeOK
  BY ProcsAssumption, ValuesAssumption
  DEF Init, TypeOK, Row, NoRow, Bundle, NoBundle, Models, Slots, Verdicts
<1>2. PromotesARow /\ OwnsItsId /\ Places /\ Numbered /\ RefusedNeverServed
  BY ProcsAssumption
  DEF Init, PromotesARow, OwnsItsId, Places, Numbered, RefusedNeverServed,
      Unregistered, UploadPlaces
<1>3. RetrainHolds /\ UploadHolds /\ FirstIsInitial
  BY ProcsAssumption, ValuesAssumption
  DEF Init, RetrainHolds, RetrainHolding, UploadHolds, FirstIsInitial, Holding, Registered,
      NoBundle, Slots
<1>4. RegisteredBundleExists /\ OnlyWinnersPublished
  BY ValuesAssumption
  DEF Init, RegisteredBundleExists, OnlyWinnersPublished, NoBundle
<1> QED
  BY <1>1, <1>2, <1>3, <1>4 DEF IInv

\* Every step keeps the types; a row that is read exists, by PromotesARow.
LEMMA StepType ==
  ASSUME IInv, [Next]_vars
  PROVE  TypeOK'
<1> USE DEF IInv, tableVars, fileVars, localVars
<1>0. SUFFICES ASSUME Next PROVE TypeOK'
  BY DEF TypeOK, vars, Row, Bundle, Models, Slots, Verdicts
<1>1. ASSUME NEW u \in Uploads, UploadCacheHit(u) PROVE TypeOK'
  <2>1. disk' \in [Hosts -> [Slots -> Bundle]]
    BY <1>1, EnsureLocalType, ValuesAssumption DEF UploadCacheHit, Slots
  <2> QED
    BY <1>1, <2>1, GotoType DEF UploadCacheHit, TypeOK
<1>2. ASSUME NEW u \in Uploads, UploadFit(u) PROVE TypeOK'
  <2>1. Signed(InitialModel) \in Bundle /\ 1 \in Slots
    BY ValuesAssumption DEF Signed, Bundle, Models, Slots
  <2>2. disk' \in [Hosts -> [Slots -> Bundle]]
    BY <1>2, <2>1, SetDiskType DEF UploadFit
  <2> QED
    BY <1>2, <2>2, GotoType DEF UploadFit, TypeOK
<1>3. ASSUME NEW u \in Uploads, RegisterKnown(u) \/ RegisterListed(u)
      PROVE  TypeOK'
  BY <1>3 DEF RegisterKnown, RegisterListed, TypeOK, Goto
<1>4. ASSUME NEW u \in Uploads, AddInitial(u) PROVE TypeOK'
  BY <1>4 DEF AddInitial, Fresh, TypeOK, Goto, Row, Verdicts
<1>5. ASSUME NEW w \in Writers, PromoteRead(w) PROVE TypeOK'
  <2>1. target[w] \in versions
    BY <1>5 DEF PromoteRead, PromotesARow
  <2>2. row[target[w]].champion \in BOOLEAN
    BY <2>1 DEF TypeOK, Row
  <2>3. {v \in versions : row[v].champion} \ {target[w]} \in SUBSET VersionIds
    BY DEF TypeOK
  <2>4. CommitOf(pc[w]) \in Committing
    BY DEF CommitOf
  <2> QED
    BY <1>5, <2>2, <2>3, <2>4 DEF PromoteRead, TypeOK, Goto
<1>6. ASSUME NEW w \in Writers, PromoteCommit(w) PROVE TypeOK'
  <2>1. PromotedRow(w) \in [VersionIds -> Row]
    BY DEF PromotedRow, TypeOK, Row
  <2> QED
    BY <1>6, <2>1 DEF PromoteCommit, TypeOK, Goto
<1>7. ASSUME NEW w \in Writers, Publish(w) PROVE TypeOK'
  <2>1. \A n \in Slots : disk[HostOf[w]][n] \in Bundle /\ bucket[n] \in Bundle
    BY ProcsAssumption DEF TypeOK
  <2>2. \A n \in Slots : Either(OnDisk(w)[n], bucket[n]) \in Bundle
    BY <2>1 DEF Either, OnDisk, Bundle
  <2>3. bucket' \in [Slots -> Bundle]
    BY <1>7, <2>1, <2>2 DEF Publish
  <2> QED
    BY <1>7, <2>3 DEF Publish, TypeOK, Goto
<1>8. ASSUME NEW r \in Retrainers, ReadChampion(r) PROVE TypeOK'
  <2>1. disk' \in [Hosts -> [Slots -> Bundle]]
    BY <1>8, EnsureLocalType, ValuesAssumption DEF ReadChampion, Slots
  <2> QED
    BY <1>8, <2>1 DEF ReadChampion, TypeOK, Goto
<1>9. ASSUME NEW r \in Retrainers, FitAndCompare(r) PROVE TypeOK'
  <2>1. verdict' \in [Writers -> Verdicts]
    BY <1>9 DEF FitAndCompare, TypeOK, Verdicts
  <2> QED
    BY <1>9, <2>1 DEF FitAndCompare, Fresh, TypeOK, Goto
<1>10. ASSUME NEW r \in Retrainers, NumberVersion(r) PROVE TypeOK'
  BY <1>10 DEF NumberVersion, TypeOK, Goto
<1>11. ASSUME NEW r \in Retrainers, DumpBundle(r) PROVE TypeOK'
  <2>1. slot[r] \in Slots /\ disk[HostOf[r]][slot[r]] \in Bundle
    BY ProcsAssumption DEF TypeOK
  <2>2. target[r] \in VersionIds
    BY <1>11 DEF DumpBundle, OwnsItsId, Unregistered, TypeOK
  <2>3. [OnDisk(r)[slot[r]] EXCEPT !.model = target[r]] \in Bundle
    BY <2>1, <2>2 DEF OnDisk, Bundle, Models
  <2>4. disk' \in [Hosts -> [Slots -> Bundle]]
    BY <1>11, <2>1, <2>3, SetDiskType DEF DumpBundle
  <2> QED
    BY <1>11, <2>4 DEF DumpBundle, TypeOK, Goto
<1>12. ASSUME NEW r \in Retrainers, SignBundle(r) PROVE TypeOK'
  <2>1. slot[r] \in Slots /\ disk[HostOf[r]][slot[r]] \in Bundle
    BY ProcsAssumption DEF TypeOK
  <2>2. Signed(OnDisk(r)[slot[r]].model) \in Bundle
    BY <2>1 DEF OnDisk, Bundle, Signed
  <2>3. disk' \in [Hosts -> [Slots -> Bundle]]
    BY <1>12, <2>1, <2>2, SetDiskType DEF SignBundle
  <2> QED
    BY <1>12, <2>3 DEF SignBundle, TypeOK, Goto
<1>13. ASSUME NEW r \in Retrainers, AddChallenger(r) PROVE TypeOK'
  <2>1. target[r] \in drawn
    BY <1>13 DEF AddChallenger, OwnsItsId, Unregistered
  <2>2. slot[r] \in Nat /\ verdict[r] \in Verdicts
    BY DEF TypeOK, Slots
  <2>3. row' \in [VersionIds -> Row]
    BY <1>13, <2>1, <2>2 DEF AddChallenger, TypeOK, Row
  <2> QED
    BY <1>13, <2>1, <2>3 DEF AddChallenger, TypeOK, Goto
<1>14. ASSUME NEW q \in Predictors, Resolve(q) PROVE TypeOK'
  <2>1. 1 \in Slots
    BY ValuesAssumption DEF Slots
  <2>2. ASSUME NEW v \in versions PROVE row[v].version \in Slots
    BY DEF Numbered
  <2> QED
    BY <1>14, <2>1, <2>2 DEF Resolve, IsServed, TypeOK, Goto
<1>15. ASSUME NEW q \in Predictors, Answer(q) \/ Refuse(q) PROVE TypeOK'
  <2>1. disk' \in [Hosts -> [Slots -> Bundle]]
    BY <1>15, EnsureLocalType DEF Answer, Refuse, TypeOK
  <2>2. Fetched(q, slot[q]).model \in Models
    BY FetchedType DEF TypeOK, Bundle
  <2>3. answers' \subseteq (VersionIds \union {NoVersion}) \X Models
    BY <1>15, <2>2 DEF Answer, Refuse, TypeOK
  <2> QED
    BY <1>15, <2>1, <2>3 DEF Answer, Refuse, TypeOK, Goto
<1>16. ASSUME NEW w \in Writers, Crash(w) PROVE TypeOK'
  BY <1>16, ValuesAssumption DEF Crash, TypeOK, Goto
<1> QED
  BY <1>0, <1>1, <1>2, <1>3, <1>4, <1>5, <1>6, <1>7, <1>8, <1>9, <1>10, <1>11,
     <1>12, <1>13, <1>14, <1>15, <1>16
  DEF Next, UploadStep, RetrainStep, WriterStep

\* A registered row stays, and its number and its verdict never change.
LEMMA RowsKept ==
  ASSUME IInv, [Next]_vars, NEW v \in versions
  PROVE  /\ v \in versions'
         /\ row'[v].judged = row[v].judged
         /\ row'[v].version = row[v].version
<1> USE DEF IInv, tableVars
<1>0. CASE UNCHANGED tableVars
  BY <1>0
<1>1. CASE \E u \in Uploads : AddInitial(u)
  <2>1. PICK u \in Uploads, w \in Fresh :
          /\ versions' = versions \union {w}
          /\ row' = [row EXCEPT ![w] =
               [version |-> 1, champion |-> TRUE, judged |-> "initial"]]
    BY <1>1 DEF AddInitial
  <2>2. v # w /\ v \in VersionIds
    BY DEF Fresh, TypeOK
  <2> QED
    BY <2>1, <2>2 DEF TypeOK
<1>2. CASE \E r \in Retrainers : AddChallenger(r)
  <2>1. PICK r \in Retrainers : AddChallenger(r)
    BY <1>2
  <2>2. target[r] \notin versions /\ v \in VersionIds
    BY <2>1 DEF AddChallenger, OwnsItsId, Unregistered, TypeOK
  <2> QED
    BY <2>1, <2>2 DEF AddChallenger, TypeOK
<1>3. CASE \E w \in Writers : PromoteCommit(w)
  <2>1. PICK w \in Writers : PromoteCommit(w)
    BY <1>3
  <2>2. v \in VersionIds /\ row[v] \in Row
    BY DEF TypeOK
  <2>3. PromotedRow(w)[v].judged = row[v].judged
        /\ PromotedRow(w)[v].version = row[v].version
    BY <2>2 DEF PromotedRow, Row
  <2> QED
    BY <2>1, <2>3 DEF PromoteCommit
<1>4. CASE \E r \in Retrainers : FitAndCompare(r)
  BY <1>4 DEF FitAndCompare
<1>5. Next => \/ UNCHANGED tableVars
              \/ \E u \in Uploads : AddInitial(u)
              \/ \E r \in Retrainers : AddChallenger(r) \/ FitAndCompare(r)
              \/ \E w \in Writers : PromoteCommit(w)
  BY DEF Next, UploadStep, RetrainStep, WriterStep, UploadCacheHit, UploadFit,
         RegisterKnown, RegisterListed, PromoteRead, Publish, ReadChampion,
         NumberVersion, DumpBundle, SignBundle, Resolve, Answer, Refuse, Crash
<1> QED
  BY <1>0, <1>1, <1>2, <1>3, <1>4, <1>5 DEF vars

\* No step removes a bundle from a disk.
LEMMA DiskKept ==
  ASSUME IInv, [Next]_vars, NEW h \in Hosts, NEW n \in Slots,
         disk[h][n].model # NoModel
  PROVE  disk'[h][n].model # NoModel
<1> USE DEF IInv, fileVars
<1>0. CASE UNCHANGED disk
  BY <1>0
<1>1. ASSUME NEW p \in Procs, NEW k \in Slots, EnsureLocal(p, k)
      PROVE  disk'[h][n].model # NoModel
  <2>1. \/ disk'[h][n] = disk[h][n]
        \/ h = HostOf[p] /\ disk'[h][n] = Fetched(p, n)
    BY <1>1, ProcsAssumption DEF EnsureLocal, TypeOK
  <2>2. h = HostOf[p] => Fetched(p, n).model = disk[h][n].model
    BY DEF Fetched, Either, OnDisk
  <2> QED
    BY <2>1, <2>2
<1>2. ASSUME NEW p \in Procs, NEW k \in Slots, NEW b \in Bundle,
             b.model # NoModel, SetDisk(p, k, b)
      PROVE  disk'[h][n].model # NoModel
  BY <1>2, ProcsAssumption DEF SetDisk, TypeOK
<1>3. ASSUME NEW u \in Uploads, UploadFit(u)
      PROVE  disk'[h][n].model # NoModel
  <2>1. /\ 1 \in Slots /\ Signed(InitialModel) \in Bundle
        /\ Signed(InitialModel).model # NoModel
    BY ValuesAssumption DEF Slots, Signed, Bundle, Models
  <2> QED
    BY <1>2, <1>3, <2>1 DEF UploadFit
<1>4. ASSUME NEW r \in Retrainers, DumpBundle(r)
      PROVE  disk'[h][n].model # NoModel
  <2>1. slot[r] \in Slots /\ disk[HostOf[r]][slot[r]] \in Bundle
    BY ProcsAssumption DEF TypeOK
  <2>2. target[r] \in VersionIds
    BY <1>4 DEF DumpBundle, OwnsItsId, Unregistered, TypeOK
  <2>3. /\ [OnDisk(r)[slot[r]] EXCEPT !.model = target[r]] \in Bundle
        /\ [OnDisk(r)[slot[r]] EXCEPT !.model = target[r]].model # NoModel
    BY <2>1, <2>2, ValuesAssumption DEF OnDisk, Bundle, Models
  <2> QED
    BY <1>2, <1>4, <2>1, <2>3 DEF DumpBundle
<1>5. ASSUME NEW r \in Retrainers, SignBundle(r)
      PROVE  disk'[h][n].model # NoModel
  <2>1. slot[r] \in Slots /\ disk[HostOf[r]][slot[r]] \in Bundle
    BY ProcsAssumption DEF TypeOK
  <2>2. disk[HostOf[r]][slot[r]].model = target[r] /\ target[r] \in VersionIds
    BY <1>5 DEF SignBundle, RetrainHolds, RetrainHolding, Holding, OwnsItsId, Unregistered,
                TypeOK
  <2>3. /\ Signed(OnDisk(r)[slot[r]].model) \in Bundle
        /\ Signed(OnDisk(r)[slot[r]].model).model # NoModel
    BY <2>1, <2>2, ValuesAssumption DEF OnDisk, Bundle, Models, Signed
  <2> QED
    BY <1>2, <1>5, <2>1, <2>3 DEF SignBundle
<1>6. Next => \/ UNCHANGED disk
              \/ \E p \in Procs, k \in Slots : EnsureLocal(p, k)
              \/ \E u \in Uploads : UploadFit(u)
              \/ \E r \in Retrainers : DumpBundle(r) \/ SignBundle(r)
  <2>1. 1 \in Slots /\ \A p \in Procs : slot[p] \in Slots
    BY ValuesAssumption DEF Slots, TypeOK
  <2>2. \A u \in Uploads : UploadCacheHit(u) => EnsureLocal(u, 1)
    BY DEF UploadCacheHit
  <2>3. \A r \in Retrainers : ReadChampion(r) => EnsureLocal(r, 1)
    BY DEF ReadChampion
  <2>4. \A q \in Predictors :
          Answer(q) \/ Refuse(q) => EnsureLocal(q, slot[q])
    BY DEF Answer, Refuse
  <2>5. Next => \/ UNCHANGED disk
                \/ \E u \in Uploads : UploadCacheHit(u) \/ UploadFit(u)
                \/ \E r \in Retrainers :
                     ReadChampion(r) \/ DumpBundle(r) \/ SignBundle(r)
                \/ \E q \in Predictors : Answer(q) \/ Refuse(q)
    BY DEF Next, UploadStep, RetrainStep, WriterStep, RegisterKnown,
           RegisterListed, AddInitial, PromoteRead, PromoteCommit, Publish,
           FitAndCompare, NumberVersion, AddChallenger, Resolve, Crash
  <2> QED
    BY <2>1, <2>2, <2>3, <2>4, <2>5
<1> QED
  BY <1>0, <1>1, <1>3, <1>4, <1>5, <1>6 DEF vars

\* The champion flag is only ever given to a row that did not lose.
LEMMA StepRefused ==
  ASSUME IInv, [Next]_vars
  PROVE  RefusedNeverServed'
<1> USE DEF IInv, tableVars
<1>0. CASE UNCHANGED <<versions, row>>
  BY <1>0 DEF RefusedNeverServed
<1>1. ASSUME NEW u \in Uploads, AddInitial(u) PROVE RefusedNeverServed'
  BY <1>1 DEF AddInitial, RefusedNeverServed, TypeOK, Fresh
<1>2. ASSUME NEW r \in Retrainers, AddChallenger(r) PROVE RefusedNeverServed'
  <2>1. target[r] \in VersionIds
    BY <1>2 DEF AddChallenger, OwnsItsId, Unregistered, TypeOK
  <2>2. ~row'[target[r]].champion
    BY <1>2, <2>1 DEF AddChallenger, TypeOK
  <2>3. \A v \in versions : v # target[r] => row'[v] = row[v]
    BY <1>2, <2>1 DEF AddChallenger, TypeOK
  <2> QED
    BY <1>2, <2>2, <2>3 DEF AddChallenger, RefusedNeverServed
<1>3. ASSUME NEW w \in Writers, PromoteCommit(w) PROVE RefusedNeverServed'
  <2>1. target[w] \in versions /\ row[target[w]].judged # "refuse"
    BY <1>3 DEF PromoteCommit, PromotesARow
  <2>2. ASSUME NEW v \in versions, row'[v].champion
        PROVE  row'[v].judged # "refuse"
    <3>1. row'[v].judged = row[v].judged
      BY RowsKept, <1>3 DEF Next, WriterStep
    <3>2. v = target[w] \/ row[v].champion
      <4>1. v \in VersionIds /\ row[v] \in Row
        BY DEF TypeOK
      <4>2. row'[v] = PromotedRow(w)[v]
        BY <1>3 DEF PromoteCommit
      <4> QED
        BY <2>2, <4>1, <4>2 DEF PromotedRow, Row
    <3> QED
      BY <2>1, <3>1, <3>2 DEF RefusedNeverServed
  <2> QED
    BY <1>3, <2>2 DEF PromoteCommit, RefusedNeverServed
<1>4. Next => \/ UNCHANGED <<versions, row>>
              \/ \E u \in Uploads : AddInitial(u)
              \/ \E r \in Retrainers : AddChallenger(r)
              \/ \E w \in Writers : PromoteCommit(w)
  BY DEF Next, UploadStep, RetrainStep, WriterStep, UploadCacheHit, UploadFit,
         RegisterKnown, RegisterListed, PromoteRead, Publish, ReadChampion,
         FitAndCompare, NumberVersion, DumpBundle, SignBundle, Resolve, Answer,
         Refuse, Crash
<1> QED
  BY <1>0, <1>1, <1>2, <1>3, <1>4 DEF vars

\* Where an execution may stand after a step, and with which target: one that
\* begins to promote has just added its row, or was promoting before.
LEMMA StepPlaces ==
  ASSUME IInv, [Next]_vars
  PROVE  Places' /\ PromotesARow' /\ OwnsItsId'
<1> USE DEF IInv, tableVars, localVars
<1> USE ProcsAssumption
<1>0. CASE UNCHANGED vars
  BY <1>0 DEF vars, Places, PromotesARow, OwnsItsId
<1>a. \A v \in versions : v \in versions' /\ row'[v].judged = row[v].judged
  BY RowsKept
<1>b. ASSUME NEW p \in Procs, NEW place, Goto(p, place),
             UNCHANGED <<target, slot, versions, drawn>>,
             place \notin Unregistered \/ pc[p] \in Unregistered,
             p \in Uploads => place \notin Unregistered \union
                                {"fit", "promoteChallenger", "commitChallenger"},
             p \in Retrainers => place \notin UploadPlaces,
             p \in Predictors => place \in {"idle", "load"},
             place \in Promoting \union Committing =>
               pc[p] \in Promoting \union Committing
      PROVE  Places' /\ PromotesARow' /\ OwnsItsId'
  <2>1. \A q \in Procs : pc'[q] = IF q = p THEN place ELSE pc[q]
    BY <1>b DEF Goto, TypeOK
  <2>2. Places'
    BY <1>b, <2>1 DEF Places
  <2>3. PromotesARow'
    BY <1>a, <1>b, <2>1 DEF PromotesARow
  <2>4. OwnsItsId'
    BY <1>b, <2>1 DEF OwnsItsId
  <2> QED
    BY <2>2, <2>3, <2>4
<1>1. ASSUME NEW u \in Uploads, UploadStep(u), ~AddInitial(u)
      PROVE  Places' /\ PromotesARow' /\ OwnsItsId'
  BY <1>1, <1>b
  DEF UploadStep, UploadCacheHit, UploadFit, RegisterKnown, RegisterListed,
      Unregistered, UploadPlaces
<1>2. ASSUME NEW u \in Uploads, AddInitial(u)
      PROVE  Places' /\ PromotesARow' /\ OwnsItsId'
  <2>1. PICK v \in Fresh :
          /\ versions' = versions \union {v}
          /\ drawn' = drawn \union {v}
          /\ row' = [row EXCEPT ![v] =
               [version |-> 1, champion |-> TRUE, judged |-> "initial"]]
          /\ target' = [target EXCEPT ![u] = v]
    BY <1>2 DEF AddInitial
  <2>2. pc'[u] \in {"promoteTrained", "promoteReused"} /\ slot' = slot
        /\ \A p \in Procs : p # u => pc'[p] = pc[p] /\ target'[p] = target[p]
    BY <1>2, <2>1 DEF AddInitial, Goto, TypeOK
  <2>3. v \in VersionIds /\ v \notin drawn /\ target'[u] = v
        /\ row'[v].judged = "initial" /\ v \in versions'
    BY <2>1 DEF Fresh, TypeOK
  <2>4. Places'
    BY <2>2 DEF Places, Unregistered, UploadPlaces
  <2>5. PromotesARow'
    BY <1>a, <2>2, <2>3 DEF PromotesARow
  <2>6. OwnsItsId'
    BY <2>1, <2>2, <2>3 DEF OwnsItsId
  <2> QED
    BY <2>4, <2>5, <2>6
<1>3. ASSUME NEW w \in Writers, WriterStep(w)
      PROVE  Places' /\ PromotesARow' /\ OwnsItsId'
  <2>1. CommitOf(pc[w]) \in Committing
    BY DEF CommitOf
  <2>2. w \in Uploads /\ pc[w] \in Promoting =>
          CommitOf(pc[w]) # "commitChallenger"
    BY DEF Places, CommitOf
  <2>3. w \in Retrainers /\ pc[w] \in Promoting =>
          CommitOf(pc[w]) = "commitChallenger"
    BY DEF Places, CommitOf, UploadPlaces
  <2> QED
    BY <1>3, <1>b, <2>1, <2>2, <2>3
    DEF WriterStep, PromoteRead, PromoteCommit, Publish, Unregistered,
        UploadPlaces
<1>4. ASSUME NEW r \in Retrainers, ReadChampion(r)
      PROVE  Places' /\ PromotesARow' /\ OwnsItsId'
  BY <1>4, <1>b DEF ReadChampion, Unregistered, UploadPlaces
<1>5. ASSUME NEW r \in Retrainers, FitAndCompare(r)
      PROVE  Places' /\ PromotesARow' /\ OwnsItsId'
  <2>1. PICK v \in Fresh : /\ drawn' = drawn \union {v}
                           /\ target' = [target EXCEPT ![r] = v]
    BY <1>5 DEF FitAndCompare
  <2>2. pc'[r] = "number" /\ slot' = slot /\ versions' = versions
        /\ \A p \in Procs : p # r => pc'[p] = pc[p] /\ target'[p] = target[p]
    BY <1>5, <2>1 DEF FitAndCompare, Goto, TypeOK
  <2>3. v \in VersionIds /\ v \notin drawn /\ v \notin versions
        /\ target'[r] = v
    BY <2>1 DEF Fresh, TypeOK
  <2>4. Places'
    BY <2>2 DEF Places, UploadPlaces
  <2>5. PromotesARow'
    BY <1>a, <2>2 DEF PromotesARow
  <2>6. OwnsItsId'
    BY <2>1, <2>2, <2>3 DEF OwnsItsId
  <2> QED
    BY <2>4, <2>5, <2>6
<1>6. ASSUME NEW r \in Retrainers, NumberVersion(r)
      PROVE  Places' /\ PromotesARow' /\ OwnsItsId'
  <2>1. \A p \in Procs : pc'[p] = IF p = r THEN "dump" ELSE pc[p]
    BY <1>6 DEF NumberVersion, Goto, TypeOK
  <2>2. \A p \in Procs : p # r => slot'[p] = slot[p]
    BY <1>6 DEF NumberVersion, TypeOK
  <2>3. Places'
    BY <2>1, <2>2 DEF Places, UploadPlaces
  <2>4. PromotesARow'
    BY <1>6, <1>a, <2>1 DEF PromotesARow, NumberVersion
  <2>5. OwnsItsId'
    BY <1>6, <2>1 DEF OwnsItsId, NumberVersion, Unregistered
  <2> QED
    BY <2>3, <2>4, <2>5
<1>7. ASSUME NEW r \in Retrainers, DumpBundle(r) \/ SignBundle(r)
      PROVE  Places' /\ PromotesARow' /\ OwnsItsId'
  BY <1>7, <1>b DEF DumpBundle, SignBundle, Unregistered, UploadPlaces
<1>8. ASSUME NEW r \in Retrainers, AddChallenger(r)
      PROVE  Places' /\ PromotesARow' /\ OwnsItsId'
  <2>1. /\ pc'[r] \in {"promoteChallenger", "idle"}
        /\ pc'[r] = "promoteChallenger" => verdict[r] = "promote"
        /\ \A p \in Procs : p # r => pc'[p] = pc[p]
        /\ UNCHANGED <<target, slot, drawn>>
    BY <1>8 DEF AddChallenger, Goto, TypeOK
  <2>2. target[r] \in VersionIds /\ versions' = versions \union {target[r]}
        /\ row'[target[r]].judged = verdict[r]
    BY <1>8 DEF AddChallenger, OwnsItsId, Unregistered, TypeOK
  <2>3. Places'
    BY <2>1 DEF Places, Unregistered, UploadPlaces
  <2>4. PromotesARow'
    BY <1>a, <2>1, <2>2 DEF PromotesARow
  <2>5. OwnsItsId'
    BY <1>8, <2>1, <2>2 DEF OwnsItsId, Unregistered, AddChallenger
  <2> QED
    BY <2>3, <2>4, <2>5
<1>9. ASSUME NEW q \in Predictors, Resolve(q) \/ Answer(q) \/ Refuse(q)
      PROVE  Places' /\ PromotesARow' /\ OwnsItsId'
  <2>1. \A p \in Procs : p # q => pc'[p] = pc[p] /\ target'[p] = target[p]
                                  /\ slot'[p] = slot[p]
    BY <1>9 DEF Resolve, Answer, Refuse, Goto, TypeOK
  <2>2. pc'[q] \in {"idle", "load"} /\ UNCHANGED <<versions, drawn>>
    BY <1>9 DEF Resolve, Answer, Refuse, Goto, TypeOK
  <2>3. q \notin Writers
    OBVIOUS
  <2>4. Places'
    BY <2>1, <2>2, <2>3 DEF Places, UploadPlaces
  <2>5. PromotesARow'
    BY <1>a, <2>1, <2>2, <2>3 DEF PromotesARow
  <2>6. OwnsItsId'
    BY <2>1, <2>2, <2>3 DEF OwnsItsId
  <2> QED
    BY <2>4, <2>5, <2>6
<1>10. ASSUME NEW w \in Writers, Crash(w)
       PROVE  Places' /\ PromotesARow' /\ OwnsItsId'
  BY <1>10, <1>b DEF Crash, Unregistered, UploadPlaces
<1> QED
  BY <1>0, <1>1, <1>2, <1>3, <1>4, <1>5, <1>6, <1>7, <1>8, <1>9, <1>10
  DEF Next, RetrainStep

\* Version numbers stay within the bound, and a retrain never numbers its
\* challenger 1.
LEMMA StepNumbered ==
  ASSUME IInv, [Next]_vars
  PROVE  Numbered'
<1> USE DEF IInv, tableVars
<1>0. CASE UNCHANGED vars
  BY <1>0 DEF vars, Numbered, Slots
<1>1. \A v \in versions : row'[v].version = row[v].version
  BY RowsKept
<1>2. ASSUME versions' = versions PROVE Numbered'
  BY <1>1, <1>2 DEF Numbered, Slots
<1>3. ASSUME NEW u \in Uploads, AddInitial(u) PROVE Numbered'
  <2>1. 1 \in Slots
    BY ValuesAssumption DEF Slots
  <2>2. PICK v \in Fresh : /\ versions' = versions \union {v}
                           /\ row'[v].version = 1
    BY <1>3 DEF AddInitial, Fresh, TypeOK
  <2> QED
    BY <1>1, <2>1, <2>2 DEF Numbered, Slots
<1>4. ASSUME NEW r \in Retrainers, AddChallenger(r) PROVE Numbered'
  <2>1. row'[target[r]].version = slot[r] /\ slot[r] \in Slots
    BY <1>4 DEF AddChallenger, OwnsItsId, Unregistered, TypeOK
  <2> QED
    BY <1>1, <1>4, <2>1 DEF Numbered, AddChallenger, Slots
<1>5. Next => \/ versions' = versions
              \/ \E u \in Uploads : AddInitial(u)
              \/ \E r \in Retrainers : AddChallenger(r)
  BY DEF Next, UploadStep, RetrainStep, WriterStep, UploadCacheHit, UploadFit,
         RegisterKnown, RegisterListed, PromoteRead, PromoteCommit, Publish,
         ReadChampion, FitAndCompare, NumberVersion, DumpBundle, SignBundle,
         Resolve, Answer, Refuse, Crash
<1> QED
  BY <1>0, <1>2, <1>3, <1>4, <1>5

LEMMA NextIsNotFirst ==
  ASSUME IInv, versions # {}, NEW n \in Slots, IsNextVersion(n)
  PROVE  n # 1
<1>1. PICK v \in versions : row[v].version < n
  BY DEF IsNextVersion
<1>2. row[v].version \in Slots
  BY DEF IInv, Numbered
<1> QED
  BY <1>1, <1>2 DEF Slots

\* No step puts a challenger under version 1's name, on a disk or in the
\* bucket.
LEMMA StepFirst ==
  ASSUME IInv, [Next]_vars
  PROVE  FirstIsInitial'
<1> USE DEF IInv, fileVars
<1>0. CASE UNCHANGED <<disk, bucket>>
  BY <1>0 DEF FirstIsInitial
<1>1. 1 \in Slots
  BY ValuesAssumption DEF Slots
<1>2. \A p \in Procs : Fetched(p, 1).model \notin VersionIds
  BY ProcsAssumption DEF FirstIsInitial, Fetched, Either, OnDisk
<1>3. ASSUME NEW p \in Procs, NEW k \in Slots, EnsureLocal(p, k),
             bucket' = bucket
      PROVE  FirstIsInitial'
  <2>1. ASSUME NEW h \in Hosts PROVE disk'[h][1].model \notin VersionIds
    <3>1. \/ disk'[h][1] = disk[h][1]
          \/ disk'[h][1] = Fetched(p, 1)
      BY <1>1, <1>3, ProcsAssumption DEF EnsureLocal, TypeOK
    <3> QED
      BY <1>2, <3>1 DEF FirstIsInitial
  <2> QED
    BY <1>3, <2>1 DEF FirstIsInitial
<1>4. ASSUME NEW u \in Uploads, UploadFit(u) PROVE FirstIsInitial'
  <2>1. \A h \in Hosts :
          disk'[h][1] \in {disk[h][1], Signed(InitialModel)}
    BY <1>1, <1>4, SetDiskEffect DEF UploadFit
  <2> QED
    BY <1>4, <2>1, ValuesAssumption DEF UploadFit, Signed, FirstIsInitial
<1>5. ASSUME NEW r \in Retrainers, DumpBundle(r) \/ SignBundle(r)
      PROVE  FirstIsInitial'
  <2>1. slot[r] # 1 /\ slot[r] \in Slots
    BY <1>5 DEF DumpBundle, SignBundle, RetrainHolds, RetrainHolding, Holding, TypeOK
  <2>2. \A h \in Hosts : disk'[h][1] = disk[h][1]
    BY <1>1, <1>5, <2>1, SetDiskEffect DEF DumpBundle, SignBundle
  <2> QED
    BY <1>5, <2>2 DEF DumpBundle, SignBundle, FirstIsInitial
<1>6. ASSUME NEW w \in Writers, Publish(w) PROVE FirstIsInitial'
  <2>1. bucket'[1] = Either(OnDisk(w)[1], bucket[1])
    BY <1>1, <1>6 DEF Publish
  <2>2. bucket'[1].model \notin VersionIds
    BY <2>1, <1>6, ProcsAssumption DEF Either, OnDisk, FirstIsInitial
  <2> QED
    BY <1>6, <2>2 DEF Publish, FirstIsInitial
<1>7. Next => \/ UNCHANGED <<disk, bucket>>
              \/ \E p \in Procs, k \in Slots :
                   EnsureLocal(p, k) /\ bucket' = bucket
              \/ \E u \in Uploads : UploadFit(u)
              \/ \E r \in Retrainers : DumpBundle(r) \/ SignBundle(r)
              \/ \E w \in Writers : Publish(w)
  <2>1. \A p \in Procs : slot[p] \in Slots
    BY DEF TypeOK
  <2>2. \A u \in Uploads :
          UploadCacheHit(u) => EnsureLocal(u, 1) /\ bucket' = bucket
    BY DEF UploadCacheHit
  <2>3. \A r \in Retrainers :
          ReadChampion(r) => EnsureLocal(r, 1) /\ bucket' = bucket
    BY DEF ReadChampion
  <2>4. \A q \in Predictors : Answer(q) \/ Refuse(q) =>
          EnsureLocal(q, slot[q]) /\ bucket' = bucket
    BY DEF Answer, Refuse
  <2>5. Next => \/ UNCHANGED <<disk, bucket>>
                \/ \E u \in Uploads : UploadCacheHit(u) \/ UploadFit(u)
                \/ \E r \in Retrainers :
                     ReadChampion(r) \/ DumpBundle(r) \/ SignBundle(r)
                \/ \E q \in Predictors : Answer(q) \/ Refuse(q)
                \/ \E w \in Writers : Publish(w)
    BY DEF Next, UploadStep, RetrainStep, WriterStep, RegisterKnown,
           RegisterListed, AddInitial, PromoteRead, PromoteCommit,
           FitAndCompare, NumberVersion, AddChallenger, Resolve, Crash
  <2> QED
    BY <1>1, <2>1, <2>2, <2>3, <2>4, <2>5
<1> QED
  BY <1>0, <1>3, <1>4, <1>5, <1>6, <1>7 DEF vars

\* What an upload or a retrain under way has on its host's disk, it keeps.
LEMMA StepHolds ==
  ASSUME IInv, [Next]_vars
  PROVE  UploadHolds' /\ RetrainHolds'
<1> USE DEF IInv, tableVars, fileVars, localVars
<1>0. CASE UNCHANGED vars
  BY <1>0 DEF vars, UploadHolds, RetrainHolds, RetrainHolding
<1>1. 1 \in Slots /\ \A p \in Procs : slot[p] \in Slots /\ HostOf[p] \in Hosts
  BY ValuesAssumption, ProcsAssumption DEF Slots, TypeOK
<1>2. \A v \in versions : /\ v \in versions'
                          /\ row'[v].judged = row[v].judged
                          /\ row'[v].version = row[v].version
  BY RowsKept
<1>3. \A h \in Hosts : disk[h][1].model # NoModel => disk'[h][1].model # NoModel
  BY <1>1, DiskKept
<1>4. ASSUME NEW r \in Retrainers, pc[r] \in Holding
      PROVE  target[r] \in VersionIds /\ target[r] # NoModel
  <2>1. target[r] \in drawn
    BY <1>4 DEF Holding, RetrainHolds, RetrainHolding, Registered, OwnsItsId, Unregistered,
                TypeOK
  <2> QED
    BY <2>1, ValuesAssumption DEF TypeOK
\* The bundle a retrain holds is not touched by anything but the retrain.
<1>5. ASSUME NEW r \in Retrainers, pc[r] \in Holding
      PROVE  disk'[HostOf[r]][slot[r]].model = target[r]
  <2> DEFINE h == HostOf[r]
             n == slot[r]
  <2>1. /\ h \in Hosts /\ n \in Slots /\ n # 1
        /\ disk[h][n].model = target[r] /\ target[r] # NoModel
    BY <1>1, <1>4, <1>5 DEF RetrainHolds, RetrainHolding
  <2>2. CASE UNCHANGED disk
    BY <2>1, <2>2
  <2>3. ASSUME NEW p \in Procs, NEW k \in Slots, EnsureLocal(p, k)
        PROVE  disk'[h][n].model = target[r]
    <3>1. disk'[h][n] \in {disk[h][n], Fetched(p, n)}
          /\ (disk'[h][n] # disk[h][n] => h = HostOf[p])
      BY <2>1, <2>3, EnsureLocalEffect
    <3>2. h = HostOf[p] => Fetched(p, n).model = disk[h][n].model
      BY <2>1 DEF Fetched, Either, OnDisk
    <3> QED
      BY <2>1, <3>1, <3>2
  <2>4. ASSUME NEW u \in Uploads, UploadFit(u)
        PROVE  disk'[h][n].model = target[r]
    BY <1>1, <2>1, <2>4, SetDiskEffect DEF UploadFit
  <2>5. ASSUME NEW s \in Retrainers, DumpBundle(s)
        PROVE  disk'[h][n].model = target[r]
    <3>1. s # r
      BY <1>5, <2>5 DEF DumpBundle, Holding
    <3>2. HostOf[s] # h
      BY <3>1, OneRetrainPerHost
    <3> QED
      BY <1>1, <2>1, <2>5, <3>2, SetDiskEffect DEF DumpBundle
  <2>6. ASSUME NEW s \in Retrainers, SignBundle(s)
        PROVE  disk'[h][n].model = target[r]
    <3>1. CASE s = r
      <4>1. disk'[h][n] = Signed(disk[h][n].model)
        BY <1>1, <2>1, <2>6, <3>1, SetDiskEffect DEF SignBundle, OnDisk
      <4> QED
        BY <2>1, <4>1 DEF Signed
    <3>2. CASE s # r
      <4>1. HostOf[s] # h
        BY <3>2, OneRetrainPerHost
      <4> QED
        BY <1>1, <2>1, <2>6, <4>1, SetDiskEffect DEF SignBundle
    <3> QED
      BY <3>1, <3>2
  <2>7. \A u \in Uploads : UploadCacheHit(u) => EnsureLocal(u, 1)
    BY DEF UploadCacheHit
  <2>8. \A s \in Retrainers : ReadChampion(s) => EnsureLocal(s, 1)
    BY DEF ReadChampion
  <2>9. \A q \in Predictors :
          Answer(q) \/ Refuse(q) => EnsureLocal(q, slot[q])
    BY DEF Answer, Refuse
  <2>10. Next => \/ UNCHANGED disk
                 \/ \E u \in Uploads : UploadCacheHit(u) \/ UploadFit(u)
                 \/ \E s \in Retrainers :
                      ReadChampion(s) \/ DumpBundle(s) \/ SignBundle(s)
                 \/ \E q \in Predictors : Answer(q) \/ Refuse(q)
    BY DEF Next, UploadStep, RetrainStep, WriterStep, RegisterKnown,
           RegisterListed, AddInitial, PromoteRead, PromoteCommit, Publish,
           FitAndCompare, NumberVersion, AddChallenger, Resolve, Crash
  <2> QED
    BY <1>1, <2>2, <2>3, <2>4, <2>5, <2>6, <2>7, <2>8, <2>9, <2>10 DEF vars
<1>6. UploadHolds'
  <2> SUFFICES ASSUME NEW u \in Uploads, pc'[u] \notin {"idle", "done"}
               PROVE  disk'[HostOf[u]][1].model # NoModel
    BY DEF UploadHolds
  <2>1. CASE pc[u] \notin {"idle", "done"}
    BY <1>1, <1>3, <2>1 DEF UploadHolds
  <2>2. CASE UploadCacheHit(u)
    <3>1. disk'[HostOf[u]][1] = Fetched(u, 1)
      BY <1>1, <2>2, EnsureLocalEffect DEF UploadCacheHit
    <3> QED
      BY <2>2, <3>1 DEF UploadCacheHit
  <2>3. CASE UploadFit(u)
    <3>1. disk'[HostOf[u]][1] = Signed(InitialModel)
      BY <1>1, <2>3, SetDiskEffect DEF UploadFit
    <3> QED
      BY <3>1, ValuesAssumption DEF Signed
  <2>4. UploadCacheHit(u) \/ UploadFit(u) \/ pc[u] \notin {"idle", "done"}
    <3>1. \A p \in Procs : \A place : Goto(p, place) /\ p # u => pc'[u] = pc[u]
      BY DEF Goto, TypeOK
    <3>2. \A place : Goto(u, place) => pc'[u] = place
      BY DEF Goto, TypeOK
    <3>3. CASE UNCHANGED vars
      BY <3>3 DEF vars
    <3>4. CASE \E v \in Uploads : UploadStep(v)
      BY <3>1, <3>4
      DEF UploadStep, UploadCacheHit, UploadFit, RegisterKnown, RegisterListed,
          AddInitial
    <3>5. CASE \E r \in Retrainers : ReadChampion(r) \/ RetrainStep(r)
      BY <3>1, <3>5, ProcsAssumption
      DEF RetrainStep, ReadChampion, FitAndCompare, NumberVersion, DumpBundle,
          SignBundle, AddChallenger
    <3>6. CASE \E w \in Writers : WriterStep(w) \/ Crash(w)
      BY <3>1, <3>2, <3>6 DEF WriterStep, PromoteRead, PromoteCommit, Publish,
                              Crash
    <3>7. CASE \E q \in Predictors : Resolve(q) \/ Answer(q) \/ Refuse(q)
      BY <3>1, <3>7, ProcsAssumption DEF Resolve, Answer, Refuse
    <3> QED
      BY <3>3, <3>4, <3>5, <3>6, <3>7 DEF Next
  <2> QED
    BY <2>1, <2>2, <2>3, <2>4
<1>7. RetrainHolds'
  <2> SUFFICES ASSUME NEW r \in Retrainers PROVE RetrainHolding(r)'
    BY DEF RetrainHolds
  <2> USE DEF RetrainHolding, Holding, Registered
  <2>0. RetrainHolding(r)
    BY DEF RetrainHolds
  \* A step of another execution, or one that only drops or moves on what r
  \* already holds.
  <2>1. ASSUME target'[r] = target[r], slot'[r] = slot[r],
               \/ pc'[r] = pc[r]
               \/ pc'[r] = "idle"
               \/ pc[r] = "fit" /\ pc'[r] = "number"
               \/ pc[r] = "sign" /\ pc'[r] = "add"
               \/ pc[r] = "promoteChallenger" /\ pc'[r] = "commitChallenger"
               \/ pc[r] = "commitChallenger" /\ pc'[r] = "publish"
        PROVE  RetrainHolding(r)'
    <3>1. pc'[r] \in Holding => pc[r] \in Holding
      BY <2>1
    <3>2. pc'[r] \in Registered => pc[r] \in Registered
      BY <2>1
    <3>3. versions # {} => versions' # {}
      BY <1>2
    <3> QED
      BY <1>2, <1>5, <2>0, <2>1, <3>1, <3>2, <3>3
  <2>2. \A p \in Procs : \A place :
          Goto(p, place) => pc'[r] = IF p = r THEN place ELSE pc[r]
    BY DEF Goto, TypeOK
  <2>3. CASE UNCHANGED vars
    BY <2>1, <2>3 DEF vars
  <2>4. CASE \E u \in Uploads : UploadStep(u)
    <3>1. PICK u \in Uploads : UploadStep(u)
      BY <2>4
    <3>2. u # r /\ pc'[r] = pc[r]
      BY <2>2, <3>1, ProcsAssumption
      DEF UploadStep, UploadCacheHit, UploadFit, RegisterKnown, RegisterListed,
          AddInitial
    <3>3. target'[r] = target[r] /\ slot'[r] = slot[r]
      BY <3>1, <3>2
      DEF UploadStep, UploadCacheHit, UploadFit, RegisterKnown, RegisterListed,
          AddInitial, TypeOK
    <3> QED
      BY <2>1, <3>2, <3>3
  <2>5. CASE \E s \in Retrainers : s # r /\ (ReadChampion(s) \/ RetrainStep(s))
    <3>1. PICK s \in Retrainers : s # r /\ (ReadChampion(s) \/ RetrainStep(s))
      BY <2>5
    <3>2. pc'[r] = pc[r]
      BY <2>2, <3>1
      DEF RetrainStep, ReadChampion, FitAndCompare, NumberVersion, DumpBundle,
          SignBundle, AddChallenger
    <3>3. target'[r] = target[r] /\ slot'[r] = slot[r]
      BY <3>1
      DEF RetrainStep, ReadChampion, FitAndCompare, NumberVersion, DumpBundle,
          SignBundle, AddChallenger, TypeOK
    <3> QED
      BY <2>1, <3>2, <3>3
  <2>6. CASE \E w \in Writers : WriterStep(w) \/ Crash(w)
    <3>1. PICK w \in Writers : WriterStep(w) \/ Crash(w)
      BY <2>6
    <3>2. w = r => pc[r] \notin {"promoteTrained", "promoteReused",
                                 "commitTrained", "commitReused"}
      BY DEF Places, UploadPlaces
    <3>3. \/ pc'[r] = pc[r]
          \/ pc'[r] = "idle"
          \/ pc[r] = "promoteChallenger" /\ pc'[r] = "commitChallenger"
          \/ pc[r] = "commitChallenger" /\ pc'[r] = "publish"
      <4>1. pc[r] = "promoteChallenger" => CommitOf(pc[r]) = "commitChallenger"
        BY DEF CommitOf
      <4> QED
        BY <2>2, <3>1, <3>2, <4>1, ProcsAssumption
        DEF WriterStep, PromoteRead, PromoteCommit, Publish, Crash
    <3>4. target' = target /\ slot' = slot
      BY <3>1 DEF WriterStep, PromoteRead, PromoteCommit, Publish, Crash
    <3> QED
      BY <2>1, <3>3, <3>4
  <2>7. CASE \E q \in Predictors : Resolve(q) \/ Answer(q) \/ Refuse(q)
    <3>1. PICK q \in Predictors : Resolve(q) \/ Answer(q) \/ Refuse(q)
      BY <2>7
    <3>2. q # r /\ pc'[r] = pc[r]
      BY <2>2, <3>1, ProcsAssumption DEF Resolve, Answer, Refuse
    <3>3. target'[r] = target[r] /\ slot'[r] = slot[r]
      BY <3>1, <3>2 DEF Resolve, Answer, Refuse, TypeOK
    <3> QED
      BY <2>1, <3>2, <3>3
  <2>8. CASE ReadChampion(r)
    <3>1. pc'[r] = "fit" /\ versions' = versions /\ versions # {}
      BY <2>2, <2>8 DEF ReadChampion, IsServed
    <3> QED
      BY <3>1
  <2>9. CASE FitAndCompare(r)
    <3>1. pc[r] = "fit" /\ pc'[r] = "number" /\ versions' = versions
      BY <2>2, <2>9 DEF FitAndCompare
    <3> QED
      BY <2>0, <3>1
  <2>10. CASE NumberVersion(r)
    <3>1. pc[r] = "number" /\ pc'[r] = "dump"
      BY <2>2, <2>10 DEF NumberVersion
    <3>2. PICK n \in Slots : IsNextVersion(n) /\ slot'[r] = n
      BY <2>10 DEF NumberVersion, TypeOK
    <3>3. n # 1
      BY <2>0, <3>1, <3>2, NextIsNotFirst
    <3> QED
      BY <3>1, <3>2, <3>3
  <2>11. CASE DumpBundle(r)
    <3>1. /\ pc[r] = "dump" /\ pc'[r] = "sign"
          /\ target' = target /\ slot' = slot
      BY <2>2, <2>11 DEF DumpBundle
    <3>2. disk[HostOf[r]][slot[r]] \in Bundle
      BY <1>1 DEF TypeOK
    <3>3. disk'[HostOf[r]][slot[r]].model = target[r]
      BY <1>1, <2>11, <3>2, SetDiskEffect DEF DumpBundle, OnDisk, Bundle
    <3> QED
      BY <2>0, <3>1, <3>3
  <2>12. CASE SignBundle(r)
    BY <2>1, <2>2, <2>12 DEF SignBundle
  <2>13. CASE AddChallenger(r)
    <3>1. /\ pc[r] = "add" /\ pc'[r] \in {"promoteChallenger", "idle"}
          /\ pc'[r] = "promoteChallenger" => verdict[r] = "promote"
          /\ target' = target /\ slot' = slot /\ disk' = disk
      BY <2>2, <2>13 DEF AddChallenger
    <3>2. target[r] \in VersionIds
      BY <1>4, <3>1
    <3>3. /\ target[r] \in versions'
          /\ row'[target[r]].judged = verdict[r]
          /\ row'[target[r]].version = slot[r]
      BY <2>13, <3>2 DEF AddChallenger, TypeOK
    <3> QED
      BY <2>0, <3>1, <3>3
  <2> QED
    BY <2>3, <2>4, <2>5, <2>6, <2>7, <2>8, <2>9, <2>10, <2>11, <2>12, <2>13
    DEF Next, RetrainStep
<1> QED
  BY <1>6, <1>7

\* The bundle of a registered version is on some disk.
LEMMA StepBundles ==
  ASSUME IInv, [Next]_vars
  PROVE  RegisteredBundleExists'
<1> USE DEF IInv, tableVars, fileVars, localVars
<1>1. \A v \in versions : row'[v].version = row[v].version
  BY RowsKept
<1>2. ASSUME NEW v \in versions
      PROVE  \E h \in Hosts : disk'[h][row'[v].version].model # NoModel
  <2>1. PICK h \in Hosts : disk[h][row[v].version].model # NoModel
    BY DEF RegisteredBundleExists
  <2>2. row[v].version \in Slots
    BY DEF Numbered
  <2> QED
    BY <1>1, <2>1, <2>2, DiskKept
<1>3. ASSUME versions' = versions PROVE RegisteredBundleExists'
  BY <1>2, <1>3 DEF RegisteredBundleExists
<1>4. ASSUME NEW u \in Uploads, AddInitial(u) PROVE RegisteredBundleExists'
  <2>1. PICK v \in Fresh : versions' = versions \union {v}
                           /\ row'[v].version = 1
    BY <1>4 DEF AddInitial, Fresh, TypeOK
  <2>2. disk'[HostOf[u]][1].model # NoModel /\ HostOf[u] \in Hosts
    BY <1>4, ProcsAssumption DEF AddInitial, UploadHolds
  <2> QED
    BY <1>2, <2>1, <2>2 DEF RegisteredBundleExists
<1>5. ASSUME NEW r \in Retrainers, AddChallenger(r)
      PROVE  RegisteredBundleExists'
  <2>1. versions' = versions \union {target[r]} /\ target[r] \in VersionIds
        /\ row'[target[r]].version = slot[r]
    BY <1>5 DEF AddChallenger, OwnsItsId, Unregistered, TypeOK
  <2>2. /\ disk'[HostOf[r]][slot[r]].model # NoModel
        /\ HostOf[r] \in Hosts
    BY <1>5, <2>1, ProcsAssumption, ValuesAssumption
    DEF AddChallenger, RetrainHolds, RetrainHolding, Holding
  <2> QED
    BY <1>2, <2>1, <2>2 DEF RegisteredBundleExists
<1>6. Next => \/ versions' = versions
              \/ \E u \in Uploads : AddInitial(u)
              \/ \E r \in Retrainers : AddChallenger(r)
  BY DEF Next, UploadStep, RetrainStep, WriterStep, UploadCacheHit, UploadFit,
         RegisterKnown, RegisterListed, PromoteRead, PromoteCommit, Publish,
         ReadChampion, FitAndCompare, NumberVersion, DumpBundle, SignBundle,
         Resolve, Answer, Refuse, Crash
<1> QED
  BY <1>3, <1>4, <1>5, <1>6 DEF vars

\* Only winners are put in the bucket.
LEMMA StepPublished ==
  ASSUME IInv, [Next]_vars
  PROVE  OnlyWinnersPublished'
<1> USE DEF IInv, tableVars, localVars
<1>1. \A v \in versions : /\ v \in versions'
                          /\ row'[v].judged = row[v].judged
                          /\ row'[v].version = row[v].version
  BY RowsKept
<1>2. CASE bucket' = bucket
  BY <1>1, <1>2 DEF OnlyWinnersPublished
<1>3. ASSUME NEW w \in Writers, Publish(w) PROVE OnlyWinnersPublished'
  <2> SUFFICES ASSUME NEW n \in Slots, bucket'[n].model \in VersionIds
               PROVE  /\ bucket'[n].model \in versions
                      /\ row[bucket'[n].model].judged = "promote"
                      /\ row[bucket'[n].model].version = n
    BY <1>1 DEF OnlyWinnersPublished
  <2>1. CASE bucket'[n].model = bucket[n].model
    BY <2>1 DEF OnlyWinnersPublished
  <2>2. CASE bucket'[n].model # bucket[n].model
    <3>1. /\ n \in {1, slot[w]}
          /\ bucket'[n].model = disk[HostOf[w]][n].model
      BY <1>3, <2>2 DEF Publish, Either, OnDisk
    <3>2. n # 1
      BY <3>1, ProcsAssumption DEF FirstIsInitial
    <3>3. w \in Retrainers
      BY <3>1, <3>2 DEF Places
    <3>4. disk[HostOf[w]][slot[w]].model = target[w]
          /\ target[w] \in versions /\ row[target[w]].judged = "promote"
          /\ row[target[w]].version = slot[w]
      BY <1>3, <3>3
      DEF Publish, RetrainHolds, RetrainHolding, Holding, Registered
    <3> QED
      BY <3>1, <3>2, <3>4
  <2> QED
    BY <2>1, <2>2
<1>4. Next => bucket' = bucket \/ \E w \in Writers : Publish(w)
  BY DEF Next, UploadStep, RetrainStep, WriterStep, UploadCacheHit, UploadFit,
         RegisterKnown, RegisterListed, AddInitial, PromoteRead, PromoteCommit,
         ReadChampion, FitAndCompare, NumberVersion, DumpBundle, SignBundle,
         AddChallenger, Resolve, Answer, Refuse, Crash, fileVars
<1> QED
  BY <1>2, <1>3, <1>4 DEF vars

-----------------------------------------------------------------------------
(* The theorems                                                             *)

LEMMA StepIInv == IInv /\ [Next]_vars => IInv'
  BY StepType, StepPlaces, StepNumbered, StepHolds, StepFirst, StepRefused,
     StepBundles, StepPublished
  DEF IInv

THEOREM Invariance == Spec => []IInv
  BY InitIInv, StepIInv, PTL DEF Spec

\* Type correctness of the registry, its files and every handler.
THEOREM TypeCorrect == Spec => []TypeOK
<1>1. IInv => TypeOK
  BY DEF IInv
<1> QED
  BY Invariance, <1>1, PTL

\* A challenger that lost its comparison (registry.register_challenger) is
\* never the champion, whatever overlaps or dies.
THEOREM RefusedIsNeverServed == Spec => []RefusedNeverServed
<1>1. IInv => RefusedNeverServed
  BY DEF IInv
<1> QED
  BY Invariance, <1>1, PTL

\* A registered version always has its bundle on some host
\* (retraining.retrain writes the file before the row).
THEOREM RegisteredHasBundle == Spec => []RegisteredBundleExists
<1>1. IInv => RegisteredBundleExists
  BY DEF IInv
<1> QED
  BY Invariance, <1>1, PTL

\* The bucket holds initial models and winners only, each under the number its
\* row has (retraining.retrain publishes after the promotion).
THEOREM BucketHoldsWinners == Spec => []OnlyWinnersPublished
<1>1. IInv => OnlyWinnersPublished
  BY DEF IInv
<1> QED
  BY Invariance, <1>1, PTL

-----------------------------------------------------------------------------
(* One writer at a time                                                     *)

\* What an upload knows: that there is no version yet, or which one is champion.
UploadKnows(u) ==
  /\ pc[u] \in {"addTrained", "addReused"} => versions = {}
  /\ pc[u] \in UploadPlaces => target[u] \in Champions

\* A retrain was compared with the champion there still is; its number is free
\* until it adds its row, which is no champion until it commits.
RetrainKnows(r) ==
  /\ pc[r] \in {"fit"} \union Unregistered \union Challenging =>
       against[r] \in Champions
  /\ pc[r] \in Unregistered => verdict[r] # "initial"
  /\ pc[r] \in {"dump", "sign", "add"} =>
       \A v \in versions : row[v].version # slot[r]
  /\ pc[r] \in Challenging => row[target[r]].champion = FALSE

\* What promote_model_version read is still so.
CommitKnows(w) ==
  pc[w] \in Committing => /\ seen[w] = Champions \ {target[w]}
                          /\ held[w] = row[target[w]].champion

WriterKnows(w) ==
  /\ w \in Uploads => UploadKnows(w)
  /\ w \in Retrainers => RetrainKnows(w)
  /\ CommitKnows(w)

\* No number is given twice, and the first is the upload's.
Distinct ==
  /\ \A v, w \in versions : row[v].version = row[w].version => v = w
  /\ \A v \in versions : row[v].version = 1 => row[v].judged = "initial"

OneServed == versions = {} \/ \E v \in versions : Champions = {v}

TInv == /\ IInv /\ OneWriter
        /\ \A w \in Writers : WriterKnows(w)
        /\ Distinct /\ OneServed

Rests(v) == pc[v] \in {"idle", "done"}

\* While one writer is under way, the others rest, before its step and after.
LEMMA OthersRest ==
  ASSUME TypeOK, OneWriter, OneWriter', NEW w \in Writers, NEW place,
         Goto(w, place), Busy(w) \/ place \notin {"idle", "done"}
  PROVE  /\ pc'[w] = place
         /\ \A v \in Writers : v # w => Rests(v) /\ Rests(v)'
<1>1. pc'[w] = place /\ \A v \in Writers : v # w => pc'[v] = pc[v]
  BY DEF TypeOK, Goto
<1>2. \A v \in Writers : Busy(v) <=> ~Rests(v)
  BY DEF Busy, Rests
<1>3. \A v \in Writers : v # w => Rests(v)
  <2> SUFFICES ASSUME NEW v \in Writers, v # w, Busy(v)
               PROVE  FALSE
    BY <1>2
  <2>1. CASE Busy(w)
    BY <2>1 DEF OneWriter
  <2>2. CASE place \notin {"idle", "done"}
    <3>1. Busy(v)' /\ Busy(w)'
      BY <2>2, <1>1 DEF Busy
    <3> QED
      BY <3>1 DEF OneWriter
  <2> QED
    BY <2>1, <2>2
<1> QED
  BY <1>1, <1>3 DEF Rests

LEMMA WhoRestsKnowsNothing ==
  \A v \in Writers : Rests(v)' => WriterKnows(v)'
  BY DEF Rests, WriterKnows, UploadKnows, RetrainKnows, CommitKnows,
     UploadPlaces, Unregistered, Challenging

\* A step that leaves the table, and what one writer knows right.
LEMMA TableSame ==
  ASSUME TInv, TypeOK, IInv', OneWriter', NEW w \in Writers, NEW place,
         Goto(w, place), Busy(w) \/ place \notin {"idle", "done"},
         UNCHANGED <<versions, row>>, WriterKnows(w)'
  PROVE  TInv'
<1>1. \A v \in Writers : WriterKnows(v)'
  BY OthersRest, WhoRestsKnowsNothing DEF TInv
<1> QED
  BY <1>1 DEF TInv, Distinct, OneServed, Champions

LEMMA UploadStepKnows ==
  ASSUME TInv, TypeOK, IInv', OneWriter', NEW u \in Uploads, UploadStep(u)
  PROVE  TInv'
<1>0. u \in Writers /\ u \notin Retrainers /\ u \in Procs
  BY ProcsAssumption
<1>1. CASE UploadCacheHit(u) \/ UploadFit(u) \/ RegisterKnown(u) \/ RegisterListed(u)
  <2>1. PICK place \in {"registerReused", "registerTrained", "publish", "done",
                        "addTrained", "addReused"} :
          /\ Goto(u, place)
          /\ place \in {"publish", "done"} => Busy(u)
          /\ place \in {"addTrained", "addReused"} => versions = {}
    BY <1>1 DEF UploadCacheHit, UploadFit, RegisterKnown, RegisterListed, Busy
  <2>2. UNCHANGED <<versions, row>>
    BY <1>1 DEF UploadCacheHit, UploadFit, RegisterKnown, RegisterListed, tableVars
  <2>3. pc'[u] = place
    BY <2>1, <1>0 DEF Goto, TypeOK
  <2>4. WriterKnows(u)'
    BY <1>0, <2>1, <2>2, <2>3 DEF WriterKnows, UploadKnows, CommitKnows, UploadPlaces
  <2> QED
    BY <1>0, <2>1, <2>2, <2>4, TableSame
<1>2. CASE AddInitial(u)
  <2>1. versions = {} /\ Busy(u)
    BY <1>2, <1>0 DEF AddInitial, TInv, WriterKnows, UploadKnows, Busy
  <2>2. PICK v \in Fresh :
          /\ versions' = versions \union {v}
          /\ row' = [row EXCEPT ![v] =
                       [version |-> 1, champion |-> TRUE, judged |-> "initial"]]
          /\ target' = [target EXCEPT ![u] = v]
    BY <1>2 DEF AddInitial
  <2>3. PICK place \in {"promoteTrained", "promoteReused"} : Goto(u, place)
    BY <1>2 DEF AddInitial
  <2>4. /\ versions' = {v}
        /\ row'[v] = [version |-> 1, champion |-> TRUE, judged |-> "initial"]
        /\ target'[u] = v
    BY <2>1, <2>2, <1>0 DEF TypeOK, Fresh
  <2>5. Champions' = {v}
    BY <2>4 DEF Champions
  <2>6. pc'[u] = place /\ \A x \in Writers : x # u => Rests(x)'
    BY <2>1, <2>3, <1>0, OthersRest DEF TInv
  <2>7. WriterKnows(u)'
    BY <1>0, <2>3, <2>4, <2>5, <2>6 DEF WriterKnows, UploadKnows, CommitKnows
  <2>8. \A x \in Writers : WriterKnows(x)'
    BY <2>6, <2>7, WhoRestsKnowsNothing
  <2>9. Distinct' /\ OneServed'
    BY <2>4, <2>5 DEF Distinct, OneServed
  <2> QED
    BY <2>8, <2>9 DEF TInv
<1> QED
  BY <1>1, <1>2 DEF UploadStep

LEMMA RetrainStepKnows ==
  ASSUME TInv, TypeOK, IInv', OneWriter', NEW r \in Retrainers,
         ReadChampion(r) \/ RetrainStep(r)
  PROVE  TInv'
<1>0. r \in Writers /\ r \notin Uploads /\ r \in Procs /\ RetrainKnows(r)
  BY ProcsAssumption DEF TInv, WriterKnows
<1>1. CASE ReadChampion(r)
  <2>1. /\ Goto(r, "fit") /\ UNCHANGED <<versions, row>>
        /\ \E v \in Champions : against' = [against EXCEPT ![r] = v]
    BY <1>1 DEF ReadChampion, tableVars, IsServed, Champions
  <2>2. pc'[r] = "fit" /\ against'[r] \in Champions'
    BY <2>1, <1>0 DEF Goto, TypeOK, Champions
  <2>3. WriterKnows(r)'
    BY <1>0, <2>2 DEF WriterKnows, RetrainKnows, CommitKnows, Unregistered, Challenging
  <2> QED
    BY <1>0, <2>1, <2>3, TableSame
<1>2. CASE FitAndCompare(r)
  <2>1. /\ Goto(r, "number") /\ UNCHANGED <<versions, row, against>> /\ pc[r] = "fit"
        /\ verdict'[r] # "initial"
    BY <1>2, <1>0 DEF FitAndCompare, TypeOK
  <2>2. pc'[r] = "number" /\ Busy(r)
    BY <2>1, <1>0 DEF Goto, TypeOK, Busy
  <2>3. WriterKnows(r)'
    BY <1>0, <2>1, <2>2 DEF WriterKnows, RetrainKnows, CommitKnows, Challenging, Champions
  <2> QED
    BY <1>0, <2>1, <2>2, <2>3, TableSame
<1>3. CASE NumberVersion(r)
  <2>1. /\ Goto(r, "dump") /\ UNCHANGED <<versions, row, against, verdict>>
        /\ pc[r] = "number"
        /\ \E n \in Slots : IsNextVersion(n) /\ slot' = [slot EXCEPT ![r] = n]
    BY <1>3 DEF NumberVersion, tableVars
  <2>2. pc'[r] = "dump" /\ Busy(r)
    BY <2>1, <1>0 DEF Goto, TypeOK, Busy
  <2>3. \A v \in versions : row[v].version # slot'[r]
    <3>1. IsNextVersion(slot'[r]) /\ slot'[r] \in Slots
      BY <2>1, <1>0 DEF TypeOK
    <3>2. \A v \in versions : row[v].version \in Slots
      BY DEF TInv, IInv, Numbered
    <3> QED
      BY <3>1, <3>2 DEF IsNextVersion, Slots
  <2>4. WriterKnows(r)'
    BY <1>0, <2>1, <2>2, <2>3
    DEF WriterKnows, RetrainKnows, CommitKnows, Challenging, Champions, Unregistered
  <2> QED
    BY <1>0, <2>1, <2>2, <2>4, TableSame
<1>4. CASE DumpBundle(r) \/ SignBundle(r)
  <2>1. PICK place \in {"sign", "add"} :
          /\ Goto(r, place) /\ UNCHANGED <<versions, row, against, verdict, slot>>
          /\ pc[r] \in {"dump", "sign"}
    BY <1>4 DEF DumpBundle, SignBundle, tableVars, localVars
  <2>2. pc'[r] = place /\ Busy(r)
    BY <2>1, <1>0 DEF Goto, TypeOK, Busy
  <2>3. WriterKnows(r)'
    BY <1>0, <2>1, <2>2
    DEF WriterKnows, RetrainKnows, CommitKnows, Challenging, Champions, Unregistered
  <2> QED
    BY <1>0, <2>1, <2>2, <2>3, TableSame
<1>5. CASE AddChallenger(r)
  <2>1. /\ pc[r] = "add" /\ Busy(r)
        /\ versions' = versions \union {target[r]}
        /\ row' = [row EXCEPT ![target[r]] =
             [version |-> slot[r], champion |-> FALSE, judged |-> verdict[r]]]
        /\ UNCHANGED <<target, slot, against>>
    BY <1>5 DEF AddChallenger, Busy, localVars
  <2>2. /\ target[r] \in VersionIds /\ target[r] \notin versions
        /\ slot[r] # 1
    BY <2>1 DEF TInv, IInv, OwnsItsId, Unregistered, RetrainHolds, RetrainHolding,
                Holding, TypeOK
  <2>3. /\ row'[target[r]] = [version |-> slot[r], champion |-> FALSE,
                              judged |-> verdict[r]]
        /\ \A v \in versions : row'[v] = row[v]
    BY <2>1, <2>2 DEF TypeOK
  <2>4. Champions' = Champions
    BY <2>1, <2>3 DEF Champions
  <2>5. against[r] \in Champions /\ versions # {}
    BY <1>0, <2>1 DEF RetrainKnows, Unregistered, Champions
  <2>6. OneServed'
    BY <2>1, <2>4, <2>5 DEF TInv, OneServed
  <2>7. Distinct'
    <3>1. \A v \in versions : row[v].version # slot[r]
      BY <1>0, <2>1 DEF RetrainKnows
    <3> QED
      BY <2>1, <2>2, <2>3, <3>1 DEF TInv, Distinct
  <2>8. PICK place \in {"promoteChallenger", "idle"} : Goto(r, place)
    BY <1>5 DEF AddChallenger
  <2>9. pc'[r] = place /\ \A x \in Writers : x # r => Rests(x)'
    BY <2>1, <2>8, <1>0, OthersRest DEF TInv
  <2>10. WriterKnows(r)'
    <3>1. against'[r] \in Champions' /\ target'[r] = target[r]
      BY <2>1, <2>4, <2>5
    <3>2. row'[target'[r]].champion = FALSE
      BY <2>3, <3>1
    <3>3. RetrainKnows(r)'
      BY <3>1, <3>2, <2>9 DEF RetrainKnows, Unregistered, Challenging
    <3>4. CommitKnows(r)'
      BY <2>9 DEF CommitKnows
    <3> QED
      BY <1>0, <3>3, <3>4 DEF WriterKnows
  <2>11. \A x \in Writers : WriterKnows(x)'
    BY <2>9, <2>10, WhoRestsKnowsNothing
  <2> QED
    BY <2>6, <2>7, <2>11 DEF TInv
<1> QED
  BY <1>1, <1>2, <1>3, <1>4, <1>5 DEF RetrainStep

\* With one writer, a promotion by an upload changes nothing, and one by a
\* retrain replaces the one champion, which is the one it was compared with.
LEMMA CommitReplaces ==
  ASSUME TInv, TypeOK, NEW w \in Writers, PromoteCommit(w)
  PROVE  \/ w \in Uploads /\ row' = row
         \/ /\ w \in Retrainers /\ pc[w] = "commitChallenger"
            /\ Champions = {against[w]}
            /\ target[w] \in versions /\ row[target[w]].judged = "promote"
            /\ row'[target[w]].champion = TRUE
            /\ \A v \in versions : v # target[w] => row'[v].champion = FALSE
<1>1. /\ pc[w] \in Committing /\ row' = PromotedRow(w)
      /\ seen[w] = Champions \ {target[w]} /\ held[w] = row[target[w]].champion
      /\ WriterKnows(w)
  BY DEF PromoteCommit, TInv, WriterKnows, CommitKnows
<1>2. versions \subseteq VersionIds /\ row \in [VersionIds -> Row]
  BY DEF TypeOK
<1>3. target[w] \in versions
  BY <1>1 DEF TInv, IInv, PromotesARow
<1>4. CASE w \in Uploads
  <2>1. target[w] \in Champions
    BY <1>1, <1>4 DEF WriterKnows, UploadKnows, UploadPlaces, TInv, IInv, Places
  <2>2. Champions = {target[w]}
    BY <2>1 DEF TInv, OneServed, Champions
  <2>3. seen[w] = {} /\ held[w]
    BY <1>1, <2>1, <2>2 DEF Champions
  <2>4. PromotedRow(w) = [v \in VersionIds |-> row[v]]
    BY <2>3 DEF PromotedRow
  <2> QED
    BY <1>1, <1>2, <1>4, <2>4
<1>5. CASE w \in Retrainers
  <2>1. pc[w] = "commitChallenger"
    BY <1>1, <1>5 DEF TInv, IInv, Places, UploadPlaces
  <2>2. against[w] \in Champions /\ row[target[w]].champion = FALSE
    BY <1>1, <1>5, <2>1 DEF WriterKnows, RetrainKnows, Challenging
  <2>3. Champions = {against[w]} /\ target[w] # against[w]
    BY <2>2 DEF TInv, OneServed, Champions
  <2>4. seen[w] = {against[w]} /\ held[w] = FALSE
    BY <1>1, <2>2, <2>3
  <2>5. row[target[w]].judged = "promote"
    BY <1>5, <2>1 DEF TInv, IInv, RetrainHolds, RetrainHolding, Registered
  <2>6. row'[target[w]] = [row[target[w]] EXCEPT !.champion = TRUE]
    BY <1>1, <1>2, <1>3, <2>3, <2>4 DEF PromotedRow
  <2>7. row'[target[w]].champion = TRUE
    BY <1>2, <1>3, <2>6 DEF Row
  <2>8. ASSUME NEW v \in versions, v # target[w]
        PROVE  row'[v].champion = FALSE
    <3>1. row[v] \in Row /\ v \in VersionIds
      BY <1>2
    <3>2. CASE v = against[w]
      <4>1. row'[v] = [row[v] EXCEPT !.champion = FALSE]
        BY <1>1, <2>4, <3>1, <3>2 DEF PromotedRow
      <4> QED
        BY <3>1, <4>1 DEF Row
    <3>3. CASE v # against[w]
      <4>1. row'[v] = row[v]
        BY <1>1, <2>4, <2>8, <3>1, <3>3 DEF PromotedRow
      <4>2. v \notin Champions
        BY <2>3, <3>3
      <4> QED
        BY <3>1, <4>1, <4>2 DEF Champions, Row
    <3> QED
      BY <3>2, <3>3
  <2> QED
    BY <1>3, <1>5, <2>1, <2>3, <2>5, <2>7, <2>8
<1> QED
  BY <1>4, <1>5

LEMMA WriterStepKnows ==
  ASSUME TInv, TypeOK, IInv', OneWriter', [Next]_vars, NEW w \in Writers,
         WriterStep(w) \/ Crash(w)
  PROVE  TInv'
<1>0. w \in Procs /\ WriterKnows(w)
  BY DEF TInv
<1>1. CASE PromoteRead(w)
  <2>1. /\ pc[w] \in Promoting /\ Busy(w) /\ Goto(w, CommitOf(pc[w]))
        /\ UNCHANGED <<versions, row, target, against>>
        /\ seen'[w] = Champions \ {target[w]}
        /\ held'[w] = row[target[w]].champion
    BY <1>1 DEF PromoteRead, Busy, tableVars, TypeOK, Champions
  <2>2. /\ pc'[w] = CommitOf(pc[w])
        /\ pc[w] = "promoteTrained" => CommitOf(pc[w]) = "commitTrained"
        /\ pc[w] = "promoteReused" => CommitOf(pc[w]) = "commitReused"
        /\ pc[w] = "promoteChallenger" => CommitOf(pc[w]) = "commitChallenger"
    BY <2>1, <1>0 DEF Goto, TypeOK, CommitOf
  <2>3. Champions' = Champions
    BY <2>1 DEF Champions
  <2>4. w \in Uploads => UploadKnows(w)'
    <3>1. w \in Uploads => target[w] \in Champions /\ pc'[w] \notin {"addTrained", "addReused"}
      BY <1>0, <2>1, <2>2 DEF WriterKnows, UploadKnows, UploadPlaces, TInv, IInv, Places
    <3> QED
      BY <3>1, <2>1, <2>3 DEF UploadKnows
  <2>5. w \in Retrainers => RetrainKnows(w)'
    <3> SUFFICES ASSUME w \in Retrainers
                 PROVE  RetrainKnows(w)'
      OBVIOUS
    <3>1. pc[w] = "promoteChallenger"
      BY <2>1 DEF TInv, IInv, Places, UploadPlaces
    <3>2. against[w] \in Champions /\ row[target[w]].champion = FALSE
      BY <1>0, <3>1 DEF WriterKnows, RetrainKnows, Challenging
    <3>3. /\ against'[w] \in Champions' /\ row'[target'[w]].champion = FALSE
          /\ pc'[w] = "commitChallenger"
      BY <3>1, <3>2, <2>1, <2>2, <2>3
    <3> QED
      BY <3>3 DEF RetrainKnows, Unregistered, Challenging
  <2>6. CommitKnows(w)'
    BY <2>1, <2>3 DEF CommitKnows
  <2>7. \A x \in Writers : x # w => Rests(x)'
    BY <2>1, OthersRest DEF TInv
  <2>8. \A x \in Writers : WriterKnows(x)'
    BY <2>4, <2>5, <2>6, <2>7, WhoRestsKnowsNothing DEF WriterKnows
  <2> QED
    BY <2>1, <2>8 DEF TInv, Distinct, OneServed, Champions
<1>2. CASE PromoteCommit(w)
  <2>1. /\ Busy(w) /\ versions' = versions
        /\ \E place \in {"done", "publish"} : Goto(w, place)
    BY <1>2 DEF PromoteCommit, Busy
  <2>2. PICK place \in {"done", "publish"} : Goto(w, place)
    BY <2>1
  <2>3. pc'[w] = place /\ \A x \in Writers : x # w => Rests(x)'
    BY <2>1, <2>2, OthersRest DEF TInv
  <2>4. WriterKnows(w)'
    BY <2>3 DEF WriterKnows, UploadKnows, RetrainKnows, CommitKnows, UploadPlaces,
                Unregistered, Challenging
  <2>5. \A x \in Writers : WriterKnows(x)'
    BY <2>3, <2>4, WhoRestsKnowsNothing
  <2>6. Distinct'
    <3>1. \A v \in versions : /\ row'[v].judged = row[v].judged
                              /\ row'[v].version = row[v].version
      BY RowsKept DEF TInv
    <3> QED
      BY <2>1, <3>1 DEF TInv, Distinct
  <2>7. OneServed'
    <3>1. CASE row' = row
      BY <3>1, <2>1 DEF TInv, OneServed, Champions
    <3>2. CASE /\ target[w] \in versions
               /\ row'[target[w]].champion = TRUE
               /\ \A v \in versions : v # target[w] => row'[v].champion = FALSE
      <4>1. Champions' = {target[w]}
        BY <3>2, <2>1 DEF Champions
      <4> QED
        BY <3>2, <4>1, <2>1 DEF OneServed
    <3> QED
      BY <1>2, <3>1, <3>2, CommitReplaces
  <2> QED
    BY <2>5, <2>6, <2>7 DEF TInv
<1>3. CASE Publish(w) \/ Crash(w)
  <2>1. PICK place \in {"done", "idle"} :
          Goto(w, place) /\ Busy(w) /\ UNCHANGED <<versions, row>>
    BY <1>3 DEF Publish, Crash, Busy, tableVars
  <2>2. pc'[w] = place
    BY <2>1, <1>0 DEF Goto, TypeOK
  <2>3. WriterKnows(w)'
    BY <2>2, WhoRestsKnowsNothing DEF Rests
  <2> QED
    BY <2>1, <2>3, TableSame
<1> QED
  BY <1>1, <1>2, <1>3 DEF WriterStep

LEMMA ReaderStepKnows ==
  ASSUME TInv, TypeOK, IInv', OneWriter',
         \/ \E q \in Predictors : Resolve(q) \/ Answer(q) \/ Refuse(q)
         \/ UNCHANGED vars
  PROVE  TInv'
<1>1. /\ UNCHANGED <<versions, row, against, verdict, seen, held>>
      /\ \A w \in Writers : pc'[w] = pc[w] /\ target'[w] = target[w] /\ slot'[w] = slot[w]
  <2>1. ASSUME NEW q \in Predictors, Resolve(q) \/ Answer(q) \/ Refuse(q)
        PROVE  /\ UNCHANGED <<versions, row, against, verdict, seen, held>>
               /\ \A w \in Writers : pc'[w] = pc[w] /\ target'[w] = target[w]
                                       /\ slot'[w] = slot[w]
    <3>1. \A w \in Writers : w # q
      BY ProcsAssumption
    <3>2. CASE Resolve(q)
      BY <3>1, <3>2 DEF Resolve, Goto, tableVars, TypeOK
    <3>3. CASE Answer(q) \/ Refuse(q)
      BY <3>1, <3>3 DEF Answer, Refuse, Goto, tableVars, localVars, TypeOK
    <3> QED
      BY <2>1, <3>2, <3>3
  <2> QED
    BY <2>1 DEF vars
<1>2. Champions' = Champions
  BY <1>1 DEF Champions
<1>3. ASSUME NEW w \in Writers
      PROVE  WriterKnows(w)'
  <2>1. WriterKnows(w)
    BY DEF TInv
  <2>2. w \in Uploads => UploadKnows(w)'
    BY <1>1, <1>2, <2>1 DEF WriterKnows, UploadKnows
  <2>3. w \in Retrainers => RetrainKnows(w)'
    BY <1>1, <1>2, <2>1 DEF WriterKnows, RetrainKnows
  <2>4. CommitKnows(w)'
    BY <1>1, <1>2, <2>1 DEF WriterKnows, CommitKnows
  <2> QED
    BY <2>2, <2>3, <2>4 DEF WriterKnows
<1> QED
  BY <1>1, <1>2, <1>3 DEF TInv, Distinct, OneServed

LEMMA StepTInv == TInv /\ [Next /\ OneWriter']_vars => TInv'
<1> SUFFICES ASSUME TInv, [Next /\ OneWriter']_vars
             PROVE  TInv'
  OBVIOUS
<1>1. TypeOK /\ IInv' /\ [Next]_vars
  BY StepIInv DEF TInv, IInv
<1>2. OneWriter'
  BY DEF TInv, OneWriter, Busy, vars
<1>3. CASE \E u \in Uploads : UploadStep(u)
  BY <1>1, <1>2, <1>3, UploadStepKnows
<1>4. CASE \E r \in Retrainers : ReadChampion(r) \/ RetrainStep(r)
  BY <1>1, <1>2, <1>4, RetrainStepKnows
<1>5. CASE \E w \in Writers : WriterStep(w) \/ Crash(w)
  BY <1>1, <1>2, <1>5, WriterStepKnows
<1>6. CASE \/ \E q \in Predictors : Resolve(q) \/ Answer(q) \/ Refuse(q)
           \/ UNCHANGED vars
  BY <1>1, <1>2, <1>6, ReaderStepKnows
<1> QED
  BY <1>3, <1>4, <1>5, <1>6 DEF Next

LEMMA InitTInv == Init => TInv
<1> SUFFICES ASSUME Init
             PROVE  TInv
  OBVIOUS
<1>1. IInv
  BY InitIInv
<1>2. \A w \in Writers : pc[w] = "idle"
  BY DEF Init
<1>3. OneWriter /\ \A w \in Writers : WriterKnows(w)
  BY <1>2 DEF OneWriter, Busy, WriterKnows, UploadKnows, RetrainKnows, CommitKnows,
              UploadPlaces, Unregistered, Challenging
<1>4. Distinct /\ OneServed
  BY DEF Init, Distinct, OneServed
<1> QED
  BY <1>1, <1>3, <1>4 DEF TInv

\* Where one writer changes the run at a time, a run with a version has exactly
\* one champion, whatever dies (promote_model_version).
THEOREM ExactlyOneChampion == SerialSpec => []OneChampion
<1>1. SerialSpec => []TInv
  BY InitTInv, StepTInv, PTL DEF SerialSpec
<1>2. TInv => OneChampion
  BY DEF TInv, OneServed, OneChampion, Champions
<1> QED
  BY <1>1, <1>2, PTL

Ousting ==
  \A v \in versions : row[v].champion /\ ~row'[v].champion =>
    \E r \in Retrainers :
      /\ pc[r] = "commitChallenger"
      /\ against[r] = v
      /\ row[target[r]].judged = "promote"
      /\ row'[target[r]].champion

LEMMA StepOusts == TInv /\ [Next /\ OneWriter']_vars => [Ousting]_vars
<1> SUFFICES ASSUME TInv, Next, NEW v \in versions, row[v].champion,
                    ~row'[v].champion
             PROVE  \E r \in Retrainers :
                      /\ pc[r] = "commitChallenger"
                      /\ against[r] = v
                      /\ row[target[r]].judged = "promote"
                      /\ row'[target[r]].champion
  BY DEF Ousting
<1>1. TypeOK /\ v \in VersionIds
  BY DEF TInv, IInv, TypeOK
<1>2. \A u \in Uploads : ~AddInitial(u)
  BY <1>1 DEF AddInitial, Fresh, TypeOK
<1>3. \A r \in Retrainers : ~AddChallenger(r)
  <2> SUFFICES ASSUME NEW r \in Retrainers, AddChallenger(r)
               PROVE  FALSE
    OBVIOUS
  <2>1. target[r] # v
    BY DEF AddChallenger, TInv, IInv, OwnsItsId, Unregistered
  <2>2. row'[v] = row[v]
    BY <1>1, <2>1 DEF AddChallenger, TypeOK
  <2> QED
    BY <2>2
<1>4. row' # row
  OBVIOUS
<1>5. PICK w \in Writers : PromoteCommit(w)
  BY <1>2, <1>3, <1>4 DEF Next, UploadStep, RetrainStep, WriterStep, UploadCacheHit,
     UploadFit, RegisterKnown, RegisterListed, PromoteRead, Publish, ReadChampion,
     FitAndCompare, NumberVersion, DumpBundle, SignBundle, Resolve, Answer, Refuse,
     Crash, tableVars
<1>6. /\ w \in Retrainers /\ pc[w] = "commitChallenger"
      /\ Champions = {against[w]} /\ row[target[w]].judged = "promote"
      /\ row'[target[w]].champion = TRUE
  BY <1>1, <1>4, <1>5, CommitReplaces
<1>7. against[w] = v
  BY <1>6 DEF Champions
<1> QED
  BY <1>6, <1>7

\* There a champion is replaced only by a challenger that was compared with that
\* very champion and won.
THEOREM OnlyWinnersOust == SerialSpec => OnlyAWinnerOusts
<1>1. SerialSpec => []TInv
  BY InitTInv, StepTInv, PTL DEF SerialSpec
<1>2. TInv /\ [Next /\ OneWriter']_vars => [Ousting]_vars
  BY StepOusts
<1> QED
  BY <1>1, <1>2, PTL DEF SerialSpec, OnlyAWinnerOusts, Ousting

-----------------------------------------------------------------------------
(* What a prediction is logged under                                        *)

\* A file of this number may hold this model: that of the version registered
\* under it, or the run's first model under the first.
NamedAs(m, n) ==
  \/ m = NoModel
  \/ n = 1 /\ m = InitialModel
  \/ \E v \in versions : row[v].version = n /\ m = ModelOf(v)

\* It is of a retrain that has yet to register it.
InHand(m, n) ==
  \E r \in Retrainers : /\ pc[r] \in {"sign", "add"}
                        /\ slot[r] = n /\ target[r] = m

DisksNamed ==
  \A h \in Hosts, n \in Slots :
    NamedAs(disk[h][n].model, n) \/ InHand(disk[h][n].model, n)
BucketNamed == \A n \in Slots : NamedAs(bucket[n].model, n)

\* A prediction has resolved a version and its number, or neither.
Reading ==
  \A q \in Predictors : pc[q] = "load" =>
    \/ target[q] = NoVersion /\ slot[q] = 1
    \/ target[q] \in versions /\ row[target[q]].version = slot[q]

\* What answered is what the log says.
RightlyLogged(a) ==
  \/ a[1] = NoVersion /\ a[2] = InitialModel
  \/ a[1] \in versions /\ a[2] = ModelOf(a[1])

Deathless ==
  DisksNamed /\ BucketNamed /\ Reading /\ \A a \in answers : RightlyLogged(a)

NInv == TInv /\ (crashes = 0 => Deathless)

LEMMA NamedStays ==
  ASSUME TInv, [Next]_vars
  PROVE  /\ \A m : \A n : NamedAs(m, n) => NamedAs(m, n)'
         /\ \A a : RightlyLogged(a) => RightlyLogged(a)'
<1>1. \A v \in versions : /\ v \in versions'
                          /\ row'[v].judged = row[v].judged
                          /\ row'[v].version = row[v].version
  BY RowsKept DEF TInv
<1>2. \A v \in versions : ModelOf(v)' = ModelOf(v)
  BY <1>1 DEF ModelOf
<1> QED
  BY <1>1, <1>2 DEF NamedAs, RightlyLogged

\* What a retrain has in hand it keeps, until it registers it.
LEMMA InHandStays ==
  ASSUME TInv, TypeOK, Next, crashes' = crashes, NEW m, NEW n, InHand(m, n)
  PROVE  InHand(m, n)' \/ NamedAs(m, n)'
<1>1. PICK r \in Retrainers : /\ pc[r] \in {"sign", "add"}
                              /\ slot[r] = n /\ target[r] = m
  BY DEF InHand
<1>2. r \in Writers /\ r \in Procs /\ Busy(r)
  BY <1>1 DEF Busy
<1>3. CASE AddChallenger(r)
  <2>1. target[r] \in VersionIds /\ verdict[r] # "initial"
    BY <1>1, <1>2 DEF TInv, IInv, OwnsItsId, Unregistered, TypeOK, WriterKnows, RetrainKnows
  <2>2. /\ target[r] \in versions'
        /\ row'[target[r]] = [version |-> slot[r], champion |-> FALSE,
                              judged |-> verdict[r]]
    BY <1>3, <2>1 DEF AddChallenger, TypeOK
  <2>3. ModelOf(target[r])' = target[r]
    <3>1. row'[target[r]].judged # "initial" /\ target'[r] = target[r]
      BY <2>1, <2>2, <1>3 DEF AddChallenger, localVars
    <3> QED
      BY <3>1, <1>3 DEF ModelOf, AddChallenger, localVars
  <2>4. \E v \in versions' : row'[v].version = n /\ m = ModelOf(v)'
    <3>1. row'[target[r]].version = n
      BY <2>2, <1>1
    <3>2. ModelOf(m)' = m
      BY <2>3, <1>1, <1>3 DEF AddChallenger, localVars, ModelOf
    <3> QED
      BY <2>2, <3>1, <3>2, <1>1
  <2> QED
    BY <2>4 DEF NamedAs
<1>4. CASE ~AddChallenger(r)
  <2>1. pc'[r] \in {"sign", "add"} /\ slot'[r] = slot[r] /\ target'[r] = target[r]
    <3>1. CASE \E u \in Uploads : UploadStep(u)
      <4>1. PICK u \in Uploads : UploadStep(u)
        BY <3>1
      <4>2. u # r
        BY ProcsAssumption
      <4> QED
        BY <4>1, <4>2, <1>1, <1>2
        DEF UploadStep, UploadCacheHit, UploadFit, RegisterKnown, RegisterListed,
            AddInitial, Goto, TypeOK, localVars
    <3>2. CASE \E s \in Retrainers : ReadChampion(s) \/ RetrainStep(s)
      <4>1. PICK s \in Retrainers : ReadChampion(s) \/ RetrainStep(s)
        BY <3>2
      <4>2. CASE s # r
        BY <4>1, <4>2, <1>1, <1>2
        DEF ReadChampion, RetrainStep, FitAndCompare, NumberVersion, DumpBundle,
            SignBundle, AddChallenger, Goto, TypeOK, localVars
      <4>3. CASE s = r
        <5>1. SignBundle(r)
          BY <4>1, <4>3, <1>1, <1>4
          DEF ReadChampion, RetrainStep, FitAndCompare, NumberVersion, DumpBundle
        <5> QED
          BY <5>1, <1>1, <1>2 DEF SignBundle, Goto, TypeOK, localVars
      <4> QED
        BY <4>2, <4>3
    <3>3. CASE \E w \in Writers : WriterStep(w) \/ Crash(w)
      <4>1. PICK w \in Writers : WriterStep(w) \/ Crash(w)
        BY <3>3
      <4>2. ~Crash(w)
        BY DEF Crash, TypeOK
      <4>3. w # r
        BY <4>1, <4>2, <1>1 DEF WriterStep, PromoteRead, PromoteCommit, Publish
      <4> QED
        BY <4>1, <4>2, <4>3, <1>1, <1>2
        DEF WriterStep, PromoteRead, PromoteCommit, Publish, Goto, TypeOK, localVars
    <3>4. CASE \E q \in Predictors : Resolve(q) \/ Answer(q) \/ Refuse(q)
      <4>1. PICK q \in Predictors : Resolve(q) \/ Answer(q) \/ Refuse(q)
        BY <3>4
      <4>2. q # r
        BY ProcsAssumption
      <4> QED
        BY <4>1, <4>2, <1>1, <1>2
        DEF Resolve, Answer, Refuse, Goto, TypeOK, localVars
    <3> QED
      BY <3>1, <3>2, <3>3, <3>4 DEF Next
  <2> QED
    BY <2>1, <1>1 DEF InHand
<1> QED
  BY <1>3, <1>4

LEMMA FetchedNamed ==
  ASSUME TypeOK, Deathless, NEW p \in Procs, NEW n \in Slots
  PROVE  NamedAs(Fetched(p, n).model, n) \/ InHand(Fetched(p, n).model, n)
<1>1. HostOf[p] \in Hosts
  BY ProcsAssumption
<1>2. Fetched(p, n).model \in {disk[HostOf[p]][n].model, bucket[n].model}
  BY DEF Fetched, Either, OnDisk
<1> QED
  BY <1>1, <1>2 DEF Deathless, DisksNamed, BucketNamed

\* Without a death, every file keeps to what its number stands for.
LEMMA DisksStayNamed ==
  ASSUME TInv, TypeOK, Deathless, Next, crashes' = crashes
  PROVE  DisksNamed'
<1> SUFFICES ASSUME NEW h \in Hosts, NEW n \in Slots
             PROVE  (NamedAs(disk[h][n].model, n) \/ InHand(disk[h][n].model, n))'
  BY DEF DisksNamed
<1> DEFINE Fits(m) == NamedAs(m, n) \/ InHand(m, n)
           FitsNext(m) ==
             \/ m = NoModel
             \/ n = 1 /\ m = InitialModel
             \/ \E v \in versions' :
                  /\ row'[v].version = n
                  /\ m = IF row'[v].judged = "initial" THEN InitialModel ELSE v
             \/ \E r \in Retrainers : /\ pc'[r] \in {"sign", "add"}
                                      /\ slot'[r] = n /\ target'[r] = m
<1>1. ASSUME NEW m, Fits(m)
      PROVE  FitsNext(m)
  <2>1. NamedAs(m, n)' \/ InHand(m, n)'
    BY <1>1, NamedStays, InHandStays
  <2> QED
    BY <2>1 DEF NamedAs, InHand, ModelOf
<1>2. Fits(disk[h][n].model)
  BY DEF Deathless, DisksNamed
<1>3. SUFFICES FitsNext(disk'[h][n].model)
  BY DEF NamedAs, InHand, ModelOf
<1>4. 1 \in Slots /\ \A p \in Procs : slot[p] \in Slots
  BY ValuesAssumption DEF Slots, TypeOK
<1> HIDE DEF Fits, FitsNext
<1>5. CASE UNCHANGED disk
  BY <1>1, <1>2, <1>5
<1>6. ASSUME NEW p \in Procs, NEW k \in Slots, EnsureLocal(p, k)
      PROVE  FitsNext(disk'[h][n].model)
  <2>1. disk'[h][n] \in {disk[h][n], Fetched(p, n)}
    BY <1>6, EnsureLocalEffect
  <2>2. Fits(Fetched(p, n).model)
    BY FetchedNamed DEF Fits
  <2> QED
    BY <1>1, <1>2, <2>1, <2>2
<1>7. ASSUME NEW u \in Uploads, UploadFit(u)
      PROVE  FitsNext(disk'[h][n].model)
  <2>1. \/ disk'[h][n] = disk[h][n]
        \/ n = 1 /\ disk'[h][n] = Signed(InitialModel)
    BY <1>4, <1>7, SetDiskEffect DEF UploadFit
  <2>2. n = 1 => FitsNext(Signed(InitialModel).model)
    BY DEF FitsNext, Signed
  <2> QED
    BY <1>1, <1>2, <2>1, <2>2
<1>8. ASSUME NEW r \in Retrainers, DumpBundle(r)
      PROVE  FitsNext(disk'[h][n].model)
  <2>1. disk'[h][n] = IF h = HostOf[r] /\ n = slot[r]
                      THEN [OnDisk(r)[slot[r]] EXCEPT !.model = target[r]]
                      ELSE disk[h][n]
    BY <1>4, <1>8, SetDiskEffect DEF DumpBundle
  <2>2. CASE h = HostOf[r] /\ n = slot[r]
    <3>1. disk[h][n] \in Bundle
      BY DEF TypeOK
    <3>2. disk'[h][n].model = target[r]
      BY <2>1, <2>2, <3>1 DEF OnDisk, Bundle
    <3>3. pc'[r] = "sign" /\ slot'[r] = n /\ target'[r] = target[r]
      BY <1>8, <2>2 DEF DumpBundle, Goto, TypeOK, localVars
    <3> QED
      BY <3>2, <3>3 DEF FitsNext
  <2>3. CASE ~(h = HostOf[r] /\ n = slot[r])
    BY <1>1, <1>2, <2>1, <2>3
  <2> QED
    BY <2>2, <2>3
<1>9. ASSUME NEW r \in Retrainers, SignBundle(r)
      PROVE  FitsNext(disk'[h][n].model)
  <2>1. disk'[h][n] = IF h = HostOf[r] /\ n = slot[r]
                      THEN Signed(OnDisk(r)[slot[r]].model) ELSE disk[h][n]
    BY <1>4, <1>9, SetDiskEffect DEF SignBundle
  <2>2. disk'[h][n].model = disk[h][n].model
    BY <2>1 DEF Signed, OnDisk
  <2> QED
    BY <1>1, <1>2, <2>2
<1>10. \A u \in Uploads : UploadCacheHit(u) => EnsureLocal(u, 1)
  BY DEF UploadCacheHit
<1>11. \A r \in Retrainers : ReadChampion(r) => EnsureLocal(r, 1)
  BY DEF ReadChampion
<1>12. \A q \in Predictors : Answer(q) \/ Refuse(q) => EnsureLocal(q, slot[q])
  BY DEF Answer, Refuse
<1>13. \/ UNCHANGED disk
       \/ \E u \in Uploads : UploadCacheHit(u) \/ UploadFit(u)
       \/ \E r \in Retrainers : ReadChampion(r) \/ DumpBundle(r) \/ SignBundle(r)
       \/ \E q \in Predictors : Answer(q) \/ Refuse(q)
  BY DEF Next, UploadStep, RetrainStep, WriterStep, RegisterKnown, RegisterListed,
         AddInitial, PromoteRead, PromoteCommit, Publish, FitAndCompare,
         NumberVersion, AddChallenger, Resolve, Crash, fileVars
<1> QED
  BY <1>4, <1>5, <1>6, <1>7, <1>8, <1>9, <1>10, <1>11, <1>12, <1>13

LEMMA BucketStaysNamed ==
  ASSUME TInv, TypeOK, Deathless, Next
  PROVE  BucketNamed'
<1> SUFFICES ASSUME NEW n \in Slots
             PROVE  NamedAs(bucket[n].model, n)'
  BY DEF BucketNamed
<1>1. NamedAs(bucket[n].model, n) /\ [Next]_vars
  BY DEF Deathless, BucketNamed
<1>2. CASE bucket' = bucket
  <2>1. NamedAs(bucket[n].model, n) => \/ bucket[n].model = NoModel
                                       \/ n = 1 /\ bucket[n].model = InitialModel
                                       \/ \E v \in versions : row[v].version = n /\ bucket[n].model = ModelOf(v)
    BY DEF NamedAs
  <2>2. \A v \in versions : /\ v \in versions'
                            /\ row'[v].judged = row[v].judged
                            /\ row'[v].version = row[v].version
    BY RowsKept, <1>1 DEF TInv
  <2> QED
    BY <1>1, <1>2, <2>1, <2>2 DEF NamedAs, ModelOf
<1>3. ASSUME NEW w \in Writers, Publish(w)
      PROVE  NamedAs(bucket[n].model, n)'
  <2>1. bucket'[n].model \in {bucket[n].model, disk[HostOf[w]][n].model}
    BY <1>3 DEF Publish, Either, OnDisk
  <2>2. HostOf[w] \in Hosts /\ Busy(w) /\ pc[w] = "publish"
    BY <1>3, ProcsAssumption DEF Publish, Busy
  <2>3. ~InHand(disk[HostOf[w]][n].model, n)
    <3> SUFFICES ASSUME NEW r \in Retrainers, pc[r] \in {"sign", "add"}
                 PROVE  FALSE
      BY DEF InHand
    <3>1. Busy(r) /\ r \in Writers
      BY DEF Busy
    <3> QED
      BY <2>2, <3>1 DEF TInv, OneWriter
  <2>4. NamedAs(bucket'[n].model, n)
    BY <1>1, <2>1, <2>2, <2>3 DEF Deathless, DisksNamed
  <2>5. UNCHANGED <<versions, row>>
    BY <1>3 DEF Publish, tableVars
  <2> QED
    BY <2>4, <2>5 DEF NamedAs, ModelOf
<1>4. bucket' = bucket \/ \E w \in Writers : Publish(w)
  BY DEF Next, UploadStep, RetrainStep, WriterStep, UploadCacheHit, UploadFit,
         RegisterKnown, RegisterListed, AddInitial, PromoteRead, PromoteCommit,
         ReadChampion, FitAndCompare, NumberVersion, DumpBundle, SignBundle,
         AddChallenger, Resolve, Answer, Refuse, Crash, fileVars
<1> QED
  BY <1>2, <1>3, <1>4

LEMMA ReadingStays ==
  ASSUME TInv, TypeOK, Deathless, Next
  PROVE  Reading'
<1> SUFFICES ASSUME NEW q \in Predictors, pc'[q] = "load"
             PROVE  \/ target'[q] = NoVersion /\ slot'[q] = 1
                    \/ target'[q] \in versions' /\ row'[target'[q]].version = slot'[q]
  BY DEF Reading
<1>1. \A v \in versions : v \in versions' /\ row'[v].version = row[v].version
  BY RowsKept DEF TInv
<1>2. q \notin Writers /\ q \in Procs
  BY ProcsAssumption
<1>3. CASE Resolve(q)
  <2>1. UNCHANGED <<versions, row>>
    BY <1>3 DEF Resolve, tableVars
  <2> QED
    BY <1>2, <1>3, <2>1 DEF Resolve, IsServed, TypeOK
<1>4. CASE ~Resolve(q)
  <2>1. pc[q] = "load" /\ target'[q] = target[q] /\ slot'[q] = slot[q]
    <3>1. CASE \E p \in Predictors : Resolve(p) \/ Answer(p) \/ Refuse(p)
      <4>1. PICK p \in Predictors : Resolve(p) \/ Answer(p) \/ Refuse(p)
        BY <3>1
      <4>2. p # q
        BY <1>2, <1>4, <4>1 DEF Answer, Refuse, Goto, TypeOK
      <4> QED
        BY <1>2, <4>1, <4>2 DEF Resolve, Answer, Refuse, Goto, TypeOK, localVars
    <3>2. CASE \E u \in Uploads : UploadStep(u)
      BY <1>2, <3>2 DEF UploadStep, UploadCacheHit, UploadFit, RegisterKnown,
         RegisterListed, AddInitial, Goto, TypeOK, localVars
    <3>3. CASE \E r \in Retrainers : ReadChampion(r) \/ RetrainStep(r)
      BY <1>2, <3>3 DEF ReadChampion, RetrainStep, FitAndCompare, NumberVersion,
         DumpBundle, SignBundle, AddChallenger, Goto, TypeOK, localVars
    <3>4. CASE \E w \in Writers : WriterStep(w) \/ Crash(w)
      BY <1>2, <3>4 DEF WriterStep, PromoteRead, PromoteCommit, Publish, Crash,
         Goto, TypeOK, localVars
    <3> QED
      BY <3>1, <3>2, <3>3, <3>4 DEF Next
  <2> QED
    BY <1>1, <2>1 DEF Deathless, Reading
<1> QED
  BY <1>3, <1>4

\* The file a prediction loads holds the model of the version it resolved.
LEMMA LoadsWhatItNames ==
  ASSUME TInv, TypeOK, Deathless, NEW q \in Predictors, pc[q] = "load",
         Loads(Fetched(q, slot[q]))
  PROVE  RightlyLogged(<<target[q], Fetched(q, slot[q]).model>>)
<1> DEFINE n == slot[q]
           m == Fetched(q, n).model
<1>1. n \in Slots /\ m # NoModel /\ q \in Procs
  BY DEF TypeOK, Loads
<1>2. \/ target[q] = NoVersion /\ n = 1
      \/ target[q] \in versions /\ row[target[q]].version = n
  BY DEF Deathless, Reading
<1>3. NamedAs(m, n) \/ InHand(m, n)
  BY <1>1, FetchedNamed
<1> HIDE DEF m, n
<1>4. ~InHand(m, n)
  <2> SUFFICES ASSUME NEW r \in Retrainers, pc[r] \in {"sign", "add"}, slot[r] = n
               PROVE  FALSE
    BY DEF InHand
  <2>1. slot[r] # 1 /\ \A v \in versions : row[v].version # slot[r]
    BY DEF TInv, IInv, RetrainHolds, RetrainHolding, Holding, WriterKnows, RetrainKnows
  <2> QED
    BY <1>2, <2>1
<1>5. \/ n = 1 /\ m = InitialModel
      \/ \E v \in versions : row[v].version = n /\ m = ModelOf(v)
  BY <1>1, <1>3, <1>4 DEF NamedAs
<1>6. \A v \in versions : row[v].version = 1 => ModelOf(v) = InitialModel
  BY DEF TInv, Distinct, ModelOf
<1>7. RightlyLogged(<<target[q], m>>)
  <2>1. CASE target[q] = NoVersion /\ n = 1
    BY <2>1, <1>5, <1>6 DEF RightlyLogged
  <2>2. CASE target[q] \in versions /\ row[target[q]].version = n
    <3>1. \A v \in versions : row[v].version = n => v = target[q]
      BY <2>2 DEF TInv, Distinct
    <3> QED
      BY <2>2, <3>1, <1>5, <1>6 DEF RightlyLogged
  <2> QED
    BY <1>2, <2>1, <2>2
<1> QED
  BY <1>7 DEF m, n

LEMMA AnswersStayRight ==
  ASSUME TInv, TypeOK, Deathless, Next
  PROVE  \A a \in answers' : RightlyLogged(a)'
<1>1. \A a : RightlyLogged(a) => RightlyLogged(a)'
  BY NamedStays
<1>2. ASSUME NEW q \in Predictors, Answer(q)
      PROVE  \A a \in answers' : RightlyLogged(a)
  <2>1. RightlyLogged(<<target[q], Fetched(q, slot[q]).model>>)
    BY <1>2, LoadsWhatItNames DEF Answer
  <2> QED
    BY <1>2, <2>1 DEF Answer, Deathless
<1>3. answers' = answers \/ \E q \in Predictors : Answer(q)
  BY DEF Next, UploadStep, RetrainStep, WriterStep, UploadCacheHit, UploadFit,
         RegisterKnown, RegisterListed, AddInitial, PromoteRead, PromoteCommit,
         Publish, ReadChampion, FitAndCompare, NumberVersion, DumpBundle,
         SignBundle, AddChallenger, Resolve, Refuse, Crash
<1> QED
  BY <1>1, <1>2, <1>3 DEF Deathless

LEMMA StepNInv == NInv /\ [Next /\ OneWriter']_vars => NInv'
<1> SUFFICES ASSUME NInv, [Next /\ OneWriter']_vars
             PROVE  NInv'
  OBVIOUS
<1>1. TInv /\ TInv' /\ TypeOK
  BY StepTInv DEF NInv, TInv, IInv
<1>2. ASSUME crashes' = 0
      PROVE  Deathless'
  <2>1. CASE UNCHANGED vars
    BY <2>1, <1>2 DEF NInv, Deathless, vars, DisksNamed, BucketNamed, Reading,
       RightlyLogged, NamedAs, InHand, ModelOf
  <2>2. CASE Next
    <3>1. crashes' \in {crashes, crashes + 1}
      BY <2>2 DEF Next, UploadStep, RetrainStep, WriterStep, UploadCacheHit,
         UploadFit, RegisterKnown, RegisterListed, AddInitial, PromoteRead,
         PromoteCommit, Publish, ReadChampion, FitAndCompare, NumberVersion,
         DumpBundle, SignBundle, AddChallenger, Resolve, Answer, Refuse, Crash
    <3>2. crashes \in Nat
      BY <1>1, ValuesAssumption DEF TypeOK
    <3>3. crashes = 0 /\ crashes' = crashes /\ Deathless
      BY <1>2, <3>1, <3>2 DEF NInv
    <3> QED
      BY <1>1, <2>2, <3>3, DisksStayNamed, BucketStaysNamed, ReadingStays,
         AnswersStayRight DEF Deathless
  <2> QED
    BY <2>1, <2>2
<1> QED
  BY <1>1, <1>2 DEF NInv

LEMMA InitNInv == Init => NInv
<1> SUFFICES ASSUME Init
             PROVE  NInv
  OBVIOUS
<1>1. TInv
  BY InitTInv
<1>2. DisksNamed /\ BucketNamed
  BY DEF Init, DisksNamed, BucketNamed, NamedAs, NoBundle
<1>3. Reading /\ answers = {}
  BY DEF Init, Reading
<1> QED
  BY <1>1, <1>2, <1>3 DEF NInv, Deathless

\* There, as long as nothing dies, a logged prediction names the version whose
\* model answered (predict._load_bundle).
THEOREM LogNamesTheModel == SerialSpec => []AnswersNameTheirModel
<1>1. SerialSpec => []NInv
  BY InitNInv, StepNInv, PTL DEF SerialSpec
<1>2. NInv => AnswersNameTheirModel
  <2> SUFFICES ASSUME NInv, crashes = 0, NEW a \in answers
               PROVE  a[2] = IF a[1] = NoVersion THEN InitialModel ELSE ModelOf(a[1])
    BY DEF AnswersNameTheirModel
  <2>1. RightlyLogged(a)
    BY DEF NInv, Deathless
  <2>2. \A v \in versions : v # NoVersion
    BY ValuesAssumption DEF NInv, TInv, IInv, TypeOK
  <2> QED
    BY <2>1, <2>2 DEF RightlyLogged
<1> QED
  BY <1>1, <1>2, PTL

-----------------------------------------------------------------------------
(* The contract of RegistryContract                                         *)

\* A prediction names a version of the run, or none.
Known == versions \union {NoVersion}
NamesKnown ==
  /\ \A q \in Predictors : pc[q] = "load" => target[q] \in Known
  /\ \A a \in answers : a[1] \in Known

QInv == NInv /\ NamesKnown

\* No handler that writes starts, answers or logs a prediction.
LEMMA WritersDoNotPredict ==
  ASSUME TypeOK,
         \/ \E u \in Uploads : UploadStep(u)
         \/ \E r \in Retrainers : ReadChampion(r) \/ RetrainStep(r)
         \/ \E w \in Writers : WriterStep(w) \/ Crash(w)
  PROVE  /\ answers' = answers
         /\ \A q \in Predictors : pc'[q] = pc[q] /\ target'[q] = target[q]
         /\ Resolved' = Resolved
<1>1. \A q \in Predictors : q \notin Writers /\ q \in Procs
  BY ProcsAssumption
<1>2. /\ answers' = answers
      /\ \A q \in Predictors : pc'[q] = pc[q] /\ target'[q] = target[q]
  <2>1. CASE \E u \in Uploads : UploadStep(u)
    BY <1>1, <2>1 DEF UploadStep, UploadCacheHit, UploadFit, RegisterKnown,
       RegisterListed, AddInitial, Goto, TypeOK, localVars
  <2>2. CASE \E r \in Retrainers : ReadChampion(r) \/ RetrainStep(r)
    BY <1>1, <2>2 DEF ReadChampion, RetrainStep, FitAndCompare, NumberVersion,
       DumpBundle, SignBundle, AddChallenger, Goto, TypeOK, localVars
  <2>3. CASE \E w \in Writers : WriterStep(w) \/ Crash(w)
    BY <1>1, <2>3 DEF WriterStep, PromoteRead, PromoteCommit, Publish, Crash,
       Goto, TypeOK, localVars
  <2> QED
    BY <2>1, <2>2, <2>3
<1> QED
  BY <1>2 DEF Resolved

\* A prediction changes no row, and no retrain's business.
LEMMA PredictionsDoNotWrite ==
  ASSUME TypeOK, NEW q \in Predictors, Resolve(q) \/ Answer(q) \/ Refuse(q)
  PROVE  /\ versions' = versions /\ row' = row /\ crashes' = crashes
         /\ Champions' = Champions /\ Won' = Won
<1>1. \A r \in Retrainers : r # q
  BY ProcsAssumption
<1>2. /\ versions' = versions /\ row' = row /\ crashes' = crashes
      /\ against' = against
      /\ \A r \in Retrainers : pc'[r] = pc[r] /\ target'[r] = target[r]
  BY <1>1 DEF Resolve, Answer, Refuse, Goto, TypeOK, tableVars, localVars
<1> QED
  BY <1>2 DEF Champions, Won, Winners

\* The model of a version that an answer names never changes, so neither does
\* which answers are misnamed.
LEMMA NamesStand ==
  ASSUME QInv, [Next]_vars
  PROVE  /\ \A v \in Known : v \in Known' /\ NamedModel(v)' = NamedModel(v)
         /\ answers' = answers => Named' = Named /\ Misnamed' = Misnamed
<1>1. \A v \in versions : v \in versions' /\ row'[v].judged = row[v].judged
  BY RowsKept DEF QInv, NInv, TInv
<1>2. \A v \in Known : v \in Known' /\ NamedModel(v)' = NamedModel(v)
  BY <1>1 DEF Known, NamedModel, ModelOf
<1>3. ASSUME answers' = answers
      PROVE  Named' = Named /\ Misnamed' = Misnamed
  <2>1. \A b \in answers : NamedModel(b[1])' = NamedModel(b[1])
    BY <1>2 DEF QInv, NamesKnown
  <2>2. {b \in answers : b[2] # NamedModel(b[1])'}
          = {b \in answers : b[2] # NamedModel(b[1])}
    BY <2>1
  <2> QED
    BY <1>3, <2>2 DEF Named, Misnamed
<1> QED
  BY <1>2, <1>3

LEMMA StepKnown == QInv /\ [Next]_vars => NamesKnown'
<1> SUFFICES ASSUME QInv, [Next]_vars
             PROVE  NamesKnown'
  OBVIOUS
<1>1. TypeOK /\ NamesKnown /\ \A v \in Known : v \in Known'
  BY NamesStand DEF QInv, NInv, TInv, IInv
<1>2. CASE \/ \E u \in Uploads : UploadStep(u)
           \/ \E r \in Retrainers : ReadChampion(r) \/ RetrainStep(r)
           \/ \E w \in Writers : WriterStep(w) \/ Crash(w)
  BY <1>1, <1>2, WritersDoNotPredict DEF NamesKnown
<1>3. CASE \E q \in Predictors : Resolve(q)
  <2>1. PICK q \in Predictors : Resolve(q)
    BY <1>3
  <2>2. /\ answers' = answers /\ target'[q] \in Known
        /\ \A p \in Predictors \ {q} : pc'[p] = pc[p] /\ target'[p] = target[p]
    BY <1>1, <2>1 DEF Resolve, IsServed, Goto, TypeOK, Known
  <2> QED
    BY <1>1, <2>2 DEF NamesKnown
<1>4. CASE \E q \in Predictors : Answer(q) \/ Refuse(q)
  <2>1. PICK q \in Predictors : Answer(q) \/ Refuse(q)
    BY <1>4
  <2>2. /\ \A a \in answers' : a \in answers \/ a[1] = target[q]
        /\ target' = target /\ pc[q] = "load"
        /\ \A p \in Predictors : pc'[p] = "load" => pc[p] = "load"
    BY <1>1, <2>1 DEF Answer, Refuse, Goto, TypeOK, localVars
  <2>3. \A p \in Predictors : pc[p] = "load" => target[p] \in Known'
    BY <1>1 DEF NamesKnown
  <2>4. \A a \in answers : a[1] \in Known'
    BY <1>1 DEF NamesKnown
  <2> QED
    BY <2>2, <2>3, <2>4 DEF NamesKnown
<1>5. CASE UNCHANGED vars
  BY <1>1, <1>5 DEF NamesKnown, Known, vars
<1> QED
  BY <1>2, <1>3, <1>4, <1>5 DEF Next

\* Whoever is to be raised has won.
LEMMA WinnersAreRaised ==
  ASSUME IInv, IInv'
  PROVE  /\ Winners = {r \in Retrainers : pc[r] \in Challenging}
         /\ Winners' = {r \in Retrainers : pc'[r] \in Challenging}
<1>1. Winners = {r \in Retrainers : pc[r] \in Challenging}
  BY DEF IInv, RetrainHolds, RetrainHolding, Registered, Winners, Challenging
<1>2. Winners' = {r \in Retrainers : pc'[r] \in Challenging}
  BY DEF IInv, RetrainHolds, RetrainHolding, Registered, Winners, Challenging
<1> QED
  BY <1>1, <1>2

\* Who has won changes only where a challenger is registered or promoted, and
\* where a retrain dies.
LEMMA WonKept ==
  ASSUME IInv, IInv',
         \A r \in Retrainers : pc'[r] \in Challenging <=> pc[r] \in Challenging,
         \A r \in Retrainers : pc[r] \in Challenging =>
           target'[r] = target[r] /\ against'[r] = against[r]
  PROVE  Won' = Won
<1>1. Winners' = Winners
  BY WinnersAreRaised
<1>2. \A s \in Winners : target'[s] = target[s] /\ against'[s] = against[s]
  BY DEF Winners
<1> QED
  BY <1>1, <1>2 DEF Won

\* What is listed, served and won, and that nothing died.
Stutters ==
  /\ versions' = versions /\ Champions' = Champions /\ Won' = Won
  /\ crashes' = crashes

LEMMA UploadStepContract ==
  ASSUME QInv, NEW u \in Uploads, UploadStep(u)
  PROVE  \/ Stutters
         \/ \E v \in VersionIds : Contract!Register(v)
<1>a. /\ TypeOK /\ TInv /\ u \notin Retrainers /\ u \in Procs /\ u \in Writers
      /\ [Next]_vars
  BY ProcsAssumption DEF QInv, NInv, TInv, IInv, Next
<1>d. IInv /\ IInv'
  BY <1>a, StepIInv DEF TInv
<1>b. \A r \in Retrainers : pc'[r] = pc[r] /\ target'[r] = target[r]
                            /\ against'[r] = against[r]
  BY <1>a DEF UploadStep, UploadCacheHit, UploadFit, RegisterKnown, RegisterListed,
     AddInitial, Goto, TypeOK, localVars
<1>c. Won' = Won
  BY <1>d, <1>b, WonKept
<1>1. CASE AddInitial(u)
  <2>1. PICK v \in VersionIds \ drawn :
          /\ versions' = versions \union {v}
          /\ row' = [row EXCEPT ![v] =
                       [version |-> 1, champion |-> TRUE, judged |-> "initial"]]
    BY <1>1 DEF AddInitial, Fresh
  <2>2. versions = {}
    BY <1>1, <1>a DEF AddInitial, TInv, WriterKnows, UploadKnows
  <2>3. versions' = {v} /\ row'[v].champion
    BY <1>a, <2>1, <2>2 DEF TypeOK
  <2>4. Champions' = {v}
    BY <2>3 DEF Champions
  <2>5. /\ Resolved' = Resolved /\ Named' = Named /\ Misnamed' = Misnamed
        /\ crashes' = crashes
    BY <1>1, <1>a, WritersDoNotPredict, NamesStand DEF AddInitial
  <2>6. (crashes > 0)' = (crashes > 0)
    BY <2>5
  <2> QED
    BY <1>c, <2>2, <2>3, <2>4, <2>5, <2>6 DEF Contract!Register, Contract!log
<1>2. CASE ~AddInitial(u)
  <2>1. versions' = versions /\ row' = row /\ crashes' = crashes
    BY <1>2 DEF UploadStep, UploadCacheHit, UploadFit, RegisterKnown, RegisterListed,
       tableVars
  <2> QED
    BY <1>c, <2>1 DEF Stutters, Champions
<1> QED
  BY <1>1, <1>2

LEMMA RetrainStepContract ==
  ASSUME QInv, NEW r \in Retrainers, ReadChampion(r) \/ RetrainStep(r)
  PROVE  \/ Stutters
         \/ \E v \in VersionIds : Contract!Challenge(v)
<1>a. /\ TypeOK /\ TInv /\ r \in Procs /\ r \in Writers /\ RetrainKnows(r)
      /\ [Next]_vars
  BY DEF QInv, NInv, TInv, IInv, WriterKnows, Next
<1>d. IInv /\ IInv'
  BY <1>a, StepIInv DEF TInv
<1>b. \A s \in Retrainers \ {r} : pc'[s] = pc[s] /\ target'[s] = target[s]
                                  /\ against'[s] = against[s]
  BY <1>a DEF ReadChampion, RetrainStep, FitAndCompare, NumberVersion, DumpBundle,
     SignBundle, AddChallenger, Goto, TypeOK, localVars
<1>1. CASE AddChallenger(r)
  <2> DEFINE v == target[r]
  <2>1. /\ pc[r] = "add" /\ v \in VersionIds /\ v \notin versions
        /\ against[r] \in Champions
    BY <1>1, <1>a DEF AddChallenger, TInv, IInv, OwnsItsId, Unregistered, TypeOK,
       RetrainKnows
  <2>2. /\ versions' = versions \union {v} /\ target' = target /\ against' = against
        /\ \A w \in versions : row'[w] = row[w]
        /\ row'[v].champion = FALSE
    BY <1>1, <1>a, <2>1 DEF AddChallenger, TypeOK, localVars
  <2>3. Champions' = Champions
    BY <2>2 DEF Champions
  <2>4. pc'[r] \in {"promoteChallenger", "idle"}
    BY <1>1, <1>a DEF AddChallenger, Goto, TypeOK
  <2>5. /\ Resolved' = Resolved /\ Named' = Named /\ Misnamed' = Misnamed
        /\ crashes' = crashes
    BY <1>1, <1>a, WritersDoNotPredict, NamesStand DEF AddChallenger, RetrainStep
  <2>6. (crashes > 0)' = (crashes > 0)
    BY <2>5
  <2>7. versions # {}
    BY <2>1 DEF Champions
  <2> HIDE DEF v
  <2>8. CASE pc'[r] = "idle"
    <3>1. Won' = Won
      BY <1>d, <1>b, <2>1, <2>8, WonKept DEF Challenging
    <3> QED
      BY <2>1, <2>2, <2>3, <2>5, <2>6, <2>7, <3>1
         DEF Contract!Challenge, Contract!log
  <2>9. CASE pc'[r] = "promoteChallenger"
    <3>1. Won' = Won \union {<<v, against[r]>>}
      <4>1. {s \in Retrainers : pc'[s] \in Challenging}
              = {s \in Retrainers : pc[s] \in Challenging} \union {r}
        BY <1>b, <2>1, <2>9 DEF Challenging
      <4>2. Winners' = Winners \union {r}
        BY <1>d, <4>1, WinnersAreRaised
      <4> QED
        BY <2>2, <4>2 DEF Won, v
    <3> QED
      BY <2>1, <2>2, <2>3, <2>5, <2>6, <2>7, <3>1
         DEF Contract!Challenge, Contract!log
  <2> QED
    BY <2>4, <2>8, <2>9
<1>2. CASE ~AddChallenger(r)
  <2>1. versions' = versions /\ row' = row /\ crashes' = crashes
    BY <1>2 DEF ReadChampion, RetrainStep, FitAndCompare, NumberVersion, DumpBundle,
       SignBundle, tableVars
  <2>2. pc[r] \notin Challenging /\ pc'[r] \notin Challenging
    BY <1>2, <1>a DEF ReadChampion, RetrainStep, FitAndCompare, NumberVersion,
       DumpBundle, SignBundle, Goto, TypeOK, Challenging
  <2>3. Won' = Won
    BY <1>d, <1>b, <2>2, WonKept
  <2> QED
    BY <2>1, <2>3 DEF Stutters, Champions
<1> QED
  BY <1>1, <1>2

LEMMA WriterStepContract ==
  ASSUME QInv, NEW w \in Writers, WriterStep(w), OneWriter'
  PROVE  \/ Stutters
         \/ \E v, c \in VersionIds : Contract!Promote(v, c)
<1>a. /\ TypeOK /\ TInv /\ w \in Procs /\ WriterKnows(w) /\ OneWriter
      /\ [Next]_vars
  BY DEF QInv, NInv, TInv, IInv, Next
<1>d. IInv /\ IInv'
  BY <1>a, StepIInv DEF TInv
<1>b. /\ \A s \in Writers \ {w} : pc'[s] = pc[s] /\ target'[s] = target[s]
      /\ target' = target /\ against' = against
      /\ versions' = versions /\ crashes' = crashes
  BY <1>a DEF WriterStep, PromoteRead, PromoteCommit, Publish, Goto, TypeOK,
     tableVars, localVars
<1>1. CASE PromoteCommit(w) /\ row' # row
  <2> DEFINE v == target[w]
             c == against[w]
  <2>1. /\ w \in Retrainers /\ pc[w] = "commitChallenger"
        /\ Champions = {c} /\ v \in versions
        /\ row'[v].champion = TRUE
        /\ \A x \in versions : x # v => row'[x].champion = FALSE
    BY <1>1, <1>a, CommitReplaces
  <2>2. Champions' = {v}
    BY <1>b, <2>1 DEF Champions
  <2>3. v \in VersionIds /\ c \in VersionIds
    BY <1>a, <2>1 DEF TypeOK, Champions
  <2>4. PICK place \in {"done", "publish"} : Goto(w, place) /\ Busy(w)
    BY <1>1 DEF PromoteCommit, Busy
  <2>5. /\ pc'[w] \notin Challenging
        /\ \A s \in Writers : s # w => Rests(s) /\ Rests(s)'
    BY <1>a, <2>4, OthersRest DEF Challenging
  <2>6. \A s \in Retrainers : /\ pc[s] \in Challenging <=> s = w
                              /\ pc'[s] \notin Challenging
    BY <2>1, <2>5 DEF Rests, Challenging
  <2>7. Won = {<<v, c>>} /\ Won' = {}
    <3>1. Winners = {w}
      BY <1>d, <2>1, <2>6, WinnersAreRaised
    <3>2. Winners' = {}
      BY <2>6 DEF Winners, Challenging
    <3> QED
      BY <3>1, <3>2 DEF Won
  <2>8. Resolved' = Resolved /\ Named' = Named /\ Misnamed' = Misnamed
    BY <1>1, <1>a, WritersDoNotPredict, NamesStand DEF PromoteCommit
  <2>9. (crashes > 0)' = (crashes > 0)
    BY <1>b
  <2> HIDE DEF v, c
  <2> QED
    BY <1>b, <2>1, <2>2, <2>3, <2>7, <2>8, <2>9 DEF Contract!Promote, Contract!log
<1>2. CASE row' = row
  <2>1. \A s \in Retrainers : pc'[s] \in Challenging <=> pc[s] \in Challenging
    <3>1. w \in Retrainers => (pc'[w] \in Challenging <=> pc[w] \in Challenging)
      <4>1. CASE PromoteRead(w)
        BY <4>1, <1>a DEF PromoteRead, CommitOf, Goto, TypeOK, Challenging, TInv, IInv,
                          Places, UploadPlaces
      <4>2. CASE PromoteCommit(w)
        <5>1. w \notin Retrainers
          BY <4>2, <1>2, <1>a, CommitReplaces, ProcsAssumption
          DEF WriterKnows, RetrainKnows, Challenging, TInv, IInv, Places, UploadPlaces,
              PromoteCommit
        <5> QED
          BY <5>1
      <4>3. CASE Publish(w)
        BY <4>3, <1>a DEF Publish, Goto, TypeOK, Challenging
      <4> QED
        BY <4>1, <4>2, <4>3 DEF WriterStep
    <3> QED
      BY <1>b, <3>1
  <2>2. Won' = Won
    BY <1>d, <1>b, <2>1, WonKept
  <2> QED
    BY <1>b, <1>2, <2>2 DEF Stutters, Champions
<1>3. row' = row \/ PromoteCommit(w)
  BY DEF WriterStep, PromoteRead, Publish, tableVars
<1> QED
  BY <1>1, <1>2, <1>3

LEMMA CrashContract ==
  ASSUME QInv, NEW w \in Writers, Crash(w)
  PROVE  Contract!Disturb
<1>a. TypeOK /\ w \in Procs /\ [Next]_vars
  BY DEF QInv, NInv, TInv, IInv, Next
<1>1. /\ pc'[w] = "idle" /\ versions' = versions /\ row' = row
      /\ target' = target /\ against' = against /\ crashes' = crashes + 1
      /\ \A r \in Retrainers : r # w => pc'[r] = pc[r]
  BY <1>a DEF Crash, Goto, TypeOK, tableVars, localVars
<1>2. Won' \subseteq Won
  <2>1. \A r \in Retrainers : pc'[r] \in Challenging' => pc[r] \in Challenging
    BY <1>1 DEF Challenging
  <2> QED
    BY <1>1, <2>1 DEF Won, Winners
<1>3. Champions' = Champions
  BY <1>1 DEF Champions
<1>4. Resolved' = Resolved /\ Named' = Named /\ Misnamed' = Misnamed
  BY <1>a, WritersDoNotPredict, NamesStand
<1>5. (crashes > 0)' = TRUE
  BY <1>1, <1>a, ValuesAssumption DEF TypeOK
<1> QED
  BY <1>1, <1>2, <1>3, <1>4, <1>5 DEF Contract!Disturb, Contract!log

LEMMA ResolveContract ==
  ASSUME QInv, NEW q \in Predictors, Resolve(q)
  PROVE  Contract!Ask(q)
<1>a. TypeOK /\ q \in Procs /\ [Next]_vars
  BY DEF QInv, NInv, TInv, IInv, Next
<1>1. /\ pc[q] = "idle" /\ pc'[q] = "load" /\ answers' = answers
      /\ \A p \in Predictors \ {q} : pc'[p] = pc[p] /\ target'[p] = target[p]
      /\ \/ target'[q] \in Champions
         \/ Champions = {} /\ target'[q] = NoVersion
  BY <1>a DEF Resolve, IsServed, Goto, TypeOK, Champions
<1>2. Resolved' = Resolved \union {<<q, target'[q]>>}
  <2>1. {p \in Predictors : pc'[p] = "load"}
          = {p \in Predictors : pc[p] = "load"} \union {q}
    BY <1>1
  <2>2. q \notin {p \in Predictors : pc[p] = "load"}
    BY <1>1
  <2> QED
    BY <1>1, <2>1, <2>2 DEF Resolved
<1>3. /\ versions' = versions /\ Champions' = Champions /\ Won' = Won
      /\ (crashes > 0)' = (crashes > 0)
  BY <1>a, PredictionsDoNotWrite
<1>4. Named' = Named /\ Misnamed' = Misnamed
  BY <1>1, <1>a, NamesStand
<1> QED
  BY <1>1, <1>2, <1>3, <1>4 DEF Contract!Ask, Contract!rivals

\* What a prediction that ends leaves under way.
LEMMA EndsOne ==
  ASSUME TypeOK, NEW q \in Predictors, Answer(q) \/ Refuse(q)
  PROVE  /\ <<q, target[q]>> \in Resolved
         /\ Resolved' = Resolved \ {<<q, target[q]>>}
<1>1. /\ pc[q] = "load" /\ pc'[q] = "idle" /\ target' = target
      /\ \A p \in Predictors \ {q} : pc'[p] = pc[p]
  BY DEF Answer, Refuse, Goto, TypeOK, localVars
<1> QED
  BY <1>1 DEF Resolved

LEMMA RefuseContract ==
  ASSUME QInv, NEW q \in Predictors, Refuse(q)
  PROVE  Contract!Refuse(q, target[q])
<1>a. TypeOK /\ [Next]_vars /\ answers' = answers
  BY DEF QInv, NInv, TInv, IInv, Next, Refuse
<1>1. /\ versions' = versions /\ Champions' = Champions /\ Won' = Won
      /\ (crashes > 0)' = (crashes > 0)
  BY <1>a, PredictionsDoNotWrite
<1>2. Named' = Named /\ Misnamed' = Misnamed
  BY <1>a, NamesStand
<1> QED
  BY <1>a, <1>1, <1>2, EndsOne DEF Contract!Refuse, Contract!rivals

\* An answer is misnamed only once something died.
LEMMA AnswerContract ==
  ASSUME QInv, NEW q \in Predictors, Answer(q)
  PROVE  Contract!Answer(q, target[q])
<1> DEFINE m == Fetched(q, slot[q]).model
<1>a. /\ TypeOK /\ TInv /\ [Next]_vars /\ pc[q] = "load"
      /\ Loads(Fetched(q, slot[q])) /\ crashes \in Nat
      /\ answers' = answers \union {<<target[q], m>>}
  BY ValuesAssumption DEF QInv, NInv, TInv, IInv, Next, Answer, TypeOK
<1>1. /\ versions' = versions /\ row' = row /\ Champions' = Champions /\ Won' = Won
      /\ (crashes > 0)' = (crashes > 0)
  BY <1>a, PredictionsDoNotWrite
<1>2. \A v : NamedModel(v)' = NamedModel(v)
  BY <1>1 DEF NamedModel, ModelOf
<1>3. Named' = Named \union {target[q]}
  <2>1. <<target[q], m>>[1] = target[q] /\ <<target[q], m>> \in answers'
    BY <1>a
  <2> HIDE DEF m
  <2>2. \A a \in answers' : a \in answers \/ a = <<target[q], m>>
    BY <1>a
  <2>3. answers \subseteq answers'
    BY <1>a
  <2> QED
    BY <2>1, <2>2, <2>3 DEF Named
<1>4. m = NamedModel(target[q]) \/ crashes > 0
  <2> SUFFICES ASSUME crashes = 0
               PROVE  m = NamedModel(target[q])
    BY <1>a
  <2>1. RightlyLogged(<<target[q], m>>)
    BY <1>a, LoadsWhatItNames DEF QInv, NInv
  <2>2. NoVersion \notin versions
    BY <1>a, ValuesAssumption DEF TypeOK
  <2> QED
    BY <2>1, <2>2 DEF RightlyLogged, NamedModel
<1> HIDE DEF m
<1>5. \/ Misnamed' = Misnamed
      \/ m # NamedModel(target[q]) /\ Misnamed' = Misnamed \union {target[q]}
  <2> DEFINE Wrong == {b \in answers : b[2] # NamedModel(b[1])}
  <2>1. {b \in answers' : b[2] # NamedModel(b[1])'}
          = IF m = NamedModel(target[q]) THEN Wrong
                                         ELSE Wrong \union {<<target[q], m>>}
    BY <1>a, <1>2
  <2> QED
    BY <2>1 DEF Misnamed
<1> QED
  BY <1>1, <1>3, <1>4, <1>5, <1>a, EndsOne DEF Contract!Answer, Contract!rivals

LEMMA InitRegistryContract == Init => Contract!Init
<1> SUFFICES ASSUME Init
             PROVE  Contract!Init
  OBVIOUS
<1>1. Champions = {} /\ Won = {} /\ Resolved = {} /\ Named = {} /\ Misnamed = {}
  BY DEF Init, Champions, Won, Winners, Resolved, Named, Misnamed, Challenging
<1>2. (crashes > 0) = FALSE
  BY DEF Init
<1> QED
  BY <1>1, <1>2 DEF Init, Contract!Init

LEMMA StepRegistryContract ==
  QInv /\ [Next /\ OneWriter']_vars => [Contract!Next]_(Contract!vars)
<1> SUFFICES ASSUME QInv, [Next /\ OneWriter']_vars
             PROVE  [Contract!Next]_(Contract!vars)
  OBVIOUS
<1>a. TypeOK /\ [Next]_vars /\ NamesKnown
  BY DEF QInv, NInv, TInv, IInv
<1>1. CASE UNCHANGED vars
  <2>1. /\ Champions' = Champions /\ Won' = Won /\ Resolved' = Resolved
        /\ Named' = Named /\ Misnamed' = Misnamed /\ versions' = versions
    BY <1>1, <1>a, NamesStand DEF Champions, Won, Winners, Resolved, vars
  <2>2. (crashes > 0)' = (crashes > 0)
    BY <1>1 DEF vars
  <2> QED
    BY <2>1, <2>2 DEF Contract!vars
<1>2. ASSUME Stutters,
             \/ \E u \in Uploads : UploadStep(u)
             \/ \E r \in Retrainers : ReadChampion(r) \/ RetrainStep(r)
             \/ \E w \in Writers : WriterStep(w) \/ Crash(w)
      PROVE  UNCHANGED Contract!vars
  <2>1. Resolved' = Resolved /\ Named' = Named /\ Misnamed' = Misnamed
    BY <1>2, <1>a, WritersDoNotPredict, NamesStand
  <2>2. (crashes > 0)' = (crashes > 0)
    BY <1>2 DEF Stutters
  <2> QED
    BY <1>2, <2>1, <2>2 DEF Stutters, Contract!vars
<1>3. CASE \E u \in Uploads : UploadStep(u)
  BY <1>2, <1>3, UploadStepContract DEF Contract!Next
<1>4. CASE \E r \in Retrainers : ReadChampion(r) \/ RetrainStep(r)
  BY <1>2, <1>4, RetrainStepContract DEF Contract!Next
<1>5. CASE (\E w \in Writers : WriterStep(w)) /\ OneWriter'
  BY <1>2, <1>5, WriterStepContract DEF Contract!Next
<1>6. CASE \E w \in Writers : Crash(w)
  BY <1>6, CrashContract DEF Contract!Next
<1>7. CASE \E q \in Predictors : Resolve(q) \/ Answer(q) \/ Refuse(q)
  <2>1. PICK q \in Predictors : Resolve(q) \/ Answer(q) \/ Refuse(q)
    BY <1>7
  <2>2. target[q] \in VersionIds \union {NoVersion}
    BY <1>a DEF TypeOK
  <2> QED
    BY <2>1, <2>2, ResolveContract, AnswerContract, RefuseContract DEF Contract!Next
<1> QED
  BY <1>1, <1>3, <1>4, <1>5, <1>6, <1>7 DEF Next

\* Where one writer changes the run at a time, handlers, table, files and hosts
\* together keep what RegistryContract promises: one champion, which only a
\* challenger that beat it replaces, and a log that is right until something
\* dies.
THEOREM RegistryKeepsContract == SerialSpec => KeepsRegistryContract
<1>1. Init => QInv
  BY InitNInv DEF QInv, NamesKnown, Init
<1>2. QInv /\ [Next /\ OneWriter']_vars => QInv'
  <2> SUFFICES ASSUME QInv, [Next /\ OneWriter']_vars
               PROVE  QInv'
    OBVIOUS
  <2>1. NInv' /\ [Next]_vars
    BY StepNInv DEF QInv
  <2> QED
    BY <2>1, StepKnown DEF QInv
<1>3. QInv /\ [Next /\ OneWriter']_vars => [Contract!Next]_(Contract!vars)
  BY StepRegistryContract
<1> QED
  BY <1>1, <1>2, <1>3, InitRegistryContract, PTL
     DEF SerialSpec, KeepsRegistryContract, Contract!Spec

-----------------------------------------------------------------------------
(* A run never without a champion                                           *)

\* Only one execution of the upload pipeline registers the run; retrains are as
\* many as there are, interleaved with it and with each other, and all may die.
OneUpload == \A u, v \in Uploads : u = v

\* A challenger from its fit to its promotion, and who has a version in hand.
Contending == Unregistered \union {"promoteChallenger", "commitChallenger"}
Naming == Contending \union Promoting \union Committing

\* No promotion has read a challenger as champion before it was raised: nobody
\* is about to demote it, and nobody else is about to raise it.
Unraised(r) ==
  pc[r] \in Contending =>
    /\ target[r] \in versions => row[target[r]].champion = FALSE
    /\ \A w \in Writers : pc[w] \in Committing => target[r] \notin seen[w]
    /\ \A w \in Writers \ {r} : pc[w] \in Naming => target[w] # target[r]

\* What a promotion read: when it found its own target champion and will not
\* raise it, somebody it will not demote is champion still.
ReaderKnows(w) ==
  pc[w] \in Committing =>
    /\ seen[w] \subseteq versions /\ target[w] \notin seen[w]
    /\ w \in Retrainers => held[w] = FALSE
    /\ held[w] => \E v \in versions : row[v].champion /\ v \notin seen[w]

AddsFirst == \A u \in Uploads : pc[u] \in {"addTrained", "addReused"} => versions = {}

\* A retrain began from a champion.
FoundOne == \A r \in Retrainers : pc[r] \in {"dump", "sign", "add"} => versions # {}

PInv ==
  /\ IInv /\ FoundOne
  /\ \A r \in Retrainers : Unraised(r)
  /\ \A w \in Writers : ReaderKnows(w)
  /\ AddsFirst
  /\ NeverWithoutChampion

\* A writer's version is one that was drawn.
LEMMA NamesDrawn ==
  ASSUME IInv, NEW w \in Writers, pc[w] \in Naming
  PROVE  target[w] \in drawn
<1>1. CASE pc[w] \in Promoting \union Committing
  BY <1>1 DEF IInv, PromotesARow, TypeOK
<1>2. CASE pc[w] \in Unregistered
  <2>1. w \in Retrainers
    BY <1>2 DEF IInv, Places
  <2> QED
    BY <1>2, <2>1 DEF IInv, OwnsItsId
<1> QED
  BY <1>1, <1>2 DEF Naming, Contending

\* Steps that change no row and take no execution to a new promotion.
LEMMA PromotionsStand ==
  ASSUME PInv, versions' = versions, row' = row, seen' = seen, held' = held,
         \A w \in Writers : target'[w] = target[w],
         \A w \in Writers : /\ pc'[w] \in Contending => pc[w] \in Contending
                            /\ pc'[w] \in Naming => pc[w] \in Naming
                            /\ pc'[w] \in Committing => pc[w] \in Committing,
         \A u \in Uploads :
           pc'[u] \in {"addTrained", "addReused"} => pc[u] = pc'[u] \/ versions = {}
  PROVE  /\ \A r \in Retrainers : Unraised(r)'
         /\ \A w \in Writers : ReaderKnows(w)'
         /\ AddsFirst' /\ NeverWithoutChampion'
<1>1. ASSUME NEW r \in Retrainers
      PROVE  Unraised(r)'
  BY DEF PInv, Unraised
<1>2. ASSUME NEW w \in Writers
      PROVE  ReaderKnows(w)'
  BY DEF PInv, ReaderKnows
<1>3. AddsFirst' /\ NeverWithoutChampion'
  BY DEF PInv, AddsFirst, NeverWithoutChampion
<1> QED
  BY <1>1, <1>2, <1>3

LEMMA QuietPromotions ==
  ASSUME PInv,
         \/ \E u \in Uploads : \/ UploadCacheHit(u) \/ UploadFit(u)
                               \/ RegisterKnown(u) \/ RegisterListed(u)
         \/ \E r \in Retrainers : \/ ReadChampion(r) \/ NumberVersion(r)
                                  \/ DumpBundle(r) \/ SignBundle(r)
         \/ \E w \in Writers : Publish(w) \/ Crash(w)
         \/ \E q \in Predictors : Resolve(q) \/ Answer(q) \/ Refuse(q)
         \/ UNCHANGED vars
  PROVE  /\ \A r \in Retrainers : Unraised(r)'
         /\ \A w \in Writers : ReaderKnows(w)'
         /\ AddsFirst' /\ NeverWithoutChampion'
<1> DEFINE Stays == /\ versions' = versions /\ row' = row /\ seen' = seen /\ held' = held
                    /\ \A w \in Writers : target'[w] = target[w]
           Leads(w) == /\ pc'[w] \in Contending => pc[w] \in Contending
                       /\ pc'[w] \in Naming => pc[w] \in Naming
                       /\ pc'[w] \in Committing => pc[w] \in Committing
           Adding == \A u \in Uploads :
                       pc'[u] \in {"addTrained", "addReused"} =>
                         pc[u] = pc'[u] \/ versions = {}
<1> USE DEF tableVars, fileVars, localVars
<1>a. pc \in [Procs -> {"idle", "done", "registerReused", "registerTrained",
                        "addReused", "addTrained", "fit", "number", "dump",
                        "sign", "add", "publish", "load"}
                       \union Promoting \union Committing]
  BY DEF PInv, IInv, TypeOK
<1>1. ASSUME NEW u \in Uploads, \/ UploadCacheHit(u) \/ UploadFit(u)
                                \/ RegisterKnown(u) \/ RegisterListed(u)
      PROVE  Stays /\ (\A w \in Writers : Leads(w)) /\ Adding
  <2>1. Stays
    BY <1>1 DEF UploadCacheHit, UploadFit, RegisterKnown, RegisterListed
  <2>2. \A w \in Writers : Leads(w)
    BY <1>a, <1>1 DEF UploadCacheHit, UploadFit, RegisterKnown, RegisterListed, Goto,
                      Naming, Contending, Unregistered
  <2>3. Adding
    BY <1>a, <1>1 DEF UploadCacheHit, UploadFit, RegisterKnown, RegisterListed, Goto
  <2> QED
    BY <2>1, <2>2, <2>3
<1>2. ASSUME NEW r \in Retrainers, \/ ReadChampion(r) \/ NumberVersion(r)
                                   \/ DumpBundle(r) \/ SignBundle(r)
      PROVE  Stays /\ (\A w \in Writers : Leads(w)) /\ Adding
  <2>1. Stays
    BY <1>2 DEF ReadChampion, NumberVersion, DumpBundle, SignBundle
  <2>2. \A w \in Writers : Leads(w)
    BY <1>a, <1>2 DEF ReadChampion, NumberVersion, DumpBundle, SignBundle, Goto,
                      Naming, Contending, Unregistered
  <2>3. Adding
    BY <1>a, <1>2 DEF ReadChampion, NumberVersion, DumpBundle, SignBundle, Goto
  <2> QED
    BY <2>1, <2>2, <2>3
<1>3. ASSUME NEW w \in Writers, Publish(w) \/ Crash(w)
      PROVE  Stays /\ (\A x \in Writers : Leads(x)) /\ Adding
  BY <1>a, <1>3 DEF Publish, Crash, Goto, Naming, Contending, Unregistered
<1>4. ASSUME NEW q \in Predictors, Resolve(q) \/ Answer(q) \/ Refuse(q)
      PROVE  Stays /\ (\A w \in Writers : Leads(w)) /\ Adding
  <2>1. \A w \in Writers : w # q
    BY ProcsAssumption
  <2>2. target \in [Procs -> VersionIds \union {NoVersion}]
    BY DEF PInv, IInv, TypeOK
  <2>3. Stays
    BY <1>4, <2>1, <2>2 DEF Resolve, Answer, Refuse
  <2>4. \A w \in Writers : pc'[w] = pc[w]
    BY <1>a, <1>4, <2>1 DEF Resolve, Answer, Refuse, Goto
  <2> QED
    BY <2>3, <2>4
<1>5. CASE UNCHANGED vars
  BY <1>5, PromotionsStand DEF vars
<1> QED
  BY <1>1, <1>2, <1>3, <1>4, <1>5, PromotionsStand

\* The first version: nobody has promoted anything yet.
LEMMA AddInitialChampions ==
  ASSUME OneUpload, PInv, NEW u \in Uploads, AddInitial(u)
  PROVE  /\ \A r \in Retrainers : Unraised(r)'
         /\ \A w \in Writers : ReaderKnows(w)'
         /\ AddsFirst' /\ NeverWithoutChampion'
<1>a. /\ TypeOK /\ IInv /\ pc[u] \in {"addTrained", "addReused"} /\ u \in Writers
      /\ versions = {} /\ u \notin Retrainers
  BY ProcsAssumption DEF PInv, IInv, AddInitial, AddsFirst
<1>1. PICK v \in VersionIds \ drawn :
        /\ versions' = {v}
        /\ row' = [row EXCEPT ![v] =
                     [version |-> 1, champion |-> TRUE, judged |-> "initial"]]
        /\ target' = [target EXCEPT ![u] = v]
  BY <1>a DEF AddInitial, Fresh
<1>2. /\ seen' = seen /\ held' = held
      /\ pc'[u] \in {"promoteTrained", "promoteReused"}
      /\ \A w \in Writers \ {u} : pc'[w] = pc[w] /\ target'[w] = target[w]
      /\ target'[u] = v /\ row'[v].champion
  BY <1>a, <1>1 DEF AddInitial, Goto, TypeOK
<1>3. \A w \in Writers : pc'[w] \notin Committing
  BY <1>a, <1>2 DEF IInv, PromotesARow
<1>4. ASSUME NEW r \in Retrainers
      PROVE  Unraised(r)'
  <2>1. r \in Writers \ {u}
    BY <1>a
  <2>2. pc[r] \in Contending => target[r] \in drawn
    BY <1>a, <2>1, NamesDrawn DEF Naming
  <2>3. \A w \in Writers \ {r} : pc'[w] \in Naming /\ pc[r] \in Contending =>
          target'[w] # target[r]
    BY <1>1, <1>2, <2>1, <2>2 DEF PInv, Unraised
  <2> QED
    BY <1>1, <1>2, <1>3, <2>1, <2>2, <2>3 DEF Unraised
<1>5. \A w \in Writers : ReaderKnows(w)'
  BY <1>3 DEF ReaderKnows
<1>6. AddsFirst'
  BY <1>2 DEF AddsFirst, OneUpload
<1>7. NeverWithoutChampion'
  BY <1>1, <1>2 DEF NeverWithoutChampion
<1> QED
  BY <1>4, <1>5, <1>6, <1>7

\* A promotion reads what there is.
LEMMA ReadChampions ==
  ASSUME PInv, NEW w \in Writers, PromoteRead(w)
  PROVE  /\ \A r \in Retrainers : Unraised(r)'
         /\ \A x \in Writers : ReaderKnows(x)'
         /\ AddsFirst' /\ NeverWithoutChampion'
<1>a. TypeOK /\ IInv /\ pc[w] \in Promoting
  BY DEF PInv, IInv, PromoteRead
<1>1. /\ versions' = versions /\ row' = row /\ target' = target
      /\ seen'[w] = {v \in versions : row[v].champion} \ {target[w]}
      /\ held'[w] = row[target[w]].champion
      /\ pc'[w] \in Committing
      /\ \A x \in Writers \ {w} :
           pc'[x] = pc[x] /\ seen'[x] = seen[x] /\ held'[x] = held[x]
  BY <1>a DEF PromoteRead, Goto, TypeOK, tableVars, CommitOf
<1>2. target[w] \in versions
  BY <1>a DEF IInv, PromotesARow
<1>3. w \in Retrainers => pc[w] = "promoteChallenger" /\ pc'[w] = "commitChallenger"
  BY <1>a DEF IInv, Places, UploadPlaces, PromoteRead, Goto, CommitOf, TypeOK
<1>4. ASSUME NEW r \in Retrainers
      PROVE  Unraised(r)'
  <2> SUFFICES ASSUME pc'[r] \in Contending
               PROVE  Unraised(r)'
    BY DEF Unraised
  <2>1. pc[r] \in Contending
    BY <1>1, <1>3 DEF Contending
  <2>2. /\ target[r] \in versions => row[target[r]].champion = FALSE
        /\ \A x \in Writers : pc[x] \in Committing => target[r] \notin seen[x]
        /\ \A x \in Writers \ {r} : pc[x] \in Naming => target[x] # target[r]
    BY <2>1 DEF PInv, Unraised
  <2>3. \A x \in Writers : pc'[x] \in Committing => target[r] \notin seen'[x]
    BY <1>1, <2>2
  <2>4. \A x \in Writers \ {r} : pc'[x] \in Naming => target[x] # target[r]
    BY <1>1, <1>a, <2>2 DEF Naming
  <2> QED
    BY <1>1, <2>2, <2>3, <2>4 DEF Unraised
<1>5. ASSUME NEW x \in Writers
      PROVE  ReaderKnows(x)'
  <2>1. CASE x # w
    BY <1>1, <2>1 DEF PInv, ReaderKnows
  <2>2. CASE x = w
    <3>1. w \in Retrainers => held'[w] = FALSE
      BY <1>1, <1>2, <1>3 DEF PInv, Unraised, Contending
    <3> QED
      BY <1>1, <1>2, <2>2, <3>1 DEF ReaderKnows
  <2> QED
    BY <2>1, <2>2
<1>6. AddsFirst' /\ NeverWithoutChampion'
  <2>1. \A u \in Uploads : pc'[u] \in {"addTrained", "addReused"} => pc[u] = pc'[u]
    BY <1>1
  <2> QED
    BY <1>1, <2>1 DEF PInv, AddsFirst, NeverWithoutChampion
<1> QED
  BY <1>4, <1>5, <1>6

\* The heart of the argument: a commit raises its target, or leaves a champion
\* it did not see; and no other promotion that relied on one is left without.
LEMMA CommitLeavesAChampion ==
  ASSUME OneUpload, PInv, NEW w \in Writers, PromoteCommit(w)
  PROVE  /\ \A r \in Retrainers : Unraised(r)'
         /\ \A x \in Writers : ReaderKnows(x)'
         /\ AddsFirst' /\ NeverWithoutChampion'
<1>a. TypeOK /\ IInv /\ pc[w] \in Committing
  BY DEF PInv, IInv, PromoteCommit
<1>b. target[w] \in versions /\ versions \subseteq VersionIds
  BY <1>a DEF IInv, PromotesARow, TypeOK
<1>c. /\ seen[w] \subseteq versions /\ target[w] \notin seen[w]
      /\ w \in Retrainers => held[w] = FALSE
      /\ held[w] => \E v \in versions : row[v].champion /\ v \notin seen[w]
  BY <1>a DEF PInv, ReaderKnows
<1>1. /\ versions' = versions /\ target' = target /\ seen' = seen /\ held' = held
      /\ pc'[w] \in {"done", "publish"}
      /\ \A x \in Writers \ {w} : pc'[x] = pc[x]
  BY <1>a DEF PromoteCommit, Goto, TypeOK, localVars
<1>2. \A v \in VersionIds :
        row'[v].champion = IF v \in seen[w] THEN FALSE
                           ELSE IF v = target[w] /\ ~held[w] THEN TRUE
                           ELSE row[v].champion
  BY <1>a DEF PromoteCommit, PromotedRow, TypeOK, Row
<1>3. \E v \in versions : row'[v].champion /\ (w \in Retrainers => v = target[w])
  <2>1. CASE held[w]
    BY <1>b, <1>c, <1>2, <2>1
  <2>2. CASE ~held[w]
    BY <1>b, <1>c, <1>2, <2>2
  <2> QED
    BY <2>1, <2>2
<1>4. ASSUME NEW r \in Retrainers
      PROVE  Unraised(r)'
  <2> SUFFICES ASSUME pc'[r] \in Contending
               PROVE  Unraised(r)'
    BY DEF Unraised
  <2>1. r # w /\ pc[r] \in Contending
    BY <1>1 DEF Contending, Unregistered
  <2>2. /\ target[r] \in versions => row[target[r]].champion = FALSE
        /\ \A x \in Writers : pc[x] \in Committing => target[r] \notin seen[x]
        /\ \A x \in Writers \ {r} : pc[x] \in Naming => target[x] # target[r]
    BY <2>1 DEF PInv, Unraised
  <2>3. target[r] # target[w]
    BY <1>a, <2>1, <2>2 DEF Naming
  <2>4. target[r] \in versions => row'[target[r]].champion = FALSE
    BY <1>b, <1>2, <2>2, <2>3
  <2>5. \A x \in Writers : (pc'[x] \in Committing => pc[x] \in Committing)
                             /\ (pc'[x] \in Naming => pc[x] \in Naming)
    BY <1>1, <1>a DEF Naming
  <2> QED
    BY <1>1, <2>2, <2>4, <2>5 DEF Unraised
<1>5. ASSUME NEW x \in Writers
      PROVE  ReaderKnows(x)'
  <2> SUFFICES ASSUME pc'[x] \in Committing
               PROVE  ReaderKnows(x)'
    BY DEF ReaderKnows
  <2>1. x # w /\ pc[x] \in Committing
    BY <1>1
  <2>2. /\ seen[x] \subseteq versions /\ target[x] \notin seen[x]
        /\ x \in Retrainers => held[x] = FALSE
    BY <2>1 DEF PInv, ReaderKnows
  <2>3. held[x] => \E v \in versions : row'[v].champion /\ v \notin seen[x]
    <3> SUFFICES ASSUME held[x]
                 PROVE  \E v \in versions : row'[v].champion /\ v \notin seen[x]
      OBVIOUS
    <3>1. x \in Uploads /\ w \in Retrainers
      BY <2>1, <2>2 DEF OneUpload
    <3>2. pc[w] \in Contending
      BY <1>a, <3>1 DEF IInv, Places, UploadPlaces, Contending
    <3>3. target[w] \notin seen[x]
      BY <2>1, <3>1, <3>2 DEF PInv, Unraised
    <3> QED
      BY <1>3, <3>1, <3>3
  <2> QED
    BY <1>1, <2>2, <2>3 DEF ReaderKnows
<1>6. AddsFirst'
  BY <1>1 DEF PInv, AddsFirst
<1>7. NeverWithoutChampion'
  BY <1>1, <1>3 DEF NeverWithoutChampion
<1> QED
  BY <1>4, <1>5, <1>6, <1>7

\* A fit draws an id nobody has heard of.
LEMMA FitChampions ==
  ASSUME PInv, NEW r \in Retrainers, FitAndCompare(r)
  PROVE  /\ \A s \in Retrainers : Unraised(s)'
         /\ \A w \in Writers : ReaderKnows(w)'
         /\ AddsFirst' /\ NeverWithoutChampion'
<1>a. TypeOK /\ IInv /\ r \in Writers /\ r \notin Uploads
  BY ProcsAssumption DEF PInv, IInv
<1>1. PICK v \in VersionIds \ drawn : target' = [target EXCEPT ![r] = v]
  BY DEF FitAndCompare, Fresh
<1>2. /\ versions' = versions /\ row' = row /\ seen' = seen /\ held' = held
      /\ pc'[r] = "number" /\ target'[r] = v
      /\ \A w \in Writers \ {r} : pc'[w] = pc[w] /\ target'[w] = target[w]
  BY <1>a, <1>1 DEF FitAndCompare, Goto, TypeOK
<1>3. v \notin versions /\ \A w \in Writers : pc[w] \in Committing => v \notin seen[w]
  BY <1>a, <1>1 DEF TypeOK, PInv, ReaderKnows
<1>4. \A w \in Writers \ {r} : pc'[w] \in Naming => target'[w] # v
  BY <1>a, <1>1, <1>2, NamesDrawn
<1>5. \A w \in Writers : pc'[w] \in Committing => pc[w] \in Committing /\ w # r
  BY <1>2
<1>6. ASSUME NEW s \in Retrainers
      PROVE  Unraised(s)'
  <2>1. CASE s = r
    BY <1>2, <1>3, <1>4, <1>5, <2>1 DEF Unraised
  <2>2. CASE s # r
    <3> SUFFICES ASSUME pc'[s] \in Contending
                 PROVE  Unraised(s)'
      BY DEF Unraised
    <3>1. /\ pc[s] \in Contending /\ pc'[s] \in Naming /\ target'[s] = target[s]
          /\ s \in Writers \ {r}
      BY <1>2, <2>2 DEF Naming
    <3>2. /\ target[s] \in versions => row[target[s]].champion = FALSE
          /\ \A x \in Writers : pc[x] \in Committing => target[s] \notin seen[x]
          /\ \A x \in Writers \ {s} : pc[x] \in Naming => target[x] # target[s]
      BY <3>1 DEF PInv, Unraised
    <3>3. \A x \in Writers \ {s} : pc'[x] \in Naming => target'[x] # target'[s]
      BY <1>2, <1>4, <3>1, <3>2
    <3> QED
      BY <1>2, <1>5, <3>1, <3>2, <3>3 DEF Unraised
  <2> QED
    BY <2>1, <2>2
<1>7. ASSUME NEW w \in Writers
      PROVE  ReaderKnows(w)'
  BY <1>2, <1>5 DEF PInv, ReaderKnows
<1>8. AddsFirst' /\ NeverWithoutChampion'
  BY <1>a, <1>2 DEF PInv, AddsFirst, NeverWithoutChampion
<1> QED
  BY <1>6, <1>7, <1>8

\* A challenger's row is added as no champion.
LEMMA AddChampions ==
  ASSUME PInv, NEW r \in Retrainers, AddChallenger(r)
  PROVE  /\ \A s \in Retrainers : Unraised(s)'
         /\ \A w \in Writers : ReaderKnows(w)'
         /\ AddsFirst' /\ NeverWithoutChampion'
<1>a. TypeOK /\ IInv /\ r \in Writers /\ r \notin Uploads /\ pc[r] = "add"
  BY ProcsAssumption DEF PInv, IInv, AddChallenger
<1>b. target[r] \in drawn \ versions /\ target[r] \in VersionIds
  BY <1>a DEF IInv, OwnsItsId, Unregistered, TypeOK
<1>c. versions # {}
  BY <1>a DEF PInv, FoundOne
<1>1. /\ versions' = versions \union {target[r]} /\ target' = target
      /\ seen' = seen /\ held' = held
      /\ pc'[r] \in {"promoteChallenger", "idle"}
      /\ \A w \in Writers \ {r} : pc'[w] = pc[w]
      /\ row'[target[r]].champion = FALSE
      /\ \A v \in versions : row'[v] = row[v]
  BY <1>a, <1>b DEF AddChallenger, Goto, TypeOK, localVars
<1>2. \A w \in Writers : /\ pc'[w] \in Contending => pc[w] \in Contending
                         /\ pc'[w] \in Naming => pc[w] \in Naming
                         /\ pc'[w] \in Committing => pc[w] \in Committing /\ w # r
  BY <1>a, <1>1 DEF Contending, Naming, Unregistered
<1>3. ASSUME NEW s \in Retrainers
      PROVE  Unraised(s)'
  <2> SUFFICES ASSUME pc'[s] \in Contending
               PROVE  Unraised(s)'
    BY DEF Unraised
  <2>1. /\ target[s] \in versions => row[target[s]].champion = FALSE
        /\ \A x \in Writers : pc[x] \in Committing => target[s] \notin seen[x]
        /\ \A x \in Writers \ {s} : pc[x] \in Naming => target[x] # target[s]
    BY <1>2 DEF PInv, Unraised
  <2>2. target[s] \in versions' => row'[target[s]].champion = FALSE
    BY <1>1, <2>1
  <2> QED
    BY <1>1, <1>2, <2>1, <2>2 DEF Unraised
<1>4. ASSUME NEW w \in Writers
      PROVE  ReaderKnows(w)'
  <2> SUFFICES ASSUME pc'[w] \in Committing
               PROVE  ReaderKnows(w)'
    BY DEF ReaderKnows
  <2>1. /\ seen[w] \subseteq versions /\ target[w] \notin seen[w]
        /\ w \in Retrainers => held[w] = FALSE
        /\ held[w] => \E v \in versions : row[v].champion /\ v \notin seen[w]
    BY <1>2 DEF PInv, ReaderKnows
  <2>2. held[w] => \E v \in versions' : row'[v].champion /\ v \notin seen[w]
    BY <1>1, <2>1
  <2> QED
    BY <1>1, <2>1, <2>2 DEF ReaderKnows
<1>5. AddsFirst'
  BY <1>1, <1>a, <1>c DEF PInv, AddsFirst
<1>6. NeverWithoutChampion'
  BY <1>1, <1>c DEF PInv, NeverWithoutChampion
<1> QED
  BY <1>3, <1>4, <1>5, <1>6

LEMMA StepFound == IInv /\ FoundOne /\ [Next]_vars => FoundOne'
<1> SUFFICES ASSUME IInv, FoundOne, [Next]_vars, NEW r \in Retrainers,
                    pc'[r] \in {"dump", "sign", "add"}
             PROVE  versions' # {}
  BY DEF FoundOne
<1>1. versions # {} => versions' # {}
  BY RowsKept
<1>2. pc[r] \in {"number", "dump", "sign", "add"}
  <2> USE <1>1 DEF IInv, TypeOK, Goto
  <2>1. ASSUME NEW u \in Uploads, UploadStep(u)
        PROVE  pc'[r] = pc[r]
    BY <2>1, ProcsAssumption DEF UploadStep, UploadCacheHit, UploadFit, RegisterKnown,
                                 RegisterListed, AddInitial
  <2>2. ASSUME NEW s \in Retrainers, ReadChampion(s) \/ RetrainStep(s)
        PROVE  pc[r] \in {"number", "dump", "sign", "add"}
    BY <2>2 DEF ReadChampion, RetrainStep, FitAndCompare, NumberVersion, DumpBundle,
                SignBundle, AddChallenger
  <2>3. ASSUME NEW w \in Writers, WriterStep(w) \/ Crash(w)
        PROVE  pc'[r] = pc[r]
    BY <2>3 DEF WriterStep, PromoteRead, PromoteCommit, Publish, Crash, CommitOf
  <2>4. ASSUME NEW q \in Predictors, Resolve(q) \/ Answer(q) \/ Refuse(q)
        PROVE  pc'[r] = pc[r]
    BY <2>4, ProcsAssumption DEF Resolve, Answer, Refuse
  <2> QED
    BY <2>1, <2>2, <2>3, <2>4 DEF Next, vars
<1> QED
  BY <1>1, <1>2 DEF IInv, RetrainHolds, RetrainHolding, FoundOne

LEMMA StepPInv == OneUpload /\ PInv /\ [Next]_vars => PInv'
<1> SUFFICES ASSUME OneUpload, PInv, [Next]_vars
             PROVE  PInv'
  OBVIOUS
<1>1. IInv'
  BY StepIInv DEF PInv
<1>2. FoundOne'
  BY StepFound DEF PInv
<1>3. /\ \A r \in Retrainers : Unraised(r)'
      /\ \A w \in Writers : ReaderKnows(w)'
      /\ AddsFirst' /\ NeverWithoutChampion'
  BY QuietPromotions, AddInitialChampions, ReadChampions, CommitLeavesAChampion,
     FitChampions, AddChampions DEF Next, UploadStep, RetrainStep, WriterStep
<1> QED
  BY <1>1, <1>2, <1>3 DEF PInv

LEMMA InitPInv == Init => PInv
<1> SUFFICES ASSUME Init
             PROVE  PInv
  OBVIOUS
<1>1. /\ \A p \in Procs : pc[p] = "idle"
      /\ versions = {}
  BY DEF Init
<1>2. \A r \in Retrainers : Unraised(r)
  BY <1>1 DEF Unraised, Contending, Unregistered
<1>3. \A w \in Writers : ReaderKnows(w)
  BY <1>1 DEF ReaderKnows
<1> QED
  BY <1>1, <1>2, <1>3, InitIInv DEF PInv, FoundOne, AddsFirst, NeverWithoutChampion

\* With one upload, no interleaving of retrains with it or with each other, and
\* no crash, leaves a run that has versions without a champion.
THEOREM AlwaysAChampion == OneUpload => (Spec => []NeverWithoutChampion)
<1> SUFFICES ASSUME OneUpload
             PROVE  Spec => []NeverWithoutChampion
  OBVIOUS
<1>1. PInv => NeverWithoutChampion
  BY DEF PInv
<1>2. PInv /\ [Next]_vars => PInv'
  BY StepPInv
<1> QED
  BY InitPInv, <1>1, <1>2, PTL DEF Spec

=============================================================================
