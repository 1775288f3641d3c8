----------------------------- MODULE Migrations -----------------------------
(***************************************************************************)
(* How a process that starts brings the schema to head: it waits for the    *)
(* database (db.wait_for_database), takes the migration lock, adopts a      *)
(* database older than Alembic (utils/migrations.py) and runs the scripts   *)
(* under migrations/versions/ that are still due.  The API and the worker   *)
(* start side by side, and either can die at any statement.                 *)
(*                                                                          *)
(* A statement that defines a table belongs to the transaction on           *)
(* PostgreSQL.  On SQLite the driver opens a transaction at the first       *)
(* INSERT or UPDATE only: what is defined before is committed at once.      *)
(***************************************************************************)
EXTENDS Integers, Sequences

CONSTANTS Starters,   \* processes that call init_db: the API, the worker
          Chain,      \* for each revision, the tables it creates, in order
          Copies,     \* the revisions that also copy data (0002, 0003)
          Sentinel,   \* the table that tells a database of this application
          MaxDeaths,  \* bound on deaths
          Nobody      \* no process

TablesOf(r) == {Chain[r][i] : i \in DOMAIN Chain[r]}
Revisions == DOMAIN Chain
Tables == UNION {TablesOf(r) : r \in Revisions}
Baseline == 1
Newest == Len(Chain)

\* What the constants have to be.
MigrationsConstants ==
  /\ Chain \in Seq(Seq(Tables)) /\ Len(Chain) >= 1
  /\ \A q, r \in Revisions : q # r => TablesOf(q) \cap TablesOf(r) = {}
  /\ Copies \subseteq Revisions \ {Baseline}
  /\ Sentinel \in TablesOf(Baseline)
  /\ MaxDeaths \in Nat
  /\ Nobody \notin Starters

VARIABLES
  dialect,   \* of the database: "postgresql" or "sqlite"
  reachable, \* the server accepts connections
  disk,      \* what is committed: tables, the revision stamped (0: none),
             \* and the revisions whose data was copied
  work,      \* the same, as the transaction under way sees it
  dirty,     \* that transaction has inserted or updated
  holder,    \* who has the migration lock
  place,     \* where each process stands
  next,      \* the next table of the script under way
  deaths,
  born       \* the database as it was found

migrationsVars == <<dialect, reachable, disk, work, dirty, holder, place,
                    next, deaths, born>>

\* A table is whole, absent, or old: it lacks columns later phases added.
Database == [table : [Tables -> {"absent", "old", "whole"}],
             revision : 0 .. Newest, copied : SUBSET Copies]

\* A new database, one somebody migrated before, or one whose tables come from
\* the create_all of some earlier phase: any of the baseline's with the
\* sentinel among them, perhaps old, perhaps with tables of later revisions.
Initial ==
  {[table |-> [t \in Tables |->
       IF \E q \in 1 .. r : t \in TablesOf(q) THEN "whole" ELSE "absent"],
    revision |-> r, copied |-> Copies \cap (1 .. r)] : r \in 0 .. Newest}
  \union
  {[table |-> [t \in Tables |-> IF t = Sentinel THEN sentinel
                                ELSE IF t \in made THEN "whole" ELSE "absent"],
    revision |-> 0, copied |-> {}] :
    sentinel \in {"old", "whole"}, made \in SUBSET Tables}

MigrationsInit ==
  /\ dialect \in {"postgresql", "sqlite"}
  /\ reachable \in {dialect = "sqlite", TRUE}
  /\ disk \in Initial
  /\ work = disk
  /\ dirty = FALSE
  /\ holder = Nobody
  /\ place = [p \in Starters |-> "off"]
  /\ next = 1
  /\ deaths = 0
  /\ born = disk

-----------------------------------------------------------------------------
(* Statements                                                               *)

\* On SQLite a definition is committed unless data was changed before it.
Define(db) ==
  /\ work' = db
  /\ disk' = IF dialect = "sqlite" /\ ~dirty THEN db ELSE disk
  /\ UNCHANGED dirty

Change(db) ==
  /\ work' = db
  /\ dirty' = TRUE
  /\ UNCHANGED disk

At(p, here) == holder = p /\ place[p] = here
Goto(p, there) == place' = [place EXCEPT ![p] = there]
Leave(p) ==
  /\ Goto(p, "off")
  /\ holder' = IF holder = p THEN Nobody ELSE holder
  /\ UNCHANGED <<dialect, reachable, disk, work, dirty, born>>

-----------------------------------------------------------------------------
(* Starting                                                                 *)

StartUp(p) ==
  /\ place[p] = "off"
  /\ Goto(p, "waiting")
  /\ UNCHANGED <<dialect, reachable, disk, work, dirty, holder, next, deaths,
                 born>>

\* The server comes up.
Answer ==
  /\ ~reachable
  /\ reachable' = TRUE
  /\ UNCHANGED <<dialect, disk, work, dirty, holder, place, next, deaths,
                 born>>

\* wait_for_database raises when its budget is spent; the supervisor restarts.
GiveUp(p) ==
  /\ place[p] = "waiting" /\ ~reachable
  /\ Leave(p)
  /\ UNCHANGED <<next, deaths>>

\* _take_migration_lock, and what the revision then read says.  On SQLite there
\* is no lock: it is held here because only one process starts on a file.
Lock(p) ==
  /\ place[p] = "waiting" /\ reachable
  /\ holder = Nobody
  /\ holder' = p
  /\ work' = disk
  /\ dirty' = FALSE
  /\ next' = 1
  /\ Goto(p, IF disk.revision = 0 /\ disk.table[Sentinel] # "absent"
             THEN "creating" ELSE "upgrading")
  /\ UNCHANGED <<dialect, reachable, disk, deaths, born>>

-----------------------------------------------------------------------------
(* _adopt_pre_alembic_schema                                                *)

\* A slip, the first version of the module: every table of today's models.
CreateMissing_LiveModels(p) ==
  /\ At(p, "creating")
  /\ LET missing == {t \in Tables : work.table[t] = "absent"} IN
     \/ \E t \in missing :
          Define([work EXCEPT !.table[t] = "whole"]) /\ UNCHANGED place
     \/ /\ missing = {}
        /\ Goto(p, "altering")
        /\ UNCHANGED <<disk, work, dirty>>
  /\ UNCHANGED <<dialect, reachable, holder, next, deaths, born>>

\* The tables of the baseline that are missing, one after the other.
CreateMissing(p) ==
  /\ At(p, "creating")
  /\ LET missing == {t \in TablesOf(Baseline) : work.table[t] = "absent"} IN
     \/ \E t \in missing :
          Define([work EXCEPT !.table[t] = "whole"]) /\ UNCHANGED place
     \/ /\ missing = {}
        /\ Goto(p, "altering")
        /\ UNCHANGED <<disk, work, dirty>>
  /\ UNCHANGED <<dialect, reachable, holder, next, deaths, born>>

\* The columns that were patched in, table by table.
AddColumns(p) ==
  /\ At(p, "altering")
  /\ LET old == {t \in TablesOf(Baseline) : work.table[t] = "old"} IN
     \/ \E t \in old :
          Define([work EXCEPT !.table[t] = "whole"]) /\ UNCHANGED place
     \/ /\ old = {}
        /\ Goto(p, "stamping")
        /\ UNCHANGED <<disk, work, dirty>>
  /\ UNCHANGED <<dialect, reachable, holder, next, deaths, born>>

Satisfies(db, r) ==
  \A q \in 1 .. r : \A t \in TablesOf(q) : db.table[t] = "whole"

\* A slip, the first version of the module: the stamp is always the baseline.
Satisfied_Baseline(db) == Baseline

\* _revision_already_satisfied: walked forward, stopped at the first gap.
Satisfied(db) ==
  CHOOSE r \in Revisions :
    /\ r = Baseline \/ Satisfies(db, r)
    /\ r = Newest \/ ~Satisfies(db, r + 1)

Stamp(p) ==
  /\ At(p, "stamping")
  /\ Change([work EXCEPT !.revision = Satisfied(work)])
  /\ Goto(p, "upgrading")
  /\ UNCHANGED <<dialect, reachable, holder, next, deaths, born>>

-----------------------------------------------------------------------------
(* alembic upgrade head                                                     *)

NextRevision == work.revision + 1

\* op.create_table, for the next table of the script that is due.
CreateTable(p) ==
  /\ At(p, "upgrading")
  /\ NextRevision <= Newest /\ next <= Len(Chain[NextRevision])
  /\ work.table[Chain[NextRevision][next]] = "absent"
  /\ Define([work EXCEPT !.table[Chain[NextRevision][next]] = "whole"])
  /\ next' = next + 1
  /\ UNCHANGED <<dialect, reachable, holder, place, deaths, born>>

\* It is there already: the statement fails, and the process with it.
Collide(p) ==
  /\ At(p, "upgrading")
  /\ NextRevision <= Newest /\ next <= Len(Chain[NextRevision])
  /\ work.table[Chain[NextRevision][next]] # "absent"
  /\ Leave(p)
  /\ UNCHANGED <<next, deaths>>

\* The data of 0002 (a key row for every account) and of 0003 (a version 1 for
\* every run) is copied; then the version row names the revision.
Finish(p) ==
  /\ At(p, "upgrading")
  /\ NextRevision <= Newest /\ next > Len(Chain[NextRevision])
  /\ Change([work EXCEPT !.revision = NextRevision,
                         !.copied = @ \union (Copies \cap {NextRevision})])
  /\ next' = 1
  /\ UNCHANGED <<dialect, reachable, holder, place, deaths, born>>

Commit(p) ==
  /\ At(p, "upgrading")
  /\ work.revision = Newest
  /\ disk' = work
  /\ holder' = Nobody
  /\ Goto(p, "up")
  /\ UNCHANGED <<dialect, reachable, work, dirty, next, deaths, born>>

\* The process dies; what was not committed is rolled back and the lock freed.
StarterDies(p) ==
  /\ place[p] # "off"
  /\ deaths < MaxDeaths
  /\ deaths' = deaths + 1
  /\ Leave(p)
  /\ UNCHANGED next

Step(p) ==
  \/ Lock(p) \/ CreateMissing(p) \/ AddColumns(p) \/ Stamp(p)
  \/ CreateTable(p) \/ Collide(p) \/ Finish(p) \/ Commit(p)
MigrationsNext ==
  \/ Answer
  \/ \E p \in Starters : StartUp(p) \/ GiveUp(p) \/ Step(p) \/ StarterDies(p)

\* The server comes up in the end, a supervisor starts what stopped, and a
\* process that runs goes on.
MigrationsFairness ==
  /\ WF_migrationsVars(Answer)
  /\ \A p \in Starters :
       WF_migrationsVars(StartUp(p)) /\ WF_migrationsVars(Step(p))
MigrationsSpec ==
  MigrationsInit /\ [][MigrationsNext]_migrationsVars /\ MigrationsFairness

-----------------------------------------------------------------------------
(* Properties                                                               *)

\* A database of create_all that has a table of some revision without having
\* all of it and of those before: the chain cannot pass that table.
Gapped(db) ==
  /\ db.revision = 0
  /\ \E r \in Revisions \ {Baseline} :
       /\ \E t \in TablesOf(r) : db.table[t] # "absent"
       /\ \E q \in 2 .. r : \E t \in TablesOf(q) : db.table[t] = "absent"

\* What /readyz and every process that came up rely on: a database stamped at
\* head has every table with every column, whatever it was when it was found
\* and whoever died over it; and no data migration was skipped on the way ("a
\* data migration silently skipped" is what the first version of the module
\* did), except where create_all had made the tables of its revision before
\* there were migrations.
HeadIsWhole ==
  /\ disk.revision = Newest => \A t \in Tables : disk.table[t] = "whole"
  /\ \A p \in Starters : place[p] = "up" => disk.revision = Newest
  /\ \A r \in Copies :
       disk.revision >= r =>
         \/ r \in disk.copied
         \/ \A t \in TablesOf(r) : born.table[t] # "absent"

\* Tables of a script are there whose revision is not, and nothing will adopt
\* them: the script cannot be run again.
Torn(db) ==
  /\ db.revision > 0 \/ db.table[Sentinel] = "absent"
  /\ \E r \in db.revision + 1 .. Newest :
       \E t \in TablesOf(r) : db.table[t] # "absent"

\* Both processes come up in the end, whichever starts first and whoever dies:
\* unless the database has a gap, or is a SQLite file on which a process died
\* behind a definition and before the commit.
StartsSucceed ==
  \A p \in Starters :
    <>[]\/ place[p] = "up"
        \/ Gapped(born)
        \/ dialect = "sqlite" /\ deaths > 0 /\ Torn(disk)

=============================================================================
