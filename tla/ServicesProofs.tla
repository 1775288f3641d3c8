--------------------------- MODULE ServicesProofs ---------------------------
(***************************************************************************)
(* Two services.  The sandbox, for any number of executions at once and any *)
(* number of faults: types, and that an execution which has its answer has  *)
(* left nothing running, but for a container that was left to itself and    *)
(* what an API that died left behind.  The migrations, for any chain of     *)
(* scripts, any number of processes and of deaths: a database stamped at    *)
(* head is whole.                                                           *)
(***************************************************************************)
EXTENDS Sandbox, Migrations, WellFoundedInduction, TLAPS

-----------------------------------------------------------------------------
(* The sandbox: the invariant                                               *)

Results == {"none", "ok", "error", "stopped", "no result", "refused",
           "not started", "unavailable", "timeout", "lost"}

TypeOK ==
  /\ contained \in BOOLEAN
  /\ call \in [Calls -> {"idle", "waiting", "killing", "done"}]
  /\ answer \in [Calls -> Results]
  /\ client \in [Calls -> {"none", "asked", "gone"}]
  /\ fed \in [Calls -> BOOLEAN]
  /\ child \in [Calls -> Alive \union {"none", "ended"}]
  /\ code \in [Calls -> {"ends", "spins", "sleeps"}]
  /\ limited \in [Calls -> BOOLEAN]
  /\ out \in [Calls -> {"none", "envelope", "complaint", "signal"}]
  /\ missed \in [Calls -> BOOLEAN]
  /\ faults \in Nat

\* What may run now, or may yet be started by the daemon for a client that has
\* asked.
MayRun(c) == child[c] \in Alive \/ (child[c] = "none" /\ client[c] # "none")

\* What a call may have left behind, and what it has answered then.
LeftBehind(c) ==
  /\ missed[c]
  /\ \/ answer[c] = "lost"
     \/ contained /\ answer[c] \in {"timeout", "no result", "stopped"}

\* A call that was not made has nothing, and one that has its answer has
\* nothing that may run, unless it was left to itself; only a container needs a
\* kill of its own.
Accounted(c) ==
  /\ call[c] = "idle" => ~MayRun(c)
  /\ call[c] = "killing" => contained
  /\ call[c] = "done" /\ MayRun(c) => LeftBehind(c)

SInv ==
  /\ TypeOK
  /\ \A c \in Calls : Accounted(c)

LEMMA InitSInv ==
  ASSUME SandboxConstants, SandboxInit
  PROVE  SInv
<1>1. TypeOK
  BY DEF SandboxInit, TypeOK, Results, Alive
<1>2. ASSUME NEW c \in Calls
      PROVE  Accounted(c)
  <2>1. call[c] = "idle" /\ child[c] = "none" /\ client[c] = "none"
    BY DEF SandboxInit
  <2> QED
    BY <2>1 DEF Accounted, MayRun, Alive
<1> QED
  BY <1>1, <1>2 DEF SInv

\* A step of one call, which leaves the others alone.
Alone(c) ==
  /\ contained' = contained
  /\ \A d \in Calls \ {c} :
       /\ call'[d] = call[d] /\ answer'[d] = answer[d]
       /\ client'[d] = client[d] /\ child'[d] = child[d]
       /\ missed'[d] = missed[d]

LEMMA OneCall ==
  ASSUME SInv, TypeOK', NEW c \in Calls, Alone(c), Accounted(c)'
  PROVE  SInv'
<1>1. ASSUME NEW d \in Calls \ {c}
      PROVE  Accounted(d)'
  BY DEF SInv, Alone, Accounted, MayRun, LeftBehind
<1> QED
  BY <1>1 DEF SInv

-----------------------------------------------------------------------------
(* The parent keeps the invariant                                           *)

LEMMA RefuseSInv ==
  ASSUME SInv, NEW c \in Calls, Refuse(c)
  PROVE  SInv'
<1>1. TypeOK'
  BY DEF SInv, TypeOK, Refuse, Answers, Results, inside
<1>2. Alone(c) /\ UNCHANGED <<child, client>> /\ call'[c] = "done"
  BY DEF SInv, TypeOK, Refuse, Answers, Alone, inside
<1>3. ~MayRun(c)
  BY DEF SInv, Accounted, Refuse
<1> QED
  BY <1>1, <1>2, <1>3, OneCall DEF Accounted, MayRun

LEMMA SpawnSInv ==
  ASSUME SInv, NEW c \in Calls, Spawn(c)
  PROVE  SInv'
<1>1. TypeOK'
  BY DEF SInv, TypeOK, Spawn, Alive
<1>2. Alone(c) /\ call'[c] = "waiting"
  BY DEF SInv, TypeOK, Spawn, Alone
<1> QED
  BY <1>1, <1>2, OneCall DEF Accounted

LEMMA FeedSInv ==
  ASSUME SInv, NEW c \in Calls, Feed(c)
  PROVE  SInv'
<1>1. TypeOK'
  BY DEF SInv, TypeOK, Feed, parent, inside
<1> QED
  BY <1>1 DEF SInv, Accounted, MayRun, LeftBehind, Feed, parent, inside

LEMMA ReturnSInv ==
  ASSUME SInv, NEW c \in Calls, Return(c)
  PROVE  SInv'
<1>1. Result(c) \in Results
  BY DEF Result, Results
<1>2. PICK result \in Results : Answers(c, result)
  BY <1>1 DEF Return, Results
<1>3. missed' \in [Calls -> BOOLEAN]
  <2>1. missed' = missed \/ missed' = [missed EXCEPT ![c] = child[c] # "ended"]
    BY DEF Return
  <2> QED
    BY <2>1 DEF SInv, TypeOK
<1>4. TypeOK'
  <2>1. client' \in [Calls -> {"none", "asked", "gone"}]
    BY DEF SInv, TypeOK, Return
  <2>2. /\ call' \in [Calls -> {"idle", "waiting", "killing", "done"}]
        /\ answer' \in [Calls -> Results]
    BY <1>2 DEF SInv, TypeOK, Answers
  <2> QED
    BY <1>3, <2>1, <2>2 DEF SInv, TypeOK, Return, inside
<1>5. Alone(c) /\ call'[c] = "done" /\ UNCHANGED <<child, contained>>
  BY <1>2 DEF SInv, TypeOK, Return, Answers, Alone, inside
<1>6. CASE child[c] = "ended"
  BY <1>4, <1>5, <1>6, OneCall DEF Accounted, MayRun, Alive
<1>7. CASE child[c] # "ended"
  <2>1. LeftAlone(c)
    BY <1>7 DEF Return, Over
  <2>2. missed'[c] /\ answer'[c] \in {"no result", "stopped"}
    BY <1>7, <2>1 DEF SInv, TypeOK, Return, Answers
  <2> QED
    BY <1>4, <1>5, <2>1, <2>2, OneCall DEF Accounted, LeftBehind, LeftAlone
<1> QED
  BY <1>6, <1>7

\* Killing a subprocess ends it; killing the client leaves the call to Kill.
LEMMA TimeoutExpiredSInv ==
  ASSUME SInv, NEW c \in Calls, TimeoutExpired(c)
  PROVE  SInv'
<1>1. TypeOK'
  <2>1. CASE contained
    BY <2>1 DEF SInv, TypeOK, TimeoutExpired
  <2>2. CASE ~contained
    BY <2>2 DEF SInv, TypeOK, TimeoutExpired, Answers, Results
  <2> QED
    BY <2>1, <2>2
<1>2. Alone(c)
  BY DEF SInv, TypeOK, TimeoutExpired, Answers, Alone
<1>3. \/ call'[c] = "killing" /\ contained'
      \/ call'[c] = "done" /\ child'[c] = "ended"
  BY DEF SInv, TypeOK, TimeoutExpired, Answers
<1> QED
  BY <1>1, <1>2, <1>3, OneCall DEF Accounted, MayRun, Alive

LEMMA KillSInv ==
  ASSUME SInv, NEW c \in Calls, Kill(c)
  PROVE  SInv'
<1>1. TypeOK'
  <2>1. child' \in [Calls -> Alive \union {"none", "ended"}]
    <3>1. child' = child \/ child' = [child EXCEPT ![c] = "ended"]
      BY DEF Kill
    <3> QED
      BY <3>1 DEF SInv, TypeOK
  <2>2. missed' \in [Calls -> BOOLEAN]
    <3>1. missed' = missed \/ missed' = [missed EXCEPT ![c] = TRUE]
      BY DEF Kill
    <3> QED
      BY <3>1 DEF SInv, TypeOK
  <2>3. faults' \in Nat
    <3>1. faults' = faults \/ faults' = faults + 1
      BY DEF Kill
    <3> QED
      BY <3>1 DEF SInv, TypeOK
  <2>4. /\ call' \in [Calls -> {"idle", "waiting", "killing", "done"}]
        /\ answer' \in [Calls -> Results]
    BY DEF SInv, TypeOK, Kill, Answers, Results
  <2> QED
    BY <2>1, <2>2, <2>3, <2>4 DEF SInv, TypeOK, Kill
<1>2. Alone(c)
  BY DEF SInv, TypeOK, Kill, Answers, Alone
<1>3. call'[c] = "done" /\ (child'[c] = "ended" \/ missed'[c])
  BY DEF SInv, TypeOK, Kill, Answers
<1>4. contained' /\ answer'[c] = "timeout"
  BY DEF SInv, TypeOK, Kill, Answers, Accounted
<1> QED
  BY <1>1, <1>2, <1>3, <1>4, OneCall DEF Accounted, LeftBehind, MayRun, Alive

\* Every call of the process is over, and every one that was under way has
\* left behind what it had.
LEMMA ApiDiesSInv ==
  ASSUME SInv, ApiDies
  PROVE  SInv'
<1>1. TypeOK'
  <2>1. ASSUME NEW c \in Calls
        PROVE  answer'[c] \in Results /\ missed'[c] \in BOOLEAN
    BY DEF SInv, TypeOK, ApiDies, Results
  <2>2. answer' \in [Calls -> Results]
    BY <2>1 DEF ApiDies
  <2>3. missed' \in [Calls -> BOOLEAN]
    BY <2>1 DEF ApiDies
  <2>4. call' \in [Calls -> {"idle", "waiting", "killing", "done"}]
    BY DEF ApiDies
  <2> QED
    BY <2>2, <2>3, <2>4 DEF SInv, TypeOK, ApiDies, inside
<1>2. ASSUME NEW c \in Calls
      PROVE  Accounted(c)'
  <2>1. /\ call[c] \in {"idle", "waiting", "killing", "done"} /\ Accounted(c)
        /\ UNCHANGED <<child, client, contained>>
        /\ call'[c] = "done"
        /\ answer'[c] = IF call[c] \in {"waiting", "killing"} THEN "lost"
                        ELSE answer[c]
        /\ missed'[c] = (missed[c] \/ call[c] \in {"waiting", "killing"})
    BY DEF SInv, TypeOK, ApiDies, inside
  <2> QED
    BY <2>1 DEF Accounted, MayRun, LeftBehind
<1> QED
  BY <1>1, <1>2 DEF SInv

-----------------------------------------------------------------------------
(* The daemon and the runner keep the invariant                             *)

\* A child goes on only if it may run, and the parent does not notice.
LEMMA ChildSInv ==
  ASSUME SInv, NEW c \in Calls, MayRun(c), NEW there,
         child' = [child EXCEPT ![c] = there],
         UNCHANGED <<contained, call, answer, client, missed>>, TypeOK'
  PROVE  SInv'
<1>1. Alone(c)
  BY DEF SInv, TypeOK, Alone
<1> QED
  BY <1>1, OneCall DEF SInv, Accounted, LeftBehind

\* The client of a call that waits is not yet what was left of it.
LEMMA ClientEndsSInv ==
  ASSUME SInv, NEW c \in Calls, ClientEnds(c)
  PROVE  SInv'
<1>1. TypeOK'
  <2>1. faults' \in Nat
    BY DEF SInv, TypeOK, ClientEnds
  <2>2. client' \in [Calls -> {"none", "asked", "gone"}]
    BY DEF SInv, TypeOK, ClientEnds
  <2> QED
    BY <2>1, <2>2 DEF SInv, TypeOK, ClientEnds, parent, inside
<1>2. Alone(c) /\ call'[c] = "waiting"
  BY DEF SInv, TypeOK, ClientEnds, Alone, parent, inside
<1> QED
  BY <1>1, <1>2, OneCall DEF Accounted

LEMMA DaemonSInv ==
  ASSUME SInv, NEW c \in Calls, DaemonStarts(c) \/ DaemonForgets(c)
  PROVE  SInv'
<1>1. TypeOK'
  BY DEF SInv, TypeOK, DaemonStarts, DaemonForgets, parent, Alive
<1>2. MayRun(c) /\ UNCHANGED <<contained, call, answer, client, missed>>
  BY DEF MayRun, DaemonStarts, DaemonForgets, parent
<1>3. PICK there \in {"up", "ended"} : child' = [child EXCEPT ![c] = there]
  BY DEF DaemonStarts, DaemonForgets
<1> QED
  BY <1>1, <1>2, <1>3, ChildSInv

LEMMA InterpretsSInv ==
  ASSUME SInv, NEW c \in Calls, Interprets(c)
  PROVE  SInv'
<1>1. PICK from \in Alive : Runs(c, from)
  BY DEF Interprets, ReadRequest, BuildNamespace, Guard, Execute, CpuLimit,
         Alive
<1>2. PICK there \in Alive \union {"ended"} : Becomes(c, there)
  BY DEF Interprets, ReadRequest, BuildNamespace, Guard, Execute, CpuLimit,
         EndsWith, Alive
<1>3. /\ out' \in [Calls -> {"none", "envelope", "complaint", "signal"}]
      /\ limited' \in [Calls -> BOOLEAN]
  <2>1. limited' = limited \/ \E enforced \in BOOLEAN :
                                limited' = [limited EXCEPT ![c] = enforced]
    BY DEF Interprets, ReadRequest, BuildNamespace, Guard, Execute, CpuLimit
  <2>2. \/ UNCHANGED out
        \/ \E trace \in {"none", "envelope", "complaint", "signal"} :
             out' = [out EXCEPT ![c] = trace]
    BY DEF Interprets, ReadRequest, BuildNamespace, Guard, Execute, CpuLimit,
           EndsWith
  <2> QED
    BY <2>1, <2>2 DEF SInv, TypeOK
<1>4. TypeOK'
  BY <1>1, <1>2, <1>3 DEF SInv, TypeOK, Runs, Becomes, parent
<1>5. MayRun(c) /\ UNCHANGED <<contained, call, answer, client, missed>>
  BY <1>1 DEF MayRun, Runs, parent
<1> QED
  BY <1>2, <1>4, <1>5, ChildSInv DEF Becomes

-----------------------------------------------------------------------------
(* The theorems                                                             *)

LEMMA NextSInv ==
  ASSUME SInv, [SandboxNext]_sandboxVars
  PROVE  SInv'
<1>1. CASE UNCHANGED sandboxVars
  BY <1>1 DEF sandboxVars, parent, inside, SInv, TypeOK, Accounted, MayRun,
              LeftBehind
<1> QED
  BY <1>1, RefuseSInv, SpawnSInv, FeedSInv, ReturnSInv, TimeoutExpiredSInv,
     KillSInv, ApiDiesSInv, ClientEndsSInv, DaemonSInv, InterpretsSInv
     DEF SandboxNext, Interprets

LEMMA SpecSInv ==
  ASSUME SandboxConstants
  PROVE  SandboxSpec => []SInv
<1>1. SandboxInit => SInv
  BY InitSInv
<1>2. SInv /\ [SandboxNext]_sandboxVars => SInv'
  BY NextSInv
<1> QED
  BY <1>1, <1>2, PTL DEF SandboxSpec

\* Types: an execution answers with one of the results of ExecutionResult, and
\* every part of it is at one of its places (sandbox.py, runner.py).
THEOREM SandboxTypes ==
  ASSUME SandboxConstants
  PROVE  SandboxSpec => []TypeOK
<1>1. SInv => TypeOK
  BY DEF SInv
<1> QED
  BY <1>1, SpecSInv, PTL

\* A call that was answered has left nothing running, but for what an API that
\* died left behind, and for a container that was left to itself: its client
\* ended unasked, or the kill of a timeout did not reach it.  A call that was
\* told of a result has left nothing (sandbox.py, _run_code; container.py,
\* kill), for any number of calls at once.
THEOREM AnsweredRunsNothing ==
  ASSUME SandboxConstants
  PROVE  SandboxSpec => []NothingRunsOn
<1>1. SInv => NothingRunsOn
  BY DEF SInv, Accounted, MayRun, LeftBehind, NothingRunsOn
<1> QED
  BY <1>1, SpecSInv, PTL

-----------------------------------------------------------------------------
(* The migrations: the invariant                                            *)

Adopting == {"creating", "altering", "stamping"}
Running == Adopting \union {"upgrading"}

MigrationsTypeOK ==
  /\ disk \in Database /\ work \in Database /\ born \in Database
  /\ dirty \in BOOLEAN
  /\ holder \in Starters \union {Nobody}
  /\ place \in [Starters -> Running \union {"off", "waiting", "up"}]
  /\ next \in Nat \ {0}

LockIsHeld == \A p \in Starters : place[p] \in Running <=> holder = p

\* What a database was given before it was stamped belongs to the baseline.
Unstamped(db) ==
  db.revision = 0 =>
    \A t \in Tables \ TablesOf(Baseline) :
      db.table[t] # "absent" => born.table[t] # "absent"

WholeSoFar(db) ==
  \A q \in Revisions : q <= db.revision =>
    \A t \in TablesOf(q) : db.table[t] = "whole"

CopiedSoFar(db) ==
  \A r \in Copies : db.revision >= r =>
    \/ r \in db.copied
    \/ \A t \in TablesOf(r) : born.table[t] # "absent"

Sound(db) == Unstamped(db) /\ WholeSoFar(db) /\ CopiedSoFar(db)

\* Only what changes data can have moved the revision; a definition may be
\* committed before it.
RevisionWaits ==
  holder # Nobody /\ dirty = FALSE => work.revision = disk.revision

\* How far the adoption is.
AdoptedSoFar ==
  \A p \in Starters :
    /\ place[p] \in Adopting => work.revision = 0 /\ next = 1
    /\ place[p] \in {"altering", "stamping"} =>
         \A t \in TablesOf(Baseline) : work.table[t] # "absent"
    /\ place[p] = "stamping" =>
         \A t \in TablesOf(Baseline) : work.table[t] = "whole"

\* How far the script that is due has run.
CreatedSoFar ==
  holder # Nobody /\ NextRevision \in Revisions =>
    \A i \in DOMAIN Chain[NextRevision] :
      i < next => work.table[Chain[NextRevision][i]] = "whole"

UpIsNewest == \A p \in Starters : place[p] = "up" => disk.revision = Newest

GInv ==
  /\ MigrationsTypeOK /\ LockIsHeld
  /\ Sound(disk) /\ (holder # Nobody => Sound(work))
  /\ RevisionWaits /\ AdoptedSoFar /\ CreatedSoFar /\ UpIsNewest

-----------------------------------------------------------------------------
(* The migrations: the chain and what is stamped                            *)

LEMMA ChainOfScripts ==
  ASSUME MigrationsConstants
  PROVE  /\ Newest \in Nat \ {0} /\ Revisions = 1 .. Newest
         /\ Baseline \in Revisions
         /\ \A t \in Tables : \E r \in Revisions : t \in TablesOf(r)
         /\ \A r \in Revisions :
              /\ TablesOf(r) \subseteq Tables
              /\ Len(Chain[r]) \in Nat /\ DOMAIN Chain[r] = 1 .. Len(Chain[r])
              /\ \A i \in DOMAIN Chain[r] : Chain[r][i] \in TablesOf(r)
              /\ \A t \in TablesOf(r) :
                   \E i \in DOMAIN Chain[r] : t = Chain[r][i]
<1>1. /\ Newest \in Nat \ {0} /\ Revisions = 1 .. Newest
      /\ \A r \in Revisions : Chain[r] \in Seq(Tables)
  BY DEF MigrationsConstants, Newest, Revisions
<1>2. Baseline \in Revisions
  BY <1>1 DEF Baseline
<1>3. \A t \in Tables : \E r \in Revisions : t \in TablesOf(r)
  BY DEF Tables
<1>4. ASSUME NEW r \in Revisions
      PROVE  /\ TablesOf(r) \subseteq Tables
             /\ Len(Chain[r]) \in Nat /\ DOMAIN Chain[r] = 1 .. Len(Chain[r])
             /\ \A i \in DOMAIN Chain[r] : Chain[r][i] \in TablesOf(r)
             /\ \A t \in TablesOf(r) :
                  \E i \in DOMAIN Chain[r] : t = Chain[r][i]
  <2>1. TablesOf(r) \subseteq Tables
    BY DEF Tables
  <2>2. Len(Chain[r]) \in Nat /\ DOMAIN Chain[r] = 1 .. Len(Chain[r])
    BY <1>1
  <2> QED
    BY <2>1, <2>2 DEF TablesOf
<1> QED
  BY <1>1, <1>2, <1>3, <1>4

\* Walking forward stops somewhere: behind a script whose tables, and those of
\* all scripts before, are there.
LEMMA StampIsSatisfied ==
  ASSUME MigrationsConstants, NEW db,
         \A t \in TablesOf(Baseline) : db.table[t] = "whole"
  PROVE  Satisfied(db) \in Revisions /\ Satisfies(db, Satisfied(db))
<1> DEFINE Fits(r) == r = Baseline \/ Satisfies(db, r)
           Above == {n \in Nat : n < Newest /\ Fits(Newest - n)}
<1>0. Newest \in Nat \ {0} /\ Revisions = 1 .. Newest /\ Baseline = 1
  BY ChainOfScripts DEF Baseline
<1>1. Newest - 1 \in Above
  BY <1>0
<1>2. PICK n \in Above : \A m \in Above : ~(<<m, n>> \in OpToRel(<, Nat))
  <2>1. Above \subseteq Nat /\ Above # {}
    BY <1>1
  <2> HIDE DEF Above
  <2> QED
    BY <2>1, NatLessThanWellFounded, WFMin
<1>3. /\ Newest - n \in Revisions /\ Fits(Newest - n)
      /\ Newest - n = Newest \/ ~Fits(Newest - n + 1)
  <2>1. Newest - n \in Revisions /\ Fits(Newest - n)
    BY <1>0
  <2>2. ASSUME n # 0
        PROVE  ~Fits(Newest - n + 1)
    <3>1. n - 1 \in Nat /\ n - 1 < Newest /\ Newest - (n - 1) = Newest - n + 1
      BY <2>2, <1>0
    <3>2. <<n - 1, n>> \in OpToRel(<, Nat)
      BY <3>1 DEF OpToRel
    <3>3. n - 1 \notin Above
      BY <1>2, <3>2
    <3> HIDE DEF Fits
    <3> QED
      BY <3>1, <3>3
  <2>3. n \in Nat
    OBVIOUS
  <2> HIDE DEF Fits, Above
  <2> QED
    BY <2>1, <2>2, <2>3, <1>0
<1>4. /\ Satisfied(db) \in Revisions
      /\ Satisfied(db) = Baseline \/ Satisfies(db, Satisfied(db))
  <2>1. \E r \in Revisions :
          /\ r = Baseline \/ Satisfies(db, r)
          /\ r = Newest \/ ~Satisfies(db, r + 1)
    BY <1>3
  <2> QED
    BY <2>1 DEF Satisfied
<1>5. Satisfies(db, Baseline)
  BY <1>0 DEF Satisfies
<1> QED
  BY <1>4, <1>5

-----------------------------------------------------------------------------
(* The migrations: every step keeps the invariant                           *)

LEMMA InitGInv ==
  ASSUME MigrationsConstants, MigrationsInit
  PROVE  GInv
<1>0. /\ Newest \in Nat \ {0} /\ Revisions = 1 .. Newest
      /\ \A r \in Revisions : TablesOf(r) \subseteq Tables
  BY ChainOfScripts
<1>1. disk \in Database /\ Sound(disk)
  <2>0. disk \in Initial /\ born = disk
    BY DEF MigrationsInit
  <2>1. CASE \E r \in 0 .. Newest :
               disk = [table |-> [t \in Tables |->
                         IF \E q \in 1 .. r : t \in TablesOf(q)
                         THEN "whole" ELSE "absent"],
                       revision |-> r, copied |-> Copies \cap (1 .. r)]
    <3>1. PICK r \in 0 .. Newest :
            disk = [table |-> [t \in Tables |->
                      IF \E q \in 1 .. r : t \in TablesOf(q)
                      THEN "whole" ELSE "absent"],
                    revision |-> r, copied |-> Copies \cap (1 .. r)]
      BY <2>1
    <3>2. disk \in Database
      BY <3>1 DEF Database
    <3>3. WholeSoFar(disk)
      BY <3>1, <1>0 DEF WholeSoFar
    <3>4. CopiedSoFar(disk)
      BY <3>1, <1>0 DEF CopiedSoFar, MigrationsConstants
    <3> QED
      BY <3>2, <3>3, <3>4, <2>0 DEF Sound, Unstamped
  <2>2. CASE \E sentinel \in {"old", "whole"}, made \in SUBSET Tables :
               disk = [table |-> [t \in Tables |->
                         IF t = Sentinel THEN sentinel
                         ELSE IF t \in made THEN "whole" ELSE "absent"],
                       revision |-> 0, copied |-> {}]
    <3>1. disk \in Database /\ disk.revision = 0
      BY <2>2, <1>0 DEF Database
    <3>2. WholeSoFar(disk) /\ CopiedSoFar(disk)
      <4>1. \A q \in Revisions : ~(q <= disk.revision)
        BY <3>1, <1>0
      <4>2. \A r \in Copies : ~(disk.revision >= r)
        <5>1. Copies \subseteq Revisions
          BY DEF MigrationsConstants
        <5> QED
          BY <3>1, <1>0, <5>1
      <4> QED
        BY <4>1, <4>2 DEF WholeSoFar, CopiedSoFar
    <3> QED
      BY <3>1, <3>2, <2>0 DEF Sound, Unstamped
  <2> QED
    BY <2>0, <2>1, <2>2 DEF Initial
<1>2. /\ holder = Nobody /\ place = [p \in Starters |-> "off"]
      /\ work = disk /\ born = disk /\ dirty = FALSE /\ next = 1
  BY DEF MigrationsInit
<1>3. MigrationsTypeOK
  <2>1. place \in [Starters -> Running \union {"off", "waiting", "up"}]
    BY <1>2
  <2>2. dirty \in BOOLEAN
    BY <1>2
  <2>5. next \in Nat \ {0}
    BY <1>2
  <2>3. work \in Database /\ born \in Database
    BY <1>1, <1>2
  <2>4. holder \in Starters \union {Nobody}
    BY <1>2
  <2> QED
    BY <1>1, <2>1, <2>2, <2>3, <2>4, <2>5 DEF MigrationsTypeOK
<1>4. LockIsHeld /\ AdoptedSoFar /\ UpIsNewest
  BY <1>2 DEF LockIsHeld, AdoptedSoFar, UpIsNewest, Running, Adopting,
              MigrationsConstants
<1> QED
  BY <1>1, <1>2, <1>3, <1>4 DEF GInv, RevisionWaits, CreatedSoFar

\* Whoever starts, gives up, fails or dies leaves the databases as they are.
Aside(p) ==
  /\ UNCHANGED <<disk, work, dirty, next, born>>
  /\ \E there \in {"off", "waiting"} : Goto(p, there)
  /\ holder' = IF holder = p THEN Nobody ELSE holder

LEMMA AsideGInv ==
  ASSUME MigrationsConstants, GInv, NEW p \in Starters, Aside(p)
  PROVE  GInv'
<1>1. /\ place'[p] \in {"off", "waiting"}
      /\ \A q \in Starters \ {p} : place'[q] = place[q]
  BY DEF Aside, Goto, GInv, MigrationsTypeOK
<1>2. /\ UNCHANGED <<disk, work, dirty, next, born>>
      /\ holder' = IF holder = p THEN Nobody ELSE holder
  BY DEF Aside
<1>3. MigrationsTypeOK'
  BY <1>2 DEF Aside, Goto, GInv, MigrationsTypeOK
<1>4. LockIsHeld'
  BY <1>1, <1>2 DEF GInv, LockIsHeld, Running, Adopting, MigrationsConstants
<1>5. AdoptedSoFar' /\ UpIsNewest'
  BY <1>1, <1>2 DEF GInv, AdoptedSoFar, UpIsNewest, Adopting
<1>6. Sound(disk)' /\ (holder' # Nobody => Sound(work)')
  BY <1>2 DEF GInv, Sound, Unstamped, WholeSoFar, CopiedSoFar
<1>7. RevisionWaits' /\ CreatedSoFar'
  BY <1>2 DEF GInv, RevisionWaits, CreatedSoFar, NextRevision
<1> QED
  BY <1>3, <1>4, <1>5, <1>6, <1>7 DEF GInv

LEMMA OutsideGInv ==
  ASSUME MigrationsConstants, GInv, NEW p \in Starters,
         StartUp(p) \/ GiveUp(p) \/ Collide(p) \/ StarterDies(p)
  PROVE  GInv'
<1>1. CASE StartUp(p)
  <2>1. holder # p
    BY <1>1 DEF StartUp, GInv, LockIsHeld, Running, Adopting
  <2> QED
    BY <1>1, <2>1, AsideGInv DEF StartUp, Aside
<1>2. CASE GiveUp(p) \/ Collide(p) \/ StarterDies(p)
  BY <1>2, AsideGInv DEF GiveUp, Collide, StarterDies, Leave, Aside
<1> QED
  BY <1>1, <1>2

LEMMA LockGInv ==
  ASSUME MigrationsConstants, GInv, NEW p \in Starters, Lock(p)
  PROVE  GInv'
<1>1. /\ holder = Nobody /\ holder' = p
      /\ work' = disk /\ disk' = disk /\ born' = born
      /\ dirty' = FALSE /\ next' = 1
  BY DEF Lock
<1>2. /\ \A q \in Starters \ {p} : place'[q] = place[q]
      /\ \/ place'[p] = "creating" /\ disk.revision = 0
         \/ place'[p] = "upgrading"
  BY DEF Lock, Goto, GInv, MigrationsTypeOK
<1>3. MigrationsTypeOK'
  <2>1. place' \in [Starters -> Running \union {"off", "waiting", "up"}]
    BY DEF Lock, Goto, GInv, MigrationsTypeOK, Running, Adopting
  <2>2. dirty' \in BOOLEAN
    BY <1>1
  <2>5. next' \in Nat \ {0}
    BY <1>1
  <2>3. work' \in Database /\ disk' \in Database /\ born' \in Database
    BY <1>1 DEF GInv, MigrationsTypeOK
  <2>4. holder' \in Starters \union {Nobody}
    BY <1>1
  <2> QED
    BY <2>1, <2>2, <2>3, <2>4, <2>5 DEF MigrationsTypeOK
<1>4. LockIsHeld'
  BY <1>1, <1>2 DEF GInv, LockIsHeld, Running, Adopting, MigrationsConstants
<1>5. ASSUME NEW q \in Starters \ {p}
      PROVE  place'[q] \notin Running
  BY <1>1, <1>2 DEF GInv, LockIsHeld, MigrationsConstants
<1>6. AdoptedSoFar' /\ UpIsNewest'
  BY <1>1, <1>2, <1>5 DEF GInv, AdoptedSoFar, UpIsNewest, Running, Adopting
<1>7. Sound(disk)' /\ Sound(work)'
  BY <1>1 DEF GInv, Sound, Unstamped, WholeSoFar, CopiedSoFar
<1>8. CreatedSoFar'
  <2>1. ASSUME NextRevision' \in Revisions,
               NEW i \in DOMAIN Chain[NextRevision']
        PROVE  ~(i < 1)
    BY <2>1, ChainOfScripts
  <2> QED
    BY <1>1, <2>1 DEF CreatedSoFar
<1> QED
  BY <1>1, <1>3, <1>4, <1>6, <1>7, <1>8 DEF GInv, RevisionWaits

\* A table is made, or its columns are added: one of the baseline, or one of a
\* database that is stamped.
With(t) == [work EXCEPT !.table[t] = "whole"]

LEMMA WithIsSound ==
  ASSUME MigrationsConstants, MigrationsTypeOK, Sound(work), NEW t \in Tables,
         t \in TablesOf(Baseline) \/ work.revision > 0
  PROVE  /\ With(t) \in Database /\ Sound(With(t))
         /\ With(t).revision = work.revision
         /\ \A u \in Tables :
              With(t).table[u] = IF u = t THEN "whole" ELSE work.table[u]
<1>1. work \in Database
  BY DEF MigrationsTypeOK
<1>2. /\ With(t).revision = work.revision /\ With(t).copied = work.copied
      /\ \A u \in Tables :
           With(t).table[u] = IF u = t THEN "whole" ELSE work.table[u]
  BY <1>1 DEF With, Database
<1>3. With(t) \in Database
  BY <1>1 DEF With, Database
<1>4. WholeSoFar(With(t))
  BY <1>2, ChainOfScripts DEF Sound, WholeSoFar
<1>5. CopiedSoFar(With(t))
  BY <1>2 DEF Sound, CopiedSoFar
<1>6. Unstamped(With(t))
  BY <1>2 DEF Sound, Unstamped
<1> QED
  BY <1>2, <1>3, <1>4, <1>5, <1>6 DEF Sound

\* What stays of the invariant when a table is defined; the callers say how far
\* the adoption and the script are then.
LEMMA DefineGInv ==
  ASSUME MigrationsConstants, GInv, NEW p \in Starters, holder = p,
         NEW t \in Tables, t \in TablesOf(Baseline) \/ work.revision > 0,
         Define(With(t)), UNCHANGED <<holder, place, born>>,
         next' \in Nat \ {0}, AdoptedSoFar', CreatedSoFar'
  PROVE  GInv'
<1>0. MigrationsTypeOK /\ Sound(work) /\ Sound(disk)
  BY DEF GInv, MigrationsConstants
<1>1. /\ With(t) \in Database /\ Sound(With(t))
      /\ With(t).revision = work.revision
  BY <1>0, WithIsSound
<1>2. /\ work' = With(t) /\ dirty' = dirty
      /\ disk' = disk \/ (disk' = With(t) /\ dirty = FALSE)
  BY <1>0 DEF Define, MigrationsTypeOK
<1>3. MigrationsTypeOK'
  BY <1>0, <1>1, <1>2 DEF MigrationsTypeOK
<1>4. disk'.revision = disk.revision
  BY <1>1, <1>2 DEF GInv, RevisionWaits, MigrationsConstants
<1>5. \A db : Sound(db)' <=> Sound(db)
  BY DEF Sound, Unstamped, WholeSoFar, CopiedSoFar
<1>6. Sound(work)' /\ Sound(disk)'
  BY <1>0, <1>1, <1>2, <1>5
<1>7. LockIsHeld' /\ UpIsNewest'
  BY <1>4 DEF GInv, LockIsHeld, UpIsNewest
<1>8. RevisionWaits'
  BY <1>1, <1>2, <1>4 DEF GInv, RevisionWaits
<1> QED
  BY <1>3, <1>6, <1>7, <1>8 DEF GInv

\* The adoption: with a table to make or to patch, or without.
LEMMA AdoptGInv ==
  ASSUME MigrationsConstants, GInv, NEW p \in Starters,
         CreateMissing(p) \/ AddColumns(p)
  PROVE  GInv'
<1>0. /\ holder = p /\ p # Nobody /\ place[p] \in {"creating", "altering"}
      /\ work.revision = 0 /\ next = 1 /\ next' = 1
      /\ UNCHANGED <<holder, born>>
      /\ MigrationsTypeOK /\ Sound(work) /\ Sound(disk)
  BY DEF CreateMissing, AddColumns, At, GInv, AdoptedSoFar, Adopting,
         MigrationsConstants
<1>1. TablesOf(Baseline) \subseteq Tables
  BY ChainOfScripts
<1>2. \A q \in Starters \ {p} : place[q] \notin Running
  BY <1>0 DEF GInv, LockIsHeld
<1>3. CreatedSoFar' /\ next' \in Nat \ {0}
  BY <1>0, ChainOfScripts DEF CreatedSoFar
<1>4. ASSUME NEW t \in TablesOf(Baseline), Define(With(t)), UNCHANGED place
      PROVE  GInv'
  <2>1. /\ work' = With(t) /\ With(t).revision = 0
        /\ \A u \in Tables :
             With(t).table[u] = IF u = t THEN "whole" ELSE work.table[u]
    BY <1>0, <1>1, <1>4, WithIsSound DEF Define
  <2>2. AdoptedSoFar'
    BY <1>0, <1>1, <1>4, <2>1 DEF GInv, AdoptedSoFar
  <2> QED
    BY <1>0, <1>1, <1>3, <1>4, <2>2, DefineGInv
<1>5. ASSUME UNCHANGED <<disk, work, dirty>>,
             \/ /\ Goto(p, "altering")
                /\ \A t \in TablesOf(Baseline) : work.table[t] # "absent"
             \/ /\ Goto(p, "stamping")
                /\ \A t \in TablesOf(Baseline) : work.table[t] = "whole"
      PROVE  GInv'
  <2>1. /\ place'[p] \in {"altering", "stamping"}
        /\ \A q \in Starters \ {p} : place'[q] = place[q]
        /\ place' \in [Starters -> Running \union {"off", "waiting", "up"}]
    BY <1>0, <1>5 DEF Goto, MigrationsTypeOK, Running, Adopting
  <2>2. MigrationsTypeOK'
    BY <1>0, <1>3, <1>5, <2>1 DEF MigrationsTypeOK
  <2>3. LockIsHeld' /\ UpIsNewest'
    BY <1>0, <1>5, <2>1 DEF GInv, LockIsHeld, UpIsNewest, Running, Adopting
  <2>4. \A t \in TablesOf(Baseline) :
          /\ work.table[t] # "absent"
          /\ place'[p] = "stamping" => work.table[t] = "whole"
    BY <1>0, <1>5, <2>1 DEF Goto, MigrationsTypeOK
  <2>5. AdoptedSoFar'
    <3>1. ASSUME NEW q \in Starters \ {p}
          PROVE  place'[q] \notin Adopting
      BY <1>2, <2>1 DEF Running
    <3> QED
      BY <1>0, <1>5, <2>1, <2>4, <3>1 DEF AdoptedSoFar, Adopting
  <2>6. Sound(work)' /\ Sound(disk)' /\ RevisionWaits'
    BY <1>0, <1>5 DEF GInv, Sound, Unstamped, WholeSoFar, CopiedSoFar,
                      RevisionWaits
  <2> QED
    BY <1>3, <2>2, <2>3, <2>5, <2>6 DEF GInv
<1>6. CASE CreateMissing(p)
  <2>1. CASE \E t \in TablesOf(Baseline) : Define(With(t)) /\ UNCHANGED place
    BY <2>1, <1>4
  <2>2. CASE /\ Goto(p, "altering") /\ UNCHANGED <<disk, work, dirty>>
             /\ \A t \in TablesOf(Baseline) : work.table[t] # "absent"
    BY <2>2, <1>5
  <2> QED
    BY <1>6, <2>1, <2>2 DEF CreateMissing, With
<1>7. CASE AddColumns(p)
  <2>1. CASE \E t \in TablesOf(Baseline) : Define(With(t)) /\ UNCHANGED place
    BY <2>1, <1>4
  <2>2. CASE /\ Goto(p, "stamping") /\ UNCHANGED <<disk, work, dirty>>
             /\ At(p, "altering")
             /\ \A t \in TablesOf(Baseline) : work.table[t] # "old"
    <3>1. ASSUME NEW t \in TablesOf(Baseline)
          PROVE  work.table[t] = "whole"
      <4>1. work.table[t] \in {"absent", "old", "whole"}
        BY <1>0, <1>1 DEF MigrationsTypeOK, Database
      <4>2. work.table[t] # "absent"
        BY <2>2 DEF At, GInv, AdoptedSoFar
      <4> QED
        BY <2>2, <4>1, <4>2
    <3> QED
      BY <2>2, <3>1, <1>5
  <2> QED
    BY <1>7, <2>1, <2>2 DEF AddColumns, With
<1> QED
  BY <1>6, <1>7

\* What is stamped is there, and what belongs to a later script than the
\* baseline was there when the database was found.
LEMMA StampGInv ==
  ASSUME MigrationsConstants, GInv, NEW p \in Starters, Stamp(p)
  PROVE  GInv'
<1> DEFINE stamped == Satisfied(work)
<1>0. /\ holder = p /\ p # Nobody /\ place[p] = "stamping"
      /\ work.revision = 0 /\ next = 1 /\ next' = 1
      /\ UNCHANGED <<holder, born, disk>> /\ dirty' = TRUE
      /\ MigrationsTypeOK /\ Sound(work) /\ Sound(disk)
      /\ \A t \in TablesOf(Baseline) : work.table[t] = "whole"
  BY DEF Stamp, Change, At, GInv, AdoptedSoFar, Adopting, MigrationsConstants
<1>1. stamped \in Revisions /\ Satisfies(work, stamped)
  BY <1>0, StampIsSatisfied
<1>2. /\ Newest \in Nat /\ Revisions = 1 .. Newest
      /\ \A r \in Revisions : TablesOf(r) \subseteq Tables
  BY ChainOfScripts
<1>3. /\ work' \in Database /\ work'.revision = stamped
      /\ work'.table = work.table /\ work'.copied = work.copied
  BY <1>0, <1>1, <1>2 DEF Stamp, Change, MigrationsTypeOK, Database
<1>4. /\ place'[p] = "upgrading"
      /\ \A q \in Starters \ {p} : place'[q] = place[q]
      /\ place' \in [Starters -> Running \union {"off", "waiting", "up"}]
  BY <1>0 DEF Stamp, Goto, MigrationsTypeOK, Running
<1>5. ASSUME NEW q \in Revisions, q <= stamped, NEW t \in TablesOf(q)
      PROVE  work.table[t] = "whole"
  BY <1>1, <1>2, <1>5 DEF Satisfies
<1>6. ASSUME NEW r \in Copies, r <= stamped, NEW t \in TablesOf(r)
      PROVE  born.table[t] # "absent"
  <2>1. /\ r \in Revisions /\ r # Baseline /\ Baseline \in Revisions
        /\ t \in Tables \ TablesOf(Baseline)
    BY <1>2, ChainOfScripts DEF MigrationsConstants
  <2>2. work.table[t] = "whole"
    BY <1>5, <1>6, <2>1
  <2> QED
    BY <1>0, <2>1, <2>2 DEF Sound, Unstamped
<1>7. Sound(work)' /\ Sound(disk)'
  <2>1. Sound(disk)'
    BY <1>0 DEF Sound, Unstamped, WholeSoFar, CopiedSoFar
  <2>2. Unstamped(work)'
    BY <1>1, <1>2, <1>3 DEF Unstamped
  <2>3. WholeSoFar(work)'
    BY <1>3, <1>5 DEF WholeSoFar
  <2>4. CopiedSoFar(work)'
    <3>1. \A r \in Copies : stamped >= r => r <= stamped
      BY <1>1, <1>2 DEF MigrationsConstants
    <3> QED
      BY <1>0, <1>3, <1>6, <3>1 DEF CopiedSoFar
  <2> QED
    BY <2>1, <2>2, <2>3, <2>4 DEF Sound
<1>8. MigrationsTypeOK'
  BY <1>0, <1>3, <1>4 DEF MigrationsTypeOK
<1>9. LockIsHeld' /\ UpIsNewest'
  BY <1>0, <1>4 DEF GInv, LockIsHeld, UpIsNewest, Running
<1>10. AdoptedSoFar'
  <2>1. ASSUME NEW q \in Starters
        PROVE  place'[q] \notin Adopting
    BY <1>0, <1>4 DEF GInv, LockIsHeld, Running, Adopting
  <2> QED
    BY <2>1 DEF AdoptedSoFar, Adopting
<1>11. CreatedSoFar' /\ RevisionWaits'
  BY <1>0, ChainOfScripts DEF CreatedSoFar, RevisionWaits
<1> QED
  BY <1>7, <1>8, <1>9, <1>10, <1>11 DEF GInv

LEMMA CreateTableGInv ==
  ASSUME MigrationsConstants, GInv, NEW p \in Starters, CreateTable(p)
  PROVE  GInv'
<1> DEFINE t == Chain[NextRevision][next]
<1>0. /\ holder = p /\ p # Nobody /\ place[p] = "upgrading"
      /\ next \in Nat \ {0} /\ next' = next + 1
      /\ UNCHANGED <<holder, place, born>> /\ Define(With(t))
      /\ MigrationsTypeOK /\ Sound(work)
  BY DEF CreateTable, At, GInv, MigrationsTypeOK, With, MigrationsConstants
<1>1. /\ NextRevision \in Revisions /\ next \in DOMAIN Chain[NextRevision]
      /\ work.revision \in Nat
  <2>1. work.revision \in Nat /\ NextRevision <= Newest
    BY <1>0, ChainOfScripts DEF MigrationsTypeOK, Database, CreateTable
  <2>2. NextRevision \in Revisions
    BY <2>1, ChainOfScripts DEF NextRevision
  <2> QED
    BY <1>0, <2>1, <2>2, ChainOfScripts DEF CreateTable
<1>2. /\ t \in TablesOf(NextRevision) /\ t \in Tables
      /\ \A i \in DOMAIN Chain[NextRevision] : Chain[NextRevision][i] \in Tables
  BY <1>1, ChainOfScripts
<1>3. t \in TablesOf(Baseline) \/ work.revision > 0
  BY <1>1, <1>2 DEF NextRevision, Baseline
<1>4. /\ work' = With(t) /\ With(t).revision = work.revision
      /\ \A u \in Tables :
           With(t).table[u] = IF u = t THEN "whole" ELSE work.table[u]
  BY <1>0, <1>2, <1>3, WithIsSound DEF Define
<1>5. CreatedSoFar'
  <2>1. NextRevision' = NextRevision
    BY <1>4 DEF NextRevision
  <2>2. ASSUME NEW i \in DOMAIN Chain[NextRevision], i < next + 1
        PROVE  work'.table[Chain[NextRevision][i]] = "whole"
    <3>1. i < next \/ i = next
      BY <1>0, <1>1, <2>2, ChainOfScripts
    <3>2. CASE i = next
      BY <1>2, <1>4, <3>2
    <3>3. CASE i < next
      <4>1. work.table[Chain[NextRevision][i]] = "whole"
        BY <1>0, <1>1, <3>3 DEF GInv, CreatedSoFar
      <4> QED
        BY <1>2, <1>4, <4>1
    <3> QED
      BY <3>1, <3>2, <3>3
  <2> QED
    BY <1>0, <2>1, <2>2 DEF CreatedSoFar
<1>6. AdoptedSoFar'
  <2>1. ASSUME NEW q \in Starters
        PROVE  place'[q] \notin Adopting
    BY <1>0 DEF GInv, LockIsHeld, Running, Adopting
  <2> QED
    BY <2>1 DEF AdoptedSoFar, Adopting
<1>7. next' \in Nat \ {0}
  BY <1>0
<1> HIDE DEF t
<1> QED
  BY <1>0, <1>2, <1>3, <1>5, <1>6, <1>7, DefineGInv

\* A script has run to its end: its tables are there, and its data is copied.
LEMMA FinishGInv ==
  ASSUME MigrationsConstants, GInv, NEW p \in Starters, Finish(p)
  PROVE  GInv'
<1>0. /\ holder = p /\ p # Nobody /\ place[p] = "upgrading"
      /\ next' = 1 /\ dirty' = TRUE
      /\ UNCHANGED <<holder, place, born, disk>>
      /\ MigrationsTypeOK /\ Sound(work) /\ Sound(disk) /\ next \in Nat
  BY DEF Finish, Change, At, GInv, MigrationsTypeOK, MigrationsConstants
<1>1. /\ work.revision \in Nat /\ work.copied \subseteq Copies
      /\ NextRevision \in Revisions /\ NextRevision = work.revision + 1
      /\ Newest \in Nat /\ Revisions = 1 .. Newest
      /\ NextRevision \in 0 .. Newest
  BY <1>0, ChainOfScripts DEF MigrationsTypeOK, Database, Finish, NextRevision
<1>2. /\ work' \in Database /\ work'.table = work.table
      /\ work'.revision = NextRevision
      /\ work'.copied = work.copied \union (Copies \cap {NextRevision})
  BY <1>0, <1>1 DEF Finish, Change, MigrationsTypeOK, Database
<1>3. ASSUME NEW t \in TablesOf(NextRevision)
      PROVE  work.table[t] = "whole"
  <2>1. PICK i \in DOMAIN Chain[NextRevision] : t = Chain[NextRevision][i]
    BY <1>1, ChainOfScripts
  <2>2. i < next
    BY <1>0, <1>1, ChainOfScripts DEF Finish
  <2> QED
    BY <1>0, <1>1, <2>1, <2>2 DEF GInv, CreatedSoFar
<1>4. Sound(disk)'
  BY <1>0 DEF Sound, Unstamped, WholeSoFar, CopiedSoFar
<1>5. Unstamped(work)'
  BY <1>1, <1>2 DEF Unstamped
<1>6. WholeSoFar(work)'
  <2>1. \A q \in Revisions : q <= NextRevision =>
          q <= work.revision \/ q = NextRevision
    BY <1>1
  <2> QED
    BY <1>0, <1>2, <1>3, <2>1 DEF Sound, WholeSoFar
<1>7. CopiedSoFar(work)'
  <2>1. \A r \in Copies : NextRevision >= r =>
          work.revision >= r \/ r = NextRevision
    BY <1>1 DEF MigrationsConstants
  <2> QED
    BY <1>0, <1>2, <2>1 DEF Sound, CopiedSoFar
<1>8. MigrationsTypeOK'
  <2>1. dirty' \in BOOLEAN
    BY <1>0
  <2>2. next' \in Nat \ {0}
    BY <1>0
  <2> QED
    BY <1>0, <1>2, <2>1, <2>2 DEF MigrationsTypeOK
<1>9. LockIsHeld' /\ UpIsNewest'
  BY <1>0 DEF GInv, LockIsHeld, UpIsNewest
<1>10. AdoptedSoFar'
  <2>1. ASSUME NEW q \in Starters
        PROVE  place'[q] \notin Adopting
    BY <1>0 DEF GInv, LockIsHeld, Running, Adopting
  <2> QED
    BY <2>1 DEF AdoptedSoFar, Adopting
<1>11. CreatedSoFar' /\ RevisionWaits'
  BY <1>0, ChainOfScripts DEF CreatedSoFar, RevisionWaits
<1> QED
  BY <1>4, <1>5, <1>6, <1>7, <1>8, <1>9, <1>10, <1>11 DEF GInv, Sound

LEMMA CommitGInv ==
  ASSUME MigrationsConstants, GInv, NEW p \in Starters, Commit(p)
  PROVE  GInv'
<1>0. /\ holder = p /\ holder' = Nobody /\ p # Nobody
      /\ disk' = work /\ UNCHANGED <<work, dirty, next, born>>
      /\ work.revision = Newest
      /\ MigrationsTypeOK /\ Sound(work)
  BY DEF Commit, At, GInv, MigrationsConstants
<1>1. /\ place'[p] = "up"
      /\ \A q \in Starters \ {p} : place'[q] = place[q]
      /\ place' \in [Starters -> Running \union {"off", "waiting", "up"}]
  BY <1>0 DEF Commit, Goto, MigrationsTypeOK
<1>2. MigrationsTypeOK'
  BY <1>0, <1>1 DEF MigrationsTypeOK
<1>3. LockIsHeld'
  BY <1>0, <1>1 DEF GInv, LockIsHeld, Running, Adopting, MigrationsConstants
<1>4. AdoptedSoFar'
  <2>1. ASSUME NEW q \in Starters
        PROVE  place'[q] \notin Adopting
    BY <1>0, <1>1 DEF GInv, LockIsHeld, Running, Adopting
  <2> QED
    BY <2>1 DEF AdoptedSoFar, Adopting
<1>5. Sound(disk)'
  BY <1>0 DEF Sound, Unstamped, WholeSoFar, CopiedSoFar
<1> QED
  BY <1>0, <1>2, <1>3, <1>4, <1>5 DEF GInv, RevisionWaits, CreatedSoFar,
                                      UpIsNewest

-----------------------------------------------------------------------------
(* The migrations: the theorem                                              *)

LEMMA NextGInv ==
  ASSUME MigrationsConstants, GInv, [MigrationsNext]_migrationsVars
  PROVE  GInv'
<1>1. CASE Answer \/ UNCHANGED migrationsVars
  <2>1. UNCHANGED <<disk, work, dirty, holder, place, next, born>>
    BY <1>1 DEF Answer, migrationsVars
  <2>2. MigrationsTypeOK' /\ LockIsHeld' /\ RevisionWaits' /\ UpIsNewest'
    BY <2>1 DEF GInv, MigrationsTypeOK, LockIsHeld, RevisionWaits, UpIsNewest
  <2>3. AdoptedSoFar' /\ CreatedSoFar'
    BY <2>1 DEF GInv, AdoptedSoFar, CreatedSoFar, NextRevision
  <2>4. Sound(disk)' /\ (holder' # Nobody => Sound(work)')
    BY <2>1 DEF GInv, Sound, Unstamped, WholeSoFar, CopiedSoFar
  <2> QED
    BY <2>2, <2>3, <2>4 DEF GInv
<1> QED
  BY <1>1, OutsideGInv, LockGInv, AdoptGInv, StampGInv, CreateTableGInv,
     FinishGInv, CommitGInv DEF MigrationsNext, Step

\* A database stamped at head has every table with every column, every process
\* that came up found it so, and no data was left uncopied but where create_all
\* had made the tables already (utils/migrations.py; db.py, init_db): for any
\* chain of scripts, whoever starts and whoever dies, on both dialects.
THEOREM NewestIsWhole ==
  ASSUME MigrationsConstants
  PROVE  MigrationsSpec => []HeadIsWhole
<1>1. MigrationsInit => GInv
  BY InitGInv
<1>2. GInv /\ [MigrationsNext]_migrationsVars => GInv'
  BY NextGInv
<1>3. ASSUME GInv
      PROVE  HeadIsWhole
  <2>1. ASSUME disk.revision = Newest, NEW t \in Tables
        PROVE  disk.table[t] = "whole"
    <3>1. PICK r \in Revisions : t \in TablesOf(r)
      BY ChainOfScripts
    <3>2. r <= disk.revision
      BY <2>1, ChainOfScripts
    <3> QED
      BY <1>3, <3>1, <3>2 DEF GInv, Sound, WholeSoFar
  <2> QED
    BY <1>3, <2>1 DEF HeadIsWhole, GInv, UpIsNewest, Sound, CopiedSoFar
<1> QED
  BY <1>1, <1>2, <1>3, PTL DEF MigrationsSpec

=============================================================================
