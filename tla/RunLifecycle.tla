---------------------------- MODULE RunLifecycle ----------------------------
(***************************************************************************)
(* One run key from its first upload to its deletion, with everything that  *)
(* refers to it: its row in the table runs, its conversations and their     *)
(* messages, its logged predictions, share links and report schedules, its  *)
(* model versions, and its files on the local disk.                         *)
(*                                                                          *)
(* Three paths delete a run: DELETE /runs/{run_key} (routes/runs.py), the   *)
(* retention purge and the erasure of an account (lifecycle.py).  None of   *)
(* them locks anything, the tables have no foreign keys on the run, and     *)
(* every step is a transaction or an unlink of its own.                     *)
(***************************************************************************)
EXTENDS Naturals, Sequences, FiniteSets

CONSTANTS Uploads,    \* pipelines of uploads that resolve to this run key
          Retrainers, \* executions of POST /runs/{run_key}/retrain
          Chats,      \* executions of POST /chat, each with a new conversation
          Adders,     \* requests that add one row that refers to the run
          Deleters,   \* executions of a deletion path
          Kind,       \* which of the three
          MaxVersion, \* bound on the version numbers
          MaxRequests, \* bound on the requests that are not uploads or deletions
          MaxCrashes  \* bound on the handlers that die half way

Tables == {"predictions", "links", "schedules"}
Kinds == {"delete", "purge", "erase"}
Requests == Retrainers \union Chats \union Adders
Users == Uploads \union Requests
Procs == Users \union Deleters

ASSUME LifecycleAssumption ==
  /\ Kind \in [Deleters -> Kinds]
  /\ MaxVersion \in Nat \ {0}
  /\ MaxRequests \in Nat
  /\ MaxCrashes \in Nat
  /\ Deleters \intersect Users = {}
  /\ Uploads \intersect Requests = {}
  /\ Retrainers \intersect (Chats \union Adders) = {}
  /\ Chats \intersect Adders = {}

VARIABLES
  run,           \* the row in runs: "none", "current", or past its expires_at
  conversations, \* chats whose row is in conversations
  messages,      \* rows of messages: the chat, and who wrote it
  rows,          \* rows the adders have added: the adder, and the table
  versions,      \* version numbers with a row in model_versions
  disk,          \* files: 0 for metadata and snapshot, n for the bundle of n
  pc,            \* where each execution stands
  slot,          \* the version number a retrain took
  at,            \* per deleter, the next of its steps
  todo,          \* per deleter, the files it has yet to remove
  before,        \* per deleter, the rows there were when it began
  overlapped,    \* a deletion has run beside another handler
  crashed        \* executions that died half way

tables == <<run, conversations, messages, rows, versions>>
locals == <<slot, at, todo, before>>
vars == <<tables, disk, pc, locals, overlapped, crashed>>

Versions == 1..MaxVersion
Files == {0} \union Versions
Roles == {"user", "assistant"}
Places == {"idle", "done", "refused", "dead", "fit", "metadata", "register",
           "version", "authorised", "dump", "add", "added", "history", "loaded",
           "opened", "asked", "deleting"}

\* A slip: one order for all three.
StepsOf_RunFirst(kind) ==
  <<"run", "conversations", "predictions", "versions", "files", "links",
    "schedules", "end">>
\* The order in which each path removes things; "end" is its answer.
StepsOf(kind) ==
  IF kind = "delete"
  THEN <<"run", "conversations", "predictions", "versions", "files", "links",
         "schedules", "end">>
  ELSE <<"conversations", "predictions", "versions", "files", "links",
         "schedules", "run", "end">>

Goto(p, place) == pc' = [pc EXCEPT ![p] = place]
Busy(p) == pc[p] \notin {"idle", "done", "refused", "dead"}
Quiet == \A p \in Procs : ~Busy(p)

\* A handler begins: has it company that deletes, or deletes itself in company?
Began(p) ==
  overlapped' = (overlapped \/ \E o \in Procs \ {p} :
                    Busy(o) /\ (p \in Deleters \/ o \in Deleters))

Init ==
  /\ run = "none"
  /\ conversations = {} /\ messages = {} /\ rows = {} /\ versions = {}
  /\ disk = {}
  /\ pc = [p \in Procs |-> "idle"]
  /\ slot = [r \in Retrainers |-> 1]
  /\ at = [d \in Deleters |-> 1]
  /\ todo = [d \in Deleters |-> {}]
  /\ before = [d \in Deleters |-> [rows |-> {}, messages |-> {}]]
  /\ overlapped = FALSE
  /\ crashed = {}

-----------------------------------------------------------------------------
(* Upload: the tail of _run_upload_pipeline                                 *)

\* "Is it cached?": the metadata and the bundle.
UploadStart(u) ==
  /\ pc[u] = "idle"
  /\ Goto(u, IF {0, 1} \subseteq disk THEN "register" ELSE "fit")
  /\ Began(u)
  /\ UNCHANGED <<tables, disk, locals, crashed>>

\* The fit; the bundle is written first, the metadata last.
WriteBundle(u) ==
  /\ pc[u] = "fit"
  /\ disk' = disk \union {1}
  /\ Goto(u, "metadata")
  /\ UNCHANGED <<tables, locals, overlapped, crashed>>

WriteMetadata(u) ==
  /\ pc[u] = "metadata"
  /\ disk' = disk \union {0}
  /\ Goto(u, "register")
  /\ UNCHANGED <<tables, locals, overlapped, crashed>>

\* _register_run: the upsert also renews expires_at.
RegisterRun(u) ==
  /\ pc[u] = "register"
  /\ run' = "current"
  /\ Goto(u, "version")
  /\ UNCHANGED <<conversations, messages, rows, versions, disk, locals,
                 overlapped, crashed>>

\* registry.register_initial adds version 1 to a run without versions.
RegisterVersion(u) ==
  /\ pc[u] = "version"
  /\ versions' = IF versions = {} THEN {1} ELSE versions
  /\ Goto(u, "done")
  /\ UNCHANGED <<run, conversations, messages, rows, disk, locals, overlapped,
                 crashed>>

-----------------------------------------------------------------------------
(* Requests about the run.  Each of them calls require_owned_run once.      *)

Authorise(p) ==
  /\ pc[p] = "idle"
  /\ run # "none"
  /\ Cardinality({q \in Requests : pc[q] # "idle"}) < MaxRequests
  /\ Goto(p, "authorised")
  /\ Began(p)
  /\ UNCHANGED <<tables, disk, locals, crashed>>

\* retraining.retrain: the metadata and a champion, then the fit.
ReadChampion(r) ==
  /\ pc[r] = "authorised"
  /\ Goto(r, IF 0 \in disk /\ versions # {} THEN "fit" ELSE "refused")
  /\ UNCHANGED <<tables, disk, locals, overlapped, crashed>>

\* db.next_model_version: the greatest number plus one, or one.
NumberVersion(r) ==
  /\ pc[r] = "fit"
  /\ \E n \in Versions :
       /\ \A v \in versions : v < n
       /\ n = 1 \/ n - 1 \in versions
       /\ slot' = [slot EXCEPT ![r] = n]
  /\ Goto(r, "dump")
  /\ UNCHANGED <<tables, disk, at, todo, before, overlapped, crashed>>

DumpBundle(r) ==
  /\ pc[r] = "dump"
  /\ disk' = disk \union {slot[r]}
  /\ Goto(r, "add")
  /\ UNCHANGED <<tables, locals, overlapped, crashed>>

AddVersion(r) ==
  /\ pc[r] = "add"
  /\ versions' = versions \union {slot[r]}
  /\ Goto(r, "added")
  /\ UNCHANGED <<run, conversations, messages, rows, disk, locals, overlapped,
                 crashed>>

\* _record_history reads the metadata, if it is there, and writes it anew.
ReadHistory(r) ==
  /\ pc[r] = "added"
  /\ Goto(r, IF 0 \in disk THEN "history" ELSE "done")
  /\ UNCHANGED <<tables, disk, locals, overlapped, crashed>>

WriteHistory(r) ==
  /\ pc[r] = "history"
  /\ disk' = disk \union {0}
  /\ Goto(r, "done")
  /\ UNCHANGED <<tables, locals, overlapped, crashed>>

\* A prediction loads the champion's bundle, or the first one when there is
\* none.
LoadBundle(p) ==
  /\ pc[p] = "authorised"
  /\ \/ /\ 0 \in disk
        /\ IF versions = {} THEN 1 \in disk ELSE versions \intersect disk # {}
        /\ Goto(p, "loaded")
     \/ /\ \/ 0 \notin disk
           \/ IF versions = {} THEN 1 \notin disk ELSE ~(versions \subseteq disk)
        /\ Goto(p, "refused")
  /\ UNCHANGED <<tables, disk, locals, overlapped, crashed>>

\* db.log_predictions; or add_share_link or add_report_schedule, which need
\* nothing but the run.
AddRow(p) ==
  /\ \E table \in Tables :
       /\ pc[p] = IF table = "predictions" THEN "loaded" ELSE "authorised"
       /\ rows' = rows \union {<<p, table>>}
  /\ Goto(p, "done")
  /\ UNCHANGED <<run, conversations, messages, versions, disk, locals,
                 overlapped, crashed>>

\* POST /chat: the conversation, the ceilings, the question, and after the
\* agent's loop of model calls the answer.  append_message adds a message
\* whether or not its conversation still has a row.
OpenConversation(c) ==
  /\ pc[c] = "authorised"
  /\ IF 0 \in disk
     THEN conversations' = conversations \union {c} /\ Goto(c, "opened")
     ELSE UNCHANGED conversations /\ Goto(c, "refused")
  /\ UNCHANGED <<run, messages, rows, versions, disk, locals, overlapped,
                 crashed>>

Ask(c) ==
  /\ pc[c] = "opened"
  /\ \/ messages' = messages \union {<<c, "user">>} /\ Goto(c, "asked")
     \/ UNCHANGED messages /\ Goto(c, "refused")
  /\ UNCHANGED <<run, conversations, rows, versions, disk, locals, overlapped,
                 crashed>>

Answer(c) ==
  /\ pc[c] = "asked"
  /\ messages' = messages \union {<<c, "assistant">>}
  /\ Goto(c, "done")
  /\ UNCHANGED <<run, conversations, rows, versions, disk, locals, overlapped,
                 crashed>>

-----------------------------------------------------------------------------
(* The deletion paths                                                       *)

\* A slip: the runs to purge are all that have an expiry.
Listed_AnyExpiry(d) == run # "none"
\* DELETE needs a run the caller owns, an erasure lists the runs of the
\* account, a purge those past their expiry.
Listed(d) == IF Kind[d] = "purge" THEN run = "expired" ELSE run # "none"

BeginDeletion(d) ==
  /\ pc[d] = "idle"
  /\ Listed(d)
  /\ Goto(d, "deleting")
  /\ before' = [before EXCEPT ![d] =
       [rows |-> rows,
        messages |-> {m \in messages : m[1] \in conversations}]]
  /\ Began(d)
  /\ UNCHANGED <<tables, disk, slot, at, todo, crashed>>

\* The steps of a deletion, in the order of its path.
Turn(d, step) == pc[d] = "deleting" /\ StepsOf(Kind[d])[at[d]] = step
Advance(d) == at' = [at EXCEPT ![d] = @ + 1]

\* A slip: a run whose row was already gone is answered with 404 at once.
DropRun_StopsIfGone(d) ==
  /\ Turn(d, "run")
  /\ run' = "none"
  /\ IF run = "none" THEN UNCHANGED at /\ Goto(d, "done")
                     ELSE Advance(d) /\ UNCHANGED pc
  /\ UNCHANGED <<conversations, messages, rows, versions, disk, slot, todo, before, overlapped, crashed>>

DropRun(d) ==
  /\ Turn(d, "run")
  /\ run' = "none"
  /\ Advance(d)
  /\ UNCHANGED <<conversations, messages, rows, versions, disk, pc, slot,
                 todo, before, overlapped, crashed>>

\* delete_conversations_for_run: the rows it finds, and their messages.
DropConversations(d) ==
  /\ Turn(d, "conversations")
  /\ conversations' = {}
  /\ messages' = {m \in messages : m[1] \notin conversations}
  /\ Advance(d)
  /\ UNCHANGED <<run, rows, versions, disk, pc, slot, todo, before,
                 overlapped, crashed>>

DropRows(d, table) ==
  /\ Turn(d, table)
  /\ rows' = {row \in rows : row[2] # table}
  /\ Advance(d)
  /\ UNCHANGED <<run, conversations, messages, versions, disk, pc, slot,
                 todo, before, overlapped, crashed>>

\* A slip: the suffixes are not passed on to purge_run.
DropVersions_ForgetsSuffixes(d) ==
  /\ Turn(d, "versions")
  /\ versions' = {}
  /\ todo' = [todo EXCEPT ![d] = {0, 1}]
  /\ Advance(d)
  /\ UNCHANGED <<run, conversations, messages, rows, disk, pc, slot, before, overlapped, crashed>>

\* delete_model_versions_for_run returns the suffixes purge_run is to remove
\* besides the fixed names.
DropVersions(d) ==
  /\ Turn(d, "versions")
  /\ todo' = [todo EXCEPT ![d] = {0, 1} \union versions]
  /\ versions' = {}
  /\ Advance(d)
  /\ UNCHANGED <<run, conversations, messages, rows, disk, pc, slot, before,
                 overlapped, crashed>>

\* purge_run unlinks one file after the other.
Unlink(d) ==
  /\ Turn(d, "files")
  /\ \E f \in todo[d] :
       /\ \A g \in todo[d] : f <= g
       /\ disk' = disk \ {f}
       /\ todo' = [todo EXCEPT ![d] = @ \ {f}]
  /\ UNCHANGED <<tables, pc, slot, at, before, overlapped, crashed>>

FilesDone(d) ==
  /\ Turn(d, "files")
  /\ todo[d] = {}
  /\ Advance(d)
  /\ UNCHANGED <<tables, disk, pc, slot, todo, before, overlapped,
                 crashed>>

EndDeletion(d) ==
  /\ Turn(d, "end")
  /\ Goto(d, "done")
  /\ UNCHANGED <<tables, disk, locals, overlapped, crashed>>

-----------------------------------------------------------------------------
\* expires_at passes.
Expire ==
  /\ run = "current"
  /\ run' = "expired"
  /\ UNCHANGED <<conversations, messages, rows, versions, disk, pc, locals,
                 overlapped, crashed>>

\* A handler raises or its process dies between two of its steps.
Crash(p) ==
  /\ Busy(p)
  /\ Cardinality(crashed) < MaxCrashes
  /\ crashed' = crashed \union {p}
  /\ Goto(p, "dead")
  /\ UNCHANGED <<tables, disk, locals, overlapped>>

UploadStep(u) ==
  \/ UploadStart(u) \/ WriteBundle(u) \/ WriteMetadata(u)
  \/ RegisterRun(u) \/ RegisterVersion(u)
RetrainStep(r) ==
  \/ Authorise(r) \/ ReadChampion(r) \/ NumberVersion(r)
  \/ DumpBundle(r) \/ AddVersion(r) \/ ReadHistory(r) \/ WriteHistory(r)
ChatStep(c) == Authorise(c) \/ OpenConversation(c) \/ Ask(c) \/ Answer(c)
AdderStep(p) == Authorise(p) \/ LoadBundle(p) \/ AddRow(p)
DeleterStep(d) ==
  \/ BeginDeletion(d) \/ DropRun(d) \/ DropConversations(d)
  \/ \E table \in Tables : DropRows(d, table)
  \/ DropVersions(d) \/ Unlink(d) \/ FilesDone(d) \/ EndDeletion(d)

Next ==
  \/ \E u \in Uploads : UploadStep(u)
  \/ \E r \in Retrainers : RetrainStep(r)
  \/ \E c \in Chats : ChatStep(c)
  \/ \E p \in Adders : AdderStep(p)
  \/ \E d \in Deleters : DeleterStep(d)
  \/ \E p \in Procs : Crash(p)
  \/ Expire

Spec == Init /\ [][Next]_vars

-----------------------------------------------------------------------------
(* Properties                                                               *)

TypeOK ==
  /\ run \in {"none", "current", "expired"}
  /\ conversations \subseteq Chats
  /\ messages \subseteq Chats \X Roles
  /\ rows \subseteq Adders \X Tables
  /\ versions \subseteq Versions
  /\ disk \subseteq Files
  /\ pc \in [Procs -> Places]
  /\ slot \in [Retrainers -> Versions]
  /\ at \in [Deleters -> 1..8]
  /\ todo \in [Deleters -> SUBSET Files]
  /\ before \in [Deleters -> [rows : SUBSET (Adders \X Tables),
                              messages : SUBSET (Chats \X Roles)]]
  /\ overlapped \in BOOLEAN
  /\ crashed \subseteq Procs

\* "Erase everything has to actually mean everything": unless a deletion ran
\* beside another handler or somebody died, a run that is gone has left no row
\* and no file, retrained bundles included (lifecycle.py, routes/runs.py).
NothingOutlivesTheRun ==
  run = "none" /\ Quiet /\ ~overlapped /\ crashed = {} =>
    /\ conversations = {} /\ messages = {} /\ rows = {} /\ versions = {}
    /\ disk = {}

\* A purge or an erasure that dies half way is repeatable: it removes the row
\* of the run last, so as long as any other row is left the run is still listed.
DeadPurgeIsRepeatable ==
  /\ run = "none" /\ Quiet /\ ~overlapped
  /\ \A p \in crashed : p \in Deleters /\ Kind[p] # "delete"
  => conversations = {} /\ messages = {} /\ rows = {} /\ versions = {}

\* A deletion that answers has removed every row that was there when it began,
\* whatever else happened to the run meanwhile, another deletion included.
DeletionIsThorough ==
  \A d \in Deleters :
    pc[d] = "done" => /\ rows \intersect before[d].rows = {}
                      /\ messages \intersect before[d].messages = {}

\* Retention takes only what expired: a run within its retention period keeps
\* its row through every purge that runs by itself.
PurgeTakesOnlyExpired ==
  [][\A d \in Deleters :
       Kind[d] = "purge" /\ at'[d] # at[d] /\ run # "none" /\ run' = "none"
         => run = "expired" \/ overlapped]_vars

\* "Deleting the dataset but keeping the transcript of questions asked about it
\* would leave the most sensitive part behind" (routes/runs.py): no message
\* stays whose conversation is gone.
TranscriptGoesWithTheRun ==
  Quiet /\ crashed = {} => \A m \in messages : m[1] \in conversations

=============================================================================
