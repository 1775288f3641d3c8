--------------------------- MODULE ReportSchedules ---------------------------
(***************************************************************************)
(* Scheduled reports (report_schedule.py): a schedule has a due date, an    *)
(* operator's cron calls run_due, which hands every due schedule to the     *)
(* queue, and process_due_schedule builds one report and mails it.          *)
(*                                                                          *)
(* Time is what is left until a schedule is due, one Tick being a fraction  *)
(* of an interval.  With the queue of RQ a worker takes the jobs; inline,   *)
(* the request of the cron executes each one before it hands over the next. *)
(***************************************************************************)
EXTENDS Integers, Sequences, FiniteSets, SequencesExt

CONSTANTS Schedules,  \* schedules that may be made
          Interval,   \* INTERVALS[interval] of each, in ticks
          Crons,      \* calls of POST /report-schedules/run-due at once
          Workers,    \* RQ workers
          MaxDue,     \* settings.report_schedule_max_due_per_run
          MaxSlips,  \* bound on deaths and lost jobs
          MaxQueued,  \* bound on the queue: no cron call beyond it
          NoSchedule  \* nothing in hand

\* What the constants have to be.
SchedulesConstants ==
  /\ Interval \in [Schedules -> Nat \ {0}]
  /\ NoSchedule \notin Schedules
  /\ Crons \cap Workers = {}
  /\ MaxDue \in Nat \ {0} /\ MaxSlips \in Nat /\ MaxQueued \in Nat

VARIABLES
  inline,  \* the queue of the crons' process executes what it is handed
  row,     \* report_schedules: "none", "there", or "gone" for good
  left,    \* ticks until next_run_at; 0 if it has passed
  run,     \* the artifacts of the run are there
  batch,   \* per cron, the schedules it has yet to hand over
  queue,   \* the list of RQ
  hand,    \* per process, the schedule it is processing
  stage,   \* and how far it is
  slips,   \* deaths and lost jobs
  mails,   \* reports sent since the schedule last became due
  doubled  \* schedules that were handed over while an earlier handover of
           \* theirs was pending, or whose processing died half way

schedulesVars == <<inline, row, left, run, batch, queue, hand, stage, slips,
                   mails, doubled>>

Procs == Crons \union Workers
Due == {s \in Schedules : row[s] = "there" /\ left[s] = 0}
Pending(s) ==
  \/ \E c \in Crons : s \in batch[c]
  \/ Contains(queue, s)
  \/ \E p \in Procs : hand[p] = s

SchedulesInit ==
  /\ inline \in BOOLEAN
  /\ row = [s \in Schedules |-> "none"]
  /\ left = Interval
  /\ run = TRUE
  /\ batch = [c \in Crons |-> {}]
  /\ queue = <<>>
  /\ hand = [p \in Procs |-> NoSchedule]
  /\ stage = [p \in Procs |-> "idle"]
  /\ slips = 0
  /\ mails = [s \in Schedules |-> 0]
  /\ doubled = {}

-----------------------------------------------------------------------------
(* The owner, the run, time                                                 *)

\* create_schedule: the first report is due one interval from now.
CreateSchedule(s) ==
  /\ row[s] = "none" /\ run
  /\ row' = [row EXCEPT ![s] = "there"]
  /\ left' = [left EXCEPT ![s] = Interval[s]]
  /\ UNCHANGED <<inline, run, batch, queue, hand, stage, slips, mails,
                 doubled>>

DeleteSchedule(s) ==
  /\ row[s] = "there"
  /\ row' = [row EXCEPT ![s] = "gone"]
  /\ UNCHANGED <<inline, left, run, batch, queue, hand, stage, slips, mails,
                 doubled>>

\* A deletion of the run has removed its files; the schedules follow.
LoseRun ==
  /\ run
  /\ run' = FALSE
  /\ UNCHANGED <<inline, row, left, batch, queue, hand, stage, slips, mails,
                 doubled>>

DeleteSchedulesForRun ==
  /\ ~run
  /\ row' = [s \in Schedules |-> "gone"]
  /\ UNCHANGED <<inline, left, run, batch, queue, hand, stage, slips, mails,
                 doubled>>

Tick ==
  /\ \E s \in Schedules : row[s] = "there" /\ left[s] > 0
  /\ left' = [s \in Schedules |->
       IF row[s] = "there" /\ left[s] > 0 THEN left[s] - 1 ELSE left[s]]
  /\ mails' = [s \in Schedules |-> IF left[s] = 1 THEN 0 ELSE mails[s]]
  /\ UNCHANGED <<inline, row, run, batch, queue, hand, stage, slips, doubled>>

-----------------------------------------------------------------------------
(* run_due                                                                  *)

\* A slip: whatever its due date, a schedule is handed over.
RunDue_Any(c) ==
  /\ stage[c] = "idle" /\ batch[c] = {}
  /\ Len(queue) < MaxQueued
  /\ LET due == {s \in Schedules : row[s] = "there"} IN
     \E some \in SUBSET due :
       /\ some # {}
       /\ Cardinality(some) =
            (IF Cardinality(due) < MaxDue THEN Cardinality(due) ELSE MaxDue)
       /\ batch' = [batch EXCEPT ![c] = some]
       /\ doubled' = doubled \union {s \in some : Pending(s)}
  /\ UNCHANGED <<inline, row, left, run, queue, hand, stage, slips, mails>>

\* due_report_schedules, cut to MaxDue; the query states no order.
RunDue(c) ==
  /\ stage[c] = "idle" /\ batch[c] = {}
  /\ Len(queue) < MaxQueued
  /\ \E some \in SUBSET Due :
       /\ some # {}
       /\ Cardinality(some) =
            (IF Cardinality(Due) < MaxDue THEN Cardinality(Due) ELSE MaxDue)
       /\ batch' = [batch EXCEPT ![c] = some]
       /\ doubled' = doubled \union {s \in some : Pending(s)}
  /\ UNCHANGED <<inline, row, left, run, queue, hand, stage, slips, mails>>

\* queue.enqueue, one schedule after the other.  InlineQueue executes it.
Enqueue(c) ==
  /\ stage[c] = "idle"
  /\ \E s \in batch[c] :
       /\ batch' = [batch EXCEPT ![c] = @ \ {s}]
       /\ IF ~inline
          THEN queue' = Append(queue, s) /\ UNCHANGED <<hand, stage>>
          ELSE /\ hand' = [hand EXCEPT ![c] = s]
               /\ stage' = [stage EXCEPT ![c] = "taken"]
               /\ UNCHANGED queue
  /\ UNCHANGED <<inline, row, left, run, slips, mails, doubled>>

-----------------------------------------------------------------------------
(* process_due_schedule                                                     *)

Take(w) ==
  /\ stage[w] = "idle" /\ queue # <<>>
  /\ hand' = [hand EXCEPT ![w] = Head(queue)]
  /\ stage' = [stage EXCEPT ![w] = "taken"]
  /\ queue' = Tail(queue)
  /\ UNCHANGED <<inline, row, left, run, batch, slips, mails, doubled>>

\* get_report_schedule: nothing to do for a schedule that is gone.
Read(p) ==
  /\ stage[p] = "taken"
  /\ IF row[hand[p]] = "there"
     THEN stage' = [stage EXCEPT ![p] = "building"] /\ UNCHANGED hand
     ELSE /\ stage' = [stage EXCEPT ![p] = "idle"]
          /\ hand' = [hand EXCEPT ![p] = NoSchedule]
  /\ UNCHANGED <<inline, row, left, run, batch, queue, slips, mails, doubled>>

\* The metadata, the snapshot, the quota, the report: each may end it, with
\* the status "failed" or "skipped_over_quota".
Build(p) ==
  /\ stage[p] = "building"
  /\ \/ run /\ stage' = [stage EXCEPT ![p] = "sending"]
     \/ stage' = [stage EXCEPT ![p] = "ending"]
  /\ UNCHANGED <<inline, row, left, run, batch, queue, hand, slips, mails,
                 doubled>>

\* _send_email, which may fail.
SendEmail(p) ==
  /\ stage[p] = "sending"
  /\ \/ mails' = [mails EXCEPT ![hand[p]] = IF @ < 2 THEN @ + 1 ELSE @]
     \/ UNCHANGED mails
  /\ stage' = [stage EXCEPT ![p] = "ending"]
  /\ UNCHANGED <<inline, row, left, run, batch, queue, hand, slips, doubled>>

\* A slip: the due date advances only if a report was sent.
Record_IfSent(p) ==
  /\ stage[p] = "ending"
  /\ LET s == hand[p] IN
     left' = IF row[s] = "there" /\ mails[s] > 0
             THEN [left EXCEPT ![s] = Interval[s]] ELSE left
  /\ stage' = [stage EXCEPT ![p] = "idle"]
  /\ hand' = [hand EXCEPT ![p] = NoSchedule]
  /\ UNCHANGED <<inline, row, run, batch, queue, slips, mails, doubled>>

\* finally: record_report_schedule_run, if the row is still there.
Record(p) ==
  /\ stage[p] = "ending"
  /\ LET s == hand[p] IN
     left' = IF row[s] = "there" THEN [left EXCEPT ![s] = Interval[s]] ELSE left
  /\ stage' = [stage EXCEPT ![p] = "idle"]
  /\ hand' = [hand EXCEPT ![p] = NoSchedule]
  /\ UNCHANGED <<inline, row, run, batch, queue, slips, mails, doubled>>

Process(p) == Read(p) \/ Build(p) \/ SendEmail(p) \/ Record(p)

\* A process dies with what it has in hand, or enqueue raises: what a cron has
\* not handed over yet is not handed over, what a worker had is not retried.
Die(p) ==
  /\ slips < MaxSlips
  /\ stage[p] # "idle" \/ (p \in Crons /\ batch[p] # {})
  /\ slips' = slips + 1
  /\ batch' = IF p \in Crons THEN [batch EXCEPT ![p] = {}] ELSE batch
  /\ doubled' = doubled \union ({hand[p]} \ {NoSchedule})
  /\ stage' = [stage EXCEPT ![p] = "idle"]
  /\ hand' = [hand EXCEPT ![p] = NoSchedule]
  /\ UNCHANGED <<inline, row, left, run, queue, mails>>

\* Redis loses its list.
LoseQueue ==
  /\ slips < MaxSlips /\ queue # <<>>
  /\ slips' = slips + 1
  /\ queue' = <<>>
  /\ UNCHANGED <<inline, row, left, run, batch, hand, stage, mails, doubled>>

SchedulesNext ==
  \/ \E s \in Schedules : CreateSchedule(s) \/ DeleteSchedule(s)
  \/ LoseRun \/ DeleteSchedulesForRun \/ Tick \/ LoseQueue
  \/ \E c \in Crons : RunDue(c) \/ Enqueue(c)
  \/ \E w \in Workers : Take(w)
  \/ \E p \in Procs : Process(p) \/ Die(p)

\* The operator's cron keeps calling, and a process that runs goes on.
SchedulesFairness ==
  /\ \A c \in Crons :
       WF_schedulesVars(RunDue(c)) /\ WF_schedulesVars(Enqueue(c))
  /\ \A w \in Workers : WF_schedulesVars(Take(w))
  /\ \A p \in Procs : WF_schedulesVars(Process(p))
SchedulesSpec ==
  SchedulesInit /\ [][SchedulesNext]_schedulesVars /\ SchedulesFairness

-----------------------------------------------------------------------------
(* Properties                                                               *)

\* One report per interval (record_report_schedule_run is what ends "due"): a
\* recipient gets a second one only if the schedule was handed over again while
\* an earlier handover of it was pending, or its processing died half way.
OneReportPerInterval ==
  \A s \in Schedules : mails[s] > 1 => s \in doubled

\* "Every failure mode ends the same way: next_run_at still advances"
\* (process_due_schedule): while the cron calls, a due schedule does not stay
\* due, whatever fails and whoever dies, unless more are due than one call
\* takes (the query has no order, so it may take the same ones every time).
DueIsProcessed ==
  \A s \in Schedules :
    []<>(s \notin Due \/ Cardinality(Due) > MaxDue)

=============================================================================
