----------------------------- MODULE MCServices -----------------------------
(***************************************************************************)
(* Five services that share no state, checked in one run: in a behaviour    *)
(* one of them, the focus, takes its steps, and the others stay as they     *)
(* began, so that the state spaces add up instead of multiplying.           *)
(***************************************************************************)
EXTENDS Migrations, ReportSchedules, ShareLinks, Sandbox, Drift, Functions, TLC

CONSTANTS s1, s2

Intervals == (s1 :> 1) @@ (s2 :> 2)
Scripts == << <<"conversations", "runs", "users">>, <<"api_keys", "audit_log">>,
            <<"model_versions", "predictions">>, <<"share_links">> >>

\* Thousandths of the natural logarithms of 1, 2, ..., and of EPSILON.
Logarithms == <<0, 693, 1099, 1386, 1609, 1792, 1946, 2079, 2197, 2303, 2398,
                2485, 2565, 2639, 2708, 2773, 2833, 2890, 2944, 2996>>
OfEpsilon == -13816

\* Rows of a numeric and a categorical feature, by position.
Frame(rows, n(_), c(_)) == [i \in 1..rows |-> [n |-> n(i), c |-> c(i)]]
Abroad(i) == IF i <= 6 THEN "a" ELSE IF i <= 9 THEN "b" ELSE "x"
Two(i) == IF i <= 6 THEN "a" ELSE "b"

\* An even spread with a pooled tail; a column of one value; one that is mostly
\* one value, with a gap; one with neither; one without labels.
SomeTrainings ==
  {Frame(11, LAMBDA i : i, LAMBDA i : IF i = 11 THEN "y" ELSE Abroad(i)),
   Frame(10, LAMBDA i : 4, Two),
   Frame(11, LAMBDA i : IF i <= 9 THEN 0 ELSE 4 * i - 35, LAMBDA i : "a"),
   Frame(11, LAMBDA i : IF i = 3 THEN Nothing ELSE i, Two),
   Frame(10, LAMBDA i : i, LAMBDA i : Nothing)}

\* The training itself, sorted or not, more than the log takes, moved half way
\* out, all of one value, with new labels, and without values.
SomeBatches ==
  {Frame(10, LAMBDA i : i, Two), Frame(10, LAMBDA i : 4, Two),
   Frame(11, LAMBDA i : IF i <= 5 THEN 2 * i ELSE 20, Two),
   Frame(14, LAMBDA i : i, LAMBDA i : IF i % 2 = 0 THEN "a" ELSE "z"),
   Frame(11, LAMBDA i : IF i = 3 THEN Nothing ELSE i, Two),
   Frame(11, LAMBDA i : i, LAMBDA i : IF i = 11 THEN "y" ELSE Abroad(i)),
   Frame(10, LAMBDA i : Nothing, LAMBDA i : "a")}

VARIABLE focus

ASSUME ServicesAssumption ==
  /\ MigrationsConstants /\ SchedulesConstants
  /\ LinksConstants /\ SandboxConstants /\ DriftConstants

\* Every process has started, on a database at head.
Serving ==
  LET whole == [table |-> [t \in UNION {Range(Chain[r]) : r \in DOMAIN Chain} |->
                             "whole"],
                revision |-> Len(Chain), copied |-> Copies]
  IN /\ dialect = "postgresql" /\ reachable = TRUE /\ dirty = FALSE
     /\ disk = whole /\ work = whole /\ born = whole
     /\ holder = Nobody /\ next = 1 /\ deaths = 0
     /\ place = [p \in Starters |-> "up"]

\* Out of focus a service is at rest, in one of its states.
Init ==
  /\ focus \in {"migrations", "schedules", "links", "sandbox", "drift"}
  /\ \/ focus = "migrations" /\ MigrationsInit
     \/ focus # "migrations" /\ Serving
  /\ SchedulesInit
  /\ focus # "schedules" => ~inline
  /\ LinksInit
  /\ SandboxInit
  /\ focus # "sandbox" => ~contained /\ \A c \in Calls : code[c] = "ends"
  /\ DriftInit
  /\ focus # "drift" => reference = Nothing

Next ==
  \/ /\ focus = "migrations" /\ MigrationsNext
     /\ UNCHANGED <<focus, schedulesVars, linksVars, sandboxVars, driftVars>>
  \/ /\ focus = "schedules" /\ SchedulesNext
     /\ UNCHANGED <<focus, migrationsVars, linksVars, sandboxVars, driftVars>>
  \/ /\ focus = "links" /\ LinksNext
     /\ UNCHANGED <<focus, migrationsVars, schedulesVars, sandboxVars, driftVars>>
  \/ /\ focus = "sandbox" /\ SandboxNext
     /\ UNCHANGED <<focus, migrationsVars, schedulesVars, linksVars, driftVars>>
  \/ /\ focus = "drift" /\ DriftNext
     /\ UNCHANGED <<focus, migrationsVars, schedulesVars, linksVars, sandboxVars>>

\* No step of a service out of focus is one it has to take.
Spec ==
  /\ Init
  /\ [][Next]_<<focus, migrationsVars, schedulesVars, linksVars, sandboxVars,
               driftVars>>
  /\ MigrationsFairness /\ SchedulesFairness /\ SandboxFairness

=============================================================================
