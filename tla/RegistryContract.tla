-------------------------- MODULE RegistryContract --------------------------
(***************************************************************************)
(* What the registry of one run promises those who predict with it, with no *)
(* word of handlers, hosts, files or version numbers: one champion, which   *)
(* only a challenger that beat it replaces, and a log that says which model *)
(* answered.  Deaths (disturbed) cost challengers their promotion, and they *)
(* are the one thing after which an answer may be misnamed.                 *)
(***************************************************************************)
CONSTANTS Versions,  \* what a version may be called
          Askers,    \* predictions
          NoVersion  \* what answers before there is a version

VARIABLES
  listed,    \* the versions of the run
  champions, \* those that are served
  won,       \* a challenger with the champion it beat, until it is promoted
  asking,    \* a prediction with the version it will be logged under
  named,     \* the versions predictions were logged under
  misnamed,  \* those of which another model answered
  disturbed  \* a handler died

vars == <<listed, champions, won, asking, named, misnamed, disturbed>>
rivals == <<listed, champions, won>>
log == <<asking, named, misnamed>>

Init ==
  /\ listed = {} /\ champions = {} /\ won = {}
  /\ asking = {} /\ named = {} /\ misnamed = {}
  /\ disturbed = FALSE

Register(v) ==
  /\ listed = {}
  /\ listed' = {v} /\ champions' = {v}
  /\ UNCHANGED <<won, log, disturbed>>

\* A challenger is listed whether it beat the champion or not.
Challenge(v) ==
  /\ listed # {} /\ v \notin listed
  /\ listed' = listed \union {v}
  /\ \/ won' = won
     \/ \E c \in champions : won' = won \union {<<v, c>>}
  /\ UNCHANGED <<champions, log, disturbed>>

Promote(v, c) ==
  /\ <<v, c>> \in won /\ champions = {c}
  /\ champions' = {v}
  /\ won' = won \ {<<v, c>>}
  /\ UNCHANGED <<listed, log, disturbed>>

Ask(q) ==
  /\ \/ \E v \in champions : asking' = asking \union {<<q, v>>}
     \/ champions = {} /\ asking' = asking \union {<<q, NoVersion>>}
  /\ UNCHANGED <<rivals, named, misnamed, disturbed>>

Answer(q, v) ==
  /\ <<q, v>> \in asking
  /\ asking' = asking \ {<<q, v>>}
  /\ named' = named \union {v}
  /\ \/ misnamed' = misnamed
     \/ disturbed /\ misnamed' = misnamed \union {v}
  /\ UNCHANGED <<rivals, disturbed>>

Refuse(q, v) ==
  /\ <<q, v>> \in asking
  /\ asking' = asking \ {<<q, v>>}
  /\ UNCHANGED <<rivals, named, misnamed, disturbed>>

Disturb ==
  /\ disturbed' = TRUE
  /\ won' \subseteq won
  /\ UNCHANGED <<listed, champions, log>>

Next ==
  \/ \E v \in Versions :
       \/ Register(v) \/ Challenge(v)
       \/ \E c \in Versions : Promote(v, c)
  \/ \E q \in Askers :
       \/ Ask(q)
       \/ \E v \in Versions \union {NoVersion} : Answer(q, v) \/ Refuse(q, v)
  \/ Disturb

Spec == Init /\ [][Next]_vars
=============================================================================
