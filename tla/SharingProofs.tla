--------------------------- MODULE SharingProofs ----------------------------
(***************************************************************************)
(* Two ways in which a result leaves the application.  Share links, for any *)
(* number of tokens, visitors and uploads: types, and that a link which had *)
(* ended when somebody came with it shows nothing, whatever the two         *)
(* transactions of its making and the three of a deletion are beside.       *)
(* Report schedules, for any number of schedules, cron calls and workers:   *)
(* types, and that a second report in one interval needs a schedule that    *)
(* was handed over twice, or whose processing died half way.                *)
(***************************************************************************)
EXTENDS ShareLinks, ReportSchedules, SequenceTheorems, TLAPS

-----------------------------------------------------------------------------
(* Links: the invariant                                                     *)

LinkRow == [there : BOOLEAN, left : Nat, revoked : BOOLEAN]
Visit == [at : {"outside", "presented", "resolved", "served", "refused"},
          token : Tokens \union {NoToken}, late : BOOLEAN]

\* What a deletion may have yet to do.
Remainders ==
  {<<>>,
   <<"row", "files", "links">>, <<"files", "links">>, <<"links">>,
   <<"files", "links", "row">>, <<"links", "row">>, <<"row">>}

LinkTypeOK ==
  /\ runRow \in BOOLEAN /\ files \in BOOLEAN
  /\ era \in Nat /\ ended \in Nat
  /\ maker \in [Tokens -> {"idle", "owned", "done"}]
  /\ made \in [Tokens -> Nat]
  /\ link \in [Tokens -> LinkRow]
  /\ age \in [Tokens -> Nat]
  /\ visit \in [Visitors -> Visit]
  /\ purge \in Remainders
  /\ strays \in SUBSET Tokens

\* A deletion takes the row before it ends, so whoever finds the row outside a
\* deletion is in an era that has not ended.
Eras ==
  /\ ended <= era
  /\ runRow /\ purge = <<>> => ended < era
  /\ purge \in {<<"files", "links">>, <<"links">>} => ~runRow

\* The window of a link never reaches beyond MaxTtl, and opens once.
Unopened(t) == maker[t] = "done" \/ (~link[t].there /\ age[t] = 0)
Window(t) ==
  link[t].left > 0 => link[t].there /\ age[t] + link[t].left <= MaxTtl

\* A token that was not beside a deletion belongs to an era that has not
\* ended, or has no link.
Belongs(t) ==
  /\ maker[t] = "owned" => purge = <<>> /\ ended < made[t]
  /\ link[t].there => purge # <<"row">> /\ ended < made[t]
  /\ made[t] <= era

\* A link that lets nobody in any more.
Dead(t) == maker[t] = "done" /\ ~IsActive(link[t])

LateAt(v) ==
  visit[v].late =>
    \/ visit[v].at = "presented" /\ visit[v].token \in Tokens
                                 /\ Dead(visit[v].token)
    \/ visit[v].at = "refused"

\* What a visitor in front of the link holds is a token.
HoldsAt(v) ==
  visit[v].at \in {"presented", "resolved"} => visit[v].token \in Tokens

LInv ==
  /\ LinkTypeOK
  /\ Eras
  /\ \A t \in Tokens : Unopened(t) /\ Window(t)
  /\ \A t \in Tokens \ strays : Belongs(t)
  /\ \A v \in Visitors : LateAt(v) /\ HoldsAt(v)

LEMMA InitLInv ==
  ASSUME LinksConstants, LinksInit
  PROVE  LInv
<1>1. LinkTypeOK
  BY DEF LinksConstants, LinksInit, LinkTypeOK, LinkRow, Visit, Remainders,
         NoLink, Outside
<1>2. Eras
  BY DEF LinksInit, Eras
<1>0. \A t \in Tokens :
         /\ link[t].there = FALSE /\ link[t].left = 0
         /\ age[t] = 0 /\ made[t] = 0 /\ maker[t] = "idle"
  BY DEF LinksInit, NoLink
<1>3. \A t \in Tokens : Unopened(t)
  BY <1>0 DEF Unopened
<1>4. \A t \in Tokens : Window(t)
  BY <1>0 DEF Window
<1>5. ASSUME NEW t \in Tokens
      PROVE  Belongs(t)
  <2>1. ~link[t].there /\ made[t] = 0 /\ maker[t] = "idle"
    BY <1>0
  <2>2. era = 1
    BY DEF LinksInit
  <2> QED
    BY <2>1, <2>2 DEF Belongs
<1>6. \A v \in Visitors : LateAt(v) /\ HoldsAt(v)
  BY DEF LinksInit, LateAt, HoldsAt, Outside
<1> QED
  BY <1>1, <1>2, <1>3, <1>4, <1>5, <1>6 DEF LInv

-----------------------------------------------------------------------------
(* Links: the steps of a deletion                                           *)

\* Where a deletion stands after its next step, and what that step was.
LEMMA Onward ==
  ASSUME NEW p \in Remainders, p # <<>>
  PROVE  /\ Tail(p) \in Remainders
         /\ Tail(p) = <<>> <=> Len(p) = 1
         /\ Len(p) = 1 => p \in {<<"links">>, <<"row">>}
         /\ Tail(p) \in {<<"files", "links">>, <<"links">>} =>
              p[1] = "row" \/ p = <<"files", "links">>
         /\ Tail(p) = <<"row">> => p[1] = "links"
<1>1. CASE p = <<"row", "files", "links">>
  <2>1. Tail(p) = <<"files", "links">>
    BY <1>1
  <2> QED
    BY <1>1, <2>1 DEF Remainders
<1>2. CASE p = <<"files", "links">>
  <2>1. Tail(p) = <<"links">>
    BY <1>2
  <2> QED
    BY <1>2, <2>1 DEF Remainders
<1>3. CASE p = <<"links">>
  <2>1. Tail(p) = <<>>
    BY <1>3
  <2> QED
    BY <1>3, <2>1 DEF Remainders
<1>4. CASE p = <<"files", "links", "row">>
  <2>1. Tail(p) = <<"links", "row">>
    BY <1>4
  <2> QED
    BY <1>4, <2>1 DEF Remainders
<1>5. CASE p = <<"links", "row">>
  <2>1. Tail(p) = <<"row">>
    BY <1>5
  <2> QED
    BY <1>5, <2>1 DEF Remainders
<1>6. CASE p = <<"row">>
  <2>1. Tail(p) = <<>>
    BY <1>6
  <2> QED
    BY <1>6, <2>1 DEF Remainders
<1> QED
  BY <1>1, <1>2, <1>3, <1>4, <1>5, <1>6 DEF Remainders

-----------------------------------------------------------------------------
(* Links: ended links                                                       *)

\* A link that has ended is dead, for each of the three reasons it may end.
LEMMA EndedIsDead ==
  ASSUME LinksConstants, LInv, NEW t \in Tokens, maker[t] = "done", Ended(t)
  PROVE  Dead(t)
<1>1. link[t] \in LinkRow /\ age[t] \in Nat
  BY DEF LInv, LinkTypeOK
<1>2. CASE link[t].revoked
  BY <1>2 DEF Dead, IsActive
<1>3. CASE age[t] >= MaxTtl
  <2>1. Window(t)
    BY DEF LInv
  <2>2. SUFFICES ASSUME link[t].left > 0 PROVE FALSE
    BY DEF Dead, IsActive
  <2>3. age[t] + link[t].left <= MaxTtl
    BY <2>1, <2>2 DEF Window
  <2>4. link[t].left \in Nat
    BY <1>1 DEF LinkRow
  <2> QED
    BY <1>1, <1>3, <2>2, <2>3, <2>4 DEF LinksConstants
<1>4. CASE made[t] <= ended /\ t \notin strays
  <2>1. Belongs(t)
    BY <1>4 DEF LInv
  <2>2. made[t] \in Nat /\ ended \in Nat
    BY DEF LInv, LinkTypeOK
  <2>3. ~link[t].there
    BY <1>4, <2>1, <2>2 DEF Belongs
  <2> QED
    BY <2>3 DEF Dead, IsActive
<1> QED
  BY <1>2, <1>3, <1>4 DEF Ended

\* Nothing opens a dead link again.
LEMMA DeadStays ==
  ASSUME LinksConstants, LInv, [LinksNext]_linksVars, NEW t \in Tokens, Dead(t)
  PROVE  Dead(t)'
<1>0. /\ maker \in [Tokens -> {"idle", "owned", "done"}]
      /\ link \in [Tokens -> LinkRow] /\ link[t] \in LinkRow
  BY DEF LInv, LinkTypeOK
<1>1. ASSUME NEW u \in Tokens, CheckOwner(u)
      PROVE  Dead(t)'
  <2>1. u # t /\ maker'[t] = maker[t] /\ link' = link
    BY <1>0, <1>1 DEF CheckOwner, Dead
  <2> QED
    BY <2>1 DEF Dead, IsActive
<1>2. ASSUME NEW u \in Tokens, CreateLink(u)
      PROVE  Dead(t)'
  <2>1. u # t /\ maker'[t] = maker[t] /\ link'[t] = link[t]
    BY <1>0, <1>2 DEF CreateLink, Dead
  <2> QED
    BY <2>1 DEF Dead, IsActive
<1>3. ASSUME NEW u \in Tokens, RevokeLink(u)
      PROVE  Dead(t)'
  <2>1. maker' = maker
    BY <1>3 DEF RevokeLink
  <2>2. link'[t] = link[t] \/ link'[t].revoked
    BY <1>0, <1>3 DEF RevokeLink, LinkRow
  <2> QED
    BY <2>1, <2>2 DEF Dead, IsActive
<1>4. CASE DeletionStep
  <2>1. maker' = maker
    BY <1>4 DEF DeletionStep
  <2>2. link'[t] = link[t] \/ link'[t] = NoLink
    BY <1>4 DEF DeletionStep
  <2> QED
    BY <2>1, <2>2 DEF Dead, IsActive, NoLink
<1>5. CASE Day
  <2>1. maker' = maker
    BY <1>5 DEF Day
  <2>2. link'[t] = IF link[t].left > 0
                   THEN [link[t] EXCEPT !.left = @ - 1] ELSE link[t]
    BY <1>5 DEF Day
  <2>3. link'[t].there = link[t].there /\ link'[t].revoked = link[t].revoked
    BY <1>0, <2>2 DEF LinkRow
  <2>4. link[t].left > 0 \/ link'[t].left = link[t].left
    BY <2>2
  <2> QED
    BY <2>1, <2>3, <2>4 DEF Dead, IsActive
<1>6. ASSUME UNCHANGED <<maker, link>>
      PROVE  Dead(t)'
  BY <1>6 DEF Dead, IsActive
<1> QED
  BY <1>1, <1>2, <1>3, <1>4, <1>5, <1>6
     DEF LinksNext, linksVars, runVars, links, Upload, StartDeletion, Present,
         ResolveToken,
         LoadMetadata

-----------------------------------------------------------------------------
(* Links: the owner, the run and time keep the invariant                    *)

\* Visitors are not concerned by the others' steps.
LEMMA VisitorsKept ==
  ASSUME LinksConstants, LInv, [LinksNext]_linksVars, UNCHANGED visit,
     NEW v \in Visitors
  PROVE  LateAt(v)' /\ HoldsAt(v)'
<1>1. LateAt(v) /\ HoldsAt(v)
  BY DEF LInv
<1>2. HoldsAt(v)'
  BY <1>1 DEF HoldsAt
<1>3. ASSUME visit[v].token \in Tokens, Dead(visit[v].token)
      PROVE  Dead(visit[v].token)'
  BY <1>3, DeadStays
<1>4. LateAt(v)'
  BY <1>1, <1>3 DEF LateAt
<1> QED
  BY <1>2, <1>4

LEMMA CheckOwnerLInv ==
  ASSUME LinksConstants, LInv, NEW t \in Tokens, CheckOwner(t)
  PROVE  LInv'
<1>1. LinkTypeOK'
  BY DEF LInv, LinkTypeOK, CheckOwner, runVars
<1>2. Eras'
  BY DEF LInv, Eras, CheckOwner, runVars
<1>3. ASSUME NEW u \in Tokens
      PROVE  Unopened(u)' /\ Window(u)'
  <2>1. Unopened(u) /\ Window(u)
    BY DEF LInv
  <2>2. maker[u] = "done" => maker'[u] = "done"
    BY DEF LInv, LinkTypeOK, CheckOwner
  <2>3. link' = link /\ age' = age
    BY DEF CheckOwner
  <2> QED
    BY <2>1, <2>2, <2>3 DEF Unopened, Window
<1>4. ASSUME NEW u \in Tokens \ strays'
      PROVE  Belongs(u)'
  <2>1. u \notin strays /\ Belongs(u) /\ UNCHANGED <<link, purge, era, ended>>
    BY DEF LInv, CheckOwner, runVars
  <2>2. CASE u = t
    <3>1. maker'[u] = "owned" /\ made'[u] = era
      BY <2>2 DEF LInv, LinkTypeOK, CheckOwner
    <3>2. purge = <<>> /\ ended < era
      BY <2>2 DEF LInv, Eras, CheckOwner
    <3> QED
      BY <2>1, <3>1, <3>2 DEF Belongs, LInv, LinkTypeOK
  <2>3. CASE u # t
    <3>1. maker'[u] = maker[u] /\ made'[u] = made[u]
      BY <2>3 DEF LInv, LinkTypeOK, CheckOwner
    <3> QED
      BY <2>1, <3>1 DEF Belongs
  <2> QED
    BY <2>2, <2>3
<1>5. \A v \in Visitors : LateAt(v)' /\ HoldsAt(v)'
  BY VisitorsKept DEF LinksNext, CheckOwner
<1> QED
  BY <1>1, <1>2, <1>3, <1>4, <1>5 DEF LInv

\* How long a link may be asked for.
LEMMA TtlBounded ==
  ASSUME LinksConstants, NEW asked \in Asked
  PROVE  Ttl(asked) \in Nat /\ Ttl(asked) <= MaxTtl
BY DEF LinksConstants, Ttl, Least

LEMMA CreateLinkLInv ==
  ASSUME LinksConstants, LInv, NEW t \in Tokens, CreateLink(t)
  PROVE  LInv'
<1>0. PICK asked \in Asked :
        link' = [link EXCEPT ![t] =
                   [there |-> TRUE, left |-> Ttl(asked), revoked |-> FALSE]]
  BY DEF CreateLink
<1>a. Ttl(asked) \in Nat /\ Ttl(asked) <= MaxTtl
  BY TtlBounded
<1>b. /\ link'[t] = [there |-> TRUE, left |-> Ttl(asked), revoked |-> FALSE]
      /\ maker[t] = "owned" /\ maker'[t] = "done"
      /\ UNCHANGED <<runVars, made, age, strays>>
      /\ \A u \in Tokens \ {t} : link'[u] = link[u] /\ maker'[u] = maker[u]
  BY <1>0 DEF LInv, LinkTypeOK, CreateLink
<1>1. LinkTypeOK'
  <2>1. [there |-> TRUE, left |-> Ttl(asked), revoked |-> FALSE] \in LinkRow
    BY <1>a DEF LinkRow
  <2> QED
    BY <1>0, <2>1 DEF LInv, LinkTypeOK, CreateLink, runVars
<1>2. Eras'
  BY DEF LInv, Eras, CreateLink, runVars
<1>3. ASSUME NEW u \in Tokens
      PROVE  Unopened(u)' /\ Window(u)'
  <2>1. Unopened(u) /\ Window(u)
    BY DEF LInv
  <2>2. CASE u = t
    <3>1. age'[u] = 0
      BY <1>b, <2>1, <2>2 DEF Unopened
    <3> QED
      BY <1>a, <1>b, <2>2, <3>1 DEF Unopened, Window
  <2>3. CASE u # t
    BY <1>b, <2>1, <2>3 DEF Unopened, Window
  <2> QED
    BY <2>2, <2>3
<1>4. ASSUME NEW u \in Tokens \ strays'
      PROVE  Belongs(u)'
  <2>1. Belongs(u) /\ UNCHANGED <<purge, era, ended, made>>
    BY <1>b DEF LInv, runVars
  <2>2. CASE u = t
    <3>1. purge' = <<>> /\ ended' < made'[u] /\ made'[u] <= era'
      BY <1>b, <2>1, <2>2 DEF Belongs
    <3>2. <<>> # <<"row">> /\ maker'[u] # "owned"
      BY <1>b, <2>2
    <3> QED
      BY <3>1, <3>2 DEF Belongs
  <2>3. CASE u # t
    BY <1>b, <2>1, <2>3 DEF Belongs
  <2> QED
    BY <2>2, <2>3
<1>5. \A v \in Visitors : LateAt(v)' /\ HoldsAt(v)'
  BY VisitorsKept DEF LinksNext, CreateLink
<1> QED
  BY <1>1, <1>2, <1>3, <1>4, <1>5 DEF LInv

LEMMA RevokeLinkLInv ==
  ASSUME LinksConstants, LInv, NEW t \in Tokens, RevokeLink(t)
  PROVE  LInv'
<1>0. /\ link' = [link EXCEPT ![t].revoked = TRUE]
      /\ UNCHANGED <<runVars, maker, made, age, visit, strays>>
  BY DEF RevokeLink
<1>a. \A u \in Tokens : /\ link'[u] \in LinkRow
                        /\ link'[u].there = link[u].there
                        /\ link'[u].left = link[u].left
  BY <1>0 DEF LInv, LinkTypeOK, LinkRow
<1>1. LinkTypeOK'
  <2>1. link' \in [Tokens -> LinkRow]
    BY <1>0 DEF LInv, LinkTypeOK, LinkRow
  <2> QED
    BY <1>0, <2>1 DEF LInv, LinkTypeOK, runVars
<1>2. Eras'
  BY <1>0 DEF LInv, Eras, runVars
<1>3. ASSUME NEW u \in Tokens
      PROVE  Unopened(u)' /\ Window(u)'
  BY <1>0, <1>a DEF LInv, Unopened, Window
<1>4. ASSUME NEW u \in Tokens \ strays'
      PROVE  Belongs(u)'
  BY <1>0, <1>a DEF LInv, Belongs, runVars
<1>5. \A v \in Visitors : LateAt(v)' /\ HoldsAt(v)'
  BY <1>0, VisitorsKept DEF LinksNext
<1> QED
  BY <1>1, <1>2, <1>3, <1>4, <1>5 DEF LInv

LEMMA UploadLInv ==
  ASSUME LinksConstants, LInv, Upload
  PROVE  LInv'
<1>1. LinkTypeOK'
  BY DEF LInv, LinkTypeOK, Upload, links
<1>2. Eras'
  BY DEF LInv, LinkTypeOK, Eras, Upload
<1>3. ASSUME NEW u \in Tokens
      PROVE  Unopened(u)' /\ Window(u)'
  BY DEF LInv, Unopened, Window, Upload, links
<1>4. ASSUME NEW u \in Tokens \ strays'
      PROVE  Belongs(u)'
  <2>1. Belongs(u) /\ era \in Nat /\ made[u] \in Nat
    BY DEF LInv, LinkTypeOK, Upload, links
  <2> QED
    BY <2>1 DEF Belongs, Upload, links
<1>5. \A v \in Visitors : LateAt(v)' /\ HoldsAt(v)'
  BY VisitorsKept DEF LinksNext, Upload
<1> QED
  BY <1>1, <1>2, <1>3, <1>4, <1>5 DEF LInv

LEMMA StartDeletionLInv ==
  ASSUME LinksConstants, LInv, StartDeletion
  PROVE  LInv'
<1>1. LinkTypeOK'
  BY DEF LInv, LinkTypeOK, StartDeletion, Orders, Remainders
<1>2. Eras'
  <2>1. Len(purge') = 3
    BY DEF StartDeletion, Orders
  <2>2. purge' # <<>> /\ purge' # <<"files", "links">> /\ purge' # <<"links">>
    BY <2>1
  <2> QED
    BY <2>2 DEF LInv, Eras, StartDeletion
<1>3. ASSUME NEW u \in Tokens
      PROVE  Unopened(u)' /\ Window(u)'
  BY DEF LInv, Unopened, Window, StartDeletion
<1>4. ASSUME NEW u \in Tokens \ strays'
      PROVE  Belongs(u)'
  <2>1. Belongs(u) /\ maker[u] # "owned"
    BY DEF LInv, StartDeletion
  <2>2. purge' # <<"row">>
    BY DEF StartDeletion, Orders
  <2> QED
    BY <2>1, <2>2 DEF Belongs, StartDeletion
<1>5. \A v \in Visitors : LateAt(v)' /\ HoldsAt(v)'
  BY VisitorsKept DEF LinksNext, StartDeletion
<1> QED
  BY <1>1, <1>2, <1>3, <1>4, <1>5 DEF LInv

LEMMA DeletionEras ==
  ASSUME LInv, DeletionStep
  PROVE  Eras'
<1>0. /\ purge \in Remainders /\ purge # <<>> /\ purge' = Tail(purge)
      /\ era \in Nat /\ ended \in Nat /\ ended <= era /\ era' = era
  BY DEF LInv, LinkTypeOK, Eras, DeletionStep
<1>1. ended' <= era'
  BY <1>0 DEF DeletionStep
<1>2. (runRow' => runRow) /\ (purge[1] = "row" => ~runRow')
  BY DEF DeletionStep
<1>3. purge \in {<<"files", "links">>, <<"links">>} => ~runRow
  BY DEF LInv, Eras
<1>4. ASSUME purge' = <<>>
      PROVE  ~runRow'
  <2>1. purge = <<"links">> \/ purge = <<"row">>
    BY <1>0, <1>4, Onward
  <2>2. CASE purge = <<"links">>
    BY <1>2, <1>3, <2>2
  <2>3. CASE purge = <<"row">>
    <3>1. purge[1] = "row"
      BY <2>3
    <3> QED
      BY <1>2, <3>1
  <2> QED
    BY <2>1, <2>2, <2>3
<1>5. ASSUME purge' \in {<<"files", "links">>, <<"links">>}
      PROVE  ~runRow'
  <2>1. purge[1] = "row" \/ purge = <<"files", "links">>
    BY <1>0, <1>5, Onward
  <2> QED
    BY <1>2, <1>3, <2>1
<1> QED
  BY <1>1, <1>4, <1>5 DEF Eras

LEMMA DeletionStepLInv ==
  ASSUME LinksConstants, LInv, DeletionStep
  PROVE  LInv'
<1>0. /\ purge \in Remainders /\ purge # <<>> /\ purge' = Tail(purge)
      /\ UNCHANGED <<era, maker, made, age, strays, visit>>
  BY DEF LInv, LinkTypeOK, DeletionStep
<1>a. CASE purge[1] = "links"
  <2>1. \A u \in Tokens : link'[u] = NoLink
    BY <1>a DEF DeletionStep
  <2>2. ASSUME NEW u \in Tokens
        PROVE  link'[u] \in LinkRow /\ ~link'[u].there /\ link'[u].left = 0
    <3>1. NoLink \in LinkRow /\ NoLink.there = FALSE /\ NoLink.left = 0
      BY DEF NoLink, LinkRow
    <3> QED
      BY <2>1, <3>1
  <2>3. link' \in [Tokens -> LinkRow]
    BY <1>a, <2>1, <2>2 DEF DeletionStep
  <2>4. LinkTypeOK'
    BY <1>0, <2>3, Onward DEF LInv, LinkTypeOK, DeletionStep
  <2>5. Eras'
    BY DeletionEras
  <2>6. ASSUME NEW u \in Tokens
        PROVE  Unopened(u)' /\ Window(u)'
    BY <1>0, <2>2 DEF LInv, Unopened, Window
  <2>7. ASSUME NEW u \in Tokens \ strays'
        PROVE  Belongs(u)'
    <3>1. Belongs(u)
      BY <1>0 DEF LInv
    <3> QED
      BY <1>0, <2>2, <3>1 DEF Belongs
  <2>8. \A v \in Visitors : LateAt(v)' /\ HoldsAt(v)'
    BY <1>0, VisitorsKept DEF LinksNext
  <2> QED
    BY <2>4, <2>5, <2>6, <2>7, <2>8 DEF LInv
<1>b. CASE purge[1] # "links"
  <2>1. link' = link
    BY <1>b DEF DeletionStep
  <2>2. LinkTypeOK'
    BY <1>0, <2>1, Onward DEF LInv, LinkTypeOK, DeletionStep
  <2>3. Eras'
    BY DeletionEras
  <2>4. ASSUME NEW u \in Tokens
        PROVE  Unopened(u)' /\ Window(u)'
    BY <1>0, <2>1 DEF LInv, Unopened, Window
  <2>5. ASSUME NEW u \in Tokens \ strays'
        PROVE  Belongs(u)'
    <3>1. Belongs(u)
      BY <1>0 DEF LInv
    <3>2. purge' # <<"row">>
      BY <1>0, <1>b, Onward
    <3>3. ended' = ended \/ purge = <<"row">>
      BY <1>0, <1>b, Onward DEF DeletionStep
    <3> QED
      BY <1>0, <2>1, <3>1, <3>2, <3>3 DEF Belongs
  <2>6. \A v \in Visitors : LateAt(v)' /\ HoldsAt(v)'
    BY <1>0, VisitorsKept DEF LinksNext
  <2> QED
    BY <2>2, <2>3, <2>4, <2>5, <2>6 DEF LInv
<1> QED
  BY <1>a, <1>b

LEMMA DayLInv ==
  ASSUME LinksConstants, LInv, Day
  PROVE  LInv'
<1>0. UNCHANGED <<runVars, maker, made, strays, visit>>
  BY DEF Day
<1>1. ASSUME NEW u \in Tokens
      PROVE  /\ link'[u] = IF link[u].left > 0
                           THEN [link[u] EXCEPT !.left = @ - 1] ELSE link[u]
             /\ age'[u] = IF link[u].there /\ age[u] <= MaxTtl
                          THEN age[u] + 1 ELSE age[u]
             /\ link[u] \in LinkRow /\ age[u] \in Nat
  BY DEF Day, LInv, LinkTypeOK
<1>2. ASSUME NEW u \in Tokens
      PROVE  /\ link'[u] \in LinkRow
             /\ link'[u].there = link[u].there
             /\ link'[u].left = IF link[u].left > 0 THEN link[u].left - 1
                                ELSE link[u].left
  <2>1. link[u].left \in Nat
    BY <1>1 DEF LinkRow
  <2>2. CASE link[u].left > 0
    <3>1. link[u].left - 1 \in Nat
      BY <2>1, <2>2
    <3>2. link'[u] = [link[u] EXCEPT !.left = link[u].left - 1]
      BY <1>1, <2>2
    <3> QED
      BY <1>1, <2>2, <3>1, <3>2 DEF LinkRow
  <2>3. CASE ~(link[u].left > 0)
    <3>1. link'[u] = link[u] /\ link[u] \in LinkRow
      BY <1>1, <2>3
    <3> QED
      BY <2>3, <3>1
  <2> QED
    BY <2>2, <2>3
<1>a. ASSUME NEW u \in Tokens
      PROVE  /\ age'[u] \in Nat /\ age'[u] <= age[u] + 1
             /\ ~link[u].there => age'[u] = age[u]
  <2>1. /\ age[u] \in Nat
        /\ age'[u] = IF link[u].there /\ age[u] <= MaxTtl
                     THEN age[u] + 1 ELSE age[u]
    BY <1>1
  <2>2. CASE link[u].there /\ age[u] <= MaxTtl
    BY <2>1, <2>2
  <2>3. CASE ~(link[u].there /\ age[u] <= MaxTtl)
    BY <2>1, <2>3
  <2> QED
    BY <2>2, <2>3
<1>3. LinkTypeOK'
  <2>1. link' \in [Tokens -> LinkRow] /\ age' \in [Tokens -> Nat]
    BY <1>2, <1>a DEF Day
  <2> QED
    BY <1>0, <2>1 DEF LInv, LinkTypeOK, runVars
<1>4. Eras'
  BY <1>0 DEF LInv, Eras, runVars
<1>5. ASSUME NEW u \in Tokens
      PROVE  Unopened(u)' /\ Window(u)'
  <2>1. Unopened(u) /\ Window(u)
    BY DEF LInv
  <2>2. Unopened(u)'
    BY <1>0, <1>2, <1>a, <2>1 DEF Unopened
  <2>3. Window(u)'
    <3>1. SUFFICES ASSUME link'[u].left > 0
                   PROVE  link'[u].there /\ age'[u] + link'[u].left <= MaxTtl
      BY DEF Window
    <3>2. link[u].left \in Nat
      BY <1>1 DEF LinkRow
    <3>3. link[u].left > 0
      BY <1>2, <3>1, <3>2
    <3>4. link[u].there /\ age[u] + link[u].left <= MaxTtl
      BY <2>1, <3>3 DEF Window
    <3>5. /\ link'[u].there = link[u].there
          /\ link'[u].left = link[u].left - 1
      BY <1>2, <3>3
    <3>6. /\ age[u] \in Nat /\ age'[u] \in Nat /\ age'[u] <= age[u] + 1
          /\ MaxTtl \in Nat
      BY <1>1, <1>a DEF LinksConstants
    <3> QED
      BY <3>2, <3>4, <3>5, <3>6
  <2> QED
    BY <2>2, <2>3
<1>6. ASSUME NEW u \in Tokens \ strays'
      PROVE  Belongs(u)'
  BY <1>0, <1>2 DEF LInv, Belongs, runVars
<1>7. \A v \in Visitors : LateAt(v)' /\ HoldsAt(v)'
  BY <1>0, VisitorsKept DEF LinksNext
<1> QED
  BY <1>3, <1>4, <1>5, <1>6, <1>7 DEF LInv

-----------------------------------------------------------------------------
(* Links: visitors keep the invariant                                       *)

\* A visitor changes nothing but its own place.
LEMMA VisitLInv ==
  ASSUME LinksConstants, LInv, NEW v \in Visitors, NEW new \in Visit,
         visit' = [visit EXCEPT ![v] = new], UNCHANGED <<runVars, links>>,
         LateAt(v)' /\ HoldsAt(v)'
  PROVE  LInv'
<1>1. LinkTypeOK'
  BY DEF LInv, LinkTypeOK, runVars, links
<1>2. Eras'
  BY DEF LInv, Eras, runVars
<1>3. \A t \in Tokens : Unopened(t)' /\ Window(t)'
  BY DEF LInv, Unopened, Window, links
<1>4. \A t \in Tokens \ strays' : Belongs(t)'
  BY DEF LInv, Belongs, runVars, links
<1>5. ASSUME NEW w \in Visitors \ {v}
      PROVE  LateAt(w)' /\ HoldsAt(w)'
  <2>1. visit'[w] = visit[w] /\ UNCHANGED <<maker, link>>
    BY DEF LInv, LinkTypeOK, links
  <2>2. LateAt(w) /\ HoldsAt(w)
    BY DEF LInv
  <2> QED
    BY <2>1, <2>2 DEF LateAt, HoldsAt, Dead, IsActive
<1> QED
  BY <1>1, <1>2, <1>3, <1>4, <1>5 DEF LInv

LEMMA VisitorsLInv ==
  ASSUME LinksConstants, LInv, NEW v \in Visitors,
         Present(v) \/ ResolveToken(v) \/ LoadMetadata(v)
  PROVE  LInv'
<1>0. /\ visit \in [Visitors -> Visit] /\ visit[v] \in Visit
      /\ LateAt(v) /\ HoldsAt(v)
  BY DEF LInv, LinkTypeOK
<1>1. CASE Present(v)
  <2>1. PICK t \in Tokens :
          /\ maker[t] = "done"
          /\ visit' = [visit EXCEPT ![v] =
                         [at |-> "presented", token |-> t, late |-> Ended(t)]]
    BY <1>1 DEF Present
  <2>2. [at |-> "presented", token |-> t, late |-> Ended(t)] \in Visit
    BY DEF Visit, Ended
  <2>3. visit'[v] = [at |-> "presented", token |-> t, late |-> Ended(t)]
    BY <1>0, <2>1
  <2>4. UNCHANGED <<runVars, links>> /\ UNCHANGED <<maker, link>>
    BY <1>1 DEF Present, links
  <2>5. Ended(t) => Dead(t)'
    BY <2>1, <2>4, EndedIsDead DEF Dead, IsActive
  <2>6. LateAt(v)' /\ HoldsAt(v)'
    BY <2>3, <2>5 DEF LateAt, HoldsAt
  <2> QED
    BY <2>1, <2>2, <2>4, <2>6, VisitLInv
<1>2. CASE ResolveToken(v)
  <2> DEFINE at == IF IsActive(link[visit[v].token]) THEN "resolved"
                   ELSE "refused"
             new == [visit[v] EXCEPT !.at = at]
  <2>1. visit' = [visit EXCEPT ![v] = new] /\ UNCHANGED <<runVars, links>>
    BY <1>0, <1>2 DEF ResolveToken
  <2>2. new \in Visit
    BY <1>0 DEF Visit
  <2>3. /\ visit'[v].at = at /\ visit'[v].token = visit[v].token
        /\ visit'[v].late = visit[v].late
    BY <1>0, <2>1 DEF Visit
  <2>4. visit[v].late => at = "refused"
    BY <1>0, <1>2 DEF LateAt, Dead, ResolveToken
  <2>5. LateAt(v)' /\ HoldsAt(v)'
    BY <1>0, <1>2, <2>3, <2>4 DEF LateAt, HoldsAt, ResolveToken
  <2> QED
    BY <2>1, <2>2, <2>5, VisitLInv
<1>3. CASE LoadMetadata(v)
  <2> DEFINE at == IF files THEN "served" ELSE "refused"
             new == [visit[v] EXCEPT !.at = at]
  <2>1. visit' = [visit EXCEPT ![v] = new] /\ UNCHANGED <<runVars, links>>
    BY <1>0, <1>3 DEF LoadMetadata
  <2>2. new \in Visit
    BY <1>0 DEF Visit
  <2>3. visit'[v].at = at /\ visit'[v].late = visit[v].late
    BY <1>0, <2>1 DEF Visit
  <2>4. ~visit[v].late
    BY <1>0, <1>3 DEF LateAt, LoadMetadata
  <2>5. LateAt(v)' /\ HoldsAt(v)'
    BY <2>3, <2>4 DEF LateAt, HoldsAt
  <2> QED
    BY <2>1, <2>2, <2>5, VisitLInv
<1> QED
  BY <1>1, <1>2, <1>3

-----------------------------------------------------------------------------
(* Links: the theorems                                                      *)

LEMMA NextLInv ==
  ASSUME LinksConstants, LInv, [LinksNext]_linksVars
  PROVE  LInv'
<1>1. CASE UNCHANGED linksVars
  BY <1>1 DEF linksVars, runVars, links, LInv, LinkTypeOK, Eras, Unopened, Window,
              Belongs,
              LateAt, HoldsAt, Dead, IsActive
<1> QED
  BY <1>1, CheckOwnerLInv, CreateLinkLInv, RevokeLinkLInv, UploadLInv,
     StartDeletionLInv, DeletionStepLInv, DayLInv, VisitorsLInv DEF LinksNext

LEMMA SpecLInv ==
  ASSUME LinksConstants
  PROVE  LinksSpec => []LInv
<1>1. LinksInit => LInv
  BY InitLInv
<1>2. LInv /\ [LinksNext]_linksVars => LInv'
  BY NextLInv
<1> QED
  BY <1>1, <1>2, PTL DEF LinksSpec

\* Types: every variable of the links keeps its type (models.py,
\* ShareLinkRecord), and a deletion has a remainder of one of its two orders.
THEOREM LinkTypes ==
  ASSUME LinksConstants
  PROVE  LinksSpec => []LinkTypeOK
<1>1. LInv => LinkTypeOK
  BY DEF LInv
<1> QED
  BY <1>1, SpecLInv, PTL

\* Whoever comes with a link that was revoked, is as old as any may be, or
\* whose run was deleted, is never shown the result, however many uploads and
\* visitors there are (sharing.py, resolve_token; routes/share.py).
THEOREM EndedLinksStayShut ==
  ASSUME LinksConstants
  PROVE  LinksSpec => []EndedStaysShut
<1>1. LInv => EndedStaysShut
  BY DEF LInv, LateAt, EndedStaysShut
<1> QED
  BY <1>1, SpecLInv, PTL

-----------------------------------------------------------------------------
(* Schedules: the invariant                                                 *)

ScheduleTypeOK ==
  /\ inline \in BOOLEAN
  /\ row \in [Schedules -> {"none", "there", "gone"}]
  /\ left \in [Schedules -> Nat]
  /\ run \in BOOLEAN
  /\ batch \in [Crons -> SUBSET Schedules]
  /\ queue \in Seq(Schedules)
  /\ hand \in [Procs -> Schedules \union {NoSchedule}]
  /\ stage \in [Procs -> {"idle", "taken", "building", "sending", "ending"}]
  /\ slips \in Nat
  /\ mails \in [Schedules -> 0..2]
  /\ doubled \in SUBSET Schedules

\* A process that is at work has a schedule in hand.
Working == \A p \in Procs : hand[p] = NoSchedule <=> stage[p] = "idle"

InBatch(s) == \E c \in Crons : s \in batch[c]
InQueue(s) == Contains(queue, s)
InHand(s) == \E p \in Procs : hand[p] = s

\* A schedule is in a sequence at most once.
AtMostOnce(q, s) ==
  \A i \in 1..Len(q), j \in 1..Len(q) : q[i] = s /\ q[j] = s => i = j

\* It was handed over once: it is in one place, and there once.
Single(s) ==
  /\ \A c \in Crons, d \in Crons : s \in batch[c] /\ s \in batch[d] => c = d
  /\ AtMostOnce(queue, s)
  /\ \A p \in Procs, q \in Procs : hand[p] = s /\ hand[q] = s => p = q
  /\ ~(InBatch(s) /\ InQueue(s))
  /\ ~(InBatch(s) /\ InHand(s))
  /\ ~(InQueue(s) /\ InHand(s))

\* Nothing has been sent before its processing comes to the end.
Unsent(s) ==
  /\ InBatch(s) \/ InQueue(s) => mails[s] = 0
  /\ \A p \in Procs : hand[p] = s /\ stage[p] # "ending" => mails[s] = 0
  /\ s \in Due /\ ~InHand(s) => mails[s] = 0
  /\ mails[s] < 2

\* What was handed over stays due until it is processed.
Timely(s) ==
  InBatch(s) \/ InQueue(s) \/ InHand(s) =>
    /\ row[s] # "none"
    /\ row[s] = "there" => left[s] = 0

Regular(s) == Single(s) /\ Unsent(s) /\ Timely(s)

RInv ==
  /\ ScheduleTypeOK
  /\ Working
  /\ \A s \in Schedules \ doubled : Regular(s)

LEMMA InitRInv ==
  ASSUME SchedulesConstants, SchedulesInit
  PROVE  RInv
<1>1. ScheduleTypeOK
  <2>1. \A s \in Schedules : Interval[s] \in Nat
    BY DEF SchedulesConstants
  <2>2. left \in [Schedules -> Nat]
    BY <2>1 DEF SchedulesInit, SchedulesConstants
  <2> QED
    BY <2>2 DEF SchedulesInit, ScheduleTypeOK
<1>2. Working
  BY DEF SchedulesInit, Working
<1>3. ASSUME NEW s \in Schedules
      PROVE  Regular(s)
  <2>1. ~InBatch(s)
    BY DEF SchedulesInit, InBatch
  <2>2. ~InQueue(s) /\ AtMostOnce(queue, s)
    BY DEF SchedulesInit, InQueue, Contains, AtMostOnce
  <2>3. ~InHand(s) /\ \A p \in Procs : hand[p] # s
    BY DEF SchedulesInit, InHand, SchedulesConstants
  <2>4. mails[s] = 0
    BY DEF SchedulesInit
  <2>5. Single(s)
    BY <2>1, <2>2, <2>3 DEF Single, InBatch
  <2>6. Unsent(s)
    BY <2>4 DEF Unsent
  <2>7. Timely(s)
    BY <2>1, <2>2, <2>3 DEF Timely
  <2> QED
    BY <2>5, <2>6, <2>7 DEF Regular
<1> QED
  BY <1>1, <1>2, <1>3 DEF RInv

-----------------------------------------------------------------------------
(* Schedules: the queue                                                     *)

LEMMA AppendOnce ==
  ASSUME NEW q \in Seq(Schedules), NEW e \in Schedules, NEW s \in Schedules
  PROVE  /\ Contains(Append(q, e), s) <=> Contains(q, s) \/ s = e
         /\ AtMostOnce(q, s) /\ (s # e \/ ~Contains(q, s)) =>
              AtMostOnce(Append(q, e), s)
<1> DEFINE a == Append(q, e)
<1>1. /\ Len(q) \in Nat /\ Len(a) = Len(q) + 1
      /\ \A i \in 1..Len(q) : a[i] = q[i]
      /\ a[Len(q) + 1] = e
  BY AppendProperties, LenProperties
<1> HIDE DEF a
<1>2. Contains(a, s) <=> Contains(q, s) \/ s = e
  BY <1>1 DEF Contains
<1>3. ASSUME AtMostOnce(q, s), s # e \/ ~Contains(q, s)
      PROVE  AtMostOnce(a, s)
  BY <1>1, <1>3 DEF AtMostOnce, Contains
<1> QED
  BY <1>2, <1>3 DEF a

LEMMA TailOnce ==
  ASSUME NEW q \in Seq(Schedules), q # <<>>, NEW s \in Schedules
  PROVE  /\ Head(q) \in Schedules /\ Tail(q) \in Seq(Schedules)
         /\ Contains(q, s) <=> s = Head(q) \/ Contains(Tail(q), s)
         /\ AtMostOnce(q, s) =>
              /\ AtMostOnce(Tail(q), s)
              /\ s = Head(q) => ~Contains(Tail(q), s)
<1> DEFINE r == Tail(q)
<1>1. /\ Head(q) \in Schedules /\ r \in Seq(Schedules)
      /\ Len(q) \in Nat \ {0} /\ Len(r) = Len(q) - 1
      /\ \A i \in 1..Len(r) : r[i] = q[i + 1]
      /\ Head(q) = q[1]
  BY HeadTailProperties, EmptySeq, LenProperties
<1> HIDE DEF r
<1>2. \A i \in 2..Len(q) : i - 1 \in 1..Len(r) /\ r[i - 1] = q[i]
  BY <1>1
<1>3. Contains(q, s) <=> s = q[1] \/ Contains(r, s)
  <2>1. ASSUME Contains(q, s), s # q[1]
        PROVE  Contains(r, s)
    <3>1. PICK i \in 1..Len(q) : q[i] = s
      BY <2>1 DEF Contains
    <3>2. i \in 2..Len(q)
      BY <1>1, <2>1, <3>1
    <3> QED
      BY <1>2, <3>1, <3>2 DEF Contains
  <2>2. ASSUME Contains(r, s)
        PROVE  Contains(q, s)
    BY <1>1, <2>2 DEF Contains
  <2>3. ASSUME s = q[1]
        PROVE  Contains(q, s)
    BY <1>1, <2>3 DEF Contains
  <2> QED
    BY <2>1, <2>2, <2>3
<1>4. ASSUME AtMostOnce(q, s)
      PROVE  AtMostOnce(r, s) /\ (s = q[1] => ~Contains(r, s))
  <2>1. ASSUME NEW i \in 1..Len(r), NEW j \in 1..Len(r), r[i] = s, r[j] = s
        PROVE  i = j
    <3>1. /\ i + 1 \in 1..Len(q) /\ j + 1 \in 1..Len(q)
          /\ q[i + 1] = s /\ q[j + 1] = s
      BY <1>1, <2>1
    <3>2. i + 1 = j + 1
      BY <1>4, <3>1 DEF AtMostOnce
    <3> QED
      BY <1>1, <3>2
  <2>2. ASSUME s = q[1], Contains(r, s)
        PROVE  FALSE
    <3>1. PICK i \in 1..Len(r) : r[i] = s
      BY <2>2 DEF Contains
    <3>2. i + 1 \in 1..Len(q) /\ 1 \in 1..Len(q) /\ q[i + 1] = s
      BY <1>1, <3>1
    <3>3. i + 1 = 1
      BY <1>4, <2>2, <3>2 DEF AtMostOnce
    <3> QED
      BY <1>1, <3>3
  <2> QED
    BY <2>1, <2>2 DEF AtMostOnce
<1> QED
  BY <1>1, <1>3, <1>4 DEF r

-----------------------------------------------------------------------------
(* Schedules: the owner, the run and time keep the invariant                *)

\* A schedule stays where it is.
LEMMA SingleKept ==
  ASSUME NEW s \in Schedules, Single(s), UNCHANGED <<batch, queue, hand>>
  PROVE  /\ Single(s)'
         /\ InBatch(s)' = InBatch(s) /\ InQueue(s)' = InQueue(s)
         /\ InHand(s)' = InHand(s)
BY DEF Single, InBatch, InQueue, InHand, AtMostOnce

LEMMA CreateScheduleRInv ==
  ASSUME SchedulesConstants, RInv, NEW t \in Schedules, CreateSchedule(t)
  PROVE  RInv'
<1>0. /\ row[t] = "none" /\ Interval[t] \in Nat \ {0}
      /\ row' = [row EXCEPT ![t] = "there"]
      /\ left' = [left EXCEPT ![t] = Interval[t]]
      /\ UNCHANGED <<inline, run, batch, queue, hand, stage, slips, mails,
                     doubled>>
  BY DEF CreateSchedule, SchedulesConstants
<1>1. ScheduleTypeOK' /\ Working'
  BY <1>0 DEF RInv, ScheduleTypeOK, Working
<1>2. ASSUME NEW s \in Schedules \ doubled'
      PROVE  Regular(s)'
  <2>1. Single(s) /\ Unsent(s) /\ Timely(s)
    BY <1>0 DEF RInv, Regular
  <2>2. /\ Single(s)'
        /\ InBatch(s)' = InBatch(s) /\ InQueue(s)' = InQueue(s)
        /\ InHand(s)' = InHand(s)
    BY <1>0, <2>1, SingleKept
  <2>3. /\ s = t => row'[s] = "there" /\ left'[s] > 0
        /\ s # t => row'[s] = row[s] /\ left'[s] = left[s]
    BY <1>0 DEF RInv, ScheduleTypeOK
  <2>4. Unsent(s)'
    BY <1>0, <2>1, <2>2, <2>3 DEF Unsent, Due
  <2>5. Timely(s)'
    BY <1>0, <2>1, <2>2, <2>3 DEF Timely
  <2> QED
    BY <2>2, <2>4, <2>5 DEF Regular
<1> QED
  BY <1>1, <1>2 DEF RInv

\* A schedule that goes is due no more.
LEMMA GoneRInv ==
  ASSUME RInv, NEW gone \in SUBSET Schedules,
         row' = [s \in Schedules |-> IF s \in gone THEN "gone" ELSE row[s]],
         UNCHANGED <<inline, left, run, batch, queue, hand, stage, slips,
                     mails, doubled>>
  PROVE  RInv'
<1>1. ScheduleTypeOK' /\ Working'
  BY DEF RInv, ScheduleTypeOK, Working
<1>2. ASSUME NEW s \in Schedules \ doubled'
      PROVE  Regular(s)'
  <2>1. Single(s) /\ Unsent(s) /\ Timely(s)
    BY DEF RInv, Regular
  <2>2. /\ Single(s)'
        /\ InBatch(s)' = InBatch(s) /\ InQueue(s)' = InQueue(s)
        /\ InHand(s)' = InHand(s)
    BY <2>1, SingleKept
  <2>3. row'[s] = "gone" \/ row'[s] = row[s]
    OBVIOUS
  <2>4. Unsent(s)'
    BY <2>1, <2>2, <2>3 DEF Unsent, Due
  <2>5. Timely(s)'
    BY <2>1, <2>2, <2>3 DEF Timely
  <2> QED
    BY <2>2, <2>4, <2>5 DEF Regular
<1> QED
  BY <1>1, <1>2 DEF RInv

LEMMA DeleteRInv ==
  ASSUME RInv, NEW t \in Schedules, DeleteSchedule(t) \/ DeleteSchedulesForRun
  PROVE  RInv'
<1>1. PICK gone \in SUBSET Schedules :
        row' = [s \in Schedules |-> IF s \in gone THEN "gone" ELSE row[s]]
  <2>1. CASE DeleteSchedule(t)
    <3>1. row' = [s \in Schedules |-> IF s \in {t} THEN "gone" ELSE row[s]]
      BY <2>1 DEF DeleteSchedule, RInv, ScheduleTypeOK
    <3> QED
      BY <3>1
  <2>2. CASE DeleteSchedulesForRun
    <3>1. row' = [s \in Schedules |->
                    IF s \in Schedules THEN "gone" ELSE row[s]]
      BY <2>2 DEF DeleteSchedulesForRun
    <3> QED
      BY <3>1
  <2> QED
    BY <2>1, <2>2
<1> QED
  BY <1>1, GoneRInv DEF DeleteSchedule, DeleteSchedulesForRun

LEMMA TickRInv ==
  ASSUME RInv, Tick
  PROVE  RInv'
<1>0. ASSUME NEW s \in Schedules
      PROVE  /\ left[s] \in Nat /\ left'[s] \in Nat
             /\ mails'[s] = mails[s] \/ mails'[s] = 0
             /\ left[s] = 0 => left'[s] = 0
             /\ row[s] = "there" /\ left'[s] = 0 /\ left[s] > 0 =>
                  mails'[s] = 0
  <2>1. left[s] \in Nat
    BY DEF RInv, ScheduleTypeOK
  <2>2. left'[s] = IF row[s] = "there" /\ left[s] > 0
                   THEN left[s] - 1 ELSE left[s]
    BY DEF Tick
  <2>3. mails'[s] = IF left[s] = 1 THEN 0 ELSE mails[s]
    BY DEF Tick
  <2> QED
    BY <2>1, <2>2, <2>3
<1>1. ScheduleTypeOK' /\ Working'
  <2>1. left' \in [Schedules -> Nat]
    BY <1>0 DEF Tick
  <2>2. mails' \in [Schedules -> 0..2]
    BY <1>0 DEF Tick, RInv, ScheduleTypeOK
  <2> QED
    BY <2>1, <2>2 DEF Tick, RInv, ScheduleTypeOK, Working
<1>2. ASSUME NEW s \in Schedules \ doubled'
      PROVE  Regular(s)'
  <2>0. UNCHANGED <<row, batch, queue, hand, stage, doubled>>
    BY DEF Tick
  <2>1. Single(s) /\ Unsent(s) /\ Timely(s)
    BY <2>0 DEF RInv, Regular
  <2>2. /\ Single(s)'
        /\ InBatch(s)' = InBatch(s) /\ InQueue(s)' = InQueue(s)
        /\ InHand(s)' = InHand(s)
    BY <2>0, <2>1, SingleKept
  <2>3. Unsent(s)'
    BY <1>0, <2>0, <2>1, <2>2 DEF Unsent, Due
  <2>4. Timely(s)'
    BY <1>0, <2>0, <2>1, <2>2 DEF Timely
  <2> QED
    BY <2>2, <2>3, <2>4 DEF Regular
<1> QED
  BY <1>1, <1>2 DEF RInv

-----------------------------------------------------------------------------
(* Schedules: handing over keeps the invariant                              *)

\* What is handed over and not doubled is nowhere yet, and has not been sent.
LEMMA RunDueRInv ==
  ASSUME RInv, NEW c \in Crons, RunDue(c)
  PROVE  RInv'
<1>0. PICK some \in SUBSET Due :
        /\ batch' = [batch EXCEPT ![c] = some]
        /\ doubled' = doubled \union {s \in some : Pending(s)}
  BY DEF RunDue
<1>a. /\ batch[c] = {}
      /\ UNCHANGED <<inline, row, left, run, queue, hand, stage, slips, mails>>
  BY DEF RunDue
<1>1. ScheduleTypeOK' /\ Working'
  BY <1>0, <1>a DEF RInv, ScheduleTypeOK, Working, Due
<1>2. ASSUME NEW s \in Schedules \ doubled'
      PROVE  Regular(s)'
  <2>1. Single(s) /\ Unsent(s) /\ Timely(s)
    BY <1>0 DEF RInv, Regular
  <2>2. \A d \in Crons : batch'[d] = IF d = c THEN some ELSE batch[d]
    BY <1>0 DEF RInv, ScheduleTypeOK
  <2>3. /\ InQueue(s)' = InQueue(s) /\ InHand(s)' = InHand(s)
        /\ AtMostOnce(queue, s)' = AtMostOnce(queue, s)
    BY <1>a DEF InQueue, InHand, AtMostOnce
  <2>4. CASE s \in some
    <3>1. ~InBatch(s) /\ ~InQueue(s) /\ ~InHand(s)
      BY <1>0, <2>4 DEF Pending, InBatch, InQueue, InHand
    <3>2. row[s] = "there" /\ left[s] = 0 /\ s \in Due
      BY <1>0, <2>4 DEF Due
    <3>3. Single(s)'
      BY <1>a, <2>1, <2>2, <2>3, <3>1 DEF Single, InBatch
    <3>4. Unsent(s)'
      BY <1>a, <2>1, <2>3, <3>1, <3>2 DEF Unsent, Due
    <3>5. Timely(s)'
      BY <1>a, <3>2 DEF Timely
    <3> QED
      BY <3>3, <3>4, <3>5 DEF Regular
  <2>5. CASE s \notin some
    <3>1. /\ \A d \in Crons : s \in batch'[d] <=> s \in batch[d]
          /\ InBatch(s)' <=> InBatch(s)
      BY <1>a, <2>2, <2>5 DEF InBatch
    <3>2. Single(s)'
      BY <1>a, <2>1, <2>3, <3>1 DEF Single
    <3>3. Unsent(s)'
      BY <1>a, <2>1, <2>3, <3>1 DEF Unsent, Due
    <3>4. Timely(s)'
      BY <1>a, <2>1, <2>3, <3>1 DEF Timely
    <3> QED
      BY <3>2, <3>3, <3>4 DEF Regular
  <2> QED
    BY <2>4, <2>5
<1> QED
  BY <1>1, <1>2 DEF RInv

\* An idle process takes a schedule in hand.
LEMMA Taken ==
  ASSUME SchedulesConstants, RInv, NEW p \in Procs, NEW t \in Schedules,
         stage[p] = "idle",
         hand' = [hand EXCEPT ![p] = t], stage' = [stage EXCEPT ![p] = "taken"]
  PROVE  \A s \in Schedules :
           /\ s # t => (InHand(s)' <=> InHand(s))
           /\ s # t => \A q \in Procs : hand'[q] = s <=> hand[q] = s
           /\ s # t => \A q \in Procs : hand'[q] = s => stage'[q] = stage[q]
           /\ s = t /\ ~InHand(s) => \A q \in Procs : hand'[q] = s <=> q = p
<1>1. hand[p] = NoSchedule /\ NoSchedule \notin Schedules
  BY DEF RInv, Working, SchedulesConstants
<1>2. \A q \in Procs : /\ hand'[q] = IF q = p THEN t ELSE hand[q]
                       /\ stage'[q] = IF q = p THEN "taken" ELSE stage[q]
  BY DEF RInv, ScheduleTypeOK
<1> QED
  BY <1>1, <1>2 DEF InHand

LEMMA EnqueueRInv ==
  ASSUME SchedulesConstants, RInv, NEW c \in Crons, Enqueue(c)
  PROVE  RInv'
<1>0. /\ stage[c] = "idle" /\ c \in Procs
      /\ UNCHANGED <<inline, row, left, run, slips, mails, doubled>>
      /\ batch[c] \subseteq Schedules
  BY DEF Enqueue, Procs, RInv, ScheduleTypeOK
<1>1. PICK t \in batch[c] :
        /\ batch' = [batch EXCEPT ![c] = @ \ {t}]
        /\ IF ~inline
           THEN queue' = Append(queue, t) /\ UNCHANGED <<hand, stage>>
           ELSE /\ hand' = [hand EXCEPT ![c] = t]
                /\ stage' = [stage EXCEPT ![c] = "taken"]
                /\ UNCHANGED queue
  BY DEF Enqueue
<1>a. t \in Schedules /\ queue \in Seq(Schedules)
  BY <1>0, <1>1 DEF RInv, ScheduleTypeOK
<1>2. ASSUME NEW s \in Schedules
      PROVE  /\ \A d \in Crons : s \in batch'[d] <=>
                                   s \in batch[d] /\ ~(d = c /\ s = t)
             /\ s # t => (InBatch(s)' <=> InBatch(s))
  BY <1>1 DEF RInv, ScheduleTypeOK, InBatch
<1>b. batch' \in [Crons -> SUBSET Schedules]
  BY <1>1 DEF RInv, ScheduleTypeOK
<1>c. InBatch(t) /\ (Single(t) => ~InBatch(t)')
  BY <1>1, <1>2, <1>a DEF InBatch, Single
<1>3. CASE ~inline
  <2>0. queue' = Append(queue, t) /\ UNCHANGED <<hand, stage>>
    BY <1>1, <1>3
  <2>1. ScheduleTypeOK' /\ Working'
    <3>1. queue' \in Seq(Schedules)
      BY <1>a, <2>0, AppendProperties
    <3> QED
      BY <1>0, <1>b, <2>0, <3>1 DEF RInv, ScheduleTypeOK, Working
  <2>2. ASSUME NEW s \in Schedules \ doubled'
        PROVE  Regular(s)'
    <3>1. Single(s) /\ Unsent(s) /\ Timely(s)
      BY <1>0 DEF RInv, Regular
    <3>2. /\ InQueue(s)' <=> InQueue(s) \/ s = t
          /\ AtMostOnce(queue, s)'
      BY <1>a, <1>c, <2>0, <3>1, AppendOnce DEF InQueue, Single
    <3>3. InHand(s)' = InHand(s)
      BY <2>0 DEF InHand
    <3>4. InBatch(s)' => InBatch(s) /\ s # t
      BY <1>2, <1>c, <3>1
    <3>5. s = t => InBatch(s)
      BY <1>c
    <3>6. Single(s)'
      <4>1. /\ ~(InBatch(s) /\ InQueue(s))' /\ ~(InBatch(s) /\ InHand(s))'
            /\ ~(InQueue(s) /\ InHand(s))'
        BY <3>1, <3>2, <3>3, <3>4, <3>5 DEF Single
      <4> QED
        BY <1>2, <2>0, <3>1, <3>2, <4>1 DEF Single
    <3>7. Unsent(s)'
      BY <1>0, <2>0, <3>1, <3>2, <3>3, <3>4, <3>5 DEF Unsent, Due
    <3>8. Timely(s)'
      BY <1>0, <3>1, <3>2, <3>3, <3>4, <3>5 DEF Timely
    <3> QED
      BY <3>6, <3>7, <3>8 DEF Regular
  <2> QED
    BY <2>1, <2>2 DEF RInv
<1>4. CASE inline
  <2>0. /\ hand' = [hand EXCEPT ![c] = t]
        /\ stage' = [stage EXCEPT ![c] = "taken"]
        /\ UNCHANGED queue
    BY <1>1, <1>4
  <2>a. \A s \in Schedules :
          /\ s # t => (InHand(s)' <=> InHand(s))
          /\ s # t => \A q \in Procs : hand'[q] = s <=> hand[q] = s
          /\ s # t => \A q \in Procs : hand'[q] = s => stage'[q] = stage[q]
          /\ s = t /\ ~InHand(s) => \A q \in Procs : hand'[q] = s <=> q = c
    BY <1>0, <1>a, <2>0, Taken
  <2>1. ScheduleTypeOK' /\ Working'
    <3>1. NoSchedule # t
      BY <1>a DEF SchedulesConstants
    <3> QED
      BY <1>0, <1>a, <1>b, <2>0, <3>1 DEF RInv, ScheduleTypeOK, Working
  <2>2. ASSUME NEW s \in Schedules \ doubled'
        PROVE  Regular(s)'
    <3>1. Single(s) /\ Unsent(s) /\ Timely(s)
      BY <1>0 DEF RInv, Regular
    <3>2. /\ InQueue(s)' = InQueue(s)
          /\ AtMostOnce(queue, s)' = AtMostOnce(queue, s)
      BY <2>0 DEF InQueue, AtMostOnce
    <3>3. CASE s = t
      <4>1. InBatch(s) /\ ~InBatch(s)' /\ ~InQueue(s) /\ ~InHand(s)
        BY <1>c, <3>1, <3>3 DEF Single
      <4>2. \A q \in Procs : hand'[q] = s <=> q = c
        BY <2>a, <3>3, <4>1
      <4>3. InHand(s)'
        BY <1>0, <4>2 DEF InHand
      <4>4. Single(s)'
        BY <3>1, <3>2, <4>1, <4>2, <1>2 DEF Single
      <4>5. Unsent(s)'
        BY <1>0, <3>1, <3>2, <4>1, <4>3 DEF Unsent, Due
      <4>6. Timely(s)'
        BY <1>0, <3>1, <4>1 DEF Timely
      <4> QED
        BY <4>4, <4>5, <4>6 DEF Regular
    <3>4. CASE s # t
      <4>1. InBatch(s)' = InBatch(s)
        BY <1>2, <3>4 DEF InBatch
      <4>2. /\ InHand(s)' <=> InHand(s)
            /\ \A q \in Procs : hand'[q] = s <=> hand[q] = s
            /\ \A q \in Procs : hand'[q] = s => stage'[q] = stage[q]
        BY <2>a, <3>4
      <4>3. Single(s)'
        BY <1>2, <3>1, <3>2, <4>1, <4>2 DEF Single
      <4>4. Unsent(s)'
        BY <1>0, <3>1, <3>2, <4>1, <4>2 DEF Unsent, Due
      <4>5. Timely(s)'
        BY <1>0, <3>1, <3>2, <4>1, <4>2 DEF Timely
      <4> QED
        BY <4>3, <4>4, <4>5 DEF Regular
    <3> QED
      BY <3>3, <3>4
  <2> QED
    BY <2>1, <2>2 DEF RInv
<1> QED
  BY <1>0, <1>3, <1>4

-----------------------------------------------------------------------------
(* Schedules: processing keeps the invariant                                *)

LEMMA TakeRInv ==
  ASSUME SchedulesConstants, RInv, NEW w \in Workers, Take(w)
  PROVE  RInv'
<1> DEFINE t == Head(queue)
<1>0. /\ stage[w] = "idle" /\ w \in Procs
      /\ queue \in Seq(Schedules) /\ queue # <<>>
      /\ queue' = Tail(queue)
      /\ hand' = [hand EXCEPT ![w] = t]
      /\ stage' = [stage EXCEPT ![w] = "taken"]
      /\ UNCHANGED <<inline, row, left, run, batch, slips, mails, doubled>>
  BY DEF Take, Procs, RInv, ScheduleTypeOK
<1>1. t \in Schedules /\ queue' \in Seq(Schedules)
  BY <1>0, HeadTailProperties
<1> HIDE DEF t
<1>a. \A s \in Schedules :
        /\ s # t => (InHand(s)' <=> InHand(s))
        /\ s # t => \A q \in Procs : hand'[q] = s <=> hand[q] = s
        /\ s # t => \A q \in Procs : hand'[q] = s => stage'[q] = stage[q]
        /\ s = t /\ ~InHand(s) => \A q \in Procs : hand'[q] = s <=> q = w
  BY <1>0, <1>1, Taken
<1>2. ScheduleTypeOK' /\ Working'
  <2>1. NoSchedule # t
    BY <1>1 DEF SchedulesConstants
  <2> QED
    BY <1>0, <1>1, <2>1 DEF RInv, ScheduleTypeOK, Working
<1>3. ASSUME NEW s \in Schedules \ doubled'
      PROVE  Regular(s)'
  <2>1. Single(s) /\ Unsent(s) /\ Timely(s)
    BY <1>0 DEF RInv, Regular
  <2>2. /\ InQueue(s) <=> s = t \/ InQueue(s)'
        /\ AtMostOnce(queue, s)'
        /\ s = t => ~InQueue(s)'
    BY <1>0, <2>1, TailOnce DEF InQueue, Single, t
  <2>3. InBatch(s)' <=> InBatch(s)
    BY <1>0 DEF InBatch
  <2>4. CASE s = t
    <3>1. InQueue(s) /\ ~InBatch(s) /\ ~InHand(s)
      BY <2>1, <2>2, <2>4 DEF Single
    <3>2. \A q \in Procs : hand'[q] = s <=> q = w
      BY <1>a, <2>4, <3>1
    <3>3. InHand(s)'
      BY <1>0, <3>2 DEF InHand
    <3>4. Single(s)'
      BY <1>0, <2>1, <2>2, <2>3, <2>4, <3>1, <3>2 DEF Single
    <3>5. Unsent(s)'
      BY <1>0, <2>1, <3>1, <3>3 DEF Unsent, Due
    <3>6. Timely(s)'
      BY <1>0, <2>1, <3>1 DEF Timely
    <3> QED
      BY <3>4, <3>5, <3>6 DEF Regular
  <2>5. CASE s # t
    <3>1. InQueue(s)' <=> InQueue(s)
      BY <2>2, <2>5
    <3>2. /\ InHand(s)' <=> InHand(s)
          /\ \A q \in Procs : hand'[q] = s <=> hand[q] = s
          /\ \A q \in Procs : hand'[q] = s => stage'[q] = stage[q]
      BY <1>a, <2>5
    <3>3. Single(s)'
      BY <1>0, <2>1, <2>2, <2>3, <3>1, <3>2 DEF Single
    <3>4. Unsent(s)'
      BY <1>0, <2>1, <2>3, <3>1, <3>2 DEF Unsent, Due
    <3>5. Timely(s)'
      BY <1>0, <2>1, <2>3, <3>1, <3>2 DEF Timely
    <3> QED
      BY <3>3, <3>4, <3>5 DEF Regular
  <2> QED
    BY <2>4, <2>5
<1> QED
  BY <1>2, <1>3 DEF RInv

\* A process goes on with what it has in hand, before its end.
LEMMA OnwardRInv ==
  ASSUME SchedulesConstants, RInv, NEW p \in Procs, stage[p] # "idle",
         NEW place \in {"building", "sending", "ending"},
         stage[p] # "ending",
         stage' = [stage EXCEPT ![p] = place],
         UNCHANGED <<inline, row, left, run, batch, queue, hand, slips, mails,
                     doubled>>
  PROVE  RInv'
<1>1. ScheduleTypeOK' /\ Working'
  BY DEF RInv, ScheduleTypeOK, Working
<1>2. ASSUME NEW s \in Schedules \ doubled'
      PROVE  Regular(s)'
  <2>1. Single(s) /\ Unsent(s) /\ Timely(s)
    BY DEF RInv, Regular
  <2>2. /\ Single(s)'
        /\ InBatch(s)' = InBatch(s) /\ InQueue(s)' = InQueue(s)
        /\ InHand(s)' = InHand(s)
    BY <2>1, SingleKept
  <2>3. \A q \in Procs : stage'[q] # "ending" => stage[q] # "ending"
    BY DEF RInv, ScheduleTypeOK
  <2>4. Unsent(s)'
    BY <2>1, <2>2, <2>3 DEF Unsent, Due
  <2>5. Timely(s)'
    BY <2>1, <2>2 DEF Timely
  <2> QED
    BY <2>2, <2>4, <2>5 DEF Regular
<1> QED
  BY <1>1, <1>2 DEF RInv

LEMMA BuildRInv ==
  ASSUME SchedulesConstants, RInv, NEW p \in Procs, Build(p)
  PROVE  RInv'
BY OnwardRInv DEF Build

\* One more report has been sent of what was not sent before.
LEMMA SendEmailRInv ==
  ASSUME SchedulesConstants, RInv, NEW p \in Procs, SendEmail(p)
  PROVE  RInv'
<1> DEFINE t == hand[p]
<1>0. /\ stage[p] = "sending" /\ stage' = [stage EXCEPT ![p] = "ending"]
      /\ UNCHANGED <<inline, row, left, run, batch, queue, hand, slips,
                     doubled>>
      /\ \/ mails' = [mails EXCEPT ![t] = IF @ < 2 THEN @ + 1 ELSE @]
         \/ UNCHANGED mails
  BY DEF SendEmail
<1>1. t \in Schedules
  BY <1>0 DEF RInv, ScheduleTypeOK, Working
<1> HIDE DEF t
<1>2. ASSUME NEW s \in Schedules
      PROVE  /\ mails[s] \in 0..2 /\ mails'[s] \in 0..2
             /\ s # t => mails'[s] = mails[s]
             /\ mails'[s] <= mails[s] + 1
  BY <1>0, <1>1 DEF RInv, ScheduleTypeOK
<1>3. ScheduleTypeOK' /\ Working'
  <2>1. mails' \in [Schedules -> 0..2]
    BY <1>0, <1>2 DEF RInv, ScheduleTypeOK
  <2> QED
    BY <1>0, <2>1 DEF RInv, ScheduleTypeOK, Working
<1>4. ASSUME NEW s \in Schedules \ doubled'
      PROVE  Regular(s)'
  <2>1. Single(s) /\ Unsent(s) /\ Timely(s)
    BY <1>0 DEF RInv, Regular
  <2>2. /\ Single(s)'
        /\ InBatch(s)' = InBatch(s) /\ InQueue(s)' = InQueue(s)
        /\ InHand(s)' = InHand(s)
    BY <1>0, <2>1, SingleKept
  <2>3. Timely(s)'
    BY <1>0, <2>1, <2>2 DEF Timely
  <2>4. \A q \in Procs : stage'[q] = IF q = p THEN "ending" ELSE stage[q]
    BY <1>0 DEF RInv, ScheduleTypeOK
  <2>5. CASE s = t
    <3>1. InHand(s) /\ ~InBatch(s) /\ ~InQueue(s)
      BY <2>1, <2>5 DEF InHand, Single, t
    <3>2. \A q \in Procs : hand[q] = s => q = p
      BY <2>1, <2>5 DEF Single, t
    <3>3. mails[s] = 0
      BY <1>0, <2>1, <2>5 DEF Unsent, t
    <3>4. Unsent(s)'
      BY <1>0, <1>2, <2>2, <2>4, <3>1, <3>2, <3>3 DEF Unsent
    <3> QED
      BY <2>2, <2>3, <3>4 DEF Regular
  <2>6. CASE s # t
    <3>1. \A q \in Procs : hand[q] = s => stage'[q] = stage[q]
      BY <2>4, <2>6 DEF t
    <3>2. Unsent(s)'
      BY <1>0, <1>2, <2>1, <2>2, <2>6, <3>1 DEF Unsent, Due
    <3> QED
      BY <2>2, <2>3, <3>2 DEF Regular
  <2> QED
    BY <2>5, <2>6
<1> QED
  BY <1>3, <1>4 DEF RInv

\* The schedule in hand is given up: it is nowhere any more.
LEMMA GivenUp ==
  ASSUME SchedulesConstants, RInv, NEW p \in Procs,
         hand' = [hand EXCEPT ![p] = NoSchedule],
         stage' = [stage EXCEPT ![p] = "idle"],
         NEW s \in Schedules
  PROVE  /\ \A q \in Procs : hand'[q] = s <=> hand[q] = s /\ q # p
         /\ \A q \in Procs : hand'[q] = s => stage'[q] = stage[q]
         /\ InHand(s)' => InHand(s)
         /\ hand[p] # s => (InHand(s)' <=> InHand(s))
         /\ hand[p] = s /\ Single(s) => InHand(s) /\ ~InHand(s)'
<1>1. NoSchedule # s
  BY DEF SchedulesConstants
<1>2. \A q \in Procs :
        /\ hand'[q] = IF q = p THEN NoSchedule ELSE hand[q]
        /\ stage'[q] = IF q = p THEN "idle" ELSE stage[q]
  BY DEF RInv, ScheduleTypeOK
<1>3. \A q \in Procs : hand'[q] = s <=> hand[q] = s /\ q # p
  BY <1>1, <1>2
<1>4. \A q \in Procs : hand'[q] = s => stage'[q] = stage[q]
  BY <1>2, <1>3
<1>5. InHand(s)' => InHand(s)
  BY <1>3 DEF InHand
<1>6. hand[p] # s => (InHand(s)' <=> InHand(s))
  BY <1>3 DEF InHand
<1>7. hand[p] = s /\ Single(s) => InHand(s) /\ ~InHand(s)'
  BY <1>3 DEF InHand, Single
<1> QED
  BY <1>3, <1>4, <1>5, <1>6, <1>7

\* A schedule that is gone is given up; any other is processed.
LEMMA ReadRInv ==
  ASSUME SchedulesConstants, RInv, NEW p \in Procs, Read(p)
  PROVE  RInv'
<1>0. /\ stage[p] = "taken"
      /\ UNCHANGED <<inline, row, left, run, batch, queue, slips, mails,
                     doubled>>
  BY DEF Read
<1>1. CASE row[hand[p]] = "there"
  BY <1>0, <1>1, OnwardRInv DEF Read
<1>2. CASE row[hand[p]] # "there"
  <2>0. /\ hand' = [hand EXCEPT ![p] = NoSchedule]
        /\ stage' = [stage EXCEPT ![p] = "idle"]
    BY <1>2 DEF Read
  <2>1. ScheduleTypeOK' /\ Working'
    BY <1>0, <2>0 DEF RInv, ScheduleTypeOK, Working
  <2>2. ASSUME NEW s \in Schedules \ doubled'
        PROVE  Regular(s)'
    <3>1. Single(s) /\ Unsent(s) /\ Timely(s)
      BY <1>0 DEF RInv, Regular
    <3>2. /\ InBatch(s)' = InBatch(s) /\ InQueue(s)' = InQueue(s)
          /\ AtMostOnce(queue, s)' = AtMostOnce(queue, s)
      BY <1>0 DEF InBatch, InQueue, AtMostOnce
    <3>3. /\ \A q \in Procs : hand'[q] = s <=> hand[q] = s /\ q # p
          /\ \A q \in Procs : hand'[q] = s => stage'[q] = stage[q]
          /\ InHand(s)' => InHand(s)
          /\ hand[p] # s => (InHand(s)' <=> InHand(s))
      BY <2>0, GivenUp
    <3>4. s \in Due' => s \in Due /\ hand[p] # s
      BY <1>0, <1>2 DEF Due
    <3>5. Single(s)'
      BY <1>0, <3>1, <3>2, <3>3 DEF Single
    <3>6. Unsent(s)'
      BY <1>0, <3>1, <3>2, <3>3, <3>4 DEF Unsent
    <3>7. Timely(s)'
      BY <1>0, <3>1, <3>2, <3>3 DEF Timely
    <3> QED
      BY <3>5, <3>6, <3>7 DEF Regular
  <2> QED
    BY <2>1, <2>2 DEF RInv
<1> QED
  BY <1>1, <1>2

\* What was processed is not due before an interval has passed.
LEMMA RecordRInv ==
  ASSUME SchedulesConstants, RInv, NEW p \in Procs, Record(p)
  PROVE  RInv'
<1> DEFINE t == hand[p]
<1>0. /\ stage[p] = "ending"
      /\ hand' = [hand EXCEPT ![p] = NoSchedule]
      /\ stage' = [stage EXCEPT ![p] = "idle"]
      /\ left' = IF row[t] = "there"
                 THEN [left EXCEPT ![t] = Interval[t]] ELSE left
      /\ UNCHANGED <<inline, row, run, batch, queue, slips, mails, doubled>>
  BY DEF Record
<1>1. t \in Schedules /\ Interval[t] \in Nat \ {0}
  BY <1>0 DEF RInv, ScheduleTypeOK, Working, SchedulesConstants
<1> HIDE DEF t
<1>2. ASSUME NEW s \in Schedules
      PROVE  left'[s] = IF s = t /\ row[s] = "there"
                        THEN Interval[s] ELSE left[s]
  BY <1>0, <1>1 DEF RInv, ScheduleTypeOK
<1>3. ScheduleTypeOK' /\ Working'
  <2>1. left' \in [Schedules -> Nat]
    BY <1>0, <1>1 DEF RInv, ScheduleTypeOK
  <2> QED
    BY <1>0, <2>1 DEF RInv, ScheduleTypeOK, Working
<1>4. ASSUME NEW s \in Schedules \ doubled'
      PROVE  Regular(s)'
  <2>1. Single(s) /\ Unsent(s) /\ Timely(s)
    BY <1>0 DEF RInv, Regular
  <2>2. /\ InBatch(s)' = InBatch(s) /\ InQueue(s)' = InQueue(s)
        /\ AtMostOnce(queue, s)' = AtMostOnce(queue, s)
    BY <1>0 DEF InBatch, InQueue, AtMostOnce
  <2>3. /\ \A q \in Procs : hand'[q] = s <=> hand[q] = s /\ q # p
        /\ \A q \in Procs : hand'[q] = s => stage'[q] = stage[q]
        /\ InHand(s)' => InHand(s)
        /\ s # t => (InHand(s)' <=> InHand(s))
        /\ s = t => InHand(s) /\ ~InHand(s)'
    BY <1>0, <2>1, GivenUp DEF t
  <2>4. s \in Due' => s \in Due /\ s # t
    BY <1>0, <1>1, <1>2 DEF Due
  <2>5. Single(s)'
    BY <1>0, <2>1, <2>2, <2>3 DEF Single
  <2>6. Unsent(s)'
    BY <1>0, <2>1, <2>2, <2>3, <2>4 DEF Unsent
  <2>7. Timely(s)'
    <3>1. CASE s = t
      BY <2>1, <2>2, <2>3, <3>1 DEF Timely, Single
    <3>2. CASE s # t
      BY <1>0, <1>2, <2>1, <2>2, <2>3, <3>2 DEF Timely
    <3> QED
      BY <3>1, <3>2
  <2> QED
    BY <2>5, <2>6, <2>7 DEF Regular
<1> QED
  BY <1>3, <1>4 DEF RInv

\* What dies with its process is doubled, or was not begun.
LEMMA DieRInv ==
  ASSUME SchedulesConstants, RInv, NEW p \in Procs, Die(p)
  PROVE  RInv'
<1>0. /\ hand' = [hand EXCEPT ![p] = NoSchedule]
      /\ stage' = [stage EXCEPT ![p] = "idle"]
      /\ batch' = IF p \in Crons THEN [batch EXCEPT ![p] = {}] ELSE batch
      /\ doubled' = doubled \union ({hand[p]} \ {NoSchedule})
      /\ slips' = slips + 1
      /\ UNCHANGED <<inline, row, left, run, queue, mails>>
  BY DEF Die
<1>1. ScheduleTypeOK' /\ Working'
  <2>1. batch' \in [Crons -> SUBSET Schedules]
    BY <1>0 DEF RInv, ScheduleTypeOK
  <2>2. doubled' \in SUBSET Schedules
    BY <1>0 DEF RInv, ScheduleTypeOK
  <2> QED
    BY <1>0, <2>1, <2>2 DEF RInv, ScheduleTypeOK, Working
<1>2. ASSUME NEW s \in Schedules \ doubled'
      PROVE  Regular(s)'
  <2>1. Single(s) /\ Unsent(s) /\ Timely(s)
    BY <1>0 DEF RInv, Regular
  <2>2. hand[p] # s
    BY <1>0 DEF SchedulesConstants
  <2>3. /\ \A q \in Procs : hand'[q] = s <=> hand[q] = s /\ q # p
        /\ \A q \in Procs : hand'[q] = s => stage'[q] = stage[q]
        /\ InHand(s)' <=> InHand(s)
    BY <1>0, <2>2, GivenUp
  <2>4. /\ \A c \in Crons : s \in batch'[c] => s \in batch[c]
        /\ InBatch(s)' => InBatch(s)
    BY <1>0 DEF RInv, ScheduleTypeOK, InBatch
  <2>5. /\ InQueue(s)' = InQueue(s)
        /\ AtMostOnce(queue, s)' = AtMostOnce(queue, s)
    BY <1>0 DEF InQueue, AtMostOnce
  <2>6. Single(s)'
    BY <2>1, <2>3, <2>4, <2>5 DEF Single
  <2>7. Unsent(s)'
    BY <1>0, <2>1, <2>3, <2>4, <2>5 DEF Unsent, Due
  <2>8. Timely(s)'
    BY <1>0, <2>1, <2>3, <2>4, <2>5 DEF Timely
  <2> QED
    BY <2>6, <2>7, <2>8 DEF Regular
<1> QED
  BY <1>1, <1>2 DEF RInv

LEMMA LoseQueueRInv ==
  ASSUME SchedulesConstants, RInv, LoseQueue
  PROVE  RInv'
<1>0. /\ queue' = <<>> /\ slips' = slips + 1
      /\ UNCHANGED <<inline, row, left, run, batch, hand, stage, mails,
                     doubled>>
  BY DEF LoseQueue
<1>1. ScheduleTypeOK' /\ Working'
  BY <1>0 DEF RInv, ScheduleTypeOK, Working
<1>2. ASSUME NEW s \in Schedules \ doubled'
      PROVE  Regular(s)'
  <2>1. Single(s) /\ Unsent(s) /\ Timely(s)
    BY <1>0 DEF RInv, Regular
  <2>2. ~InQueue(s)' /\ AtMostOnce(queue, s)'
    BY <1>0 DEF InQueue, Contains, AtMostOnce
  <2>3. InBatch(s)' = InBatch(s) /\ InHand(s)' = InHand(s)
    BY <1>0 DEF InBatch, InHand
  <2>4. Single(s)'
    BY <1>0, <2>1, <2>2, <2>3 DEF Single
  <2>5. Unsent(s)'
    BY <1>0, <2>1, <2>2, <2>3 DEF Unsent, Due
  <2>6. Timely(s)'
    BY <1>0, <2>1, <2>2, <2>3 DEF Timely
  <2> QED
    BY <2>4, <2>5, <2>6 DEF Regular
<1> QED
  BY <1>1, <1>2 DEF RInv

-----------------------------------------------------------------------------
(* Schedules: the theorems                                                  *)

\* A step that leaves everything but the artifacts of the run.
LEMMA SameRInv ==
  ASSUME RInv, run' \in BOOLEAN,
         UNCHANGED <<inline, row, left, batch, queue, hand, stage, slips,
                     mails, doubled>>
  PROVE  RInv'
<1>1. ScheduleTypeOK' /\ Working'
  BY DEF RInv, ScheduleTypeOK, Working
<1>2. ASSUME NEW s \in Schedules \ doubled'
      PROVE  Regular(s)'
  <2>1. Single(s) /\ Unsent(s) /\ Timely(s)
    BY DEF RInv, Regular
  <2>2. /\ Single(s)'
        /\ InBatch(s)' = InBatch(s) /\ InQueue(s)' = InQueue(s)
        /\ InHand(s)' = InHand(s)
    BY <2>1, SingleKept
  <2>3. Unsent(s)'
    BY <2>1, <2>2 DEF Unsent, Due
  <2>4. Timely(s)'
    BY <2>1, <2>2 DEF Timely
  <2> QED
    BY <2>2, <2>3, <2>4 DEF Regular
<1> QED
  BY <1>1, <1>2 DEF RInv

LEMMA NextRInv ==
  ASSUME SchedulesConstants, RInv, [SchedulesNext]_schedulesVars
  PROVE  RInv'
<1>1. CASE LoseRun \/ UNCHANGED schedulesVars
  BY <1>1, SameRInv DEF LoseRun, schedulesVars, RInv, ScheduleTypeOK
<1>2. CASE DeleteSchedulesForRun
  <2>1. row' = [s \in Schedules |->
                  IF s \in Schedules THEN "gone" ELSE row[s]]
    BY <1>2 DEF DeleteSchedulesForRun
  <2> QED
    BY <1>2, <2>1, GoneRInv DEF DeleteSchedulesForRun
<1> QED
  BY <1>1, <1>2, CreateScheduleRInv, DeleteRInv, TickRInv, LoseQueueRInv,
     RunDueRInv, EnqueueRInv, TakeRInv, ReadRInv, BuildRInv, SendEmailRInv,
     RecordRInv, DieRInv DEF SchedulesNext, Process

LEMMA SpecRInv ==
  ASSUME SchedulesConstants
  PROVE  SchedulesSpec => []RInv
<1>1. SchedulesInit => RInv
  BY InitRInv
<1>2. RInv /\ [SchedulesNext]_schedulesVars => RInv'
  BY NextRInv
<1> QED
  BY <1>1, <1>2, PTL DEF SchedulesSpec

\* Types: every schedule, cron call and worker is at one of its places
\* (report_schedule.py; models.py, ReportScheduleRecord).
THEOREM ScheduleTypes ==
  ASSUME SchedulesConstants
  PROVE  SchedulesSpec => []ScheduleTypeOK
<1>1. RInv => ScheduleTypeOK
  BY DEF RInv
<1> QED
  BY <1>1, SpecRInv, PTL

\* However many crons and workers there are, whatever is deleted, lost or
\* killed and in whatever order, a second report in one interval needs a second
\* handover or a processing that died (report_schedule.py, run_due and
\* process_due_schedule).
THEOREM SecondReportNeedsDoubling ==
  ASSUME SchedulesConstants
  PROVE  SchedulesSpec => []OneReportPerInterval
<1>1. RInv => OneReportPerInterval
  <2>1. SUFFICES ASSUME RInv, NEW s \in Schedules, s \notin doubled
                 PROVE  ~(mails[s] > 1)
    BY DEF OneReportPerInterval
  <2>2. mails[s] < 2 /\ mails[s] \in 0..2
    BY <2>1 DEF RInv, ScheduleTypeOK, Regular, Unsent
  <2> QED
    BY <2>2
<1> QED
  BY <1>1, SpecRInv, PTL

=============================================================================
