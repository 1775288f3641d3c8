----------------------------- MODULE ShareLinks -----------------------------
(***************************************************************************)
(* Read-only links onto a run's result (sharing.py, routes/share.py, the    *)
(* table share_links): minting in two transactions, revocation, expiry, and *)
(* the visit of whoever was handed the token, beside deletions and new      *)
(* uploads of the run.  Sharing is enabled.                                 *)
(***************************************************************************)
EXTENDS Integers, Sequences

CONSTANTS Tokens,     \* tokens that may be minted, one request each
          Visitors,   \* GET /share/{token} under way at once
          Asked,      \* values of ttl_days in days; 0 for none
          DefaultTtl, \* settings.share_link_default_ttl_days
          MaxTtl,     \* settings.share_link_max_ttl_days
          MaxEras,    \* bound on the uploads of the run
          NoToken     \* no token presented

\* What the constants have to be.
LinksConstants ==
  /\ Asked \subseteq Nat
  /\ DefaultTtl \in Nat \ {0} /\ MaxTtl \in Nat \ {0}
  /\ MaxEras \in Nat \ {0}
  /\ NoToken \notin Tokens

VARIABLES
  runRow,  \* the row in runs, by which the owner is known
  files,   \* the metadata of the run can be read
  era,     \* how many uploads made this run key; a deletion ends an era
  maker,   \* the request for each token: "idle", "owned", "done"
  made,    \* the era in which the owner was checked
  link,    \* share_links: there, days to its expiry, revoked
  age,     \* days since the link was made
  visit,   \* each visitor: where, with which token, and whether the link
           \* had ended when it came
  purge,   \* the deletion under way: what it has yet to do, in order
  ended,   \* the last era a deletion that has answered was for
  strays   \* tokens whose maker was beside a deletion

runVars == <<runRow, files, era, purge, ended>>
links == <<maker, made, link, age, strays>>
linksVars == <<runVars, links, visit>>

NoLink == [there |-> FALSE, left |-> 0, revoked |-> FALSE]
Outside == [at |-> "outside", token |-> NoToken, late |-> FALSE]
Orders == {<<"row", "files", "links">>,  \* DELETE /runs/{run_key}
           <<"files", "links", "row">>}  \* purge_expired, delete_everything_for

LinksInit ==
  /\ runRow = TRUE /\ files = TRUE /\ era = 1
  /\ maker = [t \in Tokens |-> "idle"]
  /\ made = [t \in Tokens |-> 0]
  /\ link = [t \in Tokens |-> NoLink]
  /\ age = [t \in Tokens |-> 0]
  /\ visit = [v \in Visitors |-> Outside]
  /\ purge = <<>>
  /\ ended = 0
  /\ strays = {}

-----------------------------------------------------------------------------
(* The owner                                                                *)

\* require_owned_run.
CheckOwner(t) ==
  /\ maker[t] = "idle" /\ runRow
  /\ maker' = [maker EXCEPT ![t] = "owned"]
  /\ made' = [made EXCEPT ![t] = era]
  /\ strays' = IF purge = <<>> THEN strays ELSE strays \union {t}
  /\ UNCHANGED <<runVars, link, age, visit>>

Least(a, b) == IF a < b THEN a ELSE b

Ttl(asked) == Least(IF asked > 0 THEN asked ELSE DefaultTtl, MaxTtl)

\* create_link.
CreateLink(t) ==
  /\ maker[t] = "owned"
  /\ \E asked \in Asked :
       link' = [link EXCEPT ![t] =
                  [there |-> TRUE, left |-> Ttl(asked), revoked |-> FALSE]]
  /\ maker' = [maker EXCEPT ![t] = "done"]
  /\ UNCHANGED <<runVars, made, age, visit, strays>>

\* revoke_link, by the owner; for anybody else the token is not there.
RevokeLink(t) ==
  /\ link[t].there /\ ~link[t].revoked
  /\ link' = [link EXCEPT ![t].revoked = TRUE]
  /\ UNCHANGED <<runVars, maker, made, age, visit, strays>>

-----------------------------------------------------------------------------
(* The run                                                                  *)

\* An upload of the same dataset with the same configuration, by its owner.
Upload ==
  /\ ~runRow /\ ~files /\ purge = <<>> /\ era < MaxEras
  /\ runRow' = TRUE /\ files' = TRUE /\ era' = era + 1
  /\ UNCHANGED <<links, visit, purge, ended>>

StartDeletion ==
  /\ runRow /\ purge = <<>>
  /\ purge' \in Orders
  /\ strays' = strays \union {t \in Tokens : maker[t] = "owned"}
  /\ UNCHANGED <<runRow, files, era, ended, maker, made, link, age, visit>>

\* A slip: the links of the run are left.
DeletionStep_LeavesLinks ==
  /\ purge # <<>>
  /\ purge' = Tail(purge)
  /\ runRow' = (runRow /\ purge[1] # "row")
  /\ files' = (files /\ purge[1] # "files")
  /\ ended' = IF Len(purge) = 1 THEN era ELSE ended
  /\ UNCHANGED <<links, era, visit>>

\* The row, the files, and the links of the run, each for itself.
DeletionStep ==
  /\ purge # <<>>
  /\ purge' = Tail(purge)
  /\ runRow' = (runRow /\ purge[1] # "row")
  /\ files' = (files /\ purge[1] # "files")
  /\ link' = IF purge[1] = "links" THEN [t \in Tokens |-> NoLink] ELSE link
  /\ ended' = IF Len(purge) = 1 THEN era ELSE ended
  /\ UNCHANGED <<era, maker, made, age, strays, visit>>

\* A day passes, as long as a link has one left or is younger than MaxTtl.
Day ==
  /\ \E t \in Tokens : link[t].there /\ (age[t] <= MaxTtl \/ link[t].left > 0)
  /\ link' = [t \in Tokens |->
       IF link[t].left > 0 THEN [link[t] EXCEPT !.left = @ - 1] ELSE link[t]]
  /\ age' = [t \in Tokens |->
       IF link[t].there /\ age[t] <= MaxTtl THEN age[t] + 1 ELSE age[t]]
  /\ UNCHANGED <<runVars, maker, made, strays, visit>>

-----------------------------------------------------------------------------
(* Visitors                                                                 *)

\* The link was revoked, is as old as any may be, or its run was deleted.
Ended(t) ==
  \/ link[t].revoked
  \/ age[t] >= MaxTtl
  \/ made[t] <= ended /\ t \notin strays

\* Somebody presents a token that was handed out.
Present(v) ==
  /\ visit[v].at \in {"outside", "served", "refused"}
  /\ \E t \in Tokens :
       /\ maker[t] = "done"
       /\ visit' = [visit EXCEPT ![v] =
                      [at |-> "presented", token |-> t, late |-> Ended(t)]]
  /\ UNCHANGED <<runVars, links>>

\* ShareLinkRecord.is_active, for a row that is there.
IsActive(l) == l.there /\ ~l.revoked /\ l.left > 0

ResolveToken(v) ==
  /\ visit[v].at = "presented"
  /\ visit' = [visit EXCEPT ![v].at =
       IF IsActive(link[visit[v].token]) THEN "resolved" ELSE "refused"]
  /\ UNCHANGED <<runVars, links>>

\* _load_metadata: the same answer for a link whose run is gone.
LoadMetadata(v) ==
  /\ visit[v].at = "resolved"
  /\ visit' = [visit EXCEPT ![v].at = IF files THEN "served" ELSE "refused"]
  /\ UNCHANGED <<runVars, links>>

LinksNext ==
  \/ \E t \in Tokens : CheckOwner(t) \/ CreateLink(t) \/ RevokeLink(t)
  \/ Upload \/ StartDeletion \/ DeletionStep \/ Day
  \/ \E v \in Visitors : Present(v) \/ ResolveToken(v) \/ LoadMetadata(v)

LinksSpec == LinksInit /\ [][LinksNext]_linksVars

-----------------------------------------------------------------------------
(* Properties                                                               *)

\* A link is an expiring window onto one run (sharing.py): nobody who comes
\* after it was revoked, after the longest time a link may live, or after its
\* run was deleted gets the result, not even when the same dataset is uploaded
\* again; but for a link made beside the deletion, which outlives it.
EndedStaysShut ==
  \A v \in Visitors : visit[v].at = "served" => ~visit[v].late

=============================================================================
