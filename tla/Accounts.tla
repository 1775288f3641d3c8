------------------------------ MODULE Accounts ------------------------------
(***************************************************************************)
(* Accounts and their API keys: registration by bootstrap token, the keys   *)
(* an account issues and revokes, deactivation by an admin (routes/admin.py *)
(* and auth.py), the tables users, api_keys and audit_log (db.py), and how  *)
(* a bearer key becomes a principal (auth._principal_from_key).             *)
(*                                                                          *)
(* The handlers are plain functions, so requests of one process run on      *)
(* threads of their own; several processes share one database.  One         *)
(* session_scope() is one step, and a handler can end between any two of    *)
(* its steps.  Accounts are named by their email address, which is unique.  *)
(* Authentication is enabled and the bootstrap token was presented.         *)
(***************************************************************************)
EXTENDS Integers, FiniteSets

CONSTANTS Users,     \* accounts that may be created
          Keys,      \* secrets that may be generated, each with its hash
          Requests,  \* requests that may be under way at once
          MaxActive, \* settings.max_active_api_keys
          DefaultExpiry, \* "later" if settings.api_key_default_ttl_days > 0
          MaxFaults, \* bound on handlers that end half way and lost entries
          Nobody,    \* no account
          NoKey      \* no key

\* What the constants have to be.
ConstantsOK ==
  /\ IsFiniteSet(Requests) /\ IsFiniteSet(Keys)
  /\ Nobody \notin Users
  /\ NoKey \notin Keys
  /\ MaxActive \in Nat \ {0}
  /\ DefaultExpiry \in {"never", "later"}
  /\ MaxFaults \in Nat

VARIABLES
  user,    \* the table users: active, admin, and the hash Phase 6 kept there
  key,     \* the table api_keys: owner, revoked, expiry
  log,     \* the table audit_log
  at,      \* where each request stands
  req,     \* what it holds: the key presented (late, if that was already
           \* barred), the principal, its target
  known,   \* keys whose owner was shown them
  faults,
  raced,   \* accounts two of whose requests were between the check and the
           \* act at once, both to issue or both to revoke
  twins    \* two registrations were let through at once

tables == <<user, key, log>>
ghosts == <<raced, twins>>
accountVars == <<tables, at, req, known, faults, ghosts>>

NoAccount == [there |-> FALSE, active |-> FALSE, admin |-> FALSE,
              hash |-> NoKey]
Account == [there : BOOLEAN, active : BOOLEAN, admin : BOOLEAN,
            hash : Keys \union {NoKey}]
NoKeyRow == [owner |-> Nobody, revoked |-> FALSE, expiry |-> "never"]
KeyRow == [owner : Users \union {Nobody}, revoked : BOOLEAN,
           expiry : {"never", "later", "past"}]
Actions == {"user.created", "user.deactivated", "key.issued", "key.revoked"}
Entry == [action : Actions, actor : Users, target : Users \union Keys]
Idle == [key |-> NoKey, late |-> FALSE, by |-> Nobody, admin |-> FALSE,
         target |-> Nobody, entry |-> "none"]
Held == [key : Keys \union {NoKey}, late : BOOLEAN,
         by : Users \union {Nobody}, admin : BOOLEAN,
         target : Users \union Keys \union {Nobody},
         entry : Actions \union {"none"}]

MoveTo(r, place) == at' = [at EXCEPT ![r] = place]
Free(r) == MoveTo(r, "idle") /\ req' = [req EXCEPT ![r] = Idle]

\* ApiKeyRecord.is_active.
IsActive(k) ==
  key[k].owner # Nobody /\ ~key[k].revoked /\ key[k].expiry # "past"
OwnKeys(u) == {k \in Keys : key[k].owner = u}
ActiveKeys(u) == {k \in OwnKeys(u) : IsActive(k)}
\* secrets.token_urlsafe never repeats: no row has this hash, no handler has it.
FreshKey(k) ==
  /\ key[k].owner = Nobody
  /\ \A u \in Users : user[u].hash # k
  /\ \A r \in Requests : req[r].target # k

\* The database is new, or was adopted with an empty table of keys, past the
\* migration that copies the hashes there: an admin's only key is the hash on
\* the user row.
AccountsInit ==
  /\ \/ user = [u \in Users |-> NoAccount] /\ known = {}
     \/ \E u \in Users, k \in Keys :
          /\ user = [[v \in Users |-> NoAccount] EXCEPT ![u] =
               [there |-> TRUE, active |-> TRUE, admin |-> TRUE, hash |-> k]]
          /\ known = {k}
  /\ key = [k \in Keys |-> NoKeyRow]
  /\ log = {}
  /\ at = [r \in Requests |-> "idle"]
  /\ req = [r \in Requests |-> Idle]
  /\ faults = 0
  /\ raced = {}
  /\ twins = FALSE

-----------------------------------------------------------------------------
(* Who is calling                                                           *)

\* Whom the hash on the user row would let in.
ByHash(k) == {u \in Users : user[u].hash = k /\ user[u].active}
\* The key was revoked or has expired, or its account is deactivated.
Barred(k) ==
  IF key[k].owner = Nobody THEN ByHash(k) = {}
  ELSE ~IsActive(k) \/ ~user[key[k].owner].active

\* A request comes with a key somebody was shown.
Present(r) ==
  /\ at[r] = "idle"
  /\ \E k \in known :
       req' = [req EXCEPT ![r] = [@ EXCEPT !.key = k, !.late = Barred(k)]]
  /\ MoveTo(r, "presented")
  /\ UNCHANGED <<tables, known, faults, ghosts>>

\* The principal, an admin or not as the row said.
ActAs(r, u) ==
  /\ req' = [req EXCEPT ![r] =
               [@ EXCEPT !.by = u, !.admin = user[u].admin]]
  /\ MoveTo(r, "in")

\* A slip: a row that is not active is treated as if there were none.
FindKey_ActiveOnly(r) ==
  /\ at[r] = "presented"
  /\ LET k == req[r].key IN
     \/ /\ IsActive(k)
        /\ MoveTo(r, "identified")
        /\ UNCHANGED req
     \/ ~IsActive(k) /\ \E u \in ByHash(k) : ActAs(r, u)
     \/ ~IsActive(k) /\ ByHash(k) = {} /\ Free(r)
  /\ UNCHANGED <<tables, known, faults, ghosts>>

\* The key table decides; the hash on the user row counts only for a key that
\* has no row there.
FindKey(r) ==
  /\ at[r] = "presented"
  /\ LET k == req[r].key IN
     \/ /\ IsActive(k)
        /\ MoveTo(r, "identified")
        /\ UNCHANGED req
     \/ key[k].owner = Nobody /\ \E u \in ByHash(k) : ActAs(r, u)
     \/ /\ ~IsActive(k)
        /\ key[k].owner = Nobody => ByHash(k) = {}
        /\ Free(r)
  /\ UNCHANGED <<tables, known, faults, ghosts>>

\* The account of the key, in a transaction of its own.
FindUser(r) ==
  /\ at[r] = "identified"
  /\ LET u == key[req[r].key].owner IN
     IF user[u].active THEN ActAs(r, u) ELSE Free(r)
  /\ UNCHANGED <<tables, known, faults, ghosts>>

-----------------------------------------------------------------------------
(* Creating accounts                                                        *)

\* POST /auth/register: closed once an account exists.
Register(r) ==
  /\ at[r] = "idle"
  /\ \A u \in Users : ~user[u].there
  /\ \E u \in Users :
       req' = [req EXCEPT ![r] =
                 [@ EXCEPT !.by = u, !.admin = TRUE, !.target = u]]
  /\ twins' = (twins \/ \E o \in Requests : at[o] \in {"counted", "vacant"}
                                            /\ req[o].by = req[o].target)
  /\ MoveTo(r, "counted")
  /\ UNCHANGED <<tables, known, faults, raced>>

\* POST /admin/users: a request of an admin, for an account that is not one.
AddUser(r) ==
  /\ at[r] = "in"
  /\ IF req[r].admin
     THEN /\ \E u \in Users : req' = [req EXCEPT ![r] = [@ EXCEPT !.target = u]]
          /\ MoveTo(r, "counted")
     ELSE Free(r)
  /\ UNCHANGED <<tables, known, faults, ghosts>>

\* db.get_user_by_email.
CheckEmail(r) ==
  /\ at[r] = "counted"
  /\ IF user[req[r].target].there THEN Free(r)
                                  ELSE MoveTo(r, "vacant") /\ UNCHANGED req
  /\ UNCHANGED <<tables, known, faults, ghosts>>

\* db.create_user, which raises if the address was taken meanwhile.  Only the
\* registration, which acts as the account it creates, makes an admin.
InsertUser(r) ==
  /\ at[r] = "vacant"
  /\ LET u == req[r].target IN
     IF user[u].there
     THEN Free(r) /\ UNCHANGED user
     ELSE \E k \in Keys :
            /\ FreshKey(k)
            /\ user' = [user EXCEPT ![u] =
                 [there |-> TRUE, active |-> TRUE, admin |-> req[r].by = u,
                  hash |-> k]]
            /\ req' = [req EXCEPT ![r] =
                 [@ EXCEPT !.key = k, !.entry = "user.created"]]
            /\ MoveTo(r, "created")
  /\ UNCHANGED <<key, log, known, faults, ghosts>>

\* The initial key's row, with the default expiry.
InsertInitialKey(r) ==
  /\ at[r] = "created"
  /\ key' = [key EXCEPT ![req[r].key] =
       [owner |-> req[r].target, revoked |-> FALSE, expiry |-> DefaultExpiry]]
  /\ MoveTo(r, "acted")
  /\ UNCHANGED <<user, log, req, known, faults, ghosts>>

\* A slip: an admin may deactivate the account the request acts as.
DeactivateUser_EvenOneself(r) ==
  /\ at[r] = "in"
  /\ \/ /\ req[r].admin
        /\ \E u \in Users :
             /\ user[u].there
             /\ user' = [user EXCEPT ![u] = [@ EXCEPT !.active = FALSE]]
             /\ req' = [req EXCEPT ![r] =
                 [@ EXCEPT !.target = u, !.entry = "user.deactivated"]]
        /\ MoveTo(r, "acted")
     \/ Free(r) /\ UNCHANGED user
  /\ UNCHANGED <<key, log, known, faults, ghosts>>

\* POST /admin/users/{user_id}/deactivate: refused to others than admins, for
\* one's own account and for an id that is not there.
DeactivateUser(r) ==
  /\ at[r] = "in"
  /\ \/ /\ req[r].admin
        /\ \E u \in Users \ {req[r].by} :
             /\ user[u].there
             /\ user' = [user EXCEPT ![u] = [@ EXCEPT !.active = FALSE]]
             /\ req' = [req EXCEPT ![r] =
                 [@ EXCEPT !.target = u, !.entry = "user.deactivated"]]
        /\ MoveTo(r, "acted")
     \/ Free(r) /\ UNCHANGED user
  /\ UNCHANGED <<key, log, known, faults, ghosts>>

-----------------------------------------------------------------------------
(* Keys of the account that calls                                           *)

\* A request has checked and will act: is another one of its account there too?
Enters(r, place) ==
  raced' = IF \E o \in Requests \ {r} : at[o] = place /\ req[o].by = req[r].by
           THEN raced \union {req[r].by} ELSE raced

\* A slip: the limit is compared one too late.
CountKeys_OffByOne(r) ==
  /\ at[r] = "in"
  /\ IF Cardinality(ActiveKeys(req[r].by)) > MaxActive
     THEN Free(r) /\ UNCHANGED raced
     ELSE MoveTo(r, "issuing") /\ Enters(r, "issuing") /\ UNCHANGED req
  /\ UNCHANGED <<tables, known, faults, twins>>

\* issue_key counts the active keys in one transaction ...
CountKeys(r) ==
  /\ at[r] = "in"
  /\ IF Cardinality(ActiveKeys(req[r].by)) >= MaxActive
     THEN Free(r) /\ UNCHANGED raced
     ELSE MoveTo(r, "issuing") /\ Enters(r, "issuing") /\ UNCHANGED req
  /\ UNCHANGED <<tables, known, faults, twins>>

\* ... and adds one in another.  ttl_days = 0 makes a key that never expires.
AddKey(r) ==
  /\ at[r] = "issuing"
  /\ \E k \in Keys, expiry \in {"never", "later"} :
       /\ FreshKey(k)
       /\ key' = [key EXCEPT ![k] =
            [owner |-> req[r].by, revoked |-> FALSE, expiry |-> expiry]]
       /\ req' = [req EXCEPT ![r] =
            [@ EXCEPT !.key = k, !.target = k, !.entry = "key.issued"]]
  /\ MoveTo(r, "acted")
  /\ UNCHANGED <<user, log, known, faults, ghosts>>

\* A slip: any key of the account may be revoked.
CheckLastKey_Dropped(r) ==
  /\ at[r] = "in"
  /\ LET mine == OwnKeys(req[r].by) IN
     \/ \E k \in mine :
          /\ req' = [req EXCEPT ![r] = [@ EXCEPT !.target = k]]
          /\ MoveTo(r, "revoking")
          /\ Enters(r, "revoking")
     \/ Free(r) /\ UNCHANGED raced
  /\ UNCHANGED <<tables, known, faults, twins>>

\* revoke_my_key lists the account's keys and looks for the target: if it is
\* not found, or the only one active, it refuses ...
CheckLastKey(r) ==
  /\ at[r] = "in"
  /\ LET mine == OwnKeys(req[r].by)
         active == ActiveKeys(req[r].by) IN
     \/ \E k \in mine :
          /\ k \in active => Cardinality(active) > 1
          /\ req' = [req EXCEPT ![r] = [@ EXCEPT !.target = k]]
          /\ MoveTo(r, "revoking")
          /\ Enters(r, "revoking")
     \/ Free(r) /\ UNCHANGED raced
  /\ UNCHANGED <<tables, known, faults, twins>>

\* ... and db.revoke_api_key sets revoked_at in another transaction.
RevokeKey(r) ==
  /\ at[r] = "revoking"
  /\ key' = [key EXCEPT ![req[r].target] = [@ EXCEPT !.revoked = TRUE]]
  /\ req' = [req EXCEPT ![r] = [@ EXCEPT !.entry = "key.revoked"]]
  /\ MoveTo(r, "acted")
  /\ UNCHANGED <<user, log, known, faults, ghosts>>

-----------------------------------------------------------------------------
\* audit.record after the fact, which swallows a failure of its own; then the
\* answer, which shows a new key for the only time.
Audit(r) ==
  /\ at[r] = "acted"
  /\ \/ /\ log' = log \union {[action |-> req[r].entry, actor |-> req[r].by,
                             target |-> req[r].target]}
        /\ UNCHANGED faults
     \/ /\ faults < MaxFaults
        /\ faults' = faults + 1
        /\ UNCHANGED log
  /\ known' = known \union ({req[r].key} \ {NoKey})
  /\ Free(r)
  /\ UNCHANGED <<user, key, ghosts>>

\* expires_at passes.
ExpireKey(k) ==
  /\ key[k].expiry = "later"
  /\ key' = [key EXCEPT ![k] = [@ EXCEPT !.expiry = "past"]]
  /\ UNCHANGED <<user, log, at, req, known, faults, ghosts>>

\* A handler raises or its process dies between two of its steps.
Die(r) ==
  /\ at[r] # "idle"
  /\ faults < MaxFaults
  /\ faults' = faults + 1
  /\ Free(r)
  /\ UNCHANGED <<tables, known, ghosts>>

Step(r) ==
  \/ Present(r) \/ FindKey(r) \/ FindUser(r)
  \/ Register(r) \/ AddUser(r) \/ CheckEmail(r) \/ InsertUser(r)
  \/ InsertInitialKey(r) \/ DeactivateUser(r)
  \/ CountKeys(r) \/ AddKey(r) \/ CheckLastKey(r) \/ RevokeKey(r)
  \/ Audit(r) \/ Die(r)
AccountsNext ==
  \/ \E r \in Requests : Step(r)
  \/ \E k \in Keys : ExpireKey(k)

AccountsSpec == AccountsInit /\ [][AccountsNext]_accountVars

-----------------------------------------------------------------------------
(* Properties                                                               *)

Places == {"idle", "presented", "identified", "in", "counted", "vacant",
           "created", "issuing", "revoking", "acted"}

AccountsTypeOK ==
  /\ user \in [Users -> Account]
  /\ key \in [Keys -> KeyRow]
  /\ log \subseteq Entry
  /\ at \in [Requests -> Places]
  /\ req \in [Requests -> Held]
  /\ known \subseteq Keys
  /\ faults \in Nat
  /\ raced \subseteq Users
  /\ twins \in BOOLEAN

\* The ceiling on active keys is counted before a key is added, in another
\* transaction (auth.issue_key): an account exceeds it only if two requests
\* were between the two at once, and then by no more than there can be.
KeysWithinCeiling ==
  \A u \in Users :
    Cardinality(ActiveKeys(u)) <=
      MaxActive + (IF u \in raced THEN Cardinality(Requests) - 1 ELSE 0)

\* A key that was revoked or had expired when a request presented it, or whose
\* account was deactivated, lets nobody in, although the hash of the initial
\* key stays on the user row (auth._principal_from_key).
BarredStaysOut ==
  \A r \in Requests :
    at[r] \in {"in", "issuing", "revoking"} => ~req[r].late

\* "Refuses to revoke the last active key" (routes/admin.py): an account all of
\* whose keys were revoked before they expired had two revocations under way
\* at once.
LockoutTakesARace ==
  \A u \in Users :
    /\ OwnKeys(u) # {}
    /\ \A k \in OwnKeys(u) : key[k].revoked /\ key[k].expiry # "past"
    => u \in raced

\* Registration closes behind the first account, and only an admin can make
\* another: some account stays an active admin, unless two registrations were
\* let through at once (two admins can bar each other).
AdminRemains ==
  \/ \A u \in Users : ~user[u].there
  \/ \E u \in Users : user[u].active /\ user[u].admin
  \/ twins

=============================================================================
