--------------------------- MODULE AccountsProofs ---------------------------
(***************************************************************************)
(* For any number of accounts, keys and requests, however they interleave   *)
(* and wherever they die: types; that a key which was revoked, had expired  *)
(* or belonged to a deactivated account when it was presented lets nobody   *)
(* in, although its hash may still stand on the user row; that some         *)
(* administrator remains; and that a lockout, or a key above the ceiling,   *)
(* takes the race that is named for it.                                     *)
(***************************************************************************)
EXTENDS Accounts, FiniteSetTheorems, TLAPS

-----------------------------------------------------------------------------
(* The invariant                                                            *)

Inside == {"in", "issuing", "revoking"}
Making == {"counted", "vacant", "created"}

\* A handler holds what its next step needs.
HoldsAt(r) ==
  /\ at[r] \in {"presented", "identified"} => req[r].key \in Keys
  /\ at[r] = "identified" => key[req[r].key].owner \in Users
  /\ at[r] \in Inside \union Making \union {"acted"} => req[r].by \in Users
  /\ at[r] \in Inside => user[req[r].by].there
  /\ at[r] \in Making => req[r].target \in Users
  /\ at[r] = "revoking" => req[r].target \in Keys
  /\ at[r] = "acted" => req[r].target \in Users \union Keys
  /\ at[r] \in {"created", "acted"} => req[r].entry \in Actions

\* The key is somebody's: it has a row, or is the hash on a user row.
Placed(k) == key[k].owner \in Users \/ \E u \in Users : user[u].hash = k

\* A key that a handler holds or an owner knows is somebody's; what has a row
\* or an account has its user row.
Placing ==
  /\ \A r \in Requests : req[r].key # NoKey => Placed(req[r].key)
  /\ \A k \in known : Placed(k)
  /\ \A k \in Keys : key[k].owner \in Users => user[key[k].owner].there
  /\ \A u \in Users :
       user[u].active \/ user[u].hash # NoKey => user[u].there

\* Between the user row and the key row of a new account nobody else has its
\* key.
Creating ==
  \A r \in Requests : at[r] = "created" =>
    /\ req[r].key \in Keys \ known
    /\ key[req[r].key].owner = Nobody
    /\ user[req[r].target].there
    /\ \A o \in Requests \ {r} : req[o].key # req[r].key

\* What was barred stays barred, and does not pass the two look-ups.
LateAt(r) ==
  req[r].late =>
    \/ at[r] = "presented" /\ Barred(req[r].key)
    \/ at[r] = "identified" /\ ~user[key[req[r].key].owner].active

AInv ==
  /\ AccountsTypeOK
  /\ \A r \in Requests : HoldsAt(r) /\ LateAt(r)
  /\ Placing
  /\ Creating

LEMMA InitAInv ==
  ASSUME ConstantsOK, AccountsInit
  PROVE  AInv
<1>1. CASE user = [u \in Users |-> NoAccount] /\ known = {}
  <2>1. AccountsTypeOK
    BY <1>1 DEF ConstantsOK, AccountsInit, AccountsTypeOK, Account, KeyRow,
                Held, Places,
                NoAccount, NoKeyRow, Idle
  <2>2. Placing
    BY <1>1 DEF ConstantsOK, AccountsInit, Placing, Idle, NoKeyRow, NoAccount
  <2> QED
    BY <2>1, <2>2 DEF AccountsInit, AInv, HoldsAt, LateAt, Creating, Idle,
                      Inside, Making
<1>2. ASSUME NEW u \in Users, NEW k \in Keys, known = {k},
             user = [[v \in Users |-> NoAccount] EXCEPT ![u] =
               [there |-> TRUE, active |-> TRUE, admin |-> TRUE, hash |-> k]]
      PROVE  AInv
  <2>1. \A v \in Users : user[v] =
          IF v = u THEN [there |-> TRUE, active |-> TRUE, admin |-> TRUE,
                         hash |-> k]
                   ELSE NoAccount
    BY <1>2
  <2>2. user \in [Users -> Account]
    BY <1>2 DEF Account, NoAccount
  <2>3. AccountsTypeOK
    BY <1>2, <2>2 DEF ConstantsOK, AccountsInit, AccountsTypeOK, KeyRow, Held,
                      Places, NoKeyRow,
                      Idle
  <2>4. Placing
    BY <1>2, <2>1 DEF ConstantsOK, AccountsInit, Placing, Placed, Idle,
                      NoKeyRow, NoAccount
  <2> QED
    BY <2>3, <2>4 DEF AccountsInit, AInv, HoldsAt, LateAt, Creating, Idle,
                      Inside, Making
<1> QED
  BY <1>1, <1>2 DEF AccountsInit

-----------------------------------------------------------------------------
(* Types                                                                    *)

LEMMA HeldType ==
  ASSUME NEW h \in Held, NEW k \in Keys \union {NoKey}, NEW b \in BOOLEAN,
         NEW u \in Users \union {Nobody},
         NEW t \in Users \union Keys \union {Nobody},
         NEW e \in Actions \union {"none"}
  PROVE  /\ [h EXCEPT !.key = k, !.late = b] \in Held
         /\ [h EXCEPT !.key = k, !.entry = e] \in Held
         /\ [h EXCEPT !.key = k, !.target = t, !.entry = e] \in Held
         /\ [h EXCEPT !.by = u, !.admin = b] \in Held
         /\ [h EXCEPT !.by = u, !.admin = b, !.target = t] \in Held
         /\ [h EXCEPT !.target = t] \in Held
         /\ [h EXCEPT !.target = t, !.entry = e] \in Held
         /\ [h EXCEPT !.entry = e] \in Held
<1>1. [h EXCEPT !.key = k, !.late = b] \in Held
  BY DEF Held
<1>2. [h EXCEPT !.key = k, !.entry = e] \in Held
  BY DEF Held
<1>3. [h EXCEPT !.key = k, !.target = t, !.entry = e] \in Held
  BY DEF Held
<1>4. [h EXCEPT !.by = u, !.admin = b] \in Held
  BY DEF Held
<1>5. [h EXCEPT !.by = u, !.admin = b, !.target = t] \in Held
  BY DEF Held
<1>6. [h EXCEPT !.target = t] \in Held
  BY DEF Held
<1>7. [h EXCEPT !.target = t, !.entry = e] \in Held
  BY DEF Held
<1>8. [h EXCEPT !.entry = e] \in Held
  BY DEF Held
<1> QED
  BY <1>1, <1>2, <1>3, <1>4, <1>5, <1>6, <1>7, <1>8

LEMMA RowsType ==
  /\ \A a \in Account : [a EXCEPT !.active = FALSE] \in Account
  /\ \A w \in KeyRow : /\ [w EXCEPT !.revoked = TRUE] \in KeyRow
                       /\ [w EXCEPT !.expiry = "past"] \in KeyRow
<1>1. ASSUME NEW a \in Account
      PROVE  [a EXCEPT !.active = FALSE] \in Account
  BY DEF Account
<1>2. ASSUME NEW w \in KeyRow
      PROVE  [w EXCEPT !.revoked = TRUE] \in KeyRow
  BY DEF KeyRow
<1>3. ASSUME NEW w \in KeyRow
      PROVE  [w EXCEPT !.expiry = "past"] \in KeyRow
  BY DEF KeyRow
<1> QED
  BY <1>1, <1>2, <1>3

LEMMA FreeType ==
  ASSUME AccountsTypeOK, NEW r \in Requests, Free(r)
  PROVE  at' \in [Requests -> Places] /\ req' \in [Requests -> Held]
  BY DEF AccountsTypeOK, Free, MoveTo, Places, Held, Idle

LEMMA GotoType ==
  ASSUME AccountsTypeOK, NEW r \in Requests, NEW place \in Places,
         MoveTo(r, place)
  PROVE  at' \in [Requests -> Places]
  BY DEF AccountsTypeOK, MoveTo

LEMMA EntersType ==
  ASSUME AccountsTypeOK, NEW r \in Requests, NEW place, req[r].by \in Users,
         Enters(r, place)
  PROVE  raced' \subseteq Users
  BY DEF AccountsTypeOK, Enters

LEMMA StepType ==
  ASSUME ConstantsOK, AInv, [AccountsNext]_accountVars
  PROVE  AccountsTypeOK'
<1> USE DEF AInv
<1>0. \A place \in {"idle", "presented", "identified", "in", "counted",
                    "vacant", "created", "issuing", "revoking", "acted"} :
        place \in Places
  BY DEF Places
<1>1. ASSUME NEW r \in Requests, Present(r)
      PROVE  AccountsTypeOK'
  <2>1. PICK k \in known :
          req' = [req EXCEPT ![r] = [@ EXCEPT !.key = k, !.late = Barred(k)]]
    BY <1>1 DEF Present
  <2>2. k \in Keys /\ Barred(k) \in BOOLEAN
    BY DEF AccountsTypeOK, Barred
  <2>3. req' \in [Requests -> Held]
    BY <2>1, <2>2, HeldType DEF AccountsTypeOK
  <2> QED
    BY <1>0, <1>1, <2>3, GotoType DEF Present, AccountsTypeOK, tables, ghosts
<1>2. ASSUME NEW r \in Requests, FindKey(r) \/ FindUser(r)
      PROVE  AccountsTypeOK'
  <2>1. CASE Free(r)
    BY <1>2, <2>1, FreeType DEF FindKey, FindUser, AccountsTypeOK, tables,
                                ghosts
  <2>2. CASE UNCHANGED req /\ MoveTo(r, "identified")
    BY <1>0, <1>2, <2>2, GotoType DEF FindKey, FindUser, AccountsTypeOK,
                                      tables, ghosts
  <2>3. ASSUME NEW u \in Users, ActAs(r, u)
        PROVE  AccountsTypeOK'
    <3>1. MoveTo(r, "in") /\ req' \in [Requests -> Held]
      BY <2>3, HeldType DEF ActAs, AccountsTypeOK, Account
    <3> QED
      BY <1>0, <1>2, <2>3, <3>1, GotoType
         DEF FindKey, FindUser, AccountsTypeOK, tables, ghosts
  <2>4. at[r] = "identified" => key[req[r].key].owner \in Users
    BY DEF HoldsAt
  <2> QED
    BY <1>2, <2>1, <2>2, <2>3, <2>4 DEF FindKey, FindUser, ByHash
<1>3. ASSUME NEW r \in Requests, Register(r) \/ AddUser(r)
      PROVE  AccountsTypeOK'
  <2>0. req[r] \in Held
    BY DEF AccountsTypeOK
  <2>1. req' \in [Requests -> Held]
    <3>1. CASE Free(r)
      BY <3>1, FreeType
    <3>2. ASSUME NEW u \in Users,
                 \/ req' = [req EXCEPT ![r] =
                              [@ EXCEPT !.by = u, !.admin = TRUE, !.target = u]]
                 \/ req' = [req EXCEPT ![r] = [@ EXCEPT !.target = u]]
          PROVE  req' \in [Requests -> Held]
      <4>1. /\ [req[r] EXCEPT !.by = u, !.admin = TRUE, !.target = u] \in Held
            /\ [req[r] EXCEPT !.target = u] \in Held
        BY <2>0, HeldType
      <4> QED
        BY <3>2, <4>1 DEF AccountsTypeOK
    <3> QED
      BY <1>3, <3>1, <3>2 DEF Register, AddUser
  <2>2. at' \in [Requests -> Places] /\ twins' \in BOOLEAN
    BY <1>0, <1>3, FreeType, GotoType
       DEF Register, AddUser, AccountsTypeOK, tables, ghosts
  <2> QED
    BY <1>3, <2>1, <2>2 DEF Register, AddUser, AccountsTypeOK, tables, ghosts
<1>4. ASSUME NEW r \in Requests, CheckEmail(r)
      PROVE  AccountsTypeOK'
  BY <1>0, <1>4, FreeType, GotoType DEF CheckEmail, AccountsTypeOK, tables,
                                        ghosts
<1>5. ASSUME NEW r \in Requests, InsertUser(r)
      PROVE  AccountsTypeOK'
  <2>1. req[r].by \in Users /\ req[r].target \in Users
    BY <1>5 DEF InsertUser, HoldsAt, Making
  <2>2. CASE user[req[r].target].there
    BY <1>5, <2>2, FreeType DEF InsertUser, AccountsTypeOK, ghosts
  <2>3. CASE ~user[req[r].target].there
    <3>1. PICK k \in Keys :
            /\ user' = [user EXCEPT ![req[r].target] =
                 [there |-> TRUE, active |-> TRUE,
                  admin |-> req[r].by = req[r].target, hash |-> k]]
            /\ req' = [req EXCEPT ![r] =
                         [@ EXCEPT !.key = k, !.entry = "user.created"]]
            /\ MoveTo(r, "created")
      BY <1>5, <2>3 DEF InsertUser
    <3>2. user' \in [Users -> Account]
      BY <2>1, <3>1 DEF AccountsTypeOK, Account
    <3>3. req' \in [Requests -> Held]
      BY <3>1, HeldType DEF AccountsTypeOK, Actions
    <3> QED
      BY <1>0, <1>5, <3>1, <3>2, <3>3, GotoType DEF InsertUser,
                                                    AccountsTypeOK, ghosts
  <2> QED
    BY <2>2, <2>3
<1>6. ASSUME NEW r \in Requests, InsertInitialKey(r)
      PROVE  AccountsTypeOK'
  <2>1. req[r].target \in Users
    BY <1>6 DEF InsertInitialKey, HoldsAt, Making
  <2>2. key' \in [Keys -> KeyRow]
    BY <1>6, <2>1 DEF InsertInitialKey, AccountsTypeOK, KeyRow, ConstantsOK
  <2> QED
    BY <1>0, <1>6, <2>2, GotoType DEF InsertInitialKey, AccountsTypeOK, ghosts
<1>7. ASSUME NEW r \in Requests, DeactivateUser(r)
      PROVE  AccountsTypeOK'
  <2>1. CASE Free(r) /\ UNCHANGED user
    BY <1>7, <2>1, FreeType DEF DeactivateUser, AccountsTypeOK, ghosts
  <2>2. ASSUME NEW u \in Users, MoveTo(r, "acted"),
               user' = [user EXCEPT ![u] = [@ EXCEPT !.active = FALSE]],
               req' = [req EXCEPT ![r] =
                 [@ EXCEPT !.target = u, !.entry = "user.deactivated"]]
        PROVE  AccountsTypeOK'
    <3>1. [user[u] EXCEPT !.active = FALSE] \in Account
      BY RowsType DEF AccountsTypeOK
    <3>2. [req[r] EXCEPT !.target = u, !.entry = "user.deactivated"] \in Held
      BY HeldType DEF AccountsTypeOK, Actions
    <3>3. user' \in [Users -> Account] /\ req' \in [Requests -> Held]
      BY <2>2, <3>1, <3>2 DEF AccountsTypeOK
    <3> QED
      BY <1>0, <1>7, <2>2, <3>3, GotoType DEF DeactivateUser, AccountsTypeOK,
                                              ghosts
  <2> QED
    BY <1>7, <2>1, <2>2 DEF DeactivateUser
<1>8. ASSUME NEW r \in Requests, CountKeys(r) \/ CheckLastKey(r)
      PROVE  AccountsTypeOK'
  <2>1. req[r].by \in Users
    BY <1>8 DEF CountKeys, CheckLastKey, HoldsAt, Inside
  <2>2. raced' \subseteq Users
    BY <1>8, <2>1, EntersType DEF CountKeys, CheckLastKey, AccountsTypeOK
  <2>3. req' \in [Requests -> Held]
    <3>1. CASE Free(r) \/ UNCHANGED req
      BY <3>1, FreeType DEF AccountsTypeOK
    <3>2. ASSUME NEW k \in Keys,
                 req' = [req EXCEPT ![r] = [@ EXCEPT !.target = k]]
          PROVE  req' \in [Requests -> Held]
      <4>1. [req[r] EXCEPT !.target = k] \in Held
        BY HeldType DEF AccountsTypeOK
      <4> QED
        BY <3>2, <4>1 DEF AccountsTypeOK
    <3> QED
      BY <1>8, <3>1, <3>2 DEF CountKeys, CheckLastKey, OwnKeys
  <2>4. at' \in [Requests -> Places]
    BY <1>0, <1>8, FreeType, GotoType DEF CountKeys, CheckLastKey
  <2> QED
    BY <1>8, <2>2, <2>3, <2>4 DEF CountKeys, CheckLastKey, AccountsTypeOK,
                                  tables
<1>9. ASSUME NEW r \in Requests, AddKey(r)
      PROVE  AccountsTypeOK'
  <2>1. req[r].by \in Users
    BY <1>9 DEF AddKey, HoldsAt, Inside
  <2>2. key' \in [Keys -> KeyRow] /\ req' \in [Requests -> Held]
    <3>1. PICK k \in Keys, expiry \in {"never", "later"} :
            /\ key' = [key EXCEPT ![k] =
                 [owner |-> req[r].by, revoked |-> FALSE, expiry |-> expiry]]
            /\ req' = [req EXCEPT ![r] =
                 [@ EXCEPT !.key = k, !.target = k, !.entry = "key.issued"]]
      BY <1>9 DEF AddKey
    <3>2. [req[r] EXCEPT !.key = k, !.target = k, !.entry = "key.issued"]
            \in Held
      BY HeldType DEF AccountsTypeOK, Actions
    <3>3. [owner |-> req[r].by, revoked |-> FALSE, expiry |-> expiry] \in KeyRow
      BY <2>1 DEF KeyRow
    <3> QED
      BY <3>1, <3>2, <3>3 DEF AccountsTypeOK
  <2> QED
    BY <1>0, <1>9, <2>2, GotoType DEF AddKey, AccountsTypeOK, ghosts
<1>10. ASSUME NEW r \in Requests, RevokeKey(r)
       PROVE  AccountsTypeOK'
  <2>1. key' \in [Keys -> KeyRow] /\ req' \in [Requests -> Held]
    BY <1>10, HeldType, RowsType DEF RevokeKey, AccountsTypeOK, Actions
  <2> QED
    BY <1>0, <1>10, <2>1, GotoType DEF RevokeKey, AccountsTypeOK, ghosts
<1>11. ASSUME NEW r \in Requests, Audit(r)
       PROVE  AccountsTypeOK'
  <2>1. [action |-> req[r].entry, actor |-> req[r].by,
         target |-> req[r].target] \in Entry
    BY <1>11 DEF Audit, HoldsAt, Entry
  <2>2. log' \subseteq Entry /\ faults' \in Nat
    BY <1>11, <2>1 DEF Audit, AccountsTypeOK
  <2>3. known' \subseteq Keys
    BY <1>11 DEF Audit, AccountsTypeOK, Held
  <2> QED
    BY <1>11, <2>2, <2>3, FreeType DEF Audit, AccountsTypeOK, ghosts
<1>12. ASSUME NEW r \in Requests, Die(r)
       PROVE  AccountsTypeOK'
  BY <1>12, FreeType DEF Die, AccountsTypeOK, tables, ghosts
<1>13. ASSUME NEW k \in Keys, ExpireKey(k)
       PROVE  AccountsTypeOK'
  <2>1. key' \in [Keys -> KeyRow]
    BY <1>13, RowsType DEF ExpireKey, AccountsTypeOK
  <2> QED
    BY <1>13, <2>1 DEF ExpireKey, AccountsTypeOK, ghosts
<1>14. CASE UNCHANGED accountVars
  BY <1>14 DEF AccountsTypeOK, accountVars, tables, ghosts
<1> QED
  BY <1>1, <1>2, <1>3, <1>4, <1>5, <1>6, <1>7, <1>8, <1>9, <1>10, <1>11, <1>12,
     <1>13, <1>14 DEF AccountsNext, Step

-----------------------------------------------------------------------------
(* What no step undoes                                                      *)

\* Rows keep their owner and users their hash; what is inactive stays so.
Growth ==
  /\ \A k \in Keys : key[k].owner \in Users =>
       /\ key'[k].owner = key[k].owner
       /\ IsActive(k)' => IsActive(k)
  /\ \A u \in Users : user[u].there =>
       /\ user'[u].there
       /\ user'[u].hash = user[u].hash
       /\ user'[u].active => user[u].active

\* A key without a row is given one only by the registration that made it.
Rowless(k) ==
  /\ key[k].owner = Nobody /\ Placed(k)
  /\ \A r \in Requests : at[r] = "created" => req[r].key # k
StayRowless ==
  \A k \in Keys : Rowless(k) =>
    key'[k].owner = Nobody /\ ByHash(k)' \subseteq ByHash(k)

LEMMA StepGrows ==
  ASSUME ConstantsOK, AInv, [AccountsNext]_accountVars
  PROVE  Growth
<1> USE DEF AInv, IsActive
<1>1. ASSUME UNCHANGED <<user, key>>
      PROVE  Growth
  BY <1>1 DEF Growth
<1>2. ASSUME NEW r \in Requests, InsertUser(r)
      PROVE  Growth
  BY <1>2 DEF InsertUser, Growth, AccountsTypeOK
<1>3. ASSUME NEW r \in Requests, InsertInitialKey(r)
      PROVE  Growth
  BY <1>3 DEF InsertInitialKey, Growth, AccountsTypeOK, Creating, ConstantsOK
<1>4. ASSUME NEW r \in Requests, DeactivateUser(r)
      PROVE  Growth
  <2>1. CASE UNCHANGED <<user, key>>
    BY <1>1, <2>1
  <2>2. ASSUME NEW u \in Users, UNCHANGED key,
               user' = [user EXCEPT ![u] = [@ EXCEPT !.active = FALSE]]
        PROVE  Growth
    <3>1. /\ user[u] \in Account
          /\ \A v \in Users : user'[v] =
               IF v = u THEN [user[u] EXCEPT !.active = FALSE] ELSE user[v]
      BY <2>2 DEF AccountsTypeOK
    <3>2. /\ user'[u].there = user[u].there
          /\ user'[u].hash = user[u].hash
          /\ user'[u].active = FALSE
      BY <3>1 DEF Account
    <3> QED
      BY <2>2, <3>1, <3>2 DEF Growth
  <2> QED
    BY <1>4, <2>1, <2>2 DEF DeactivateUser
<1>5. ASSUME NEW r \in Requests, AddKey(r)
      PROVE  Growth
  BY <1>5 DEF AddKey, FreshKey, Growth, AccountsTypeOK, ConstantsOK
<1>6. ASSUME NEW r \in Requests, RevokeKey(r)
      PROVE  Growth
  BY <1>6 DEF RevokeKey, Growth, AccountsTypeOK, KeyRow
<1>7. ASSUME NEW k \in Keys, ExpireKey(k)
      PROVE  Growth
  BY <1>7 DEF ExpireKey, Growth, AccountsTypeOK, KeyRow
<1>8. CASE UNCHANGED accountVars
  BY <1>1, <1>8 DEF accountVars, tables
<1> QED
  BY <1>1, <1>2, <1>3, <1>4, <1>5, <1>6, <1>7, <1>8
     DEF AccountsNext, Step, Present, FindKey, FindUser, Register, AddUser,
         CheckEmail,
         CountKeys, CheckLastKey, Audit, Die, tables

LEMMA RowlessStays ==
  ASSUME ConstantsOK, AInv, [AccountsNext]_accountVars
  PROVE  StayRowless
<1> USE DEF AInv, ByHash
<1>1. ASSUME UNCHANGED key, UNCHANGED user
      PROVE  StayRowless
  BY <1>1 DEF StayRowless, Rowless
<1>2. ASSUME NEW r \in Requests, InsertUser(r)
      PROVE  StayRowless
  <2>1. CASE UNCHANGED user
    BY <1>1, <1>2, <2>1 DEF InsertUser
  <2>2. CASE ~UNCHANGED user
    <3>1. PICK k \in Keys :
            /\ FreshKey(k)
            /\ user' = [user EXCEPT ![req[r].target] =
                 [there |-> TRUE, active |-> TRUE,
                  admin |-> req[r].by = req[r].target, hash |-> k]]
      BY <1>2, <2>2 DEF InsertUser
    <3>2. \A u \in Users : user'[u] = user[u] \/ user'[u].hash = k
      BY <3>1 DEF AccountsTypeOK
    <3>3. \A l \in Keys : Rowless(l) => l # k
      BY <3>1 DEF FreshKey, Rowless, Placed, ConstantsOK
    <3>4. UNCHANGED key
      BY <1>2 DEF InsertUser
    <3> QED
      BY <3>2, <3>3, <3>4 DEF StayRowless, Rowless
  <2> QED
    BY <2>1, <2>2
<1>3. ASSUME NEW r \in Requests, InsertInitialKey(r)
      PROVE  StayRowless
  BY <1>3 DEF InsertInitialKey, StayRowless, Rowless, AccountsTypeOK
<1>4. ASSUME NEW r \in Requests, DeactivateUser(r)
      PROVE  StayRowless
  <2>1. CASE UNCHANGED user
    BY <1>4, <1>1, <2>1 DEF DeactivateUser
  <2>2. ASSUME NEW u \in Users, UNCHANGED key,
               user' = [user EXCEPT ![u] = [@ EXCEPT !.active = FALSE]]
        PROVE  StayRowless
    <3>1. /\ user[u] \in Account
          /\ \A v \in Users : user'[v] =
               IF v = u THEN [user[u] EXCEPT !.active = FALSE] ELSE user[v]
      BY <2>2 DEF AccountsTypeOK
    <3>2. user'[u].hash = user[u].hash /\ user'[u].active = FALSE
      BY <3>1 DEF Account
    <3> QED
      BY <2>2, <3>1, <3>2 DEF StayRowless, Rowless
  <2> QED
    BY <1>4, <2>1, <2>2 DEF DeactivateUser
<1>5. ASSUME NEW r \in Requests, AddKey(r)
      PROVE  StayRowless
  BY <1>5 DEF AddKey, FreshKey, StayRowless, Rowless, Placed, AccountsTypeOK,
              ConstantsOK
<1>6. ASSUME NEW r \in Requests, RevokeKey(r)
      PROVE  StayRowless
  BY <1>6 DEF RevokeKey, StayRowless, Rowless, AccountsTypeOK, KeyRow
<1>7. ASSUME NEW k \in Keys, ExpireKey(k)
      PROVE  StayRowless
  BY <1>7 DEF ExpireKey, StayRowless, Rowless, AccountsTypeOK, KeyRow
<1>8. CASE UNCHANGED accountVars
  BY <1>1, <1>8 DEF accountVars, tables
<1> QED
  BY <1>1, <1>2, <1>3, <1>4, <1>5, <1>6, <1>7, <1>8
     DEF AccountsNext, Step, Present, FindKey, FindUser, Register, AddUser,
         CheckEmail,
         CountKeys, CheckLastKey, Audit, Die, tables

-----------------------------------------------------------------------------
(* A request that does not move                                             *)

OwnAt(r) ==
  /\ HoldsAt(r)
  /\ LateAt(r)
  /\ req[r].key # NoKey => Placed(req[r].key)

LEMMA PlacedStays ==
  ASSUME ConstantsOK, AInv, Growth, NEW k \in Keys, Placed(k)
  PROVE  Placed(k)'
  BY DEF AInv, Growth, Placed, Placing, ConstantsOK

LEMMA OthersKeep ==
  ASSUME ConstantsOK, AInv, Growth, StayRowless, NEW o \in Requests,
         at'[o] = at[o], req'[o] = req[o],
         \A r \in Requests \ {o} : at[r] = "created" => req[r].key # req[o].key
  PROVE  OwnAt(o)'
<1> USE DEF AInv
<1>1. HoldsAt(o)'
  BY DEF HoldsAt, Growth, Inside
<1>2. req[o].key # NoKey => Placed(req[o].key)'
  BY PlacedStays DEF Placing, AccountsTypeOK, Held
<1>3. LateAt(o)'
  <2> SUFFICES ASSUME req[o].late
               PROVE  LateAt(o)'
    BY DEF LateAt
  <2>1. CASE at[o] = "presented" /\ Barred(req[o].key)
    <3> DEFINE k == req[o].key
    <3>1. k \in Keys /\ Placed(k)
      BY <2>1 DEF HoldsAt, Placing, ConstantsOK
    <3>2. CASE key[k].owner = Nobody
      <4>1. Rowless(k)
        BY <2>1, <3>1, <3>2 DEF Rowless
      <4>2. ByHash(k) = {}
        BY <2>1, <3>2 DEF Barred
      <4>3. key'[k].owner = Nobody /\ ByHash(k)' = {}
        BY <3>1, <4>1, <4>2 DEF StayRowless
      <4> QED
        BY <2>1, <4>3 DEF LateAt, Barred
    <3>3. CASE key[k].owner # Nobody
      <4>1. key[k].owner \in Users
        BY <3>1, <3>3 DEF AccountsTypeOK, KeyRow
      <4>2. ~IsActive(k) \/ ~user[key[k].owner].active
        BY <2>1, <3>3 DEF Barred
      <4>3. /\ key'[k].owner = key[k].owner
            /\ IsActive(k)' => IsActive(k)
            /\ user'[key[k].owner].active => user[key[k].owner].active
        BY <3>1, <4>1 DEF Growth, Placing
      <4> QED
        BY <2>1, <3>3, <4>2, <4>3 DEF LateAt, Barred
    <3> QED
      BY <3>2, <3>3
  <2>2. CASE at[o] = "identified" /\ ~user[key[req[o].key].owner].active
    BY <2>2 DEF LateAt, HoldsAt, Growth, Placing
  <2> QED
    BY <2>1, <2>2 DEF LateAt
<1> QED
  BY <1>1, <1>2, <1>3 DEF OwnAt

-----------------------------------------------------------------------------
(* The request that moves                                                   *)

LEMMA FreeKeeps ==
  ASSUME ConstantsOK, AccountsTypeOK, NEW r \in Requests, Free(r)
  PROVE  OwnAt(r)'
<1>1. at'[r] = "idle" /\ req'[r] = Idle
  BY DEF Free, MoveTo, AccountsTypeOK
<1> QED
  BY <1>1 DEF OwnAt, HoldsAt, LateAt, Idle, Inside, Making

LEMMA MoverKeeps ==
  ASSUME ConstantsOK, AInv, Growth, NEW r \in Requests, Step(r)
  PROVE  OwnAt(r)'
<1> USE DEF AInv
<1>0. OwnAt(r) /\ req[r] \in Held
  BY DEF OwnAt, Placing, AccountsTypeOK
<1>a. ASSUME NEW place, MoveTo(r, place)
      PROVE  at'[r] = place
  BY <1>a DEF MoveTo, AccountsTypeOK
<1>b. ASSUME NEW h, req' = [req EXCEPT ![r] = h]
      PROVE  req'[r] = h
  BY <1>b DEF AccountsTypeOK
<1>c. ASSUME req'[r].key = req[r].key
      PROVE  req'[r].key # NoKey => Placed(req[r].key)'
  <2> SUFFICES ASSUME req[r].key # NoKey
               PROVE  Placed(req[r].key)'
    BY <1>c
  <2>1. PICK k \in Keys : k = req[r].key /\ Placed(k)
    BY <1>0 DEF OwnAt, Held
  <2>2. Placed(k)'
    BY <2>1, PlacedStays
  <2> QED
    BY <1>c, <2>1, <2>2 DEF Placed
<1>1. CASE Present(r)
  <2>1. PICK k \in known :
          req' = [req EXCEPT ![r] = [@ EXCEPT !.key = k, !.late = Barred(k)]]
    BY <1>1 DEF Present
  <2>2. req'[r].key = k /\ req'[r].late = Barred(k) /\ at'[r] = "presented"
    BY <1>0, <1>1, <1>a, <2>1 DEF Present, Held, AccountsTypeOK
  <2>3. k \in Keys /\ Placed(k)' /\ Barred(k)' = Barred(k)
    BY <1>1, PlacedStays
       DEF Present, Placing, AccountsTypeOK, Barred, ByHash, IsActive, tables
  <2> QED
    BY <2>2, <2>3 DEF OwnAt, HoldsAt, LateAt, Inside, Making
<1>2. CASE FindKey(r)
  <2>1. CASE Free(r)
    BY <2>1, FreeKeeps
  <2>2. CASE IsActive(req[r].key) /\ UNCHANGED req /\ MoveTo(r, "identified")
    <3>1. at[r] = "presented" /\ at'[r] = "identified"
             /\ UNCHANGED <<user, key>>
      BY <1>2, <1>a, <2>2 DEF FindKey, tables
    <3>2. req[r].key \in Keys /\ key[req[r].key].owner \in Users
      BY <1>0, <2>2, <3>1 DEF OwnAt, HoldsAt, IsActive, AccountsTypeOK, KeyRow
    <3>3. req[r].late => ~user[key[req[r].key].owner].active
      BY <1>0, <2>2, <3>1 DEF OwnAt, LateAt, Barred, IsActive
    <3> QED
      BY <1>c, <2>2, <3>1, <3>2, <3>3 DEF OwnAt, HoldsAt, LateAt, Inside, Making
  <2>3. ASSUME NEW u \in ByHash(req[r].key), key[req[r].key].owner = Nobody,
               ActAs(r, u)
        PROVE  OwnAt(r)'
    <3>1. /\ at[r] = "presented" /\ at'[r] = "in" /\ UNCHANGED <<user, key>>
          /\ u \in Users /\ user[u].there
      BY <1>2, <1>a, <2>3 DEF FindKey, ActAs, ByHash, Placing, tables
    <3>2. ~req[r].late
      BY <1>0, <2>3, <3>1 DEF OwnAt, LateAt, Barred
    <3>3. /\ req'[r].key = req[r].key /\ req'[r].late = req[r].late
          /\ req'[r].by = u
      BY <1>0, <2>3 DEF ActAs, AccountsTypeOK, Held
    <3> QED
      BY <1>c, <3>1, <3>2, <3>3 DEF OwnAt, HoldsAt, LateAt, Inside, Making
  <2> QED
    BY <1>2, <2>1, <2>2, <2>3 DEF FindKey
<1>3. CASE FindUser(r)
  <2> DEFINE u == key[req[r].key].owner
  <2>1. CASE Free(r)
    BY <2>1, FreeKeeps
  <2>2. CASE user[u].active /\ ActAs(r, u)
    <3>1. /\ at[r] = "identified" /\ at'[r] = "in" /\ UNCHANGED <<user, key>>
          /\ u \in Users /\ user[u].there
      BY <1>0, <1>3, <1>a, <2>2
         DEF FindUser, ActAs, OwnAt, HoldsAt, Placing, tables
    <3>2. ~req[r].late
      BY <1>0, <2>2, <3>1 DEF OwnAt, LateAt
    <3>3. /\ req'[r].key = req[r].key /\ req'[r].late = req[r].late
          /\ req'[r].by = u
      BY <1>0, <2>2 DEF ActAs, AccountsTypeOK, Held
    <3> QED
      BY <1>c, <3>1, <3>2, <3>3 DEF OwnAt, HoldsAt, LateAt, Inside, Making
  <2> QED
    BY <1>3, <2>1, <2>2 DEF FindUser
<1>4. CASE Register(r)
  <2>1. PICK u \in Users :
          req' = [req EXCEPT ![r] =
                   [@ EXCEPT !.by = u, !.admin = TRUE, !.target = u]]
    BY <1>4 DEF Register
  <2>2. /\ req'[r].key = req[r].key /\ req'[r].late = req[r].late
        /\ req'[r].by = u /\ req'[r].target = u
    BY <1>0, <2>1 DEF AccountsTypeOK, Held
  <2>3. at[r] = "idle" /\ at'[r] = "counted" /\ UNCHANGED <<user, key>>
    BY <1>4, <1>a DEF Register, tables
  <2>4. ~req[r].late
    BY <1>0, <2>3 DEF OwnAt, LateAt
  <2> QED
    BY <1>c, <2>2, <2>3, <2>4 DEF OwnAt, HoldsAt, LateAt, Inside, Making
<1>5. CASE AddUser(r)
  <2>1. CASE Free(r)
    BY <2>1, FreeKeeps
  <2>2. ASSUME NEW u \in Users, MoveTo(r, "counted"),
               req' = [req EXCEPT ![r] = [@ EXCEPT !.target = u]]
        PROVE  OwnAt(r)'
    <3>1. /\ req'[r].key = req[r].key /\ req'[r].late = req[r].late
          /\ req'[r].by = req[r].by /\ req'[r].target = u
      BY <1>0, <2>2 DEF AccountsTypeOK, Held
    <3>2. at[r] = "in" /\ at'[r] = "counted" /\ UNCHANGED <<user, key>>
      BY <1>5, <1>a, <2>2 DEF AddUser, tables
    <3>3. ~req[r].late /\ req[r].by \in Users
      BY <1>0, <3>2 DEF OwnAt, LateAt, HoldsAt, Inside
    <3> QED
      BY <1>c, <3>1, <3>2, <3>3 DEF OwnAt, HoldsAt, LateAt, Inside, Making
  <2> QED
    BY <1>5, <2>1, <2>2 DEF AddUser
<1>6. CASE CheckEmail(r)
  <2>1. CASE Free(r)
    BY <2>1, FreeKeeps
  <2>2. CASE MoveTo(r, "vacant") /\ UNCHANGED req
    <3>1. at[r] = "counted" /\ at'[r] = "vacant" /\ UNCHANGED <<user, key>>
      BY <1>6, <1>a, <2>2 DEF CheckEmail, tables
    <3> QED
      BY <1>0, <1>c, <2>2, <3>1 DEF OwnAt, HoldsAt, LateAt, Inside, Making
  <2> QED
    BY <1>6, <2>1, <2>2 DEF CheckEmail
<1>7. CASE InsertUser(r)
  <2>1. CASE Free(r)
    BY <2>1, FreeKeeps
  <2>2. CASE ~Free(r)
    <3>1. PICK k \in Keys :
            /\ user' = [user EXCEPT ![req[r].target] =
                 [there |-> TRUE, active |-> TRUE,
                  admin |-> req[r].by = req[r].target, hash |-> k]]
            /\ req' = [req EXCEPT ![r] =
                         [@ EXCEPT !.key = k, !.entry = "user.created"]]
            /\ MoveTo(r, "created")
      BY <1>7, <2>2 DEF InsertUser
    <3>2. at[r] = "vacant" /\ at'[r] = "created"
      BY <1>7, <1>a, <3>1 DEF InsertUser
    <3>3. ~req[r].late /\ req[r].by \in Users /\ req[r].target \in Users
      BY <1>0, <3>2 DEF OwnAt, LateAt, HoldsAt, Making
    <3>4. /\ req'[r].key = k /\ req'[r].late = req[r].late
          /\ req'[r].by = req[r].by /\ req'[r].target = req[r].target
          /\ req'[r].entry \in Actions
      BY <1>0, <3>1 DEF AccountsTypeOK, Held, Actions
    <3>5. Placed(k)'
      BY <3>1, <3>3 DEF Placed, AccountsTypeOK
    <3>6. Placed(req[r].key)'
      BY <3>4, <3>5 DEF Placed
    <3> QED
      BY <3>2, <3>3, <3>4, <3>6 DEF OwnAt, HoldsAt, LateAt, Inside, Making
  <2> QED
    BY <2>1, <2>2
<1>8. CASE InsertInitialKey(r)
  <2>1. at[r] = "created" /\ at'[r] = "acted" /\ UNCHANGED req
    BY <1>8, <1>a DEF InsertInitialKey
  <2>2. ~req[r].late /\ req[r].by \in Users /\ req[r].target \in Users
    BY <1>0, <2>1 DEF OwnAt, LateAt, HoldsAt, Making
  <2> QED
    BY <1>c, <2>1, <2>2 DEF OwnAt, HoldsAt, LateAt, Inside, Making
<1>9. CASE DeactivateUser(r)
  <2>1. CASE Free(r)
    BY <2>1, FreeKeeps
  <2>2. ASSUME NEW u \in Users, MoveTo(r, "acted"),
               req' = [req EXCEPT ![r] =
                 [@ EXCEPT !.target = u, !.entry = "user.deactivated"]]
        PROVE  OwnAt(r)'
    <3>1. /\ req'[r].key = req[r].key /\ req'[r].late = req[r].late
          /\ req'[r].by = req[r].by /\ req'[r].target = u
          /\ req'[r].entry \in Actions
      BY <1>0, <2>2 DEF AccountsTypeOK, Held, Actions
    <3>2. at[r] = "in" /\ at'[r] = "acted"
      BY <1>9, <1>a, <2>2 DEF DeactivateUser
    <3>3. ~req[r].late /\ req[r].by \in Users
      BY <1>0, <3>2 DEF OwnAt, LateAt, HoldsAt, Inside
    <3> QED
      BY <1>c, <3>1, <3>2, <3>3 DEF OwnAt, HoldsAt, LateAt, Inside, Making
  <2> QED
    BY <1>9, <2>1, <2>2 DEF DeactivateUser
<1>10. CASE CountKeys(r)
  <2>1. CASE Free(r)
    BY <2>1, FreeKeeps
  <2>2. CASE MoveTo(r, "issuing") /\ UNCHANGED req
    <3>1. at[r] = "in" /\ at'[r] = "issuing" /\ UNCHANGED <<user, key>>
      BY <1>10, <1>a, <2>2 DEF CountKeys, tables
    <3> QED
      BY <1>0, <1>c, <2>2, <3>1 DEF OwnAt, HoldsAt, LateAt, Inside, Making
  <2> QED
    BY <1>10, <2>1, <2>2 DEF CountKeys
<1>11. CASE AddKey(r)
  <2>1. PICK k \in Keys, expiry \in {"never", "later"} :
          /\ key' = [key EXCEPT ![k] =
               [owner |-> req[r].by, revoked |-> FALSE, expiry |-> expiry]]
          /\ req' = [req EXCEPT ![r] =
               [@ EXCEPT !.key = k, !.target = k, !.entry = "key.issued"]]
    BY <1>11 DEF AddKey
  <2>2. /\ req'[r].key = k /\ req'[r].late = req[r].late
        /\ req'[r].by = req[r].by /\ req'[r].target = k
        /\ req'[r].entry \in Actions
    BY <1>0, <2>1 DEF AccountsTypeOK, Held, Actions
  <2>3. at[r] = "issuing" /\ at'[r] = "acted"
    BY <1>11, <1>a DEF AddKey
  <2>4. ~req[r].late /\ req[r].by \in Users
    BY <1>0, <2>3 DEF OwnAt, LateAt, HoldsAt, Inside
  <2>5. key'[k].owner \in Users
    BY <2>1, <2>4 DEF AccountsTypeOK
  <2> QED
    BY <2>2, <2>3, <2>4, <2>5 DEF OwnAt, HoldsAt, LateAt, Placed, Inside, Making
<1>12. CASE CheckLastKey(r)
  <2>1. CASE Free(r)
    BY <2>1, FreeKeeps
  <2>2. ASSUME NEW k \in Keys, MoveTo(r, "revoking"),
               req' = [req EXCEPT ![r] = [@ EXCEPT !.target = k]]
        PROVE  OwnAt(r)'
    <3>1. /\ req'[r].key = req[r].key /\ req'[r].late = req[r].late
          /\ req'[r].by = req[r].by /\ req'[r].target = k
      BY <1>0, <2>2 DEF AccountsTypeOK, Held
    <3>2. at[r] = "in" /\ at'[r] = "revoking" /\ UNCHANGED <<user, key>>
      BY <1>12, <1>a, <2>2 DEF CheckLastKey, tables
    <3>3. ~req[r].late /\ req[r].by \in Users /\ user[req[r].by].there
      BY <1>0, <3>2 DEF OwnAt, LateAt, HoldsAt, Inside
    <3> QED
      BY <1>c, <3>1, <3>2, <3>3 DEF OwnAt, HoldsAt, LateAt, Inside, Making
  <2> QED
    BY <1>12, <2>1, <2>2 DEF CheckLastKey, OwnKeys
<1>13. CASE RevokeKey(r)
  <2>1. /\ req'[r].key = req[r].key /\ req'[r].late = req[r].late
        /\ req'[r].by = req[r].by /\ req'[r].target = req[r].target
        /\ req'[r].entry \in Actions
    BY <1>0, <1>13 DEF RevokeKey, AccountsTypeOK, Held, Actions
  <2>2. at[r] = "revoking" /\ at'[r] = "acted"
    BY <1>13, <1>a DEF RevokeKey
  <2>3. ~req[r].late /\ req[r].by \in Users /\ req[r].target \in Keys
    BY <1>0, <2>2 DEF OwnAt, LateAt, HoldsAt, Inside
  <2> QED
    BY <1>c, <2>1, <2>2, <2>3 DEF OwnAt, HoldsAt, LateAt, Inside, Making
<1>14. CASE Audit(r) \/ Die(r)
  BY <1>14, FreeKeeps DEF Audit, Die
<1> QED
  BY <1>1, <1>2, <1>3, <1>4, <1>5, <1>6, <1>7, <1>8, <1>9, <1>10, <1>11, <1>12,
     <1>13, <1>14 DEF Step

-----------------------------------------------------------------------------
(* All requests and tables                                                  *)

\* A step is one request's or none's.
LEMMA OneMoves ==
  ASSUME AInv, NEW r \in Requests, Step(r), NEW o \in Requests \ {r}
  PROVE  at'[o] = at[o] /\ req'[o] = req[o]
  BY DEF AInv, AccountsTypeOK, Step, Present, FindKey, FindUser, Register,
         AddUser,
         CheckEmail, InsertUser, InsertInitialKey, DeactivateUser, CountKeys,
         AddKey, CheckLastKey, RevokeKey, Audit, Die, ActAs, Free, MoveTo

\* A key that is fresh is nobody's.
LEMMA FreshIsNew ==
  ASSUME ConstantsOK, AInv, NEW k \in Keys, FreshKey(k)
  PROVE  /\ ~Placed(k) /\ k \notin known
         /\ \A r \in Requests : req[r].key # k
  BY DEF ConstantsOK, AInv, Placing, Placed, FreshKey

\* The key a request takes up is one somebody knows or a fresh one.
LEMMA KeyTaken ==
  ASSUME AInv, NEW r \in Requests, Step(r)
  PROVE  \/ req'[r].key = req[r].key
         \/ req'[r].key = NoKey
         \/ req'[r].key \in known
         \/ req'[r].key \in Keys /\ FreshKey(req'[r].key)
<1> USE DEF AInv, AccountsTypeOK, Held
<1>0. req[r] \in Held
  OBVIOUS
<1>1. CASE Free(r)
  BY <1>1 DEF Free, Idle
<1>2. CASE UNCHANGED req
  BY <1>2
<1>3. CASE Present(r)
  BY <1>0, <1>3 DEF Present
<1>4. ASSUME NEW u \in Users, ActAs(r, u)
      PROVE  req'[r].key = req[r].key
  BY <1>0, <1>4 DEF ActAs
<1>5. CASE FindKey(r) \/ FindUser(r)
  BY <1>1, <1>2, <1>4, <1>5 DEF FindKey, FindUser, ByHash, HoldsAt
<1>6. CASE Register(r)
  BY <1>0, <1>6 DEF Register
<1>7. CASE AddUser(r)
  BY <1>0, <1>1, <1>7 DEF AddUser
<1>8. CASE InsertUser(r)
  <2>1. CASE ~Free(r)
    <3>1. PICK k \in Keys :
            /\ FreshKey(k)
            /\ req' = [req EXCEPT ![r] =
                         [@ EXCEPT !.key = k, !.entry = "user.created"]]
      BY <1>8, <2>1 DEF InsertUser
    <3>2. req'[r].key = k
      BY <1>0, <3>1
    <3> QED
      BY <3>1, <3>2
  <2> QED
    BY <1>1, <2>1
<1>9. CASE DeactivateUser(r)
  <2>1. ASSUME NEW u \in Users,
               req' = [req EXCEPT ![r] =
                 [@ EXCEPT !.target = u, !.entry = "user.deactivated"]]
        PROVE  req'[r].key = req[r].key
    BY <1>0, <2>1
  <2> QED
    BY <1>1, <1>9, <2>1 DEF DeactivateUser
<1>10. CASE AddKey(r)
  <2>1. PICK k \in Keys :
          /\ FreshKey(k)
          /\ req' = [req EXCEPT ![r] =
               [@ EXCEPT !.key = k, !.target = k, !.entry = "key.issued"]]
    BY <1>10 DEF AddKey
  <2>2. req'[r].key = k
    BY <1>0, <2>1
  <2> QED
    BY <2>1, <2>2
<1>11. CASE CheckLastKey(r)
  BY <1>0, <1>1, <1>11 DEF CheckLastKey
<1>12. CASE RevokeKey(r)
  BY <1>0, <1>12 DEF RevokeKey
<1> QED
  BY <1>1, <1>2, <1>3, <1>5, <1>6, <1>7, <1>8, <1>9, <1>10, <1>11, <1>12
     DEF Step, CheckEmail, InsertInitialKey, CountKeys, Audit, Die

\* A row appears for the key of the account being created, or for a fresh one.
LEMMA RowMade ==
  ASSUME AInv, NEW r \in Requests, Step(r), NEW k \in Keys,
         key'[k].owner # key[k].owner
  PROVE  (at[r] = "created" /\ k = req[r].key) \/ FreshKey(k)
<1> USE DEF AInv, AccountsTypeOK
<1>1. CASE InsertInitialKey(r)
  BY <1>1 DEF InsertInitialKey
<1>2. CASE AddKey(r)
  BY <1>2 DEF AddKey
<1>3. CASE RevokeKey(r)
  BY <1>3 DEF RevokeKey, KeyRow
<1>4. CASE UNCHANGED key
  BY <1>4
<1> QED
  BY <1>1, <1>2, <1>3, <1>4
     DEF Step, Present, FindKey, FindUser, Register, AddUser, CheckEmail,
         InsertUser, DeactivateUser, CountKeys, CheckLastKey, Audit, Die, tables

LEMMA CreatingKept ==
  ASSUME ConstantsOK, AInv, Growth, NEW r \in Requests, Step(r)
  PROVE  Creating'
<1> USE DEF AInv
<1> SUFFICES ASSUME NEW o \in Requests, at'[o] = "created"
             PROVE  /\ req'[o].key \in Keys \ known'
                    /\ key'[req'[o].key].owner = Nobody
                    /\ user'[req'[o].target].there
                    /\ \A p \in Requests \ {o} : req'[p].key # req'[o].key
  BY DEF Creating
<1>1. CASE o = r
  <2>1. InsertUser(r) /\ ~Free(r)
    BY <1>1 DEF Step, Present, FindKey, FindUser, ActAs, Register, AddUser,
                CheckEmail, InsertUser, InsertInitialKey, DeactivateUser,
                CountKeys, AddKey, CheckLastKey, RevokeKey, Audit, Die, Free,
                MoveTo, AccountsTypeOK
  <2>2. PICK k \in Keys :
          /\ FreshKey(k)
          /\ user' = [user EXCEPT ![req[r].target] =
               [there |-> TRUE, active |-> TRUE,
                admin |-> req[r].by = req[r].target, hash |-> k]]
          /\ req' = [req EXCEPT ![r] =
                       [@ EXCEPT !.key = k, !.entry = "user.created"]]
    BY <2>1 DEF InsertUser
  <2>3. req[r] \in Held /\ req[r].target \in Users
    BY <2>1 DEF InsertUser, HoldsAt, Making, AccountsTypeOK
  <2>4. req'[r].key = k /\ req'[r].target = req[r].target
    BY <2>2, <2>3 DEF AccountsTypeOK, Held
  <2>5. user'[req[r].target].there
    BY <2>2, <2>3 DEF AccountsTypeOK
  <2>6. k \notin known /\ \A p \in Requests : req[p].key # k
    BY <2>2, FreshIsNew
  <2>7. UNCHANGED <<key, known>> /\ key[k].owner = Nobody
    BY <2>1, <2>2 DEF InsertUser, FreshKey
  <2>8. \A p \in Requests \ {r} : req'[p] = req[p]
    BY OneMoves
  <2> QED
    BY <1>1, <2>4, <2>5, <2>6, <2>7, <2>8
<1>2. CASE o # r
  <2>1. at[o] = "created" /\ req'[o] = req[o]
    BY <1>2, OneMoves
  <2> DEFINE k == req[o].key
  <2>2. /\ k \in Keys \ known /\ key[k].owner = Nobody
        /\ user[req[o].target].there
        /\ \A p \in Requests \ {o} : req[p].key # k
    BY <2>1 DEF Creating
  <2>3. ~FreshKey(k)
    BY <2>2, FreshIsNew
  <2>4. key'[k].owner = Nobody
    BY <1>2, <2>2, <2>3, RowMade
  <2>5. user'[req[o].target].there
    BY <2>1, <2>2 DEF Growth, HoldsAt, Making
  <2>6. known' \subseteq known \union {req[r].key}
    BY DEF Step, Present, FindKey, FindUser, Register, AddUser, CheckEmail,
           InsertUser, InsertInitialKey, DeactivateUser, CountKeys, AddKey,
           CheckLastKey, RevokeKey, Audit, Die
  <2>7. req'[r].key # k
    BY <1>2, <2>2, <2>3, KeyTaken DEF ConstantsOK
  <2>8. \A p \in Requests \ {o} : req'[p].key # k
    BY <2>2, <2>7, OneMoves
  <2> QED
    BY <1>2, <2>1, <2>2, <2>4, <2>5, <2>6, <2>8
<1> QED
  BY <1>1, <1>2

\* What has a row or a hash has its account.
Housed ==
  /\ \A k \in Keys : key[k].owner \in Users => user[key[k].owner].there
  /\ \A u \in Users :
       user[u].active \/ user[u].hash # NoKey => user[u].there

LEMMA HousedKept ==
  ASSUME ConstantsOK, AInv, Growth, [AccountsNext]_accountVars
  PROVE  Housed'
<1> USE DEF AInv, Placing
<1>1. ASSUME \A k \in Keys : key'[k].owner = key[k].owner, UNCHANGED user
      PROVE  Housed'
  BY <1>1 DEF Housed
<1>2. ASSUME NEW r \in Requests, InsertUser(r)
      PROVE  Housed'
  <2>1. CASE UNCHANGED user
    BY <1>1, <1>2, <2>1 DEF InsertUser
  <2>2. ASSUME NEW t \in Users, NEW k \in Keys, NEW a \in BOOLEAN,
               user' = [user EXCEPT ![t] =
                 [there |-> TRUE, active |-> TRUE, admin |-> a, hash |-> k]]
        PROVE  Housed'
    <3>1. \A u \in Users : user'[u] = user[u] \/ user'[u].there
      BY <2>2 DEF AccountsTypeOK
    <3>2. UNCHANGED key
      BY <1>2 DEF InsertUser
    <3> QED
      BY <3>1, <3>2 DEF Housed, Growth
  <2>3. req[r].target \in Users
    BY <1>2 DEF InsertUser, HoldsAt, Making
  <2> QED
    BY <1>2, <2>1, <2>2, <2>3 DEF InsertUser
<1>3. ASSUME NEW r \in Requests, NEW k \in Keys, NEW u \in Users,
             user[u].there, UNCHANGED user, key'[k].owner = u,
             \A l \in Keys \ {k} : key'[l] = key[l]
      PROVE  Housed'
  BY <1>3 DEF Housed
<1>4. ASSUME NEW r \in Requests, InsertInitialKey(r)
      PROVE  Housed'
  <2>1. /\ req[r].key \in Keys /\ req[r].target \in Users
        /\ user[req[r].target].there
    BY <1>4 DEF InsertInitialKey, Creating, HoldsAt, Making
  <2>2. /\ UNCHANGED user
        /\ key'[req[r].key].owner = req[r].target
        /\ \A l \in Keys \ {req[r].key} : key'[l] = key[l]
    BY <1>4, <2>1 DEF InsertInitialKey, AccountsTypeOK
  <2> QED
    BY <1>3, <2>1, <2>2
<1>5. ASSUME NEW r \in Requests, AddKey(r)
      PROVE  Housed'
  <2>1. PICK k \in Keys, expiry \in {"never", "later"} :
          key' = [key EXCEPT ![k] =
            [owner |-> req[r].by, revoked |-> FALSE, expiry |-> expiry]]
    BY <1>5 DEF AddKey
  <2>2. req[r].by \in Users /\ user[req[r].by].there /\ UNCHANGED user
    BY <1>5 DEF AddKey, HoldsAt, Inside
  <2> QED
    BY <1>3, <2>1, <2>2 DEF AccountsTypeOK
<1>6. ASSUME NEW r \in Requests, RevokeKey(r)
      PROVE  Housed'
  BY <1>1, <1>6 DEF RevokeKey, AccountsTypeOK, KeyRow
<1>7. ASSUME NEW k \in Keys, ExpireKey(k)
      PROVE  Housed'
  BY <1>1, <1>7 DEF ExpireKey, AccountsTypeOK, KeyRow
<1>8. ASSUME NEW r \in Requests, DeactivateUser(r)
      PROVE  Housed'
  <2>1. CASE UNCHANGED user
    BY <1>1, <1>8, <2>1 DEF DeactivateUser
  <2>2. ASSUME NEW u \in Users, user[u].there,
               user' = [user EXCEPT ![u] = [@ EXCEPT !.active = FALSE]]
        PROVE  Housed'
    <3>1. \A v \in Users : user'[v] = user[v] \/ v = u
      BY <2>2 DEF AccountsTypeOK
    <3>2. user'[u].there
      BY <2>2 DEF Growth
    <3>3. UNCHANGED key
      BY <1>8 DEF DeactivateUser
    <3> QED
      BY <3>1, <3>2, <3>3 DEF Housed
  <2> QED
    BY <1>8, <2>1, <2>2 DEF DeactivateUser
<1>9. CASE UNCHANGED accountVars
  BY <1>1, <1>9 DEF accountVars, tables
<1> QED
  BY <1>1, <1>2, <1>4, <1>5, <1>6, <1>7, <1>8, <1>9
     DEF AccountsNext, Step, Present, FindKey, FindUser, Register, AddUser,
         CheckEmail,
         CountKeys, CheckLastKey, Audit, Die, tables

LEMMA StepAInv ==
  ASSUME ConstantsOK, AInv, [AccountsNext]_accountVars
  PROVE  AInv'
<1>1. AccountsTypeOK' /\ Growth /\ StayRowless /\ Housed'
  BY StepType, StepGrows, RowlessStays, HousedKept
<1>2. ASSUME NEW o \in Requests, at'[o] = at[o], req'[o] = req[o]
      PROVE  OwnAt(o)'
  BY <1>1, <1>2, OthersKeep DEF AInv, Creating
<1>3. \A o \in Requests : OwnAt(o)'
  <2>1. ASSUME NEW r \in Requests, Step(r), NEW o \in Requests
        PROVE  OwnAt(o)'
    BY <1>1, <1>2, <2>1, MoverKeeps, OneMoves
  <2>2. CASE UNCHANGED <<at, req>>
    BY <1>2, <2>2
  <2> QED
    BY <2>1, <2>2 DEF AccountsNext, ExpireKey, accountVars
<1>4. \A k \in known' : Placed(k)'
  <2>1. known' \subseteq known \union ({req[r].key : r \in Requests} \ {NoKey})
    BY DEF AccountsNext, Step, Present, FindKey, FindUser, Register, AddUser,
           CheckEmail, InsertUser, InsertInitialKey, DeactivateUser, CountKeys,
           AddKey, CheckLastKey, RevokeKey, Audit, Die, ExpireKey, accountVars
  <2>2. \A k \in known' : k \in Keys /\ Placed(k)
    BY <2>1 DEF AInv, Placing, AccountsTypeOK, Held
  <2> QED
    BY <1>1, <2>2, PlacedStays
<1>5. Creating'
  <2>1. ASSUME NEW r \in Requests, Step(r)
        PROVE  Creating'
    BY <1>1, <2>1, CreatingKept
  <2>2. ASSUME NEW k \in Keys, ExpireKey(k)
        PROVE  Creating'
    <3>1. \A l \in Keys : key'[l].owner = key[l].owner
      BY <2>2 DEF ExpireKey, AInv, AccountsTypeOK, KeyRow
    <3> QED
      BY <2>2, <3>1 DEF ExpireKey, AInv, Creating
  <2>3. CASE UNCHANGED accountVars
    BY <2>3 DEF accountVars, tables, AInv, Creating
  <2> QED
    BY <2>1, <2>2, <2>3 DEF AccountsNext
<1> QED
  BY <1>1, <1>3, <1>4, <1>5 DEF AInv, OwnAt, Placing, Housed

-----------------------------------------------------------------------------
(* Who may do what: the invariant behind the limits and the last admin      *)

\* A registration, which acts as the account it is about to create.
Registering(r) == at[r] \in {"counted", "vacant"} /\ req[r].by = req[r].target

\* Who acts as an admin is one; who adds an account has one.
Certified ==
  \A r \in Requests :
    /\ at[r] = "in" /\ req[r].admin = TRUE => user[req[r].by].admin = TRUE
    /\ at[r] \in {"counted", "vacant"} /\ req[r].by # req[r].target =>
         user[req[r].by].there = TRUE

\* Nobody is there yet and one registration may be under way; or one admin is
\* there, who is active, and no registration is for an account still to come.
Empty ==
  /\ \A u \in Users : user[u].there = FALSE /\ user[u].admin = FALSE
  /\ \A r, o \in Requests : Registering(r) /\ Registering(o) => r = o
Ruled ==
  /\ \E u \in Users :
       /\ user[u].there = TRUE /\ user[u].active = TRUE /\ user[u].admin = TRUE
       /\ \A v \in Users \ {u} : user[v].admin = FALSE
  /\ \A r \in Requests : Registering(r) => user[req[r].by].there = TRUE
OneAdmin == twins = TRUE \/ Empty \/ Ruled

\* A key that does not count as revoked in time: it is not, or it had expired.
Stands(k) == key[k].revoked = FALSE \/ key[k].expiry = "past"

\* Where no two revocations met, one is under way at most, and a key other than
\* the one it takes stands, or that one does not change by it.
Revocations ==
  \A r \in Requests : at[r] = "revoking" =>
    /\ key[req[r].target].owner = req[r].by
    /\ req[r].by \notin raced =>
         /\ \A o \in Requests :
              at[o] = "revoking" /\ req[o].by = req[r].by => o = r
         /\ \/ key[req[r].target].revoked = TRUE
            \/ key[req[r].target].expiry = "past"
            \/ \E k \in Keys : /\ k # req[r].target
                               /\ key[k].owner = req[r].by /\ Stands(k)
LastKey ==
  \A u \in Users \ raced :
    (\E k \in Keys : key[k].owner = u) =>
      \E k \in Keys : key[k].owner = u /\ Stands(k)

\* An account that has no key row yet has nobody who acts for it.
Newborn ==
  \A r \in Requests : at[r] = "created" =>
    /\ user[req[r].target].hash = req[r].key
    /\ \A k \in Keys : key[k].owner # req[r].target
    /\ \A o \in Requests : at[o] \in Inside => req[o].by # req[r].target

\* Requests of an account that were let through and have not added their key.
Issuing(u) == {r \in Requests : at[r] = "issuing" /\ req[r].by = u}
Excess(u) == IF u \in raced THEN Cardinality(Requests) - 1 ELSE 0
Ceiling ==
  \A u \in Users :
    /\ Cardinality(ActiveKeys(u)) + Cardinality(Issuing(u))
         <= MaxActive + Excess(u)
    /\ u \notin raced => \A r, o \in Issuing(u) : r = o

MInv ==
  /\ AInv /\ Certified /\ OneAdmin /\ Revocations /\ LastKey /\ Newborn
  /\ Ceiling

\* What brings a request to a place, and what changes the tables.
LEMMA Arrivals ==
  ASSUME AInv, NEW r \in Requests, Step(r)
  PROVE  /\ at'[r] = "in" => FindKey(r) \/ FindUser(r)
         /\ at'[r] = "counted" => Register(r) \/ AddUser(r)
         /\ at'[r] = "vacant" => CheckEmail(r)
         /\ at'[r] = "created" => InsertUser(r)
         /\ at'[r] = "issuing" => CountKeys(r)
         /\ at'[r] = "revoking" => CheckLastKey(r)
<1> USE DEF AInv, AccountsTypeOK, MoveTo, Free, ActAs
<1>1. at'[r] = "in" => FindKey(r) \/ FindUser(r)
  BY DEF Step, Present, Register, AddUser, CheckEmail, InsertUser,
         InsertInitialKey, DeactivateUser, CountKeys, AddKey, CheckLastKey,
         RevokeKey, Audit, Die
<1>2. at'[r] = "counted" => Register(r) \/ AddUser(r)
  BY DEF Step, Present, FindKey, FindUser, CheckEmail, InsertUser,
         InsertInitialKey, DeactivateUser, CountKeys, AddKey, CheckLastKey,
         RevokeKey, Audit, Die
<1>3. at'[r] = "vacant" => CheckEmail(r)
  BY DEF Step, Present, FindKey, FindUser, Register, AddUser, InsertUser,
         InsertInitialKey, DeactivateUser, CountKeys, AddKey, CheckLastKey,
         RevokeKey, Audit, Die
<1>4. at'[r] = "created" => InsertUser(r)
  BY DEF Step, Present, FindKey, FindUser, Register, AddUser, CheckEmail,
         InsertInitialKey, DeactivateUser, CountKeys, AddKey, CheckLastKey,
         RevokeKey, Audit, Die
<1>5. at'[r] = "issuing" => CountKeys(r)
  BY DEF Step, Present, FindKey, FindUser, Register, AddUser, CheckEmail,
         InsertUser, InsertInitialKey, DeactivateUser, AddKey, CheckLastKey,
         RevokeKey, Audit, Die
<1>6. at'[r] = "revoking" => CheckLastKey(r)
  BY DEF Step, Present, FindKey, FindUser, Register, AddUser, CheckEmail,
         InsertUser, InsertInitialKey, DeactivateUser, CountKeys, AddKey,
         RevokeKey, Audit, Die
<1> QED
  BY <1>1, <1>2, <1>3, <1>4, <1>5, <1>6

LEMMA Writers ==
  ASSUME NEW r \in Requests, Step(r)
  PROVE  /\ UNCHANGED user \/ InsertUser(r) \/ DeactivateUser(r)
         /\ \/ UNCHANGED key
            \/ InsertInitialKey(r) \/ AddKey(r) \/ RevokeKey(r)
         /\ UNCHANGED raced \/ CountKeys(r) \/ CheckLastKey(r)
         /\ UNCHANGED twins \/ Register(r)
<1>1. UNCHANGED user \/ InsertUser(r) \/ DeactivateUser(r)
  BY DEF Step, Present, FindKey, FindUser, Register, AddUser, CheckEmail,
         InsertInitialKey, CountKeys, AddKey, CheckLastKey, RevokeKey, Audit,
         Die, tables
<1>2. UNCHANGED key \/ InsertInitialKey(r) \/ AddKey(r) \/ RevokeKey(r)
  BY DEF Step, Present, FindKey, FindUser, Register, AddUser, CheckEmail,
         InsertUser, DeactivateUser, CountKeys, CheckLastKey, Audit, Die, tables
<1>3. UNCHANGED raced \/ CountKeys(r) \/ CheckLastKey(r)
  BY DEF Step, Present, FindKey, FindUser, Register, AddUser, CheckEmail,
         InsertUser, InsertInitialKey, DeactivateUser, AddKey, RevokeKey,
         Audit, Die, ghosts
<1>4. UNCHANGED twins \/ Register(r)
  BY DEF Step, Present, FindKey, FindUser, AddUser, CheckEmail, InsertUser,
         InsertInitialKey, DeactivateUser, CountKeys, AddKey, CheckLastKey,
         RevokeKey, Audit, Die, ghosts
<1> QED
  BY <1>1, <1>2, <1>3, <1>4

\* An account comes to be, for the request that found its address vacant.
LEMMA UserMade ==
  ASSUME ConstantsOK, AInv, NEW r \in Requests, InsertUser(r)
  PROVE  \/ UNCHANGED user /\ at'[r] = "idle"
         \/ /\ req[r].target \in Users /\ user[req[r].target].there = FALSE
            /\ user'[req[r].target].there = TRUE
            /\ user'[req[r].target].active = TRUE
            /\ user'[req[r].target].admin = (req[r].by = req[r].target)
            /\ user'[req[r].target].hash = req'[r].key
            /\ \A v \in Users \ {req[r].target} : user'[v] = user[v]
            /\ at[r] = "vacant" /\ at'[r] = "created"
            /\ req'[r].target = req[r].target /\ req'[r].by = req[r].by
<1> USE DEF AInv
<1>1. req[r].target \in Users /\ req[r] \in Held /\ at[r] = "vacant"
  BY DEF InsertUser, HoldsAt, Making, AccountsTypeOK
<1>2. CASE user[req[r].target].there
  BY <1>2 DEF InsertUser, Free, MoveTo, AccountsTypeOK
<1>3. CASE ~user[req[r].target].there
  <2>1. PICK k \in Keys :
          /\ user' = [user EXCEPT ![req[r].target] =
               [there |-> TRUE, active |-> TRUE,
                admin |-> req[r].by = req[r].target, hash |-> k]]
          /\ req' = [req EXCEPT ![r] =
                       [@ EXCEPT !.key = k, !.entry = "user.created"]]
          /\ MoveTo(r, "created")
    BY <1>3 DEF InsertUser
  <2>2. /\ req'[r].key = k /\ req'[r].target = req[r].target
        /\ req'[r].by = req[r].by
    BY <1>1, <2>1 DEF AccountsTypeOK, Held
  <2>3. user[req[r].target].there = FALSE
    BY <1>1, <1>3 DEF AccountsTypeOK, Account
  <2>4. /\ user'[req[r].target] =
             [there |-> TRUE, active |-> TRUE,
              admin |-> req[r].by = req[r].target, hash |-> k]
        /\ \A v \in Users \ {req[r].target} : user'[v] = user[v]
    BY <1>1, <2>1 DEF AccountsTypeOK
  <2>5. at'[r] = "created"
    BY <2>1 DEF MoveTo, AccountsTypeOK
  <2> QED
    BY <1>1, <2>2, <2>3, <2>4, <2>5
<1> QED
  BY <1>2, <1>3

\* An admin deactivates another account.
LEMMA UserBarred ==
  ASSUME ConstantsOK, AInv, NEW r \in Requests, DeactivateUser(r)
  PROVE  \/ UNCHANGED user
         \/ /\ at[r] = "in" /\ req[r].admin = TRUE
            /\ \E u \in Users \ {req[r].by} :
                 /\ user'[u].there = user[u].there
                 /\ user'[u].admin = user[u].admin
                 /\ user'[u].hash = user[u].hash
                 /\ \A v \in Users \ {u} : user'[v] = user[v]
<1> USE DEF AInv
<1>1. req[r] \in Held
  BY DEF AccountsTypeOK
<1>2. ASSUME NEW u \in Users \ {req[r].by}, req[r].admin,
             user' = [user EXCEPT ![u] = [@ EXCEPT !.active = FALSE]]
      PROVE  /\ at[r] = "in" /\ req[r].admin = TRUE
             /\ user'[u].there = user[u].there
             /\ user'[u].admin = user[u].admin
             /\ user'[u].hash = user[u].hash
             /\ \A v \in Users \ {u} : user'[v] = user[v]
  <2>1. user'[u] = [user[u] EXCEPT !.active = FALSE] /\ user[u] \in Account
    BY <1>2 DEF AccountsTypeOK
  <2>2. /\ user'[u].there = user[u].there /\ user'[u].admin = user[u].admin
        /\ user'[u].hash = user[u].hash
    BY <2>1 DEF Account
  <2>3. \A v \in Users \ {u} : user'[v] = user[v]
    BY <1>2 DEF AccountsTypeOK
  <2>4. at[r] = "in" /\ req[r].admin = TRUE
    BY <1>1, <1>2 DEF DeactivateUser, Held
  <2> QED
    BY <2>2, <2>3, <2>4
<1> QED
  BY <1>2 DEF DeactivateUser

\* An account that is there stays, and stays what it is.
LEMMA RolesStay ==
  ASSUME ConstantsOK, AInv, [AccountsNext]_accountVars, NEW u \in Users,
         user[u].there = TRUE
  PROVE  user'[u].there = TRUE /\ user'[u].admin = user[u].admin
<1>1. ASSUME NEW r \in Requests, Step(r)
      PROVE  user'[u].there = TRUE /\ user'[u].admin = user[u].admin
  <2>1. CASE UNCHANGED user
    BY <2>1
  <2>2. CASE InsertUser(r)
    BY <2>2, UserMade
  <2>3. CASE DeactivateUser(r)
    BY <2>3, UserBarred
  <2> QED
    BY <1>1, <2>1, <2>2, <2>3, Writers
<1>2. CASE UNCHANGED user
  BY <1>2
<1> QED
  BY <1>1, <1>2 DEF AccountsNext, ExpireKey, accountVars, tables

\* Whom a request becomes.
LEMMA Admitted ==
  ASSUME ConstantsOK, AInv, NEW r \in Requests, Step(r), at'[r] = "in"
  PROVE  /\ req'[r].by \in Users /\ UNCHANGED <<user, key, raced>>
         /\ req'[r].admin = user[req'[r].by].admin
         /\ \/ /\ at[r] = "presented"
               /\ user[req'[r].by].hash = req[r].key
            \/ at[r] = "identified" /\ req'[r].by = key[req[r].key].owner
<1> USE DEF AInv
<1>1. req[r] \in Held /\ (FindKey(r) \/ FindUser(r)) /\ ~Free(r)
  BY Arrivals DEF AccountsTypeOK, Free, MoveTo
<1>2. PICK u \in Users :
        /\ ActAs(r, u)
        /\ \/ at[r] = "presented" /\ user[u].hash = req[r].key
           \/ at[r] = "identified" /\ u = key[req[r].key].owner
  <2>1. CASE FindKey(r)
    <3>1. ~MoveTo(r, "identified")
      BY DEF MoveTo, AccountsTypeOK
    <3>2. \E u \in ByHash(req[r].key) : ActAs(r, u)
      BY <1>1, <2>1, <3>1 DEF FindKey
    <3> QED
      BY <2>1, <3>2 DEF FindKey, ByHash
  <2>2. CASE FindUser(r)
    BY <1>1, <2>2 DEF FindUser, HoldsAt
  <2> QED
    BY <1>1, <2>1, <2>2
<1>3. req'[r].by = u /\ req'[r].admin = user[u].admin
  BY <1>1, <1>2 DEF ActAs, AccountsTypeOK, Held
<1>4. UNCHANGED <<user, key, raced>>
  BY <1>1 DEF FindKey, FindUser, tables, ghosts
<1> QED
  BY <1>2, <1>3, <1>4

LEMMA CertifiedKept ==
  ASSUME ConstantsOK, AInv, Certified, [AccountsNext]_accountVars
  PROVE  Certified'
<1> USE DEF AInv
<1> DEFINE Says(o) ==
      /\ at'[o] = "in" /\ req'[o].admin = TRUE =>
           user'[req'[o].by].admin = TRUE
      /\ at'[o] \in {"counted", "vacant"} /\ req'[o].by # req'[o].target =>
           user'[req'[o].by].there = TRUE
<1>1. ASSUME NEW o \in Requests, at'[o] = at[o], req'[o] = req[o]
      PROVE  Says(o)
  <2>1. CASE at[o] = "in" /\ req[o].admin = TRUE
    BY <1>1, <2>1, RolesStay DEF Certified, HoldsAt, Inside, AccountsTypeOK,
                                 Account
  <2>2. CASE at[o] \in {"counted", "vacant"} /\ req[o].by # req[o].target
    BY <1>1, <2>2, RolesStay DEF Certified, HoldsAt, Making
  <2> QED
    BY <1>1, <2>1, <2>2
<1>2. ASSUME NEW r \in Requests, Step(r)
      PROVE  Says(r)
  <2>0. req[r] \in Held
    BY DEF AccountsTypeOK
  <2>1. CASE at'[r] = "in"
    BY <1>2, <2>1, Admitted
  <2>2. CASE Register(r)
    <3>1. req'[r].by = req'[r].target /\ at'[r] = "counted"
      BY <2>0, <2>2 DEF Register, AccountsTypeOK, Held, MoveTo
    <3> QED
      BY <3>1
  <2>3. CASE AddUser(r) /\ at'[r] = "counted"
    <3>1. ~Free(r) /\ UNCHANGED user /\ at[r] = "in"
      BY <2>3 DEF AddUser, Free, MoveTo, AccountsTypeOK, tables
    <3>2. req'[r].by = req[r].by
      BY <2>0, <2>3, <3>1 DEF AddUser, AccountsTypeOK, Held
    <3>3. user[req[r].by].there = TRUE /\ req[r].by \in Users
      BY <3>1 DEF HoldsAt, Inside, AccountsTypeOK, Account
    <3> QED
      BY <2>3, <3>1, <3>2, <3>3
  <2>4. CASE CheckEmail(r) /\ at'[r] = "vacant"
    <3>1. at[r] = "counted" /\ UNCHANGED <<user, req>>
      BY <2>4 DEF CheckEmail, Free, MoveTo, AccountsTypeOK, tables
    <3> QED
      BY <2>4, <3>1 DEF Certified
  <2> QED
    BY <1>2, <2>1, <2>2, <2>3, <2>4, Arrivals
<1>3. ASSUME NEW o \in Requests
      PROVE  Says(o)
  <2>1. ASSUME NEW r \in Requests, Step(r)
        PROVE  Says(o)
    <3>1. CASE o = r
      BY <1>2, <2>1, <3>1
    <3>2. CASE o # r
      BY <1>1, <2>1, <3>2, OneMoves
    <3> QED
      BY <3>1, <3>2
  <2>2. CASE UNCHANGED <<at, req>>
    BY <1>1, <2>2
  <2> QED
    BY <2>1, <2>2 DEF AccountsNext, ExpireKey, accountVars
<1> QED
  BY <1>3 DEF Certified

\* A request that stays where it is, or acts as before, registers as before;
\* and only Register makes a new registration.
LEMMA RegistersAs ==
  ASSUME AInv, NEW r \in Requests, Step(r), Registering(r)'
  PROVE  Register(r) \/ Registering(r) \/ AddUser(r)
<1> USE DEF AInv
<1>1. CASE at'[r] = "vacant"
  BY <1>1, Arrivals DEF CheckEmail, Registering, Free, MoveTo, AccountsTypeOK
<1>2. CASE at'[r] = "counted"
  BY <1>2, Arrivals
<1> QED
  BY <1>1, <1>2 DEF Registering

\* Who adds an account does so for one that is there.
LEMMA AddersAreThere ==
  ASSUME AInv, NEW r \in Requests, AddUser(r), Registering(r)'
  PROVE  /\ req[r].by \in Users /\ user[req[r].by].there = TRUE
         /\ req'[r].by = req[r].by /\ UNCHANGED user
<1> USE DEF AInv
<1>1. req[r] \in Held
  BY DEF AccountsTypeOK
<1>2. ~Free(r) /\ at[r] = "in" /\ UNCHANGED user
  BY DEF AddUser, Registering, Free, MoveTo, AccountsTypeOK, tables
<1>3. req'[r].by = req[r].by
  BY <1>1, <1>2 DEF AddUser, AccountsTypeOK, Held
<1> QED
  BY <1>2, <1>3 DEF HoldsAt, Inside, AccountsTypeOK, Account

LEMMA OthersRegister ==
  ASSUME AInv, NEW r \in Requests, Step(r), NEW o \in Requests \ {r}
  PROVE  /\ Registering(o)' <=> Registering(o)
         /\ req'[o].by = req[o].by
  BY OneMoves DEF Registering

\* The first account is the admin's that registered, alone.
LEMMA EmptyKept ==
  ASSUME ConstantsOK, AInv, Certified, Empty, NEW r \in Requests, Step(r)
  PROVE  OneAdmin'
<1> USE DEF AInv
<1>1. CASE InsertUser(r) /\ user' # user
  <2> DEFINE u == req[r].target
  <2>1. /\ u \in Users /\ user[u].there = FALSE
        /\ user'[u].there = TRUE /\ user'[u].active = TRUE
        /\ user'[u].admin = (req[r].by = u)
        /\ \A v \in Users \ {u} : user'[v] = user[v]
        /\ at[r] = "vacant" /\ at'[r] = "created"
    BY <1>1, UserMade
  <2>2. req[r].by = u
    BY <2>1 DEF Certified, Empty, HoldsAt, Making
  <2>3. \A v \in Users \ {u} : user'[v].admin = FALSE
    BY <2>1 DEF Empty
  <2>4. \A o \in Requests : ~Registering(o)'
    <3>1. Registering(r) /\ ~Registering(r)'
      BY <2>1, <2>2 DEF Registering
    <3>2. ASSUME NEW o \in Requests \ {r}
          PROVE  ~Registering(o)'
      BY <3>1, <3>2, OthersRegister DEF Empty
    <3> QED
      BY <3>1, <3>2
  <2>5. user'[u].admin = TRUE
    BY <2>1, <2>2
  <2> QED
    BY <2>1, <2>3, <2>4, <2>5 DEF OneAdmin, Ruled
<1>2. CASE UNCHANGED user
  <2>1. CASE Register(r)
    <3>1. CASE twins' = TRUE
      BY <3>1 DEF OneAdmin
    <3>2. CASE twins' # TRUE
      <4>1. \A o \in Requests : ~Registering(o)
        BY <2>1, <3>2 DEF Register, Registering
      <4>2. \A o \in Requests \ {r} : ~Registering(o)'
        BY <4>1, OthersRegister
      <4> QED
        BY <1>2, <4>2 DEF OneAdmin, Empty
    <3> QED
      BY <3>1, <3>2
  <2>2. CASE ~Register(r)
    <3>1. Registering(r)' => Registering(r)
      BY <2>2, RegistersAs, AddersAreThere DEF Empty
    <3>2. \A o \in Requests : Registering(o)' => Registering(o)
      BY <3>1, OthersRegister
    <3> QED
      BY <1>2, <3>2 DEF OneAdmin, Empty
  <2> QED
    BY <2>1, <2>2
<1>3. CASE DeactivateUser(r) /\ user' # user
  <2>1. at[r] = "in"
    BY <1>3, UserBarred
  <2> QED
    BY <2>1 DEF Empty, HoldsAt, Inside
<1> QED
  BY <1>1, <1>2, <1>3, Writers

\* The one admin can bar everybody else.
LEMMA RuledKept ==
  ASSUME ConstantsOK, AInv, Certified, Ruled, NEW r \in Requests, Step(r)
  PROVE  Ruled'
<1> USE DEF AInv
<1>0. PICK a \in Users :
        /\ user[a].there = TRUE /\ user[a].active = TRUE
        /\ user[a].admin = TRUE
        /\ \A v \in Users \ {a} : user[v].admin = FALSE
  BY DEF Ruled
<1>1. /\ user'[a].there = TRUE /\ user'[a].active = TRUE
      /\ user'[a].admin = TRUE
      /\ \A v \in Users \ {a} : user'[v].admin = FALSE
  <2>1. CASE UNCHANGED user
    BY <1>0, <2>1
  <2>2. CASE InsertUser(r) /\ user' # user
    <3> DEFINE u == req[r].target
    <3>1. /\ u \in Users /\ user[u].there = FALSE
          /\ user'[u].admin = (req[r].by = u)
          /\ \A v \in Users \ {u} : user'[v] = user[v]
          /\ at[r] = "vacant"
      BY <2>2, UserMade
    <3>2. req[r].by # u
      BY <3>1 DEF Ruled, Registering
    <3>3. u # a
      BY <1>0, <3>1
    <3>4. user'[u].admin = FALSE
      BY <3>1, <3>2
    <3> QED
      BY <1>0, <3>1, <3>3, <3>4
  <2>3. CASE DeactivateUser(r) /\ user' # user
    <3>1. /\ at[r] = "in" /\ req[r].admin = TRUE
          /\ \E u \in Users \ {req[r].by} :
               /\ user'[u].there = user[u].there
               /\ user'[u].admin = user[u].admin
               /\ \A v \in Users \ {u} : user'[v] = user[v]
      BY <2>3, UserBarred
    <3>2. req[r].by = a
      BY <1>0, <3>1 DEF Certified, HoldsAt, Inside
    <3> QED
      BY <1>0, <3>1, <3>2
  <2> QED
    BY <2>1, <2>2, <2>3, Writers
<1>2. ASSUME NEW o \in Requests, Registering(o)'
      PROVE  user'[req'[o].by].there = TRUE
  <2>1. CASE Registering(o) /\ req'[o].by = req[o].by
    <3>1. req[o].by \in Users /\ user[req[o].by].there = TRUE
      BY <2>1 DEF Ruled, Registering, HoldsAt, Making
    <3> QED
      BY <2>1, <3>1, RolesStay DEF AccountsNext
  <2>2. CASE o # r
    BY <1>2, <2>1, <2>2, OthersRegister
  <2>3. CASE o = r
    <3>1. ~Register(r)
      BY <1>0 DEF Register
    <3>2. CASE AddUser(r)
      BY <1>2, <2>3, <3>2, AddersAreThere
    <3>3. CASE Registering(r) /\ ~AddUser(r)
      <4>1. at'[r] = "vacant"
        BY <1>2, <2>3, <3>1, <3>3, Arrivals DEF Registering
      <4>2. UNCHANGED req
        BY <4>1, Arrivals DEF CheckEmail, Free, MoveTo, AccountsTypeOK
      <4> QED
        BY <2>1, <2>3, <3>3, <4>2
    <3> QED
      BY <1>2, <2>3, <3>1, <3>2, <3>3, RegistersAs
  <2> QED
    BY <2>2, <2>3
<1> QED
  BY <1>1, <1>2 DEF Ruled

LEMMA OneAdminKept ==
  ASSUME ConstantsOK, AInv, Certified, OneAdmin, [AccountsNext]_accountVars
  PROVE  OneAdmin'
<1>1. ASSUME NEW r \in Requests, Step(r)
      PROVE  OneAdmin'
  <2>1. CASE twins = TRUE
    BY <1>1, <2>1, Writers DEF OneAdmin, Register
  <2>2. CASE Empty
    BY <1>1, <2>2, EmptyKept
  <2>3. CASE Ruled
    BY <1>1, <2>3, RuledKept DEF OneAdmin
  <2> QED
    BY <2>1, <2>2, <2>3 DEF OneAdmin
<1>2. CASE UNCHANGED <<user, at, req, twins>>
  BY <1>2 DEF OneAdmin, Empty, Ruled, Registering
<1> QED
  BY <1>1, <1>2 DEF AccountsNext, ExpireKey, accountVars, tables, ghosts

\* A row of a key is made for a key that has none, by a handler that holds it.
LEMMA KeyAdded ==
  ASSUME ConstantsOK, AInv, NEW r \in Requests,
         InsertInitialKey(r) \/ AddKey(r)
  PROVE  \E k \in Keys, u \in Users :
           /\ key[k].owner = Nobody
           /\ key'[k].owner = u /\ key'[k].revoked = FALSE
           /\ \A l \in Keys \ {k} : key'[l] = key[l]
           /\ at'[r] = "acted" /\ UNCHANGED raced
           /\ \/ at[r] = "created" /\ u = req[r].target
              \/ at[r] = "issuing" /\ u = req[r].by
<1> USE DEF AInv, AccountsTypeOK
<1>1. CASE InsertInitialKey(r)
  <2>1. /\ at[r] = "created" /\ req[r].key \in Keys
        /\ req[r].target \in Users /\ key[req[r].key].owner = Nobody
    BY <1>1 DEF InsertInitialKey, Creating, HoldsAt, Making
  <2>2. /\ key'[req[r].key] = [owner |-> req[r].target, revoked |-> FALSE,
                               expiry |-> DefaultExpiry]
        /\ \A l \in Keys \ {req[r].key} : key'[l] = key[l]
        /\ at'[r] = "acted" /\ UNCHANGED raced
    BY <1>1, <2>1 DEF InsertInitialKey, MoveTo, ghosts
  <2>3. key'[req[r].key].owner = req[r].target /\ key'[req[r].key].revoked = FALSE
    BY <2>2
  <2> QED
    BY <2>1, <2>2, <2>3
<1>2. CASE AddKey(r)
  <2>1. PICK k \in Keys, expiry \in {"never", "later"} :
          /\ FreshKey(k)
          /\ key' = [key EXCEPT ![k] =
               [owner |-> req[r].by, revoked |-> FALSE, expiry |-> expiry]]
    BY <1>2 DEF AddKey
  <2>2. at[r] = "issuing" /\ req[r].by \in Users /\ key[k].owner = Nobody
    BY <1>2, <2>1 DEF AddKey, HoldsAt, Inside, FreshKey
  <2>3. /\ key'[k] = [owner |-> req[r].by, revoked |-> FALSE, expiry |-> expiry]
        /\ \A l \in Keys \ {k} : key'[l] = key[l]
    BY <2>1
  <2>4. at'[r] = "acted" /\ UNCHANGED raced
    BY <1>2 DEF AddKey, MoveTo, ghosts
  <2>5. key'[k].owner = req[r].by /\ key'[k].revoked = FALSE
    BY <2>3
  <2> QED
    BY <2>2, <2>3, <2>4, <2>5
<1> QED
  BY <1>1, <1>2

LEMMA KeyRevoked ==
  ASSUME AInv, NEW r \in Requests, RevokeKey(r)
  PROVE  /\ at[r] = "revoking" /\ at'[r] = "acted"
         /\ req[r].target \in Keys
         /\ key'[req[r].target].owner = key[req[r].target].owner
         /\ key'[req[r].target].revoked = TRUE
         /\ key'[req[r].target].expiry = key[req[r].target].expiry
         /\ \A l \in Keys \ {req[r].target} : key'[l] = key[l]
         /\ UNCHANGED raced
<1> USE DEF AInv, AccountsTypeOK
<1>1. req[r].target \in Keys /\ key[req[r].target] \in KeyRow
  BY DEF RevokeKey, HoldsAt
<1>2. /\ key'[req[r].target] = [key[req[r].target] EXCEPT !.revoked = TRUE]
      /\ \A l \in Keys \ {req[r].target} : key'[l] = key[l]
  BY <1>1 DEF RevokeKey
<1>3. /\ key'[req[r].target].owner = key[req[r].target].owner
      /\ key'[req[r].target].revoked = TRUE
      /\ key'[req[r].target].expiry = key[req[r].target].expiry
  BY <1>1, <1>2 DEF KeyRow
<1>4. at[r] = "revoking" /\ at'[r] = "acted" /\ UNCHANGED raced
  BY DEF RevokeKey, MoveTo, ghosts
<1> QED
  BY <1>1, <1>2, <1>3, <1>4

LEMMA KeyExpired ==
  ASSUME AInv, NEW k \in Keys, ExpireKey(k)
  PROVE  /\ key'[k].owner = key[k].owner /\ key'[k].revoked = key[k].revoked
         /\ key'[k].expiry = "past"
         /\ \A l \in Keys \ {k} : key'[l] = key[l]
         /\ UNCHANGED <<user, at, req, raced>>
<1> USE DEF AInv, AccountsTypeOK
<1>1. key[k] \in KeyRow /\ key'[k] = [key[k] EXCEPT !.expiry = "past"]
  BY DEF ExpireKey
<1>2. /\ key'[k].owner = key[k].owner /\ key'[k].revoked = key[k].revoked
      /\ key'[k].expiry = "past"
  BY <1>1 DEF KeyRow
<1>3. \A l \in Keys \ {k} : key'[l] = key[l]
  BY DEF ExpireKey
<1>4. UNCHANGED <<user, at, req, raced>>
  BY DEF ExpireKey, ghosts
<1> QED
  BY <1>2, <1>3, <1>4

\* raced only grows, by the account of the request that moves.
LEMMA RacedGrows ==
  ASSUME AInv, NEW r \in Requests, Step(r)
  PROVE  raced \subseteq raced' /\ raced' \subseteq raced \union {req[r].by}
  BY Writers DEF CountKeys, CheckLastKey, Enters

\* A request that will revoke has left its account another key that stands, or
\* takes one that is lost already.
LEMMA RevocationChecked ==
  ASSUME ConstantsOK, AInv, NEW r \in Requests, Step(r), at'[r] = "revoking"
  PROVE  /\ req'[r].by = req[r].by /\ req[r].by \in Users
         /\ req'[r].target \in Keys
         /\ key[req'[r].target].owner = req[r].by /\ UNCHANGED <<user, key>>
         /\ \/ key[req'[r].target].revoked = TRUE
            \/ key[req'[r].target].expiry = "past"
            \/ \E k \in Keys : /\ k # req'[r].target
                               /\ key[k].owner = req[r].by /\ Stands(k)
         /\ \/ req[r].by \in raced'
            \/ \A o \in Requests \ {r} :
                 ~(at[o] = "revoking" /\ req[o].by = req[r].by)
<1> USE DEF AInv, AccountsTypeOK
<1>1. req[r] \in Held /\ CheckLastKey(r) /\ ~Free(r)
  BY Arrivals DEF Free, MoveTo
<1>2. req[r].by \in Users /\ UNCHANGED <<user, key>>
  BY <1>1 DEF CheckLastKey, HoldsAt, Inside, tables
<1> DEFINE mine == ActiveKeys(req[r].by)
<1>3. PICK t \in OwnKeys(req[r].by) :
        /\ t \in mine => Cardinality(mine) > 1
        /\ req' = [req EXCEPT ![r] = [@ EXCEPT !.target = t]]
        /\ Enters(r, "revoking")
  BY <1>1 DEF CheckLastKey
<1>4. t \in Keys /\ key[t].owner = req[r].by /\ key[t] \in KeyRow
  BY <1>3 DEF OwnKeys
<1>5. req'[r].target = t /\ req'[r].by = req[r].by
  BY <1>1, <1>3, <1>4 DEF Held
<1>6. \/ key[t].revoked = TRUE \/ key[t].expiry = "past"
      \/ \E k \in Keys : k # t /\ key[k].owner = req[r].by /\ Stands(k)
  <2>1. CASE t \notin mine
    <3>1. ~IsActive(t)
      BY <1>3, <2>1 DEF ActiveKeys
    <3> QED
      BY <1>2, <1>4, <3>1 DEF IsActive, ConstantsOK, KeyRow
  <2>2. CASE t \in mine
    <3>1. mine # {t}
      <4>1. Cardinality({t}) = 1
        BY FS_Singleton
      <4>2. Cardinality(mine) # 1
        BY <1>3, <2>2
      <4> QED
        BY <4>1, <4>2
    <3>2. PICK k \in mine : k # t
      BY <2>2, <3>1
    <3>3. k \in Keys /\ key[k].owner = req[r].by /\ IsActive(k)
      BY <3>2 DEF ActiveKeys, OwnKeys
    <3>4. key[k].revoked = FALSE
      BY <3>3 DEF IsActive, KeyRow
    <3> QED
      BY <3>2, <3>3, <3>4 DEF Stands
  <2> QED
    BY <2>1, <2>2
<1>7. \/ req[r].by \in raced'
      \/ \A o \in Requests \ {r} :
           ~(at[o] = "revoking" /\ req[o].by = req[r].by)
  BY <1>3 DEF Enters
<1> QED
  BY <1>2, <1>4, <1>5, <1>6, <1>7

\* What a step does to the keys of an account: they keep their owner, and one
\* that stands stays so, but for the one a request takes.
LEMMA KeysStand ==
  ASSUME ConstantsOK, AInv, NEW r \in Requests, Step(r), NEW k \in Keys,
         key[k].owner \in Users, ~RevokeKey(r) \/ req[r].target # k
  PROVE  /\ key'[k].owner = key[k].owner /\ key'[k].revoked = key[k].revoked
         /\ key'[k].expiry = key[k].expiry
<1>1. CASE InsertInitialKey(r) \/ AddKey(r)
  BY <1>1, KeyAdded DEF ConstantsOK
<1>2. CASE RevokeKey(r)
  BY <1>2, KeyRevoked
<1> QED
  BY <1>1, <1>2, Writers

LEMMA RevocationsKept ==
  ASSUME ConstantsOK, AInv, Revocations, [AccountsNext]_accountVars
  PROVE  Revocations'
<1> USE DEF AInv
<1> DEFINE Leaves(o) ==
      /\ key'[req'[o].target].owner = req'[o].by
      /\ req'[o].by \notin raced' =>
           /\ \A p \in Requests :
                at'[p] = "revoking" /\ req'[p].by = req'[o].by => p = o
           /\ \/ key'[req'[o].target].revoked = TRUE
              \/ key'[req'[o].target].expiry = "past"
              \/ \E k \in Keys :
                   /\ k # req'[o].target
                   /\ key'[k].owner = req'[o].by
                   /\ key'[k].revoked = FALSE \/ key'[k].expiry = "past"
<1>1. ASSUME NEW r \in Requests, Step(r), NEW o \in Requests,
             at'[o] = "revoking"
      PROVE  Leaves(o)
  <2>1. CASE o = r
    <3>1. /\ req'[r].by = req[r].by /\ req[r].by \in Users
          /\ key[req'[r].target].owner = req[r].by /\ UNCHANGED key
          /\ \/ key[req'[r].target].revoked = TRUE
             \/ key[req'[r].target].expiry = "past"
             \/ \E k \in Keys : /\ k # req'[r].target
                                /\ key[k].owner = req[r].by /\ Stands(k)
          /\ \/ req[r].by \in raced'
             \/ \A p \in Requests \ {r} :
                  ~(at[p] = "revoking" /\ req[p].by = req[r].by)
      BY <1>1, <2>1, RevocationChecked
    <3>2. \A p \in Requests \ {r} : at'[p] = at[p] /\ req'[p] = req[p]
      BY <1>1, OneMoves
    <3> QED
      BY <2>1, <3>1, <3>2 DEF Stands
  <2>2. CASE o # r
    <3>0. at'[o] = at[o] /\ req'[o] = req[o]
      BY <1>1, <2>2, OneMoves
    <3> DEFINE t == req[o].target
               u == req[o].by
    <3>1. at[o] = "revoking" /\ t \in Keys /\ key[t].owner = u /\ u \in Users
      BY <1>1, <3>0 DEF Revocations, HoldsAt, Inside
    <3>2. key'[t].owner = u
      BY <1>1, <3>1, KeysStand, KeyRevoked
    <3>3. ASSUME u \notin raced'
          PROVE  /\ \A p \in Requests :
                      at'[p] = "revoking" /\ req'[p].by = u => p = o
                 /\ \/ key'[t].revoked = TRUE \/ key'[t].expiry = "past"
                    \/ \E k \in Keys :
                         /\ k # t /\ key'[k].owner = u
                         /\ key'[k].revoked = FALSE \/ key'[k].expiry = "past"
      <4>1. u \notin raced
        BY <1>1, <3>3, RacedGrows
      <4>2. /\ \A p \in Requests :
                 at[p] = "revoking" /\ req[p].by = u => p = o
            /\ \/ key[t].revoked = TRUE \/ key[t].expiry = "past"
               \/ \E k \in Keys : k # t /\ key[k].owner = u /\ Stands(k)
        BY <3>1, <4>1 DEF Revocations
      <4>3. ~(at'[r] = "revoking" /\ req'[r].by = u)
        <5>1. SUFFICES ASSUME at'[r] = "revoking", req'[r].by = u
                       PROVE  FALSE
          OBVIOUS
        <5>2. /\ req'[r].by = req[r].by
              /\ \/ req[r].by \in raced'
                 \/ ~(at[o] = "revoking" /\ req[o].by = req[r].by)
          BY <1>1, <2>2, <5>1, RevocationChecked
        <5> QED
          BY <3>1, <3>3, <5>1, <5>2
      <4>4. \A p \in Requests :
              at'[p] = "revoking" /\ req'[p].by = u => p = o
        BY <1>1, <4>2, <4>3, OneMoves
      <4>5. \A k \in Keys : key[k].owner = u => ~RevokeKey(r) \/ req[r].target # k
        <5>1. SUFFICES ASSUME NEW k \in Keys, key[k].owner = u, RevokeKey(r),
                              req[r].target = k
                       PROVE  FALSE
          OBVIOUS
        <5>2. at[r] = "revoking"
          BY <5>1, KeyRevoked
        <5>3. req[r].by = u
          BY <5>1, <5>2 DEF Revocations
        <5> QED
          BY <2>2, <4>2, <5>2, <5>3
      <4>6. \A k \in Keys : key[k].owner = u =>
              /\ key'[k].owner = u /\ key'[k].revoked = key[k].revoked
              /\ key'[k].expiry = key[k].expiry
        BY <1>1, <3>1, <4>5, KeysStand
      <4>7. CASE key[t].revoked = TRUE \/ key[t].expiry = "past"
        BY <3>1, <4>4, <4>6, <4>7
      <4>8. ASSUME NEW k \in Keys, k # t, key[k].owner = u, Stands(k)
            PROVE  /\ key'[k].owner = u
                   /\ key'[k].revoked = FALSE \/ key'[k].expiry = "past"
        BY <4>6, <4>8 DEF Stands
      <4> QED
        BY <4>2, <4>4, <4>7, <4>8
    <3> QED
      BY <3>0, <3>2, <3>3
  <2> QED
    BY <2>1, <2>2
<1>2. ASSUME NEW l \in Keys, ExpireKey(l), NEW o \in Requests,
             at'[o] = "revoking"
      PROVE  Leaves(o)
  <2>1. /\ \A k \in Keys : /\ key'[k].owner = key[k].owner
                           /\ key'[k].revoked = key[k].revoked
                           /\ key'[k].expiry \in {key[k].expiry, "past"}
        /\ UNCHANGED <<at, req, raced>>
    BY <1>2, KeyExpired
  <2>2. req[o].target \in Keys
    BY <1>2, <2>1 DEF HoldsAt
  <2> QED
    BY <1>2, <2>1, <2>2 DEF Revocations, Stands
<1>3. CASE UNCHANGED accountVars
  BY <1>3 DEF accountVars, tables, ghosts, Revocations, Stands
<1> QED
  BY <1>1, <1>2, <1>3 DEF AccountsNext, Revocations, Stands

LEMMA LastKeyKept ==
  ASSUME ConstantsOK, AInv, Revocations, LastKey, [AccountsNext]_accountVars
  PROVE  LastKey'
<1> USE DEF AInv
<1> DEFINE Keeps(u) ==
      (\E k \in Keys : key'[k].owner = u) =>
        \E k \in Keys :
          /\ key'[k].owner = u
          /\ key'[k].revoked = FALSE \/ key'[k].expiry = "past"
<1>1. ASSUME NEW r \in Requests, Step(r), NEW u \in Users \ raced'
      PROVE  Keeps(u)
  <2>1. u \notin raced
    BY <1>1, RacedGrows
  <2>2. CASE UNCHANGED key
    BY <2>1, <2>2 DEF LastKey, Stands
  <2>3. CASE InsertInitialKey(r) \/ AddKey(r)
    <3>1. PICK k \in Keys, v \in Users :
            /\ key[k].owner = Nobody
            /\ key'[k].owner = v /\ key'[k].revoked = FALSE
            /\ \A l \in Keys \ {k} : key'[l] = key[l]
      BY <2>3, KeyAdded
    <3>2. CASE v = u
      BY <3>1, <3>2
    <3>3. CASE v # u
      <4>1. u # Nobody
        BY DEF ConstantsOK
      <4>2. \A l \in Keys : key'[l].owner = u => key[l].owner = u
        BY <3>1, <3>3
      <4>3. \A l \in Keys : key[l].owner = u => key'[l] = key[l]
        BY <3>1, <4>1
      <4> QED
        BY <2>1, <4>2, <4>3 DEF LastKey, Stands
    <3> QED
      BY <3>2, <3>3
  <2>4. CASE RevokeKey(r)
    <3> DEFINE t == req[r].target
    <3>1. /\ at[r] = "revoking" /\ t \in Keys
          /\ key'[t].owner = key[t].owner /\ key'[t].revoked = TRUE
          /\ key'[t].expiry = key[t].expiry
          /\ \A l \in Keys \ {t} : key'[l] = key[l]
      BY <2>4, KeyRevoked
    <3>2. key[t].owner = req[r].by
      BY <3>1 DEF Revocations
    <3>3. CASE req[r].by # u
      <4>1. \A l \in Keys : (key'[l].owner = u => key[l].owner = u)
                            /\ (key[l].owner = u => key'[l] = key[l])
        BY <3>1, <3>2, <3>3
      <4> QED
        BY <2>1, <4>1 DEF LastKey, Stands
    <3>4. CASE req[r].by = u
      <4>1. \/ key[t].revoked = TRUE \/ key[t].expiry = "past"
            \/ \E k \in Keys : k # t /\ key[k].owner = u /\ Stands(k)
        BY <2>1, <3>1, <3>4 DEF Revocations
      <4>2. CASE key[t].expiry = "past"
        BY <3>1, <3>2, <3>4, <4>2
      <4>3. ASSUME NEW k \in Keys, k # t, key[k].owner = u, Stands(k)
            PROVE  Keeps(u)
        BY <3>1, <4>3 DEF Stands
      <4>4. CASE key[t].revoked = TRUE /\ key[t].expiry # "past"
        <5>1. PICK k \in Keys : key[k].owner = u /\ Stands(k)
          BY <2>1, <3>1, <3>2, <3>4 DEF LastKey
        <5>2. k # t
          BY <4>4, <5>1 DEF Stands
        <5> QED
          BY <4>3, <5>1, <5>2
      <4> QED
        BY <4>1, <4>2, <4>3, <4>4
    <3> QED
      BY <3>3, <3>4
  <2> QED
    BY <1>1, <2>2, <2>3, <2>4, Writers
<1>2. ASSUME NEW l \in Keys, ExpireKey(l), NEW u \in Users \ raced'
      PROVE  Keeps(u)
  <2>1. /\ \A k \in Keys : /\ key'[k].owner = key[k].owner
                           /\ key'[k].revoked = key[k].revoked
                           /\ key'[k].expiry \in {key[k].expiry, "past"}
        /\ UNCHANGED raced
    BY <1>2, KeyExpired
  <2> QED
    BY <1>2, <2>1 DEF LastKey, Stands
<1>3. CASE UNCHANGED accountVars
  BY <1>3 DEF accountVars, tables, ghosts, LastKey, Stands
<1> QED
  BY <1>1, <1>2, <1>3 DEF AccountsNext, LastKey, Stands

-----------------------------------------------------------------------------
(* The ceiling                                                              *)

\* Nobody acts for an account before it has a key that somebody was shown.
LEMMA NewbornKept ==
  ASSUME ConstantsOK, AInv, Growth, Newborn, [AccountsNext]_accountVars
  PROVE  Newborn'
<1> USE DEF AInv
<1> DEFINE Bare(o) ==
      /\ user'[req'[o].target].hash = req'[o].key
      /\ \A k \in Keys : key'[k].owner # req'[o].target
      /\ \A p \in Requests :
           at'[p] \in Inside => req'[p].by # req'[o].target
<1>1. ASSUME NEW r \in Requests, Step(r), NEW o \in Requests,
             at'[o] = "created"
      PROVE  Bare(o)
  <2>1. CASE o = r
    <3> DEFINE u == req[r].target
    <3>1. /\ u \in Users /\ user[u].there = FALSE
          /\ user'[u].hash = req'[r].key
          /\ req'[r].target = u /\ UNCHANGED key
      <4>1. InsertUser(r) /\ at'[r] # "idle"
        BY <1>1, <2>1, Arrivals
      <4>2. UNCHANGED key
        BY <4>1 DEF InsertUser
      <4> QED
        BY <4>1, <4>2, UserMade
    <3>2. \A k \in Keys : key[k].owner # u
      BY <3>1 DEF Placing
    <3>3. ASSUME NEW p \in Requests, at'[p] \in Inside
          PROVE  req'[p].by # u
      <4>1. p # r
        BY <1>1, <2>1, <3>3 DEF Inside
      <4>2. at[p] \in Inside /\ req'[p] = req[p]
        BY <1>1, <3>3, <4>1, OneMoves
      <4> QED
        BY <3>1, <4>2 DEF HoldsAt
    <3> QED
      BY <2>1, <3>1, <3>2, <3>3
  <2>2. CASE o # r
    <3> DEFINE u == req[o].target
    <3>0. at[o] = "created" /\ req'[o] = req[o]
      BY <1>1, <2>2, OneMoves
    <3>1. /\ u \in Users /\ user[u].hash = req[o].key /\ user[u].there
          /\ \A k \in Keys : key[k].owner # u
          /\ \A p \in Requests : at[p] \in Inside => req[p].by # u
      BY <3>0 DEF Newborn, HoldsAt, Making, Creating
    <3>2. user'[u].hash = req[o].key
      BY <3>1 DEF Growth
    <3>3. ASSUME NEW k \in Keys, key'[k].owner = u
          PROVE  FALSE
      <4>1. InsertInitialKey(r) \/ AddKey(r)
        <5>1. ~UNCHANGED key
          BY <3>1, <3>3
        <5>2. ~RevokeKey(r)
          <6>1. RevokeKey(r) => \A l \in Keys : key'[l].owner = key[l].owner
            BY KeyRevoked
          <6> QED
            BY <3>1, <3>3, <6>1
        <5> QED
          BY <1>1, <5>1, <5>2, Writers
      <4>2. \/ at[r] = "created" /\ u = req[r].target
            \/ at[r] = "issuing" /\ u = req[r].by
        <5>1. PICK l \in Keys, v \in Users :
                /\ key'[l].owner = v
                /\ \A m \in Keys \ {l} : key'[m] = key[m]
                /\ \/ at[r] = "created" /\ v = req[r].target
                   \/ at[r] = "issuing" /\ v = req[r].by
          BY <4>1, KeyAdded
        <5> QED
          BY <3>1, <3>3, <5>1
      <4>3. CASE at[r] = "created" /\ u = req[r].target
        <5>1. req[r].key = req[o].key
          BY <3>1, <4>3 DEF Newborn
        <5> QED
          BY <2>2, <3>0, <5>1 DEF Creating
      <4>4. CASE at[r] = "issuing" /\ u = req[r].by
        BY <3>1, <4>4 DEF Inside
      <4> QED
        BY <4>2, <4>3, <4>4
    <3>4. ASSUME NEW p \in Requests, at'[p] \in Inside, req'[p].by = u
          PROVE  FALSE
      <4>1. p = r
        BY <1>1, <3>1, <3>4, OneMoves
      <4>2. CASE at'[r] = "in"
        <5>1. \/ at[r] = "presented" /\ user[u].hash = req[r].key
              \/ at[r] = "identified" /\ u = key[req[r].key].owner
          BY <1>1, <3>4, <4>1, <4>2, Admitted
        <5>2. CASE at[r] = "presented" /\ user[u].hash = req[r].key
          <6>1. req[r].key = req[o].key
            BY <3>1, <5>2
          <6> QED
            BY <2>2, <3>0, <6>1 DEF Creating
        <5>3. CASE at[r] = "identified" /\ u = key[req[r].key].owner
          BY <3>1, <5>3 DEF HoldsAt
        <5> QED
          BY <5>1, <5>2, <5>3
      <4>3. CASE at'[r] = "issuing"
        <5>1. at[r] = "in" /\ req' = req
          BY <1>1, <4>3, Arrivals DEF CountKeys, Free, MoveTo, AccountsTypeOK
        <5> QED
          BY <3>1, <3>4, <4>1, <5>1 DEF Inside
      <4>4. CASE at'[r] = "revoking"
        <5>1. at[r] = "in" /\ req'[r].by = req[r].by
          BY <1>1, <4>4, Arrivals, RevocationChecked DEF CheckLastKey
        <5> QED
          BY <3>1, <3>4, <4>1, <5>1 DEF Inside
      <4> QED
        BY <3>4, <4>1, <4>2, <4>3, <4>4 DEF Inside
    <3> QED
      BY <3>0, <3>2, <3>3, <3>4
  <2> QED
    BY <2>1, <2>2
<1>2. ASSUME NEW l \in Keys, ExpireKey(l), NEW o \in Requests,
             at'[o] = "created"
      PROVE  Bare(o)
  <2>1. /\ \A k \in Keys : key'[k].owner = key[k].owner
        /\ UNCHANGED <<user, at, req>>
    BY <1>2, KeyExpired
  <2> QED
    BY <1>2, <2>1 DEF Newborn
<1>3. CASE UNCHANGED accountVars
  BY <1>3 DEF accountVars, tables, Newborn
<1> QED
  BY <1>1, <1>2, <1>3 DEF AccountsNext, Newborn

LEMMA Counts ==
  ASSUME ConstantsOK
  PROVE  /\ Cardinality(Requests) \in Nat
         /\ \A u : /\ IsFiniteSet(ActiveKeys(u)) /\ IsFiniteSet(Issuing(u))
                   /\ Cardinality(ActiveKeys(u)) \in Nat
                   /\ Cardinality(Issuing(u)) \in Nat
                   /\ Cardinality(Issuing(u)) <= Cardinality(Requests)
<1>1. ASSUME NEW u
      PROVE  /\ IsFiniteSet(ActiveKeys(u)) /\ IsFiniteSet(Issuing(u))
             /\ Cardinality(Issuing(u)) <= Cardinality(Requests)
  <2>1. ActiveKeys(u) \in SUBSET Keys /\ Issuing(u) \in SUBSET Requests
    BY DEF ActiveKeys, OwnKeys, Issuing
  <2> QED
    BY <2>1, FS_Subset DEF ConstantsOK
<1> QED
  BY <1>1, FS_CardinalityType DEF ConstantsOK

\* The share of one account, which has no more keys and requests than before.
Share(u) ==
  /\ Cardinality(ActiveKeys(u)) + Cardinality(Issuing(u))
       <= MaxActive + Excess(u)
  /\ u \notin raced => \A r, o \in Issuing(u) : r = o

LEMMA ShareShrinks ==
  ASSUME ConstantsOK, NEW u \in Users, Share(u),
         ActiveKeys(u)' \subseteq ActiveKeys(u), Issuing(u)' \subseteq Issuing(u),
         raced \subseteq raced', Requests # {} \/ UNCHANGED raced
  PROVE  Share(u)'
<1> DEFINE a == ActiveKeys(u)
           b == Issuing(u)
           a1 == ActiveKeys(u)'
           b1 == Issuing(u)'
<1>1. Cardinality(a1) <= Cardinality(a) /\ Cardinality(a1) \in Nat
  <2>1. IsFiniteSet(a) /\ a1 \in SUBSET a
    BY Counts
  <2> QED
    BY <2>1, FS_Subset, FS_CardinalityType
<1>2. Cardinality(b1) <= Cardinality(b) /\ Cardinality(b1) \in Nat
  <2>1. IsFiniteSet(b) /\ b1 \in SUBSET b
    BY Counts
  <2> QED
    BY <2>1, FS_Subset, FS_CardinalityType
<1>3. Cardinality(a) \in Nat /\ Cardinality(b) \in Nat /\ MaxActive \in Nat
  BY Counts DEF ConstantsOK
<1>4. Excess(u) <= Excess(u)' /\ Excess(u) \in Int /\ Excess(u)' \in Int
  <2>1. Cardinality(Requests) \in Nat
    BY Counts
  <2>2. Requests # {} => Cardinality(Requests) # 0
    BY FS_EmptySet DEF ConstantsOK
  <2> QED
    BY <2>1, <2>2 DEF Excess
<1>5. Cardinality(a1) + Cardinality(b1) <= MaxActive + Excess(u)'
  BY <1>1, <1>2, <1>3, <1>4 DEF Share
<1>6. u \notin raced' => \A r, o \in b1 : r = o
  BY DEF Share
<1> QED
  BY <1>5, <1>6 DEF Share

\* The request that is let through finds room for its key, or company.
LEMMA ShareCounted ==
  ASSUME ConstantsOK, AInv, NEW r \in Requests, Step(r), at'[r] = "issuing",
         NEW u \in Users, Share(u)
  PROVE  Share(u)'
<1> USE DEF AInv
<1>1. CountKeys(r) /\ ~Free(r) /\ at[r] = "in"
  BY Arrivals DEF Free, MoveTo, AccountsTypeOK, CountKeys
<1>2. /\ ~(Cardinality(ActiveKeys(req[r].by)) >= MaxActive)
      /\ Enters(r, "issuing") /\ UNCHANGED <<key, req>>
  BY <1>1 DEF CountKeys, tables
<1>3. Issuing(u)' \subseteq Issuing(u) \union {r}
  BY <1>2, OneMoves DEF Issuing
<1>4. UNCHANGED ActiveKeys(u)
  BY <1>2 DEF ActiveKeys, OwnKeys, IsActive
<1>5. CASE req[r].by # u
  <2>1. Issuing(u)' \subseteq Issuing(u)
    BY <1>2, <1>3, <1>5 DEF Issuing
  <2> QED
    BY <1>4, <2>1, RacedGrows, ShareShrinks
<1>6. CASE req[r].by = u
  <2> DEFINE a == Cardinality(ActiveKeys(u))
             b == Cardinality(Issuing(u)')
  <2>1. a \in Nat /\ MaxActive \in Nat \ {0} /\ a < MaxActive
    BY <1>2, <1>6, Counts DEF ConstantsOK
  <2>2. b \in Nat /\ b <= Cardinality(Requests) /\ Cardinality(Requests) \in Nat
    <3>1. Issuing(u)' \in SUBSET Requests
      BY DEF Issuing
    <3> QED
      BY <3>1, FS_Subset, FS_CardinalityType DEF ConstantsOK
  <2>3. CASE u \in raced'
    <3>1. Excess(u)' = Cardinality(Requests) - 1
      BY <2>3 DEF Excess
    <3>2. a + b <= MaxActive + Excess(u)'
      BY <2>1, <2>2, <3>1
    <3> QED
      BY <1>4, <2>3, <3>2 DEF Share
  <2>4. CASE u \notin raced'
    <3>1. Issuing(u)' \subseteq {r}
      BY <1>2, <1>6, <1>3, <2>4 DEF Enters, Issuing
    <3>2. b <= 1
      <4>1. IsFiniteSet({r}) /\ Cardinality({r}) = 1
        BY FS_Singleton
      <4>2. Issuing(u)' \in SUBSET {r}
        BY <3>1
      <4> QED
        BY <4>1, <4>2, FS_Subset
    <3>3. Excess(u)' = 0
      BY <2>4 DEF Excess
    <3>4. a + b <= MaxActive + Excess(u)'
      BY <2>1, <2>2, <3>2, <3>3
    <3>5. \A p, o \in Issuing(u)' : p = o
      BY <3>1
    <3> QED
      BY <1>4, <3>4, <3>5 DEF Share
  <2> QED
    BY <2>3, <2>4
<1> QED
  BY <1>5, <1>6

\* The key that is added takes the place of the request that adds it; the
\* first one of an account has the account to itself.
LEMMA ShareAdded ==
  ASSUME ConstantsOK, AInv, Newborn, NEW r \in Requests, Step(r),
         InsertInitialKey(r) \/ AddKey(r), NEW u \in Users, Share(u)
  PROVE  Share(u)'
<1> USE DEF AInv
<1>1. PICK k \in Keys, v \in Users :
        /\ key[k].owner = Nobody /\ key'[k].owner = v
        /\ \A l \in Keys \ {k} : key'[l] = key[l]
        /\ at'[r] = "acted" /\ UNCHANGED raced
        /\ \/ at[r] = "created" /\ v = req[r].target
           \/ at[r] = "issuing" /\ v = req[r].by
  BY KeyAdded
<1>2. Issuing(u)' \subseteq Issuing(u) \ {r}
  BY <1>1, OneMoves DEF Issuing
<1>3. ActiveKeys(u)' \subseteq ActiveKeys(u) \union {k}
  BY <1>1 DEF ActiveKeys, OwnKeys, IsActive
<1>4. CASE u # v
  <2>1. k \notin ActiveKeys(u)'
    BY <1>1, <1>4 DEF ActiveKeys, OwnKeys
  <2> QED
    BY <1>1, <1>2, <1>3, <2>1, ShareShrinks
<1>5. CASE u = v
  <2> DEFINE a  == Cardinality(ActiveKeys(u))
             b  == Cardinality(Issuing(u))
             a1 == Cardinality(ActiveKeys(u)')
             b1 == Cardinality(Issuing(u)')
             c  == ActiveKeys(u) \union {k}
             d  == Issuing(u) \ {r}
  <2>1. /\ a \in Nat /\ b \in Nat /\ MaxActive \in Nat \ {0}
        /\ IsFiniteSet(ActiveKeys(u)) /\ IsFiniteSet(Issuing(u))
    BY Counts DEF ConstantsOK
  <2>2. /\ IsFiniteSet(c) /\ Cardinality(c) \in Nat /\ Cardinality(c) <= a + 1
    <3>1. IsFiniteSet(c)
      BY <2>1, FS_AddElement
    <3>2. Cardinality(c) = IF k \in ActiveKeys(u) THEN a ELSE a + 1
      BY <2>1, FS_AddElement
    <3> QED
      BY <2>1, <3>1, <3>2
  <2>3. a1 \in Nat /\ a1 <= a + 1
    <3>1. ActiveKeys(u)' \in SUBSET c
      BY <1>3
    <3>2. IsFiniteSet(ActiveKeys(u)') /\ a1 <= Cardinality(c)
      BY <2>2, <3>1, FS_Subset
    <3>3. a1 \in Nat
      BY <3>2, FS_CardinalityType
    <3> QED
      BY <2>1, <2>2, <3>2, <3>3
  <2>4. IsFiniteSet(d) /\ b1 \in Nat /\ b1 <= Cardinality(d)
    <3>1. Issuing(u)' \in SUBSET d
      BY <1>2
    <3>2. IsFiniteSet(d)
      BY <2>1, FS_RemoveElement
    <3>3. IsFiniteSet(Issuing(u)') /\ b1 <= Cardinality(d)
      BY <3>1, <3>2, FS_Subset
    <3> QED
      BY <3>2, <3>3, FS_CardinalityType
  <2>5. Excess(u)' = Excess(u) /\ Excess(u) \in Int
    BY <1>1, Counts DEF Excess
  <2>6. CASE at[r] = "issuing" /\ v = req[r].by
    <3>1. r \in Issuing(u)
      BY <1>5, <2>6 DEF Issuing
    <3>2. Cardinality(d) = b - 1
      BY <2>1, <3>1, FS_RemoveElement
    <3>3. a + b <= MaxActive + Excess(u)
      BY DEF Share
    <3>4. a1 + b1 <= MaxActive + Excess(u)'
      BY <2>1, <2>3, <2>4, <2>5, <3>2, <3>3
    <3> QED
      BY <1>1, <1>2, <3>4 DEF Share
  <2>7. CASE at[r] = "created" /\ v = req[r].target
    <3>1. ActiveKeys(u) = {} /\ Issuing(u) = {}
      BY <1>5, <2>7 DEF Newborn, ActiveKeys, OwnKeys, Issuing, Inside
    <3>2. a = 0 /\ Cardinality(d) = 0
      BY <3>1, FS_EmptySet
    <3>3. u \in raced => Requests # {}
      OBVIOUS
    <3>4. Excess(u) >= 0
      <4>1. Cardinality(Requests) \in Nat /\ Cardinality(Requests) # 0
        BY Counts, FS_EmptySet DEF ConstantsOK
      <4> QED
        BY <4>1 DEF Excess
    <3>5. a1 + b1 <= MaxActive + Excess(u)'
      BY <2>1, <2>3, <2>4, <2>5, <3>2, <3>4
    <3> QED
      BY <1>1, <1>2, <3>1, <3>5 DEF Share
  <2> QED
    BY <1>1, <2>6, <2>7
<1> QED
  BY <1>4, <1>5

LEMMA CeilingKept ==
  ASSUME ConstantsOK, AInv, Newborn, Ceiling, [AccountsNext]_accountVars
  PROVE  Ceiling'
<1> USE DEF AInv
<1>0. SUFFICES ASSUME NEW u \in Users
               PROVE  Share(u)'
  BY DEF Ceiling, Share
<1>a. Share(u)
  BY DEF Ceiling, Share
<1>b. ASSUME \A k \in Keys : key'[k].owner = key[k].owner
      PROVE  ActiveKeys(u)' \subseteq ActiveKeys(u)
  <2>1. Growth
    BY StepGrows
  <2> QED
    BY <1>b, <2>1 DEF Growth, ActiveKeys, OwnKeys
<1>1. ASSUME NEW r \in Requests, Step(r)
      PROVE  Share(u)'
  <2>1. CASE at'[r] = "issuing"
    BY <1>1, <1>a, <2>1, ShareCounted
  <2>2. CASE InsertInitialKey(r) \/ AddKey(r)
    BY <1>1, <1>a, <2>2, ShareAdded
  <2>3. CASE at'[r] # "issuing" /\ ~(InsertInitialKey(r) \/ AddKey(r))
    <3>1. Issuing(u)' \subseteq Issuing(u)
      BY <1>1, <2>3, OneMoves DEF Issuing
    <3>2. \A k \in Keys : key'[k].owner = key[k].owner
      BY <1>1, <2>3, Writers, KeyRevoked
    <3>3. raced \subseteq raced' /\ Requests # {}
      BY <1>1, RacedGrows
    <3> QED
      BY <1>a, <1>b, <3>1, <3>2, <3>3, ShareShrinks
  <2> QED
    BY <2>1, <2>2, <2>3
<1>2. ASSUME NEW k \in Keys, ExpireKey(k)
      PROVE  Share(u)'
  <2>1. \A l \in Keys : key'[l].owner = key[l].owner
    BY <1>2, KeyExpired
  <2>2. UNCHANGED <<at, req, raced>>
    BY <1>2, KeyExpired
  <2>3. Issuing(u)' \subseteq Issuing(u)
    BY <2>2 DEF Issuing
  <2> QED
    BY <1>a, <1>b, <2>1, <2>2, <2>3, ShareShrinks
<1>3. CASE UNCHANGED accountVars
  <2>1. UNCHANGED <<key, at, req, raced>>
    BY <1>3 DEF accountVars, tables, ghosts
  <2>2. Issuing(u)' \subseteq Issuing(u)
    BY <2>1 DEF Issuing
  <2> QED
    BY <1>a, <1>b, <2>1, <2>2, ShareShrinks
<1> QED
  BY <1>1, <1>2, <1>3 DEF AccountsNext

LEMMA InitMInv ==
  ASSUME ConstantsOK, AccountsInit
  PROVE  MInv
<1>1. AInv
  BY InitAInv
<1>2. /\ \A r \in Requests : at[r] = "idle"
      /\ \A k \in Keys : key[k].owner = Nobody
      /\ raced = {} /\ twins = FALSE
  BY DEF AccountsInit, NoKeyRow
<1>3. Certified /\ Revocations /\ Newborn
  BY <1>2 DEF Certified, Revocations, Newborn
<1>4. LastKey
  BY <1>2 DEF LastKey, ConstantsOK
<1>5. \A r \in Requests : ~Registering(r)
  BY <1>2 DEF Registering
<1>6. OneAdmin
  <2>1. CASE user = [u \in Users |-> NoAccount]
    BY <1>5, <2>1 DEF OneAdmin, Empty, NoAccount
  <2>2. ASSUME NEW u \in Users, NEW k \in Keys,
               user = [[v \in Users |-> NoAccount] EXCEPT ![u] =
                 [there |-> TRUE, active |-> TRUE, admin |-> TRUE, hash |-> k]]
        PROVE  OneAdmin
    <3>1. /\ user[u].there = TRUE /\ user[u].active = TRUE
          /\ user[u].admin = TRUE
      BY <2>2
    <3>2. \A v \in Users \ {u} : user[v].admin = FALSE
      BY <2>2 DEF NoAccount
    <3> QED
      BY <1>5, <3>1, <3>2 DEF OneAdmin, Ruled
  <2> QED
    BY <2>1, <2>2 DEF AccountsInit
<1>7. Ceiling
  <2>1. ASSUME NEW u \in Users
        PROVE  /\ Cardinality(ActiveKeys(u)) + Cardinality(Issuing(u))
                    <= MaxActive + Excess(u)
               /\ \A r, o \in Issuing(u) : r = o
    <3>1. ActiveKeys(u) = {} /\ Issuing(u) = {}
      BY <1>2 DEF ActiveKeys, OwnKeys, Issuing, ConstantsOK
    <3>2. Cardinality(ActiveKeys(u)) = 0 /\ Cardinality(Issuing(u)) = 0
      BY <3>1, FS_EmptySet
    <3>3. Excess(u) = 0 /\ MaxActive \in Nat
      BY <1>2 DEF Excess, ConstantsOK
    <3> QED
      BY <3>1, <3>2, <3>3
  <2> QED
    BY <2>1 DEF Ceiling
<1> QED
  BY <1>1, <1>3, <1>4, <1>6, <1>7 DEF MInv

LEMMA StepMInv ==
  ASSUME ConstantsOK, MInv, [AccountsNext]_accountVars
  PROVE  MInv'
<1> USE DEF MInv
<1>1. AInv' /\ Growth
  BY StepAInv, StepGrows
<1>2. Certified' /\ OneAdmin'
  BY CertifiedKept, OneAdminKept
<1>3. Revocations' /\ LastKey'
  BY RevocationsKept, LastKeyKept
<1>4. Newborn' /\ Ceiling'
  BY <1>1, NewbornKept, CeilingKept
<1> QED
  BY <1>1, <1>2, <1>3, <1>4

-----------------------------------------------------------------------------
(* The theorems                                                             *)

\* Every request, row and log entry keeps its shape.
THEOREM AccountTypes ==
  ASSUME ConstantsOK
  PROVE  AccountsSpec => []AccountsTypeOK
<1>1. AInv => AccountsTypeOK
  BY DEF AInv
<1> QED
  BY <1>1, InitAInv, StepAInv, PTL DEF AccountsSpec

\* auth._principal_from_key: a key that was revoked, had expired or belonged to
\* a deactivated account when it was presented gets no request past the two
\* look-ups, the hash on the user row notwithstanding.
THEOREM BarredIsKeptOut ==
  ASSUME ConstantsOK
  PROVE  AccountsSpec => []BarredStaysOut
<1>1. AInv => BarredStaysOut
  BY DEF AInv, LateAt, BarredStaysOut
<1> QED
  BY <1>1, InitAInv, StepAInv, PTL DEF AccountsSpec

\* routes/admin.py closes registration behind the first account and refuses
\* admins their own deactivation: some account stays an active admin, whoever
\* deactivates whom at once, unless two registrations were let through at once.
THEOREM SomeAdminRemains ==
  ASSUME ConstantsOK
  PROVE  AccountsSpec => []AdminRemains
<1>1. MInv => AdminRemains
  <2>1. twins = TRUE => AdminRemains
    BY DEF AdminRemains
  <2>2. Empty => AdminRemains
    BY DEF AdminRemains, Empty
  <2>3. Ruled => AdminRemains
    BY DEF AdminRemains, Ruled
  <2> QED
    BY <2>1, <2>2, <2>3 DEF MInv, OneAdmin
<1> QED
  BY <1>1, InitMInv, StepMInv, PTL DEF AccountsSpec

\* "Refuses to revoke the last active key" (revoke_my_key): who has revoked all
\* of an account's keys before they expired had two revocations under way at
\* once, for any number of keys and requests, and wherever handlers die.
THEOREM LockedOutOnlyByARace ==
  ASSUME ConstantsOK
  PROVE  AccountsSpec => []LockoutTakesARace
<1>1. MInv => LockoutTakesARace
  <2>1. ASSUME MInv, NEW u \in Users, OwnKeys(u) # {}, u \notin raced,
               \A k \in OwnKeys(u) : key[k].revoked /\ key[k].expiry # "past"
        PROVE  FALSE
    <3>1. PICK k \in Keys : key[k].owner = u /\ Stands(k)
      BY <2>1 DEF MInv, LastKey, OwnKeys
    <3>2. key[k].revoked /\ key[k].expiry # "past"
      BY <2>1, <3>1 DEF OwnKeys
    <3> QED
      BY <3>1, <3>2 DEF Stands
  <2> QED
    BY <2>1 DEF LockoutTakesARace
<1> QED
  BY <1>1, InitMInv, StepMInv, PTL DEF AccountsSpec

\* auth.issue_key counts in one transaction and adds in another: an account
\* passes the ceiling only if two of its requests were between the two at once,
\* and then by less than there are requests.
THEOREM CeilingGivesWayToARace ==
  ASSUME ConstantsOK
  PROVE  AccountsSpec => []KeysWithinCeiling
<1>1. MInv => KeysWithinCeiling
  <2>1. ASSUME MInv, NEW u \in Users
        PROVE  Cardinality(ActiveKeys(u)) <= MaxActive + Excess(u)
    <3>1. /\ Cardinality(ActiveKeys(u)) \in Nat
          /\ Cardinality(Issuing(u)) \in Nat
          /\ Cardinality(Requests) \in Nat /\ MaxActive \in Nat
      BY Counts DEF ConstantsOK
    <3>2. Excess(u) \in Int
      BY <3>1 DEF Excess
    <3>3. Cardinality(ActiveKeys(u)) + Cardinality(Issuing(u))
            <= MaxActive + Excess(u)
      BY <2>1 DEF MInv, Ceiling
    <3> QED
      BY <3>1, <3>2, <3>3
  <2> QED
    BY <2>1 DEF KeysWithinCeiling, Excess
<1> QED
  BY <1>1, InitMInv, StepMInv, PTL DEF AccountsSpec

=============================================================================
