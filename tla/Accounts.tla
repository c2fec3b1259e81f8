------------------------------ MODULE Accounts ------------------------------
(***************************************************************************)
(* Accounts, refresh-token sessions and API keys (app/routes/auth.py,      *)
(* app/deps.py, app/routes/keys.py).  Every handler reads rows in one      *)
(* statement and commits in a later one; SQLAlchemy writes back only the   *)
(* columns the handler assigned.  A handler whose reads can go stale is    *)
(* two actions, and the database's unique indexes decide the commit.       *)
(*                                                                         *)
(* A session is the chain of refresh tokens that starts at a sign-in; it   *)
(* is named by its first token.  Nothing in src/ clears users.is_active or *)
(* issues an e-mail confirmation token, so neither is a state here.        *)
(***************************************************************************)
EXTENDS Naturals, FiniteSets

CONSTANTS
  Users, Emails, Subs,    \* user ids (uuid4), addresses, Google subject ids
  Tokens, ApiKeys,        \* token and key values (random, never reused)
  Requests,               \* requests that may be in flight at once
  GoogleId,               \* the subject Google reports with an address
  NoAccount, NoUser, NoSub, Idle,
  MaxUses                 \* bound: authenticated calls per API key

ASSUME GoogleAssumption == GoogleId \in [Emails -> Subs]
ASSUME NullAssumption   == NoUser \notin Users /\ NoSub \notin Subs
ASSUME UsesAssumption   == MaxUses \in Nat

Account == [email : Emails, sub : Subs \cup {NoSub}, password : BOOLEAN]
Token   == [state : {"unused", "live", "expired", "revoked"},
            root : Tokens, owner : Users \cup {NoUser}]
Key     == [state : {"unused", "active", "revoked"}, owner : Users \cup {NoUser}, count : Nat]
(* What a handler holds between its reads and its commit.                  *)
Held    == [op : {"register"}, email : Emails]
           \cup [op : {"google"}, email : Emails, user : Users \cup {NoUser}, link : BOOLEAN]
           \cup [op : {"refresh"}, token : Tokens]
           \cup [op : {"use"}, key : ApiKeys, count : Nat]

ASSUME AccountAssumption == NoAccount \notin Account
ASSUME IdleAssumption    == Idle \notin Held

VARIABLES
  account,     \* users, by id
  pro,         \* users whose tier is pro or enterprise (written by billing)
  token,       \* refresh_tokens, by value; expiry has passed in state "expired"
  key,         \* api_keys, by value
  request,     \* in-flight handlers
  reused,      \* by session: refreshes that committed on a revoked token
  served,      \* by key: calls that were authenticated with it
  overlapped   \* keys that two calls have used at the same time

vars == <<account, pro, token, key, request, reused, served, overlapped>>

TypeOK ==
  /\ account \in [Users -> Account \cup {NoAccount}]
  /\ pro \subseteq Users
  /\ token \in [Tokens -> Token]
  /\ key \in [ApiKeys -> Key]
  /\ request \in [Requests -> Held \cup {Idle}]
  /\ reused \in [Tokens -> Nat]
  /\ served \in [ApiKeys -> Nat]
  /\ overlapped \subseteq ApiKeys

Exists(u) == account[u] # NoAccount
UserByEmail(e) == {u \in Users : Exists(u) /\ account[u].email = e}
UserBySub(s)   == {u \in Users : Exists(u) /\ account[u].sub = s}
Members(s)     == {t \in Tokens : token[t].state # "unused" /\ token[t].root = s}
Unrevoked(s)   == {t \in Members(s) : token[t].state # "revoked"}

Init ==
  /\ account = [u \in Users |-> NoAccount]
  /\ pro = {}
  /\ token = [t \in Tokens |-> [state |-> "unused", root |-> t, owner |-> NoUser]]
  /\ key = [k \in ApiKeys |-> [state |-> "unused", owner |-> NoUser, count |-> 0]]
  /\ request = [r \in Requests |-> Idle]
  /\ reused = [t \in Tokens |-> 0]
  /\ served = [k \in ApiKeys |-> 0]
  /\ overlapped = {}

Begin(r, held)  == request[r] = Idle /\ request' = [request EXCEPT ![r] = held]
End(r)          == request' = [request EXCEPT ![r] = Idle]

(* Mutation: no unique index on the address.                               *)
AddressFreeM(e) == TRUE
AddressFree(e)  == UserByEmail(e) = {}
SubFree(s, u)   == UserBySub(s) \subseteq {u}

(* A fresh token of session root for user u.                               *)
Issue(t, root, u) ==
  /\ token[t].state = "unused"
  /\ token' = [token EXCEPT ![t] = [state |-> "live", root |-> root, owner |-> u]]

-----------------------------------------------------------------------------
(* POST /api/auth/register: look the address up, then insert.  The insert  *)
(* and the first token are one transaction; a duplicate address fails it.  *)
RegisterRead(r, e) ==
  /\ UserByEmail(e) = {}
  /\ Begin(r, [op |-> "register", email |-> e])
  /\ UNCHANGED <<account, pro, token, key, reused, served, overlapped>>

RegisterCommit(r, u, t) ==
  /\ request[r] # Idle /\ request[r].op = "register"
  /\ AddressFree(request[r].email)
  /\ ~Exists(u)
  /\ account' = [account EXCEPT
       ![u] = [email |-> request[r].email, sub |-> NoSub, password |-> TRUE]]
  /\ Issue(t, t, u)
  /\ End(r)
  /\ UNCHANGED <<pro, key, reused, served, overlapped>>

(* POST /api/auth/login: only accounts with a password.                    *)
Login(u, t) ==
  /\ Exists(u) /\ account[u].password
  /\ Issue(t, t, u)
  /\ UNCHANGED <<account, pro, key, request, reused, served, overlapped>>

(* GET /api/auth/google/callback: find the account by subject, then by     *)
(* address; nothing between the two lookups changes what the commit does.  *)
GoogleRead(r, e) ==
  /\ LET bySub == UserBySub(GoogleId[e])
         found == IF bySub # {} THEN bySub ELSE UserByEmail(e)
     IN \E u \in IF found = {} THEN {NoUser} ELSE found :
          Begin(r, [op |-> "google", email |-> e, user |-> u,
                    link |-> u = NoUser \/ account[u].sub = NoSub])
  /\ UNCHANGED <<account, pro, token, key, reused, served, overlapped>>

(* Mutation: the address is stored where the subject belongs.              *)
GoogleLinkM(u, e, link) ==
  account' = IF link THEN [account EXCEPT ![u].sub = e] ELSE account
(* The subject is written if the row that was read had none.               *)
GoogleLink(u, e, link) ==
  IF link
  THEN /\ SubFree(GoogleId[e], u)
       /\ account' = [account EXCEPT ![u].sub = GoogleId[e]]
  ELSE UNCHANGED account

GoogleCommit(r, u, t) ==
  /\ request[r] # Idle /\ request[r].op = "google"
  /\ LET e == request[r].email IN
       \/ /\ request[r].user = u
          /\ GoogleLink(u, e, request[r].link)
       \/ /\ request[r].user = NoUser /\ ~Exists(u)
          /\ AddressFree(e) /\ SubFree(GoogleId[e], u)
          /\ account' = [account EXCEPT
               ![u] = [email |-> e, sub |-> GoogleId[e], password |-> FALSE]]
  /\ Issue(t, t, u)
  /\ End(r)
  /\ UNCHANGED <<pro, key, reused, served, overlapped>>

-----------------------------------------------------------------------------
(* POST /api/auth/refresh: the record is read unrevoked and unexpired; it  *)
(* is revoked and its successor inserted by a later commit.                *)
(* Mutation: the revoked flag is not looked at.                            *)
RefreshReadM(r, t) ==
  /\ token[t].state \in {"live", "revoked"}
  /\ Begin(r, [op |-> "refresh", token |-> t])
  /\ UNCHANGED <<account, pro, token, key, reused, served, overlapped>>
RefreshRead(r, t) ==
  /\ token[t].state = "live"
  /\ Begin(r, [op |-> "refresh", token |-> t])
  /\ UNCHANGED <<account, pro, token, key, reused, served, overlapped>>

(* Mutation: the used token is left unrevoked.                             *)
RotateM(old, new) ==
  token' = [token EXCEPT ![new] = [token[old] EXCEPT !.state = "live"]]
(* The old token revoked and a new one of the same session and owner.      *)
Rotate(old, new) ==
  token' = [token EXCEPT ![old].state = "revoked",
                         ![new] = [token[old] EXCEPT !.state = "live"]]

RefreshCommit(r, new) ==
  /\ request[r] # Idle /\ request[r].op = "refresh"
  /\ token[new].state = "unused"
  /\ LET old == request[r].token IN
       /\ Rotate(old, new)
       /\ reused' = IF token[old].state = "revoked"
                    THEN [reused EXCEPT ![token[old].root] = @ + 1] ELSE reused
  /\ End(r)
  /\ UNCHANGED <<account, pro, key, served, overlapped>>

(* POST /api/auth/logout.                                                  *)
Logout(t) ==
  /\ token[t].state \in {"live", "expired"}
  /\ token' = [token EXCEPT ![t].state = "revoked"]
  /\ UNCHANGED <<account, pro, key, request, reused, served, overlapped>>

(* refresh_token_expire_days pass.                                         *)
Expire(t) ==
  /\ token[t].state = "live"
  /\ token' = [token EXCEPT ![t].state = "expired"]
  /\ UNCHANGED <<account, pro, key, request, reused, served, overlapped>>

-----------------------------------------------------------------------------
(* A subscription event moves the account between tiers (module Billing).  *)
ChangeTier(u) ==
  /\ Exists(u)
  /\ pro' = IF u \in pro THEN pro \ {u} ELSE pro \cup {u}
  /\ UNCHANGED <<account, token, key, request, reused, served, overlapped>>

(* POST /api/keys, behind require_pro.                                     *)
CreateKey(u, k) ==
  /\ u \in pro
  /\ key[k].state = "unused"
  /\ key' = [key EXCEPT ![k] = [state |-> "active", owner |-> u, count |-> 0]]
  /\ UNCHANGED <<account, pro, token, request, reused, served, overlapped>>

(* A call with X-API-Key: the unrevoked key is read with its counter, and  *)
(* the counter it had, plus one, is committed.                             *)
UseRead(r, k) ==
  /\ key[k].state = "active"
  /\ Begin(r, [op |-> "use", key |-> k, count |-> key[k].count])
  /\ overlapped' = IF \E q \in Requests : request[q] # Idle /\ request[q].op = "use"
                                          /\ request[q].key = k
                   THEN overlapped \cup {k} ELSE overlapped
  /\ UNCHANGED <<account, pro, token, key, reused, served>>

(* Mutation: the whole row is written back as it was read.                 *)
CountUseRowM(k, n) == key' = [key EXCEPT ![k].count = n, ![k].state = "active"]
(* Mutation: the first call is not counted.                                *)
CountUseM(k, n) == key' = [key EXCEPT ![k].count = n - 1]
CountUse(k, n) == key' = [key EXCEPT ![k].count = n]

UseCommit(r) ==
  /\ request[r] # Idle /\ request[r].op = "use"
  /\ served[request[r].key] < MaxUses
  /\ CountUse(request[r].key, request[r].count + 1)
  /\ served' = [served EXCEPT ![request[r].key] = @ + 1]
  /\ End(r)
  /\ UNCHANGED <<account, pro, token, reused, overlapped>>

(* DELETE /api/keys/{id} by the owner.                                     *)
RevokeKey(k) ==
  /\ key[k].state = "active"
  /\ key' = [key EXCEPT ![k].state = "revoked"]
  /\ UNCHANGED <<account, pro, token, request, reused, served, overlapped>>

(* A handler ends without its commit: a unique index refused it, the       *)
(* database failed, or the API process stopped.                            *)
Abandon(r) ==
  /\ request[r] # Idle
  /\ End(r)
  /\ UNCHANGED <<account, pro, token, key, reused, served, overlapped>>

Next ==
  \/ \E r \in Requests, e \in Emails : RegisterRead(r, e) \/ GoogleRead(r, e)
  \/ \E r \in Requests, u \in Users, t \in Tokens :
       RegisterCommit(r, u, t) \/ GoogleCommit(r, u, t)
  \/ \E u \in Users, t \in Tokens : Login(u, t)
  \/ \E r \in Requests, t \in Tokens : RefreshRead(r, t) \/ RefreshCommit(r, t)
  \/ \E t \in Tokens : Logout(t) \/ Expire(t)
  \/ \E u \in Users : ChangeTier(u)
  \/ \E u \in Users, k \in ApiKeys : CreateKey(u, k)
  \/ \E r \in Requests, k \in ApiKeys : UseRead(r, k)
  \/ \E r \in Requests : UseCommit(r) \/ Abandon(r)
  \/ \E k \in ApiKeys : RevokeKey(k)

Spec == Init /\ [][Next]_vars

-----------------------------------------------------------------------------
(* However sign-ups overlap, an address and a Google subject name at most  *)
(* one account, and an account never appears without a session: register   *)
(* and the Google callback look first and insert later, in one transaction.*)
OneAccountEach ==
  \A u \in Users : Exists(u) =>
    /\ \A v \in Users \ {u} : Exists(v) =>
         /\ account[v].email # account[u].email
         /\ account[u].sub # NoSub => account[v].sub # account[u].sub
    /\ \E t \in Tokens : token[t].state # "unused" /\ token[t].owner = u

(* Rotation: a session holds one unrevoked token, plus one more for every  *)
(* refresh that committed after another request had revoked its token.     *)
RotationBounded ==
  \A s \in Tokens : Cardinality(Unrevoked(s)) <= 1 + reused[s]

(* request_count never exceeds the calls served, shows that a served key   *)
(* was used, and is exact as long as calls with the key did not overlap.   *)
CountSound ==
  \A k \in ApiKeys :
    /\ key[k].count <= served[k]
    /\ served[k] > 0 => key[k].count > 0
    /\ k \notin overlapped => key[k].count = served[k]

Refreshing(s) == \E r \in Requests :
  /\ request[r] # Idle /\ request[r].op = "refresh"
  /\ token[request[r].token].root = s
Over(s) == Members(s) # {} /\ Unrevoked(s) = {} /\ ~Refreshing(s)

(* A session that has been logged out, with no refresh in flight, is over  *)
(* for good: no request brings one of its tokens, or a new one, to life.   *)
SessionOverForGood == [][\A s \in Tokens : Over(s) => Over(s)']_vars

(* A key's revocation survives a call that read the key before it, and a   *)
(* Google link survives overlapping callbacks.                             *)
MarksKept ==
  [][/\ \A k \in ApiKeys : key[k].state = "revoked" => key'[k].state = "revoked"
     /\ \A u \in Users : Exists(u) /\ account[u].sub # NoSub =>
          account'[u] # NoAccount /\ account'[u].sub = account[u].sub]_vars
=============================================================================
