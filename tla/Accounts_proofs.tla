--------------------------- MODULE Accounts_proofs ---------------------------
(* Theorems about Accounts, for any people, tokens, keys and number of     *)
(* overlapping requests, and any number of calls with a key.               *)
EXTENDS Accounts, FiniteSetTheorems, TLAPS

(* What is held by a handler of each kind, and what handlers may hold.     *)
LEMMA HeldFields ==
  ASSUME NEW h \in Held
  PROVE  /\ h # Idle
         /\ h.op = "register" => h.email \in Emails
         /\ h.op = "google" =>
              h.email \in Emails /\ h.user \in Users \cup {NoUser} /\ h.link \in BOOLEAN
         /\ h.op = "refresh" => h.token \in Tokens
         /\ h.op = "use" => h.key \in ApiKeys /\ h.count \in Nat
<1>1. h # Idle
  BY IdleAssumption
<1>2. CASE h \in [op : {"register"}, email : Emails]
  BY <1>1, <1>2
<1>3. CASE h \in [op : {"google"}, email : Emails, user : Users \cup {NoUser}, link : BOOLEAN]
  BY <1>1, <1>3
<1>4. CASE h \in [op : {"refresh"}, token : Tokens]
  BY <1>1, <1>4
<1>5. CASE h \in [op : {"use"}, key : ApiKeys, count : Nat]
  BY <1>1, <1>5
<1> QED
  BY <1>2, <1>3, <1>4, <1>5 DEF Held

LEMMA HeldMakers ==
  /\ \A e \in Emails : [op |-> "register", email |-> e] \in Held
  /\ \A e \in Emails, u \in Users \cup {NoUser}, l \in BOOLEAN :
       [op |-> "google", email |-> e, user |-> u, link |-> l] \in Held
  /\ \A t \in Tokens : [op |-> "refresh", token |-> t] \in Held
  /\ \A k \in ApiKeys, n \in Nat : [op |-> "use", key |-> k, count |-> n] \in Held
  BY DEF Held

(* Busy handlers hold something, and no account is not an account.         *)
LEMMA Sentinels ==
  ASSUME TypeOK
  PROVE  /\ \A r \in Requests : request[r] # Idle => request[r] \in Held
         /\ \A u \in Users : Exists(u) => account[u] \in Account
  BY DEF TypeOK, Exists

-----------------------------------------------------------------------------
(* A Google callback about to commit holds an account that still exists,   *)
(* and links it only under the address the account has; accounts without a *)
(* link, or linked as Google reports their address.  TypeOK needs the      *)
(* first: a link is a write to a row.                                      *)
GoogleHeld ==
  \A r \in Requests :
    request[r] # Idle /\ request[r].op = "google" /\ request[r].user # NoUser =>
      /\ Exists(request[r].user)
      /\ request[r].link => account[request[r].user].email = request[r].email
LinkedAsReported ==
  \A u \in Users : Exists(u) => account[u].sub \in {NoSub, GoogleId[account[u].email]}
AccountInv == TypeOK /\ GoogleHeld

(* What a commit does to the accounts: one is created, one is linked, or   *)
(* nothing.                                                                *)
LEMMA Commits ==
  ASSUME AccountInv, NEW r \in Requests, NEW u \in Users, NEW t \in Tokens, GoogleCommit(r, u, t)
  PROVE  LET e == request[r].email IN
         /\ e \in Emails /\ GoogleId[e] \in Subs
         /\ Issue(t, t, u) /\ request' = [request EXCEPT ![r] = Idle]
         /\ \/ /\ Exists(u) /\ account[u].email = e
               /\ SubFree(GoogleId[e], u)
               /\ account' = [account EXCEPT ![u] =
                    [email |-> e, sub |-> GoogleId[e], password |-> account[u].password]]
            \/ Exists(u) /\ account' = account
            \/ /\ ~Exists(u) /\ AddressFree(e) /\ SubFree(GoogleId[e], u)
               /\ account' = [account EXCEPT
                    ![u] = [email |-> e, sub |-> GoogleId[e], password |-> FALSE]]
<1> DEFINE e == request[r].email
<1>1. request[r] \in Held /\ request[r] # Idle /\ request[r].op = "google"
  BY Sentinels DEF GoogleCommit, AccountInv
<1>2. e \in Emails /\ request[r].link \in BOOLEAN
  BY <1>1, HeldFields
<1>3. GoogleId[e] \in Subs
  BY <1>2, GoogleAssumption
<1>4. CASE request[r].user = u /\ GoogleLink(u, e, request[r].link)
  <2>1. u # NoUser
    BY NullAssumption
  <2>2. Exists(u) /\ (request[r].link => account[u].email = e)
    BY <1>1, <1>4, <2>1 DEF AccountInv, GoogleHeld
  <2>3. account[u] \in Account
    BY <2>2, Sentinels DEF AccountInv
  <2>4. CASE request[r].link
    <3>1. account' = [account EXCEPT ![u] = [account[u] EXCEPT !.sub = GoogleId[e]]]
      BY <1>4, <2>4 DEF GoogleLink
    <3>2. [account[u] EXCEPT !.sub = GoogleId[e]]
            = [email |-> e, sub |-> GoogleId[e], password |-> account[u].password]
      BY <2>2, <2>3, <2>4 DEF Account
    <3> QED
      BY <1>2, <1>3, <1>4, <2>2, <2>4, <3>1, <3>2 DEF GoogleLink, GoogleCommit, End
  <2>5. CASE ~request[r].link
    BY <1>2, <1>3, <1>4, <2>2, <2>5 DEF GoogleLink, GoogleCommit, End
  <2> QED
    BY <1>2, <2>4, <2>5
<1>5. CASE ~(request[r].user = u /\ GoogleLink(u, e, request[r].link))
  BY <1>2, <1>3, <1>5 DEF GoogleCommit, End
<1> QED
  BY <1>4, <1>5

(* Rows and what handlers hold stay well-formed: in particular the subject *)
(* Google reports is stored in the row that was read, where a subject      *)
(* belongs.                                                                *)
THEOREM AccountInvariance == Spec => []AccountInv
<1>1. Init => AccountInv
  BY DEF Init, AccountInv, TypeOK, GoogleHeld, Token, Key
<1>2. AccountInv /\ [Next]_vars => AccountInv'
  <2> SUFFICES ASSUME AccountInv, [Next]_vars PROVE AccountInv'
    OBVIOUS
  <2> USE DEF AccountInv, TypeOK
  <2>0. /\ \A h \in Held, r \in Requests : [request EXCEPT ![r] = h] \in [Requests -> Held \cup {Idle}]
        /\ \A r \in Requests : [request EXCEPT ![r] = Idle] \in [Requests -> Held \cup {Idle}]
    OBVIOUS
  <2>00. ASSUME NEW t \in Tokens, NEW s \in Tokens, NEW u \in Users, Issue(t, s, u)
         PROVE  token' \in [Tokens -> Token]
    BY <2>00 DEF Issue, Token
  <2>000. ASSUME NEW r \in Requests, NEW h \in Held \cup {Idle}, h = Idle \/ h.op # "google",
                 request' = [request EXCEPT ![r] = h], UNCHANGED account
          PROVE  GoogleHeld'
    BY <2>000 DEF GoogleHeld, Exists
  <2>1. ASSUME NEW r \in Requests, NEW e \in Emails, RegisterRead(r, e) PROVE AccountInv'
    BY <2>1, <2>0, <2>000, HeldMakers DEF RegisterRead, Begin
  <2>2. ASSUME NEW r \in Requests, NEW e \in Emails, GoogleRead(r, e) PROVE AccountInv'
    <3>1. PICK u \in Users \cup {NoUser} :
            /\ u = NoUser \/ u \in UserBySub(GoogleId[e])
                 \/ (UserBySub(GoogleId[e]) = {} /\ u \in UserByEmail(e))
            /\ Begin(r, [op |-> "google", email |-> e, user |-> u,
                         link |-> u = NoUser \/ account[u].sub = NoSub])
      BY <2>2 DEF GoogleRead, UserBySub, UserByEmail
    <3> DEFINE l == u = NoUser \/ account[u].sub = NoSub
               h == [op |-> "google", email |-> e, user |-> u, link |-> l]
    <3>2. l \in BOOLEAN /\ h \in Held
      BY HeldMakers
    <3>3. GoogleId[e] # NoSub
      BY GoogleAssumption, NullAssumption
    <3>4. u # NoUser => Exists(u) /\ (l => account[u].email = e)
      BY <3>1, <3>3, NullAssumption DEF UserBySub, UserByEmail
    <3>5. request' = [request EXCEPT ![r] = h] /\ account' = account
      BY <2>2, <3>1 DEF Begin, GoogleRead
    <3>6. h.op = "google" /\ h.user = u /\ h.link = l /\ h.email = e
      OBVIOUS
    <3>7. GoogleHeld'
      <4> HIDE DEF h, l
      <4> QED
        BY <3>2, <3>4, <3>5, <3>6 DEF GoogleHeld, Exists
    <3> QED
      BY <2>2, <2>0, <3>2, <3>5, <3>7 DEF GoogleRead
  <2>3. ASSUME NEW r \in Requests, NEW u \in Users, NEW t \in Tokens, RegisterCommit(r, u, t)
        PROVE  AccountInv'
    <3>1. request[r].email \in Emails
      BY <2>3, HeldFields, Sentinels DEF RegisterCommit
    <3> DEFINE a == [email |-> request[r].email, sub |-> NoSub, password |-> TRUE]
    <3>2. a \in Account /\ a # NoAccount
      <4>1. a \in Account
        BY <3>1 DEF Account
      <4> QED
        BY <4>1, AccountAssumption
    <3>3. account' = [account EXCEPT ![u] = a] /\ request' = [request EXCEPT ![r] = Idle] /\ ~Exists(u)
      BY <2>3 DEF RegisterCommit, End
    <3>4. GoogleHeld'
      <4> HIDE DEF a
      <4> QED
        BY <3>2, <3>3 DEF GoogleHeld, Exists
    <3> QED
      BY <2>3, <2>0, <2>00, <3>2, <3>3, <3>4 DEF RegisterCommit
  <2>4. ASSUME NEW r \in Requests, NEW u \in Users, NEW t \in Tokens, GoogleCommit(r, u, t)
        PROVE  AccountInv'
    <3> DEFINE e == request[r].email
    <3>1. e \in Emails /\ GoogleId[e] \in Subs /\ Issue(t, t, u) /\ request' = [request EXCEPT ![r] = Idle]
      BY <2>4, Commits
    <3>2. PICK a \in Account : /\ account' = [account EXCEPT ![u] = a] \/ (account' = account /\ Exists(u))
                               /\ Exists(u) => account[u].email = a.email
      <4>1. CASE ~Exists(u)
        <5>1. [email |-> e, sub |-> GoogleId[e], password |-> FALSE] \in Account
          BY <3>1 DEF Account
        <5> QED
          BY <2>4, <4>1, <5>1, Commits
      <4>2. CASE Exists(u)
        <5>1. account[u] \in Account
          BY <4>2, Sentinels
        <5>2. [email |-> e, sub |-> GoogleId[e], password |-> account[u].password] \in Account
          BY <3>1, <5>1 DEF Account
        <5> QED
          BY <2>4, <4>2, <5>1, <5>2, Commits
      <4> QED
        BY <4>1, <4>2
    <3>3. a # NoAccount
      BY <3>2, AccountAssumption
    <3>4. GoogleHeld'
      <4> SUFFICES ASSUME NEW q \in Requests, q # r, request[q] # Idle, request[q].op = "google",
                          request[q].user # NoUser
                   PROVE  /\ account'[request[q].user] # NoAccount
                          /\ request[q].link => account'[request[q].user].email = request[q].email
        BY <3>1 DEF GoogleHeld, Exists
      <4>1. request[q].user \in Users
        BY HeldFields, Sentinels
      <4>2. Exists(request[q].user)
            /\ (request[q].link => account[request[q].user].email = request[q].email)
        BY DEF GoogleHeld
      <4>3. CASE request[q].user = u
        BY <3>2, <3>3, <4>1, <4>2, <4>3 DEF Exists
      <4>4. CASE request[q].user # u
        BY <3>2, <4>1, <4>2, <4>4 DEF Exists
      <4> QED
        BY <4>3, <4>4
    <3> QED
      BY <2>4, <2>0, <2>00, <3>1, <3>2, <3>4 DEF GoogleCommit
  <2>5. ASSUME NEW u \in Users, NEW t \in Tokens, Login(u, t) PROVE AccountInv'
    BY <2>5, <2>00 DEF Login, GoogleHeld, Exists
  <2>6. ASSUME NEW r \in Requests, NEW t \in Tokens, RefreshRead(r, t) PROVE AccountInv'
    BY <2>6, <2>0, <2>000, HeldMakers DEF RefreshRead, Begin
  <2>7. ASSUME NEW r \in Requests, NEW t \in Tokens, RefreshCommit(r, t) PROVE AccountInv'
    <3>1. request[r].token \in Tokens
      BY <2>7, HeldFields, Sentinels DEF RefreshCommit
    <3>2. token' \in [Tokens -> Token]
      BY <2>7, <3>1 DEF RefreshCommit, Rotate, Token
    <3>3. reused' \in [Tokens -> Nat]
      BY <2>7, <3>1 DEF RefreshCommit, Token
    <3> QED
      BY <2>7, <2>0, <2>000, <3>2, <3>3 DEF RefreshCommit, End
  <2>8. ASSUME NEW t \in Tokens, Logout(t) \/ Expire(t) PROVE AccountInv'
    BY <2>8 DEF Logout, Expire, Token, GoogleHeld, Exists
  <2>9. ASSUME NEW u \in Users, ChangeTier(u) PROVE AccountInv'
    BY <2>9 DEF ChangeTier, GoogleHeld, Exists
  <2>10. ASSUME NEW u \in Users, NEW k \in ApiKeys, CreateKey(u, k) PROVE AccountInv'
    BY <2>10 DEF CreateKey, Key, GoogleHeld, Exists
  <2>11. ASSUME NEW r \in Requests, NEW k \in ApiKeys, UseRead(r, k) PROVE AccountInv'
    <3>1. key[k].count \in Nat
      BY DEF Key
    <3>2. overlapped' \subseteq ApiKeys
      BY <2>11 DEF UseRead
    <3> QED
      BY <2>11, <2>0, <2>000, <3>1, <3>2, HeldMakers DEF UseRead, Begin
  <2>12. ASSUME NEW r \in Requests, UseCommit(r) PROVE AccountInv'
    <3>1. request[r].key \in ApiKeys /\ request[r].count \in Nat
      BY <2>12, HeldFields, Sentinels DEF UseCommit
    <3>2. key' \in [ApiKeys -> Key] /\ served' \in [ApiKeys -> Nat]
      BY <2>12, <3>1 DEF UseCommit, CountUse, Key
    <3> QED
      BY <2>12, <2>0, <2>000, <3>2 DEF UseCommit, End
  <2>13. ASSUME NEW k \in ApiKeys, RevokeKey(k) PROVE AccountInv'
    BY <2>13 DEF RevokeKey, Key, GoogleHeld, Exists
  <2>14. ASSUME NEW r \in Requests, Abandon(r) PROVE AccountInv'
    BY <2>14, <2>0, <2>000 DEF Abandon, End
  <2>15. CASE UNCHANGED vars
    BY <2>15 DEF vars, GoogleHeld, Exists
  <2> QED
    BY <2>1, <2>2, <2>3, <2>4, <2>5, <2>6, <2>7, <2>8, <2>9, <2>10, <2>11, <2>12, <2>13,
       <2>14, <2>15 DEF Next
<1> QED
  BY <1>1, <1>2, PTL DEF Spec

(* Every handler keeps accounts, tokens, keys and what requests hold       *)
(* well-formed, whatever it overlaps.                                      *)
THEOREM TypeCorrect == Spec => []TypeOK
  BY AccountInvariance, PTL DEF AccountInv

-----------------------------------------------------------------------------
(* What a step may do to the table of refresh tokens.                      *)
Used(t)     == token[t].state # "unused"
Holds(r, t) == request[r] # Idle /\ request[r].op = "refresh" /\ request[r].token = t
TokenSteps ==
  \/ token' = token /\ reused' = reused
  \/ \E t \in Tokens, u \in Users : Issue(t, t, u) /\ reused' = reused
  \/ \E r \in Requests, new \in Tokens : RefreshCommit(r, new)
  \/ \E t \in Tokens, st \in {"revoked", "expired"} :
       /\ token[t].state = "live" \/ (token[t].state = "expired" /\ st = "revoked")
       /\ token' = [token EXCEPT ![t].state = st] /\ reused' = reused

LEMMA StepsOfTokens == ASSUME [Next]_vars PROVE TokenSteps
<1>1. ASSUME NEW r \in Requests, NEW e \in Emails, RegisterRead(r, e) \/ GoogleRead(r, e)
      PROVE  TokenSteps
  BY <1>1 DEF TokenSteps, RegisterRead, GoogleRead
<1>2. ASSUME NEW r \in Requests, NEW u \in Users, NEW t \in Tokens,
             RegisterCommit(r, u, t) \/ GoogleCommit(r, u, t)
      PROVE  TokenSteps
  BY <1>2 DEF TokenSteps, RegisterCommit, GoogleCommit
<1>3. ASSUME NEW u \in Users, NEW t \in Tokens, Login(u, t) PROVE TokenSteps
  BY <1>3 DEF TokenSteps, Login
<1>4. ASSUME NEW r \in Requests, NEW t \in Tokens, RefreshRead(r, t) \/ RefreshCommit(r, t)
      PROVE  TokenSteps
  BY <1>4 DEF TokenSteps, RefreshRead
<1>5. ASSUME NEW t \in Tokens, Logout(t) \/ Expire(t) PROVE TokenSteps
  BY <1>5 DEF TokenSteps, Logout, Expire
<1>6. ASSUME NEW u \in Users, ChangeTier(u) \/ \E k \in ApiKeys : CreateKey(u, k)
      PROVE  TokenSteps
  BY <1>6 DEF TokenSteps, ChangeTier, CreateKey
<1>7. ASSUME NEW r \in Requests, (\E k \in ApiKeys : UseRead(r, k)) \/ UseCommit(r) \/ Abandon(r)
      PROVE  TokenSteps
  BY <1>7 DEF TokenSteps, UseRead, UseCommit, Abandon
<1>8. ASSUME NEW k \in ApiKeys, RevokeKey(k) PROVE TokenSteps
  BY <1>8 DEF TokenSteps, RevokeKey
<1>9. CASE UNCHANGED vars
  BY <1>9 DEF TokenSteps, vars
<1> QED
  BY <1>1, <1>2, <1>3, <1>4, <1>5, <1>6, <1>7, <1>8, <1>9 DEF Next

(* A step writes request only at one handler, which becomes idle or begins. *)
LEMMA StepsOfRequests ==
  ASSUME AccountInv, [Next]_vars
  PROVE  \A r \in Requests, t \in Tokens : Holds(r, t)' => Holds(r, t) \/ token[t].state = "live"
<1> SUFFICES ASSUME NEW q \in Requests, NEW x \in Tokens, Holds(q, x)', ~Holds(q, x)
             PROVE  token[x].state = "live"
  OBVIOUS
<1> USE DEF Holds, AccountInv, TypeOK
<1>0. ASSUME NEW r \in Requests, End(r) PROVE FALSE
  BY <1>0 DEF End
<1>1. ASSUME NEW r \in Requests, NEW e \in Emails, RegisterRead(r, e) PROVE FALSE
  BY <1>1 DEF RegisterRead, Begin
<1>2. ASSUME NEW r \in Requests, NEW e \in Emails, GoogleRead(r, e) PROVE FALSE
  <2>1. PICK h : Begin(r, h) /\ h.op = "google"
    BY <1>2 DEF GoogleRead
  <2> QED
    BY <2>1 DEF Begin
<1>3. ASSUME NEW r \in Requests, NEW t \in Tokens, RefreshRead(r, t) PROVE token[x].state = "live"
  BY <1>3 DEF RefreshRead, Begin
<1>4. ASSUME NEW r \in Requests, NEW k \in ApiKeys, UseRead(r, k) PROVE FALSE
  BY <1>4 DEF UseRead, Begin
<1>5. ASSUME UNCHANGED request PROVE FALSE
  BY <1>5
<1> HIDE DEF Holds, AccountInv, TypeOK
<1>6. ASSUME NEW r \in Requests, NEW u \in Users, NEW t \in Tokens,
             RegisterCommit(r, u, t) \/ GoogleCommit(r, u, t)
      PROVE  FALSE
  BY <1>0, <1>6 DEF RegisterCommit, GoogleCommit
<1>7. ASSUME NEW r \in Requests, NEW t \in Tokens, RefreshCommit(r, t) PROVE FALSE
  BY <1>0, <1>7 DEF RefreshCommit
<1>8. ASSUME NEW r \in Requests, UseCommit(r) \/ Abandon(r) PROVE FALSE
  BY <1>0, <1>8 DEF UseCommit, Abandon
<1>9. ASSUME NEW u \in Users, (\E t \in Tokens : Login(u, t)) \/ ChangeTier(u)
                              \/ \E k \in ApiKeys : CreateKey(u, k)
      PROVE  FALSE
  BY <1>5, <1>9 DEF Login, ChangeTier, CreateKey
<1>10. ASSUME NEW t \in Tokens, Logout(t) \/ Expire(t) PROVE FALSE
  BY <1>5, <1>10 DEF Logout, Expire
<1>11. ASSUME NEW k \in ApiKeys, RevokeKey(k) PROVE FALSE
  BY <1>5, <1>11 DEF RevokeKey
<1>12. CASE UNCHANGED vars
  BY <1>5, <1>12 DEF vars
<1> QED
  BY <1>1, <1>2, <1>3, <1>4, <1>6, <1>7, <1>8, <1>9, <1>10, <1>11, <1>12 DEF Next

(* A session that has a token was begun, and only used tokens are held.    *)
TokenInv ==
  /\ AccountInv
  /\ \A t \in Tokens : Used(t) => Used(token[t].root)
  /\ \A r \in Requests, t \in Tokens : Holds(r, t) => Used(t)

(* A rotation, row by row.                                                 *)
LEMMA Rotation ==
  ASSUME TokenInv, NEW r \in Requests, NEW new \in Tokens, RefreshCommit(r, new)
  PROVE  LET old == request[r].token IN
         /\ Holds(r, old) /\ old \in Tokens /\ Used(old) /\ old # new /\ ~Used(new)
         /\ token[old].root \in Tokens
         /\ token'[old].state = "revoked" /\ token'[new].state = "live"
         /\ \A t \in {old, new} : /\ token'[t].root = token[old].root
                                 /\ token'[t].owner = token[old].owner
         /\ \A t \in Tokens \ {old, new} : token'[t] = token[t]
         /\ reused' = IF token[old].state = "revoked"
                      THEN [reused EXCEPT ![token[old].root] = @ + 1] ELSE reused
<1> DEFINE old == request[r].token
<1>1. old \in Tokens /\ Holds(r, old)
  BY HeldFields, Sentinels DEF RefreshCommit, Holds, TokenInv, AccountInv
<1>2. Used(old) /\ ~Used(new)
  BY <1>1 DEF TokenInv, Used, RefreshCommit
<1>3. token \in [Tokens -> Token]
  BY DEF TokenInv, AccountInv, TypeOK
<1>4. token[old] \in Token /\ old # new
  BY <1>1, <1>2, <1>3
<1>5. token' = [token EXCEPT ![old].state = "revoked", ![new] = [token[old] EXCEPT !.state = "live"]]
  BY DEF RefreshCommit, Rotate
<1>6. token'[old].state = "revoked" /\ token'[old].root = token[old].root
      /\ token'[old].owner = token[old].owner
  BY <1>1, <1>3, <1>4, <1>5 DEF Token
<1>7. token'[new].state = "live" /\ token'[new].root = token[old].root
      /\ token'[new].owner = token[old].owner
  BY <1>1, <1>3, <1>4, <1>5 DEF Token
<1>8. \A t \in Tokens \ {old, new} : token'[t] = token[t]
  BY <1>3, <1>5
<1> QED
  BY <1>1, <1>2, <1>4, <1>6, <1>7, <1>8 DEF RefreshCommit, Token

LEMMA TokenInvariance == Spec => []TokenInv
<1>1. Init => TokenInv
  BY AccountInvariance DEF Init, TokenInv, Used, Holds, AccountInv, TypeOK, GoogleHeld, Token, Key
<1>2. TokenInv /\ AccountInv' /\ [Next]_vars => TokenInv'
  <2> SUFFICES ASSUME TokenInv, AccountInv', [Next]_vars PROVE TokenInv'
    OBVIOUS
  <2>0. token \in [Tokens -> Token] /\ AccountInv
    BY DEF TokenInv, AccountInv, TypeOK
  <2>1. /\ \A t \in Tokens : Used(t)' => Used(token[t].root)'
        /\ \A t \in Tokens : Used(t) => Used(t)'
    <3>1. CASE token' = token
      BY <3>1 DEF Used, TokenInv
    <3>2. ASSUME NEW t \in Tokens, NEW u \in Users, Issue(t, t, u)
          PROVE  <2>1!1 /\ <2>1!2
      BY <2>0, <3>2 DEF Used, TokenInv, Issue, Token
    <3>3. ASSUME NEW r \in Requests, NEW new \in Tokens, RefreshCommit(r, new)
          PROVE  <2>1!1 /\ <2>1!2
      <4> DEFINE old == request[r].token
      <4>1. /\ old \in Tokens /\ Used(old) /\ old # new /\ ~Used(new) /\ token[old].root \in Tokens
            /\ token'[old].state = "revoked" /\ token'[old].root = token[old].root
            /\ token'[new].state = "live" /\ token'[new].root = token[old].root
            /\ \A t \in Tokens \ {old, new} : token'[t] = token[t]
        BY <2>0, <3>3, Rotation DEF Token
      <4>2. \A t \in Tokens : Used(t) => Used(t)'
        BY <4>1 DEF Used
      <4>3. Used(token[old].root)
        BY <4>1 DEF TokenInv
      <4>4. ASSUME NEW t \in Tokens, Used(t)' PROVE Used(token[t].root)'
        <5>1. CASE t = new
          BY <4>1, <4>2, <4>3, <5>1 DEF Used
        <5>2. CASE t # new
          <6>1. Used(t) /\ token'[t].root = token[t].root /\ token[t].root \in Tokens
            BY <2>0, <4>1, <4>4, <5>2 DEF Used, Token
          <6> QED
            BY <4>2, <6>1 DEF TokenInv, Used
        <5> QED
          BY <5>1, <5>2
      <4> QED
        BY <4>2, <4>4
    <3>4. ASSUME NEW t \in Tokens, NEW st \in {"revoked", "expired"},
                 token[t].state \in {"live", "expired"}, token' = [token EXCEPT ![t].state = st]
          PROVE  <2>1!1 /\ <2>1!2
      BY <2>0, <3>4 DEF Used, TokenInv, Token
    <3> QED
      BY <3>1, <3>2, <3>3, <3>4, StepsOfTokens DEF TokenSteps
  <2>2. \A r \in Requests, t \in Tokens : Holds(r, t)' => Used(t)'
    <3>1. \A r \in Requests, t \in Tokens : Holds(r, t)' => Used(t)
      BY <2>0, StepsOfRequests DEF TokenInv, Used
    <3> QED
      BY <2>1, <3>1
  <2> QED
    BY <2>1, <2>2 DEF TokenInv
<1> QED
  BY <1>1, <1>2, AccountInvariance, PTL DEF Spec

(* A token keeps its session and its owner for good.                       *)
LEMMA TokensKept ==
  ASSUME TokenInv, [Next]_vars, NEW x \in Tokens, Used(x)
  PROVE  Used(x)' /\ token'[x].root = token[x].root /\ token'[x].owner = token[x].owner
<1>0. token \in [Tokens -> Token]
  BY DEF TokenInv, AccountInv, TypeOK
<1>1. CASE token' = token
  BY <1>1 DEF Used
<1>2. ASSUME NEW t \in Tokens, NEW u \in Users, Issue(t, t, u)
      PROVE  Used(x)' /\ token'[x] = token[x]
  BY <1>0, <1>2 DEF Used, Issue
<1>3. ASSUME NEW r \in Requests, NEW new \in Tokens, RefreshCommit(r, new)
      PROVE  Used(x)' /\ token'[x].root = token[x].root /\ token'[x].owner = token[x].owner
  BY <1>3, Rotation DEF Used
<1>4. ASSUME NEW t \in Tokens, NEW st \in {"revoked", "expired"},
             token' = [token EXCEPT ![t].state = st]
      PROVE  Used(x)' /\ token'[x].root = token[x].root /\ token'[x].owner = token[x].owner
  BY <1>0, <1>4 DEF Used, Token
<1> QED
  BY <1>1, <1>2, <1>3, <1>4, StepsOfTokens DEF TokenSteps

-----------------------------------------------------------------------------
(* What a step may do to the accounts.                                     *)
Created(u, a) ==
  /\ ~Exists(u) /\ AddressFree(a.email) /\ (a.sub # NoSub => SubFree(a.sub, u))
  /\ \E t \in Tokens : Issue(t, t, u)
Linked(u, a) ==
  /\ Exists(u) /\ a.email = account[u].email
  /\ a.sub = GoogleId[a.email] /\ SubFree(a.sub, u)
AccountSteps ==
  \/ account' = account
  \/ \E u \in Users, a \in Account :
       /\ a.sub \in {NoSub, GoogleId[a.email]}
       /\ Created(u, a) \/ Linked(u, a)
       /\ account' = [account EXCEPT ![u] = a]

LEMMA StepsOfAccounts == ASSUME AccountInv, [Next]_vars PROVE AccountSteps
<1>1. ASSUME NEW r \in Requests, NEW u \in Users, NEW t \in Tokens, RegisterCommit(r, u, t)
      PROVE  AccountSteps
  <2> DEFINE a == [email |-> request[r].email, sub |-> NoSub, password |-> TRUE]
  <2>1. request[r].email \in Emails
    BY <1>1, HeldFields, Sentinels DEF RegisterCommit, AccountInv
  <2>2. a \in Account /\ a.email = request[r].email /\ a.sub = NoSub
    BY <2>1 DEF Account
  <2>3. Created(u, a) /\ account' = [account EXCEPT ![u] = a]
    BY <1>1, <2>2 DEF RegisterCommit, Created
  <2> HIDE DEF a
  <2> QED
    BY <2>2, <2>3 DEF AccountSteps
<1>2. ASSUME NEW r \in Requests, NEW u \in Users, NEW t \in Tokens, GoogleCommit(r, u, t)
      PROVE  AccountSteps
  <2> DEFINE e == request[r].email
             a(p) == [email |-> e, sub |-> GoogleId[e], password |-> p]
  <2>1. e \in Emails /\ GoogleId[e] \in Subs /\ Issue(t, t, u)
    BY <1>2, Commits
  <2>2. ASSUME NEW p \in BOOLEAN
        PROVE  a(p) \in Account /\ a(p).email = e /\ a(p).sub = GoogleId[e]
    BY <2>1 DEF Account
  <2>3. CASE /\ Exists(u) /\ account[u].email = e /\ SubFree(GoogleId[e], u)
             /\ account' = [account EXCEPT ![u] = a(account[u].password)]
    <3>1. account[u].password \in BOOLEAN
      BY <2>3, Sentinels DEF AccountInv, Account
    <3> DEFINE b == a(account[u].password)
    <3>2. b \in Account /\ b.email = e /\ b.sub = GoogleId[e] /\ account' = [account EXCEPT ![u] = b]
      BY <2>2, <2>3, <3>1
    <3> HIDE DEF b
    <3>3. Linked(u, b)
      BY <2>3, <3>2 DEF Linked
    <3> QED
      BY <3>2, <3>3 DEF AccountSteps
  <2>4. CASE /\ ~Exists(u) /\ AddressFree(e) /\ SubFree(GoogleId[e], u)
             /\ account' = [account EXCEPT ![u] = a(FALSE)]
    <3> DEFINE b == a(FALSE)
    <3>1. b \in Account /\ b.email = e /\ b.sub = GoogleId[e] /\ account' = [account EXCEPT ![u] = b]
      BY <2>2, <2>4
    <3> HIDE DEF b
    <3>2. Created(u, b)
      BY <2>1, <2>4, <3>1 DEF Created
    <3> QED
      BY <3>1, <3>2 DEF AccountSteps
  <2>5. CASE account' = account
    BY <2>5 DEF AccountSteps
  <2> QED
    BY <1>2, <2>3, <2>4, <2>5, Commits
<1>3. ASSUME UNCHANGED account PROVE AccountSteps
  BY <1>3 DEF AccountSteps
<1>4. ASSUME NEW r \in Requests, NEW e \in Emails, RegisterRead(r, e) \/ GoogleRead(r, e)
      PROVE  AccountSteps
  BY <1>3, <1>4 DEF RegisterRead, GoogleRead
<1>5. ASSUME NEW u \in Users, (\E t \in Tokens : Login(u, t)) \/ ChangeTier(u)
                              \/ \E k \in ApiKeys : CreateKey(u, k)
      PROVE  AccountSteps
  BY <1>3, <1>5 DEF Login, ChangeTier, CreateKey
<1>6. ASSUME NEW t \in Tokens, Logout(t) \/ Expire(t)
                               \/ \E r \in Requests : RefreshRead(r, t) \/ RefreshCommit(r, t)
      PROVE  AccountSteps
  BY <1>3, <1>6 DEF Logout, Expire, RefreshRead, RefreshCommit
<1>7. ASSUME NEW r \in Requests, (\E k \in ApiKeys : UseRead(r, k)) \/ UseCommit(r) \/ Abandon(r)
      PROVE  AccountSteps
  BY <1>3, <1>7 DEF UseRead, UseCommit, Abandon
<1>8. ASSUME NEW k \in ApiKeys, RevokeKey(k) PROVE AccountSteps
  BY <1>3, <1>8 DEF RevokeKey
<1>9. CASE UNCHANGED vars
  BY <1>3, <1>9 DEF vars
<1> QED
  BY <1>1, <1>2, <1>4, <1>5, <1>6, <1>7, <1>8, <1>9 DEF Next

PeopleInv == TokenInv /\ LinkedAsReported /\ OneAccountEach

LEMMA PeopleStep == TokenInv /\ LinkedAsReported /\ OneAccountEach /\ AccountInv' /\ [Next]_vars
                      => LinkedAsReported' /\ OneAccountEach'
<1> SUFFICES ASSUME TokenInv, LinkedAsReported, OneAccountEach, AccountInv', [Next]_vars
             PROVE  LinkedAsReported' /\ OneAccountEach'
  OBVIOUS
<1>0. AccountInv /\ account \in [Users -> Account \cup {NoAccount}]
  BY DEF TokenInv, AccountInv, TypeOK
<1>1. \A u \in Users : (\E t \in Tokens : token[t].state # "unused" /\ token[t].owner = u)
        => \E t \in Tokens : token'[t].state # "unused" /\ token'[t].owner = u
  BY TokensKept DEF Used
<1>2. CASE account' = account
  BY <1>1, <1>2 DEF LinkedAsReported, OneAccountEach, Exists
<1>3. ASSUME NEW u \in Users, NEW a \in Account, a.sub \in {NoSub, GoogleId[a.email]},
             Created(u, a) \/ Linked(u, a), account' = [account EXCEPT ![u] = a]
      PROVE  LinkedAsReported' /\ OneAccountEach'
  <2>1. a # NoAccount
    BY AccountAssumption
  <2>2. account'[u] = a /\ \A v \in Users \ {u} : account'[v] = account[v]
    BY <1>0, <1>3
  <2>3. ASSUME NEW v \in Users \ {u}, Exists(v)
        PROVE  /\ account[v].email # a.email
               /\ a.sub # NoSub => account[v].sub # a.sub
    <3>1. CASE Created(u, a)
      BY <2>3, <3>1 DEF Created, AddressFree, SubFree, UserByEmail, UserBySub
    <3>2. CASE Linked(u, a)
      BY <2>3, <3>2 DEF Linked, SubFree, UserBySub, OneAccountEach
    <3> QED
      BY <1>3, <3>1, <3>2
  <2>4. \E t \in Tokens : token'[t].state # "unused" /\ token'[t].owner = u
    <3>1. CASE Created(u, a)
      <4>1. PICK t \in Tokens : Issue(t, t, u)
        BY <3>1 DEF Created
      <4>2. token'[t].state = "live" /\ token'[t].owner = u
        BY <4>1 DEF Issue, TokenInv, AccountInv, TypeOK
      <4> QED
        BY <4>2
    <3>2. CASE Linked(u, a)
      BY <1>1, <3>2 DEF Linked, OneAccountEach
    <3> QED
      BY <1>3, <3>1, <3>2
  <2>5. LinkedAsReported'
    BY <1>3, <2>2 DEF LinkedAsReported, Exists
  <2>6. OneAccountEach'
    <3> SUFFICES ASSUME NEW v \in Users, Exists(v)'
                 PROVE  /\ \A w \in Users \ {v} : Exists(w)' =>
                             /\ account'[w].email # account'[v].email
                             /\ account'[v].sub # NoSub => account'[w].sub # account'[v].sub
                        /\ \E t \in Tokens : token'[t].state # "unused" /\ token'[t].owner = v
      BY DEF OneAccountEach
    <3>1. CASE v = u
      BY <2>2, <2>3, <2>4, <3>1 DEF Exists
    <3>2. CASE v # u
      <4>1. Exists(v) /\ account'[v] = account[v]
        BY <2>2, <3>2 DEF Exists
      <4>2. ASSUME NEW w \in Users \ {v}, Exists(w)'
            PROVE  /\ account'[w].email # account'[v].email
                   /\ account'[v].sub # NoSub => account'[w].sub # account'[v].sub
        <5>1. CASE w = u
          BY <2>2, <2>3, <3>2, <4>1, <5>1
        <5>2. CASE w # u
          BY <2>2, <4>1, <4>2, <5>2 DEF OneAccountEach, Exists
        <5> QED
          BY <5>1, <5>2
      <4> QED
        BY <1>1, <4>1, <4>2 DEF OneAccountEach
    <3> QED
      BY <3>1, <3>2
  <2> QED
    BY <2>5, <2>6
<1> QED
  BY <1>0, <1>2, <1>3, StepsOfAccounts DEF AccountSteps

LEMMA PeopleInvariance == Spec => []PeopleInv
<1>1. Init => LinkedAsReported /\ OneAccountEach
  BY DEF Init, LinkedAsReported, OneAccountEach, Exists
<1>2. PeopleInv /\ TokenInv' /\ [Next]_vars => PeopleInv'
  BY PeopleStep DEF PeopleInv, TokenInv
<1> QED
  BY <1>1, <1>2, TokenInvariance, PTL DEF Spec, PeopleInv

(* Overlapping sign-ups and sign-ins never make two accounts of one        *)
(* address or one Google subject, nor an account without a session.        *)
THEOREM AccountsUnique == Spec => []OneAccountEach
  BY PeopleInvariance, PTL DEF PeopleInv

-----------------------------------------------------------------------------
(* What the members of a session, and the unrevoked ones, become.          *)
LEMMA SessionSteps ==
  ASSUME TokenInv, [Next]_vars, NEW s \in Tokens
  PROVE  \/ Members(s)' = Members(s) /\ Unrevoked(s)' \subseteq Unrevoked(s) /\ reused' = reused
         \/ /\ Members(s) = {} /\ Members(s)' = {s} /\ Unrevoked(s)' = {s}
            /\ ~Used(s) /\ reused' = reused
         \/ \E r \in Requests, old \in Tokens, new \in Tokens \ Members(s) :
              /\ Holds(r, old) /\ token[old].root = s
              /\ Members(s)' = Members(s) \cup {new}
              /\ Unrevoked(s)' = (Unrevoked(s) \ {old}) \cup {new}
              /\ reused' = IF old \in Unrevoked(s) THEN reused
                           ELSE [reused EXCEPT ![s] = @ + 1]
         \/ /\ Members(s)' = Members(s) /\ Unrevoked(s)' = Unrevoked(s)
            /\ reused'[s] = reused[s]
<1>0. token \in [Tokens -> Token] /\ reused \in [Tokens -> Nat]
  BY DEF TokenInv, AccountInv, TypeOK
<1> USE DEF Members, Unrevoked
<1>1. CASE token' = token /\ reused' = reused
  BY <1>1
<1>2. ASSUME NEW t \in Tokens, NEW u \in Users, Issue(t, t, u), reused' = reused
      PROVE  \/ Members(s)' = Members(s) /\ Unrevoked(s)' \subseteq Unrevoked(s)
             \/ Members(s) = {} /\ Members(s)' = {s} /\ Unrevoked(s)' = {s} /\ ~Used(s)
  <2>1. token[t].state = "unused" /\ token' = [token EXCEPT ![t] = [state |-> "live", root |-> t, owner |-> u]]
    BY <1>2 DEF Issue
  <2>2. CASE t = s
    <3>1. Members(s) = {} /\ ~Used(s)
      BY <2>1, <2>2 DEF TokenInv, Used
    <3> QED
      BY <1>0, <2>1, <2>2, <3>1
  <2>3. CASE t # s
    BY <1>0, <2>1, <2>3
  <2> QED
    BY <2>2, <2>3
<1>3. ASSUME NEW r \in Requests, NEW new \in Tokens, RefreshCommit(r, new)
      PROVE  \/ \E old \in Tokens :
                  /\ new \notin Members(s) /\ Holds(r, old) /\ token[old].root = s
                  /\ Members(s)' = Members(s) \cup {new}
                  /\ Unrevoked(s)' = (Unrevoked(s) \ {old}) \cup {new}
                  /\ reused' = IF old \in Unrevoked(s) THEN reused
                               ELSE [reused EXCEPT ![s] = @ + 1]
             \/ /\ Members(s)' = Members(s) /\ Unrevoked(s)' = Unrevoked(s)
                /\ reused'[s] = reused[s]
  <2> DEFINE old == request[r].token
  <2>1. /\ Holds(r, old) /\ old \in Tokens /\ Used(old) /\ old # new /\ ~Used(new)
        /\ token[old].root \in Tokens
        /\ token'[old].state = "revoked" /\ token'[new].state = "live"
        /\ token'[old].root = token[old].root /\ token'[new].root = token[old].root
        /\ \A t \in Tokens \ {old, new} : token'[t] = token[t]
        /\ reused' = IF token[old].state = "revoked"
                     THEN [reused EXCEPT ![token[old].root] = @ + 1] ELSE reused
    BY <1>3, Rotation
  <2> HIDE DEF old
  <2>2. CASE token[old].root = s
    <3>1. new \notin Members(s) /\ old \in Members(s)
      BY <2>1, <2>2 DEF Used
    <3>2. Members(s)' = Members(s) \cup {new}
      BY <2>1, <2>2, <3>1
    <3>3. Unrevoked(s)' = (Unrevoked(s) \ {old}) \cup {new}
      BY <2>1, <2>2, <3>1
    <3>4. old \in Unrevoked(s) <=> token[old].state # "revoked"
      BY <3>1
    <3> QED
      BY <2>1, <2>2, <3>1, <3>2, <3>3, <3>4
  <2>3. CASE token[old].root # s
    BY <1>0, <2>1, <2>3 DEF Used
  <2> QED
    BY <2>2, <2>3
<1>4. ASSUME NEW t \in Tokens, NEW st \in {"revoked", "expired"},
             token[t].state = "live" \/ (token[t].state = "expired" /\ st = "revoked"),
             token' = [token EXCEPT ![t].state = st]
      PROVE  Members(s)' = Members(s) /\ Unrevoked(s)' \subseteq Unrevoked(s)
  BY <1>0, <1>4 DEF Token
<1> QED
  <2> HIDE DEF Members, Unrevoked
  <2> QED
    BY <1>1, <1>2, <1>3, <1>4, StepsOfTokens DEF TokenSteps

(* Rotation: the bound for one session, and for all of them.               *)
Bounded(s) == IsFiniteSet(Unrevoked(s)) /\ Cardinality(Unrevoked(s)) <= 1 + reused[s]
AllBounded == \A s \in Tokens : Bounded(s)

(* However refreshes and logouts overlap, a session has at most one        *)
(* unrevoked token more than it had refreshes of a revoked token.          *)
THEOREM RotationIsBounded == Spec => []RotationBounded
<1>1. Init => AllBounded
  <2> SUFFICES ASSUME Init, NEW s \in Tokens PROVE Bounded(s)
    BY DEF AllBounded
  <2>1. Unrevoked(s) = {} /\ reused[s] = 0
    BY DEF Init, Unrevoked, Members
  <2> QED
    BY <2>1, FS_EmptySet DEF Bounded
<1>2. TokenInv /\ AllBounded /\ [Next]_vars => AllBounded'
  <2> SUFFICES ASSUME TokenInv, NEW s \in Tokens, Bounded(s), [Next]_vars PROVE Bounded(s)'
    BY DEF AllBounded
  <2>0. reused[s] \in Nat /\ IsFiniteSet(Unrevoked(s)) /\ Cardinality(Unrevoked(s)) \in Nat
        /\ Cardinality(Unrevoked(s)) <= 1 + reused[s]
    BY FS_CardinalityType DEF Bounded, TokenInv, AccountInv, TypeOK
  <2>1. CASE Unrevoked(s)' \subseteq Unrevoked(s) /\ reused'[s] = reused[s]
    <3>1. IsFiniteSet(Unrevoked(s)') /\ Cardinality(Unrevoked(s)') <= Cardinality(Unrevoked(s))
      BY <2>0, <2>1, FS_Subset
    <3>2. Cardinality(Unrevoked(s)') \in Nat
      BY <3>1, FS_CardinalityType
    <3> QED
      BY <2>0, <2>1, <3>1, <3>2 DEF Bounded
  <2>2. CASE Unrevoked(s)' = {s} /\ reused' = reused
    <3>1. IsFiniteSet(Unrevoked(s)') /\ Cardinality(Unrevoked(s)') = 1
      BY <2>2, FS_Singleton
    <3> QED
      BY <2>0, <2>2, <3>1 DEF Bounded
  <2>3. ASSUME NEW old \in Tokens, NEW new \in Tokens \ Members(s),
               Unrevoked(s)' = (Unrevoked(s) \ {old}) \cup {new},
               reused' = IF old \in Unrevoked(s) THEN reused
                         ELSE [reused EXCEPT ![s] = @ + 1]
        PROVE  Bounded(s)'
    <3> DEFINE rest == Unrevoked(s) \ {old}
    <3>1. new \notin rest
      BY DEF Unrevoked
    <3>2. /\ IsFiniteSet(rest) /\ Cardinality(rest) \in Nat
          /\ Cardinality(rest) = IF old \in Unrevoked(s) THEN Cardinality(Unrevoked(s)) - 1
                                 ELSE Cardinality(Unrevoked(s))
      BY <2>0, FS_RemoveElement, FS_CardinalityType
    <3>3. IsFiniteSet(Unrevoked(s)') /\ Cardinality(Unrevoked(s)') = Cardinality(rest) + 1
      <4>1. Unrevoked(s)' = rest \cup {new}
        BY <2>3
      <4> HIDE DEF rest
      <4>2. IsFiniteSet(rest \cup {new}) /\ Cardinality(rest \cup {new}) = Cardinality(rest) + 1
        BY <3>1, <3>2, FS_AddElement
      <4> QED
        BY <4>1, <4>2
    <3>4. reused'[s] = IF old \in Unrevoked(s) THEN reused[s] ELSE reused[s] + 1
      BY <2>3 DEF TokenInv, AccountInv, TypeOK
    <3> QED
      BY <2>0, <3>2, <3>3, <3>4 DEF Bounded
  <2> QED
    BY <2>1, <2>2, <2>3, SessionSteps
<1>3. AllBounded => RotationBounded
  BY DEF AllBounded, Bounded, RotationBounded
<1> QED
  BY <1>1, <1>2, <1>3, TokenInvariance, PTL DEF Spec

(* A session that is over stays over.                                      *)
THEOREM SessionsEnd == Spec => SessionOverForGood
<1>1. TokenInv /\ AccountInv' /\ [Next]_vars
        => [\A s \in Tokens : Over(s) => Over(s)']_vars
  <2> SUFFICES ASSUME TokenInv, AccountInv', [Next]_vars, NEW s \in Tokens, Over(s) PROVE Over(s)'
    OBVIOUS
  <2>1. /\ Members(s) # {} /\ Unrevoked(s) = {}
        /\ \A r \in Requests, t \in Tokens : Holds(r, t) => token[t].root # s
    BY DEF Over, Refreshing, Holds
  <2>2. Members(s)' = Members(s) /\ Unrevoked(s)' = {}
    BY <2>1, SessionSteps
  <2>3. ASSUME NEW r \in Requests, NEW t \in Tokens, Holds(r, t)' PROVE token'[t].root # s
    <3>1. Used(t)
      BY <2>3, StepsOfRequests DEF TokenInv, Used
    <3>2. Holds(r, t) \/ token[t].root # s
      BY <2>1, <2>3, <3>1, StepsOfRequests DEF TokenInv, Unrevoked, Members
    <3> QED
      BY <2>1, <3>1, <3>2, TokensKept
  <2>4. ~Refreshing(s)'
    <3> SUFFICES ASSUME NEW r \in Requests, request'[r] # Idle, request'[r].op = "refresh",
                        token'[request'[r].token].root = s
                 PROVE  FALSE
      BY DEF Refreshing
    <3>1. request'[r].token \in Tokens
      <4>1. request'[r] \in Held
        BY DEF AccountInv, TypeOK
      <4> QED
        BY <4>1, HeldFields
    <3> QED
      BY <2>3, <3>1 DEF Holds
  <2> QED
    BY <2>1, <2>2, <2>4 DEF Over
<1> QED
  BY <1>1, TokenInvariance, AccountInvariance, PTL DEF Spec, SessionOverForGood

-----------------------------------------------------------------------------
(* What the calls with a key k hold of its counter.                        *)
Using(r, k) == request[r] # Idle /\ request[r].op = "use" /\ request[r].key = k
CountInv(k) ==
  /\ key[k].count <= served[k]
  /\ served[k] > 0 => key[k].count > 0
  /\ k \notin overlapped => key[k].count = served[k]
  /\ key[k].state = "unused" => key[k].count = 0 /\ served[k] = 0
  /\ \A r \in Requests : Using(r, k) =>
       /\ key[k].state # "unused" /\ request[r].count <= served[k]
       /\ k \notin overlapped => /\ request[r].count = key[k].count
                                 /\ \A q \in Requests : Using(q, k) => q = r
AllCounted == \A k \in ApiKeys : CountInv(k)

(* A step that is none of the three of key k leaves what CountInv(k) sees. *)
LEMMA StepsOfKeys ==
  ASSUME AccountInv, [Next]_vars, NEW k \in ApiKeys
  PROVE  \/ /\ key'[k] = key[k] /\ served'[k] = served[k]
            /\ k \in overlapped' <=> k \in overlapped
            /\ \A r \in Requests : Using(r, k)' => Using(r, k) /\ request'[r] = request[r]
         \/ \E u \in Users : CreateKey(u, k)
         \/ RevokeKey(k)
         \/ \E r \in Requests : UseRead(r, k)
         \/ \E r \in Requests : Using(r, k) /\ UseCommit(r)
<1> DEFINE Same == /\ key'[k] = key[k] /\ served'[k] = served[k]
                   /\ k \in overlapped' <=> k \in overlapped
                   /\ \A r \in Requests : Using(r, k)' => Using(r, k) /\ request'[r] = request[r]
<1>0. /\ request \in [Requests -> Held \cup {Idle}]
      /\ key \in [ApiKeys -> Key] /\ served \in [ApiKeys -> Nat]
  BY DEF AccountInv, TypeOK
<1>1. ASSUME NEW r \in Requests, NEW h, request' = [request EXCEPT ![r] = h],
             h = Idle \/ h.op # "use" \/ h.key # k,
             UNCHANGED <<served, overlapped>> \/ (served'[k] = served[k]
                /\ (k \in overlapped' <=> k \in overlapped)),
             key'[k] = key[k]
      PROVE  Same
  BY <1>0, <1>1 DEF Using
<1>2. ASSUME UNCHANGED request, key'[k] = key[k], UNCHANGED <<served, overlapped>> PROVE Same
  BY <1>2 DEF Using
<1> HIDE DEF Same
<1>3. ASSUME NEW r \in Requests, NEW e \in Emails, RegisterRead(r, e) PROVE Same
  <2>1. request' = [request EXCEPT ![r] = [op |-> "register", email |-> e]]
    BY <1>3 DEF RegisterRead, Begin
  <2>2. [op |-> "register", email |-> e].op # "use"
    OBVIOUS
  <2> QED
    BY <1>1, <1>3, <2>1, <2>2 DEF RegisterRead
<1>4. ASSUME NEW r \in Requests, NEW e \in Emails, GoogleRead(r, e) PROVE Same
  <2>1. PICK u : Begin(r, [op |-> "google", email |-> e, user |-> u,
                           link |-> u = NoUser \/ account[u].sub = NoSub])
    BY <1>4 DEF GoogleRead
  <2> DEFINE h == [op |-> "google", email |-> e, user |-> u,
                   link |-> u = NoUser \/ account[u].sub = NoSub]
  <2>2. request' = [request EXCEPT ![r] = h] /\ h.op # "use"
    BY <2>1 DEF Begin
  <2> HIDE DEF h
  <2> QED
    BY <1>1, <1>4, <2>2 DEF GoogleRead
<1>5. ASSUME NEW r \in Requests, NEW t \in Tokens, RefreshRead(r, t) PROVE Same
  <2>1. request' = [request EXCEPT ![r] = [op |-> "refresh", token |-> t]]
    BY <1>5 DEF RefreshRead, Begin
  <2>2. [op |-> "refresh", token |-> t].op # "use"
    OBVIOUS
  <2> QED
    BY <1>1, <1>5, <2>1, <2>2 DEF RefreshRead
<1>6. ASSUME NEW r \in Requests, NEW t \in Tokens,
             RefreshCommit(r, t) \/ Abandon(r)
             \/ \E u \in Users : RegisterCommit(r, u, t) \/ GoogleCommit(r, u, t)
      PROVE  Same
  BY <1>1, <1>6 DEF RefreshCommit, Abandon, RegisterCommit, GoogleCommit, End
<1>7. ASSUME NEW r \in Requests, Abandon(r) PROVE Same
  BY <1>1, <1>7 DEF Abandon, End
<1>8. ASSUME NEW r \in Requests, UseCommit(r), ~Using(r, k) PROVE Same
  <2>1. request[r].key \in ApiKeys /\ request[r].key # k
    BY <1>8, HeldFields, Sentinels DEF UseCommit, Using, AccountInv
  <2>2. key'[k] = key[k] /\ served'[k] = served[k]
    BY <1>0, <1>8, <2>1 DEF UseCommit, CountUse
  <2> QED
    BY <1>1, <1>8, <2>2 DEF UseCommit, End
<1>9. ASSUME NEW r \in Requests, NEW j \in ApiKeys \ {k}, UseRead(r, j) PROVE Same
  <2> DEFINE h == [op |-> "use", key |-> j, count |-> key[j].count]
  <2>1. request' = [request EXCEPT ![r] = h] /\ h.key = j
    BY <1>9 DEF UseRead, Begin
  <2>2. k \in overlapped' <=> k \in overlapped
    BY <1>9 DEF UseRead
  <2> HIDE DEF h
  <2> QED
    BY <1>1, <1>9, <2>1, <2>2 DEF UseRead
<1>10. ASSUME NEW j \in ApiKeys \ {k}, RevokeKey(j) \/ \E u \in Users : CreateKey(u, j) PROVE Same
  BY <1>0, <1>2, <1>10 DEF RevokeKey, CreateKey
<1>11. ASSUME NEW u \in Users, (\E t \in Tokens : Login(u, t)) \/ ChangeTier(u) PROVE Same
  BY <1>2, <1>11 DEF Login, ChangeTier
<1>12. ASSUME NEW t \in Tokens, Logout(t) \/ Expire(t) PROVE Same
  BY <1>2, <1>12 DEF Logout, Expire
<1>13. ASSUME UNCHANGED vars PROVE Same
  BY <1>2, <1>13 DEF vars
<1>14. Same \/ (\E u \in Users : CreateKey(u, k)) \/ RevokeKey(k)
       \/ (\E r \in Requests : UseRead(r, k)) \/ (\E r \in Requests : Using(r, k) /\ UseCommit(r))
  BY <1>3, <1>4, <1>5, <1>6, <1>7, <1>8, <1>9, <1>10, <1>11, <1>12, <1>13 DEF Next
<1> QED
  BY <1>14 DEF Same

(* A key's counter against the calls it authenticated.                     *)
THEOREM CountsSound == Spec => []CountSound
<1>1. Init => AllCounted
  BY DEF Init, AllCounted, CountInv, Using
<1>2. AccountInv /\ AllCounted /\ [Next]_vars => AllCounted'
  <2> SUFFICES ASSUME AccountInv, NEW k \in ApiKeys, CountInv(k), [Next]_vars PROVE CountInv(k)'
    BY DEF AllCounted
  <2>0. /\ request \in [Requests -> Held \cup {Idle}] /\ key \in [ApiKeys -> Key]
        /\ served \in [ApiKeys -> Nat] /\ served[k] \in Nat /\ key[k].count \in Nat
        /\ \A r \in Requests : Using(r, k) => request[r].count \in Nat
    BY HeldFields, Sentinels DEF AccountInv, TypeOK, Key, Using
  <2>1. CASE /\ key'[k] = key[k] /\ served'[k] = served[k]
             /\ k \in overlapped' <=> k \in overlapped
             /\ \A r \in Requests : Using(r, k)' => Using(r, k) /\ request'[r] = request[r]
    BY <2>1 DEF CountInv
  <2>2. ASSUME NEW u \in Users, CreateKey(u, k) PROVE CountInv(k)'
    <3>1. key'[k] = [state |-> "active", owner |-> u, count |-> 0] /\ key[k].state = "unused"
      BY <2>0, <2>2 DEF CreateKey
    <3> QED
      BY <2>2, <3>1 DEF CountInv, CreateKey, Using
  <2>3. CASE RevokeKey(k)
    <3>1. key'[k].count = key[k].count /\ key'[k].state = "revoked" /\ key[k].state = "active"
      BY <2>0, <2>3 DEF RevokeKey, Key
    <3> QED
      BY <2>3, <3>1 DEF CountInv, RevokeKey, Using
  <2>4. ASSUME NEW r \in Requests, UseRead(r, k) PROVE CountInv(k)'
    <3> DEFINE h == [op |-> "use", key |-> k, count |-> key[k].count]
    <3>1. /\ request[r] = Idle /\ request' = [request EXCEPT ![r] = h]
          /\ h # Idle /\ h.op = "use" /\ h.key = k /\ h.count = key[k].count
          /\ key' = key /\ served' = served /\ key[k].state = "active"
      BY <2>0, <2>4, HeldMakers, HeldFields DEF UseRead, Begin
    <3>2. k \in overlapped' <=> (k \in overlapped \/ \E q \in Requests : Using(q, k))
      BY <2>4 DEF UseRead, Using
    <3> HIDE DEF h
    <3>3. \A q \in Requests : Using(q, k)' <=> q = r \/ Using(q, k)
      BY <2>0, <3>1 DEF Using
    <3>4. \A q \in Requests \ {r} : request'[q] = request[q]
      BY <2>0, <3>1
    <3>5. request'[r].count = key[k].count
      BY <2>0, <3>1
    <3>6. CASE k \in overlapped'
      <4>1. \A q \in Requests : Using(q, k)' => request'[q].count <= served[k]
        BY <2>0, <3>3, <3>4, <3>5 DEF CountInv
      <4> QED
        BY <3>1, <3>2, <3>6, <4>1 DEF CountInv
    <3>7. CASE k \notin overlapped'
      <4>1. \A q \in Requests : Using(q, k)' => q = r
        BY <3>2, <3>3, <3>7
      <4> QED
        BY <3>1, <3>2, <3>5, <3>7, <4>1 DEF CountInv
    <3> QED
      BY <3>6, <3>7
  <2>5. ASSUME NEW r \in Requests, Using(r, k), UseCommit(r) PROVE CountInv(k)'
    <3>1. /\ key'[k].count = request[r].count + 1 /\ key'[k].state = key[k].state
          /\ served'[k] = served[k] + 1 /\ overlapped' = overlapped
      BY <2>0, <2>5 DEF UseCommit, CountUse, Using, Key
    <3>2. /\ \A q \in Requests : Using(q, k)' => q # r /\ Using(q, k) /\ request'[q] = request[q]
      BY <2>0, <2>5 DEF UseCommit, End, Using
    <3> QED
      BY <2>0, <2>5, <3>1, <3>2 DEF CountInv
  <2> QED
    BY <2>1, <2>2, <2>3, <2>4, <2>5, StepsOfKeys
<1>3. AllCounted => CountSound
  BY DEF AllCounted, CountInv, CountSound
<1> QED
  BY <1>1, <1>2, <1>3, AccountInvariance, PTL DEF Spec

(* Revocations and Google links are for good.                              *)
THEOREM MarksStay == Spec => MarksKept
<1> DEFINE Kept ==
      /\ \A k \in ApiKeys : key[k].state = "revoked" => key'[k].state = "revoked"
      /\ \A u \in Users : Exists(u) /\ account[u].sub # NoSub =>
           account'[u] # NoAccount /\ account'[u].sub = account[u].sub
<1>1. PeopleInv /\ [Next]_vars => [Kept]_vars
  <2> SUFFICES ASSUME PeopleInv, [Next]_vars PROVE Kept
    OBVIOUS
  <2>0. AccountInv /\ account \in [Users -> Account \cup {NoAccount}] /\ key \in [ApiKeys -> Key]
    BY DEF PeopleInv, TokenInv, AccountInv, TypeOK
  <2>1. ASSUME NEW k \in ApiKeys, key[k].state = "revoked" PROVE key'[k].state = "revoked"
    <3>1. ASSUME NEW r \in Requests, Using(r, k), UseCommit(r) PROVE key'[k].state = "revoked"
      BY <2>0, <2>1, <3>1 DEF UseCommit, CountUse, Using, Key
    <3> QED
      BY <2>0, <2>1, <3>1, StepsOfKeys DEF CreateKey, RevokeKey, UseRead
  <2>2. ASSUME NEW u \in Users, Exists(u), account[u].sub # NoSub
        PROVE  account'[u] # NoAccount /\ account'[u].sub = account[u].sub
    <3>1. CASE account' = account
      BY <2>2, <3>1 DEF Exists
    <3>2. ASSUME NEW v \in Users, NEW a \in Account, Created(v, a) \/ Linked(v, a),
                 account' = [account EXCEPT ![v] = a]
          PROVE  account'[u] # NoAccount /\ account'[u].sub = account[u].sub
      <4>1. CASE u # v
        BY <2>0, <2>2, <3>2, <4>1 DEF Exists
      <4>2. CASE u = v
        <5>1. a # NoAccount /\ account'[u] = a
          BY <2>0, <3>2, <4>2, AccountAssumption
        <5>2. a.sub = GoogleId[account[u].email] /\ account[u].sub = GoogleId[account[u].email]
          BY <2>2, <3>2, <4>2 DEF Created, Linked, PeopleInv, LinkedAsReported
        <5> QED
          BY <5>1, <5>2
      <4> QED
        BY <4>1, <4>2
    <3> QED
      BY <2>0, <3>1, <3>2, StepsOfAccounts DEF AccountSteps
  <2> QED
    BY <2>1, <2>2
<1> QED
  BY <1>1, PeopleInvariance, PTL DEF Spec, MarksKept
=============================================================================
