---- MODULE Accounts_proofs ----
(***************************************************************************)
(* Proofs about Accounts, for any sets of users, tokens and requests.      *)
(***************************************************************************)
EXTENDS Accounts, TLAPS

\* What a request has at hand when it reaches a call: the row to write, a token
\* that was issued, and after its revocation one that stays revoked.
LocalsOK(r) ==
    LET q == req[r] IN
    /\ q.pc = "read" => q.op \in {"update", "password"} /\ q.user \in Users
    /\ q.pc = "upsert" =>
          /\ q.op \in {"setup", "login", "create", "update", "password"}
          /\ q.user \in Users
          /\ q.row \in Row
    /\ q.pc = "revoke" =>
          /\ q.op \in {"logout", "refresh"}
          /\ q.token \in Tokens
          /\ tokens[q.token].status # "unissued"
    /\ q.pc = "load" =>
          /\ q.op = "refresh"
          /\ q.token \in Tokens
          /\ tokens[q.token].status = "revoked"
    /\ q.pc = "issue" =>
          /\ q.op \in {"setup", "login", "refresh"}
          /\ q.user \in Users
          /\ users[q.user] # NoUser
          /\ q.op = "refresh" => q.token \in Tokens /\ tokens[q.token].status = "revoked"

\* A token belongs to a session from when it is issued; the session is named by
\* a token that was issued too.
SessionsOK ==
    \A t \in Tokens :
        /\ tokens[t].status = "unissued" => tokens[t] = NewToken
        /\ tokens[t].status # "unissued" =>
              tokens[t].session \in Tokens /\ tokens[tokens[t].session].status # "unissued"

TypeInv == TypeOK /\ SessionsOK /\ \A r \in Requests : LocalsOK(r)

LEMMA InitTypeInv == Init => TypeInv
  BY AccountsAssumption DEF Init, TypeInv, TypeOK, SessionsOK, LocalsOK, Idle, Request, NewToken,
     Token, Changes, Ops

\* The new value of req when only r's changes, and to one of its type.
LEMMA RequestKept ==
  ASSUME req \in [Requests -> Request], NEW r \in Requests, NEW q \in Request,
         req' = [req EXCEPT ![r] = q]
  PROVE  /\ req' \in [Requests -> Request]
         /\ req'[r] = q
         /\ \A s \in Requests : s # r => req'[s] = req[s]
  OBVIOUS

LEMMA FinishKept ==
  ASSUME req \in [Requests -> Request], NEW r \in Requests, NEW t \in Tokens \cup {NoToken},
         NEW pc \in {"served", "failed"}, Finish(r, pc, t)
  PROVE  /\ req' \in [Requests -> Request]
         /\ req'[r].pc = pc
         /\ req'[r].op = "none"
         /\ req'[r].token = t
         /\ \A s \in Requests : s # r => req'[s] = req[s]
  <1>1. [Idle EXCEPT !.pc = pc, !.token = t] \in Request
    BY DEF Idle, Request, Ops, Changes
  <1>2. req' = [req EXCEPT ![r] = [Idle EXCEPT !.pc = pc, !.token = t]]
    BY DEF Finish
  <1> QED
    BY <1>1, <1>2, RequestKept DEF Idle

LEMMA ApplyType ==
  ASSUME NEW change \in Changes, NEW row \in Row
  PROVE  Apply(change, row) \in Row
  <1>1. CASE change \in Updates
    <2>1. change \in [role : Roles] \cup [active : BOOLEAN] \cup [role : Roles, active : BOOLEAN]
      BY <1>1, AccountsAssumption
    <2> QED BY <2>1 DEF Apply, Row
  <1>2. CASE change \in [password : Passwords, must : {FALSE}]
    BY <1>2 DEF Apply, Row
  <1>3. CASE change = <<>>
    BY <1>3 DEF Apply, Row
  <1> QED BY <1>1, <1>2, <1>3 DEF Changes

\* Rows are never deleted, an issued token stays so, and a revoked one revoked.
Monotone ==
    /\ \A u \in Users : users[u] # NoUser => users'[u] # NoUser
    /\ \A t \in Tokens :
          /\ tokens[t].status # "unissued" => tokens'[t].status # "unissued"
          /\ tokens[t].status = "revoked" => tokens'[t].status = "revoked"

LEMMA OthersKept ==
  ASSUME Monotone, NEW s \in Requests, LocalsOK(s), req'[s] = req[s]
  PROVE  LocalsOK(s)'
  BY DEF Monotone, LocalsOK

\* A step of r that leaves the tables alone need only answer for r.
LEMMA TablesKept ==
  ASSUME TypeInv, UNCHANGED <<users, tokens>>, NEW r \in Requests,
         req' \in [Requests -> Request], LocalsOK(r)',
         \A s \in Requests : s # r => req'[s] = req[s]
  PROVE  TypeInv'
  <1>1. TypeOK' /\ SessionsOK'
    BY DEF TypeInv, TypeOK, SessionsOK
  <1>2. Monotone
    BY DEF Monotone
  <1>3. \A s \in Requests : LocalsOK(s)'
    BY <1>2, OthersKept DEF TypeInv
  <1> QED
    BY <1>1, <1>3 DEF TypeInv

LEMMA RejectTypeInv ==
  ASSUME TypeInv, NEW r \in Requests, Reject(r), UNCHANGED <<users, tokens>>
  PROVE  TypeInv'
  <1>1. Finish(r, "failed", NoToken)
    BY DEF Reject
  <1>2. req \in [Requests -> Request]
    BY DEF TypeInv, TypeOK
  <1>3. LocalsOK(r)'
    BY <1>1, <1>2, FinishKept DEF LocalsOK
  <1> QED
    BY <1>1, <1>2, <1>3, FinishKept, TablesKept

LEMMA BeginTypeInv ==
  ASSUME TypeInv, NEW r \in Requests, UNCHANGED <<users, tokens>>,
         NEW op \in Ops, NEW pc \in {"read", "upsert", "revoke"}, NEW user \in Users \cup {NoUser},
         NEW change \in Changes, NEW row \in Row \cup {NoUser}, NEW token \in Tokens \cup {NoToken},
         pc = "read" => op \in {"update", "password"} /\ user \in Users,
         pc = "upsert" => op \in {"setup", "login", "create", "update", "password"}
                          /\ user \in Users /\ row \in Row,
         pc = "revoke" => op \in {"logout", "refresh"} /\ token \in Tokens
                          /\ tokens[token].status # "unissued",
         Begin(r, op, pc, user, change, row, token)
  PROVE  TypeInv'
  <1> DEFINE q == [op |-> op, pc |-> pc, user |-> user, change |-> change, row |-> row,
                   token |-> token]
  <1>1. q \in Request
    BY DEF Request
  <1>2. req' = [req EXCEPT ![r] = q]
    BY DEF Begin
  <1>3. req \in [Requests -> Request]
    BY DEF TypeInv, TypeOK
  <1>4. /\ req' \in [Requests -> Request]
        /\ req'[r] = q
        /\ \A s \in Requests : s # r => req'[s] = req[s]
    BY <1>1, <1>2, <1>3, RequestKept
  <1>5. LocalsOK(r)'
    BY <1>4 DEF LocalsOK
  <1> QED
    BY <1>4, <1>5, TablesKept

LEMMA ChangesTypes ==
  /\ <<>> \in Changes
  /\ Updates \subseteq Changes
  /\ \A p \in Passwords : [password |-> p, must |-> FALSE] \in Changes
  BY DEF Changes

LEMMA SetupTypeInv ==
  ASSUME TypeInv, NEW r \in Requests, NEW u \in Users, NEW p \in Passwords, Setup(r, u, p)
  PROVE  TypeInv'
  <1>1. [role |-> "owner", active |-> TRUE, password |-> p, must |-> FALSE] \in Row
    BY DEF Row, Roles
  <1> QED
    BY <1>1, RejectTypeInv, BeginTypeInv, ChangesTypes DEF Setup, Ops

LEMMA LoginTypeInv ==
  ASSUME TypeInv, NEW r \in Requests, NEW u \in Users, Login(r, u)
  PROVE  TypeInv'
  <1>1. users[u] # NoUser => users[u] \in Row
    BY DEF TypeInv, TypeOK
  <1> QED
    BY <1>1, RejectTypeInv, BeginTypeInv, ChangesTypes DEF Login, Ops

LEMMA RefreshTypeInv ==
  ASSUME TypeInv, NEW r \in Requests, NEW t \in Tokens, Refresh(r, t)
  PROVE  TypeInv'
  BY RejectTypeInv, BeginTypeInv, ChangesTypes DEF Refresh, Ops

LEMMA LogoutTypeInv ==
  ASSUME TypeInv, NEW r \in Requests, NEW c, NEW t \in Tokens, tokens[t].status # "unissued",
         Logout(r, c, t)
  PROVE  TypeInv'
  BY RejectTypeInv, BeginTypeInv, ChangesTypes DEF Logout, Ops

LEMMA PublicCallTypeInv ==
  ASSUME TypeInv, NEW r \in Requests, PublicCall(r)
  PROVE  TypeInv'
  BY SetupTypeInv, LoginTypeInv, RefreshTypeInv DEF PublicCall

LEMMA ProtectedCallTypeInv ==
  ASSUME TypeInv, NEW r \in Requests, ProtectedCall(r)
  PROVE  TypeInv'
  <1>1. PICK c \in {d \in Users : SignedIn(d)} :
          \/ \E t \in Tokens : tokens[t].user = c /\ Logout(r, c, t)
          \/ \E u \in Users, p \in Passwords, role \in NewRoles : CreateUser(r, c, u, p, role)
          \/ \E u \in Users, change \in Updates : UpdateUser(r, c, u, change)
          \/ \E p \in Passwords : ChangePassword(r, c, p)
    BY DEF ProtectedCall
  <1>2. ASSUME NEW t \in Tokens, tokens[t].user = c, Logout(r, c, t)
        PROVE  TypeInv'
    <2>1. tokens[t].status # "unissued"
      BY <1>2, AccountsAssumption DEF TypeInv, SessionsOK, NewToken
    <2> QED
      BY <1>2, <2>1, LogoutTypeInv
  <1>3. ASSUME NEW u \in Users, NEW p \in Passwords, NEW role \in NewRoles,
               CreateUser(r, c, u, p, role)
        PROVE  TypeInv'
    <2>1. [role |-> role, active |-> TRUE, password |-> p, must |-> TRUE] \in Row
      BY AccountsAssumption DEF Row
    <2> QED
      BY <1>3, <2>1, RejectTypeInv, BeginTypeInv, ChangesTypes DEF CreateUser, Ops
  <1>4. ASSUME NEW u \in Users, NEW change \in Updates, UpdateUser(r, c, u, change)
        PROVE  TypeInv'
    BY <1>4, RejectTypeInv, BeginTypeInv, ChangesTypes DEF UpdateUser, Ops
  <1>5. ASSUME NEW p \in Passwords, ChangePassword(r, c, p)
        PROVE  TypeInv'
    BY <1>5, RejectTypeInv, BeginTypeInv, ChangesTypes DEF ChangePassword, Ops
  <1> QED
    BY <1>1, <1>2, <1>3, <1>4, <1>5

LEMMA ReadUserTypeInv ==
  ASSUME TypeInv, NEW r \in Requests, ReadUser(r)
  PROVE  TypeInv'
  <1>1. CASE Reject(r)
    BY <1>1, RejectTypeInv DEF ReadUser
  <1>2. CASE ~Reject(r)
    <2> DEFINE row == Apply(req[r].change, users[req[r].user])
               q == [req[r] EXCEPT !.pc = "upsert", !.row = row]
    <2>1. req[r] \in Request /\ req \in [Requests -> Request]
      BY DEF TypeInv, TypeOK
    <2>2. req[r].user \in Users /\ req[r].op \in {"update", "password"} /\ req[r].pc = "read"
      BY DEF TypeInv, LocalsOK, ReadUser
    <2>3. users[req[r].user] \in Row
      BY <1>2, <2>2 DEF TypeInv, TypeOK, ReadUser
    <2>4. row \in Row
      BY <2>1, <2>3, ApplyType DEF Request
    <2>5. q \in Request
      BY <2>1, <2>4 DEF Request
    <2>6. req' = [req EXCEPT ![r] = q]
      BY <1>2, <2>1 DEF ReadUser
    <2>7. /\ req' \in [Requests -> Request]
          /\ req'[r] = q
          /\ \A s \in Requests : s # r => req'[s] = req[s]
      BY <2>1, <2>5, <2>6, RequestKept
    <2>8. LocalsOK(r)'
      BY <2>1, <2>2, <2>4, <2>7 DEF LocalsOK, Request
    <2> QED
      BY <2>7, <2>8, TablesKept DEF ReadUser
  <1> QED
    BY <1>1, <1>2

LEMMA GotoKept ==
  ASSUME req \in [Requests -> Request], NEW r \in Requests,
         NEW pc \in {"load", "issue"}, Goto(r, pc)
  PROVE  /\ req' \in [Requests -> Request]
         /\ req'[r] = [req[r] EXCEPT !.pc = pc]
         /\ \A s \in Requests : s # r => req'[s] = req[s]
  BY DEF Goto, Request

LEMMA UpsertTypeInv ==
  ASSUME TypeInv, NEW r \in Requests, Upsert(r)
  PROVE  TypeInv'
  <1>1. CASE Reject(r) /\ UNCHANGED users
    BY <1>1, RejectTypeInv DEF Upsert
  <1>2. CASE ~(Reject(r) /\ UNCHANGED users)
    <2>1. /\ users' = [users EXCEPT ![req[r].user] = req[r].row]
          /\ AfterUpsert(r)
          /\ UNCHANGED tokens
          /\ req[r].pc = "upsert"
      BY <1>2 DEF Upsert
    <2>2. /\ req[r].user \in Users
          /\ req[r].row \in Row
          /\ req[r].op \in {"setup", "login", "create", "update", "password"}
          /\ req \in [Requests -> Request]
          /\ users \in [Users -> Row \cup {NoUser}]
      BY <2>1 DEF TypeInv, TypeOK, LocalsOK
    <2>3. /\ users' \in [Users -> Row \cup {NoUser}]
          /\ users'[req[r].user] # NoUser
          /\ Monotone
      BY <2>1, <2>2, AccountsAssumption DEF Monotone
    <2>4. /\ req' \in [Requests -> Request]
          /\ LocalsOK(r)'
          /\ \A s \in Requests : s # r => req'[s] = req[s]
      <3>1. CASE req[r].op \in {"setup", "login"}
        <4>1. Goto(r, "issue")
          BY <2>1, <3>1 DEF AfterUpsert
        <4>2. /\ req' \in [Requests -> Request]
              /\ req'[r] = [req[r] EXCEPT !.pc = "issue"]
              /\ \A s \in Requests : s # r => req'[s] = req[s]
          BY <2>2, <4>1, GotoKept
        <4>3. /\ req'[r].pc = "issue"
              /\ req'[r].op = req[r].op
              /\ req'[r].user = req[r].user
          BY <2>2, <4>2 DEF Request
        <4>4. LocalsOK(r)'
          BY <2>2, <2>3, <3>1, <4>3 DEF LocalsOK
        <4> QED
          BY <4>2, <4>4
      <3>2. CASE req[r].op \notin {"setup", "login"}
        <4>1. Finish(r, "served", NoToken)
          BY <2>1, <3>2 DEF AfterUpsert
        <4> QED
          BY <2>2, <4>1, FinishKept DEF LocalsOK
      <3> QED
        BY <3>1, <3>2
    <2>5. \A s \in Requests : LocalsOK(s)'
      BY <2>3, <2>4, OthersKept DEF TypeInv
    <2>6. SessionsOK' /\ TypeOK'
      BY <2>1, <2>3, <2>4 DEF TypeInv, TypeOK, SessionsOK, Monotone
    <2> QED
      BY <2>5, <2>6 DEF TypeInv
  <1> QED
    BY <1>1, <1>2

LEMMA RevokeTokenTypeInv ==
  ASSUME TypeInv, NEW r \in Requests, RevokeToken(r)
  PROVE  TypeInv'
  <1> DEFINE t == req[r].token
  <1>1. /\ t \in Tokens
        /\ tokens[t].status # "unissued"
        /\ req[r].op \in {"logout", "refresh"}
        /\ req \in [Requests -> Request]
        /\ tokens \in [Tokens -> Token]
    BY DEF TypeInv, TypeOK, LocalsOK, RevokeToken
  <1>2. /\ tokens' = [tokens EXCEPT ![t].status = "revoked"]
        /\ UNCHANGED users
        /\ AfterRevoke(r, tokens[t].status)
    BY DEF RevokeToken
  <1>3. /\ tokens' \in [Tokens -> Token]
        /\ tokens'[t].status = "revoked"
        /\ \A u \in Tokens : /\ tokens'[u].session = tokens[u].session
                             /\ tokens'[u].user = tokens[u].user
                             /\ u # t => tokens'[u] = tokens[u]
    BY <1>1, <1>2 DEF Token
  <1>4. Monotone
    BY <1>1, <1>2, <1>3 DEF Monotone
  <1>5. /\ req' \in [Requests -> Request]
        /\ LocalsOK(r)'
        /\ \A s \in Requests : s # r => req'[s] = req[s]
    <2>1. CASE req[r].op = "refresh" /\ tokens[t].status # "revoked"
      <3>1. Goto(r, "load")
        BY <1>2, <2>1 DEF AfterRevoke
      <3>2. /\ req' \in [Requests -> Request]
            /\ req'[r] = [req[r] EXCEPT !.pc = "load"]
            /\ \A s \in Requests : s # r => req'[s] = req[s]
        BY <1>1, <3>1, GotoKept
      <3>3. /\ req'[r].pc = "load"
            /\ req'[r].op = req[r].op
            /\ req'[r].token = t
        BY <1>1, <3>2 DEF Request
      <3> QED
        BY <1>1, <1>3, <2>1, <3>2, <3>3 DEF LocalsOK
    <2>2. CASE req[r].op = "logout" \/ tokens[t].status = "revoked"
      <3>1. PICK pc \in {"served", "failed"} : Finish(r, pc, NoToken)
        BY <1>1, <1>2, <2>2 DEF AfterRevoke, Reject
      <3> QED
        BY <1>1, <3>1, FinishKept DEF LocalsOK
    <2> QED
      BY <1>1, <2>1, <2>2
  <1>6. \A s \in Requests : LocalsOK(s)'
    BY <1>4, <1>5, OthersKept DEF TypeInv
  <1>7. TypeOK' /\ SessionsOK'
    BY <1>1, <1>2, <1>3, <1>5 DEF TypeInv, TypeOK, SessionsOK
  <1> QED
    BY <1>6, <1>7 DEF TypeInv

LEMMA LoadTokenUserTypeInv ==
  ASSUME TypeInv, NEW r \in Requests, LoadTokenUser(r)
  PROVE  TypeInv'
  <1> DEFINE u == tokens[req[r].token].user
             q == [req[r] EXCEPT !.pc = "issue", !.user = u]
  <1>1. /\ req[r].op = "refresh"
        /\ req[r].token \in Tokens
        /\ tokens[req[r].token].status = "revoked"
        /\ req \in [Requests -> Request]
        /\ u \in Users
        /\ users[u] # NoUser
    BY DEF TypeInv, TypeOK, LocalsOK, LoadTokenUser
  <1>2. CASE users[u].active
    <2>1. q \in Request
      BY <1>1 DEF Request
    <2>2. req' = [req EXCEPT ![r] = q]
      BY <1>1, <1>2 DEF LoadTokenUser
    <2>3. /\ req' \in [Requests -> Request]
          /\ req'[r] = q
          /\ \A s \in Requests : s # r => req'[s] = req[s]
      BY <1>1, <2>1, <2>2, RequestKept
    <2>4. /\ req'[r].pc = "issue"
          /\ req'[r].op = req[r].op
          /\ req'[r].user = u
          /\ req'[r].token = req[r].token
      BY <1>1, <2>3 DEF Request
    <2>5. LocalsOK(r)'
      BY <1>1, <2>4 DEF LocalsOK, LoadTokenUser
    <2> QED
      BY <2>3, <2>5, TablesKept DEF LoadTokenUser
  <1>3. CASE ~users[u].active
    BY <1>3, RejectTypeInv DEF LoadTokenUser
  <1> QED
    BY <1>2, <1>3

\* What Issue does with the token t it takes.
IssueOf(r, t) ==
    /\ tokens[t].status = "unissued"
    /\ tokens' = [tokens EXCEPT ![t] =
          [status |-> "live", user |-> req[r].user,
           session |-> IF req[r].op = "refresh" THEN tokens[req[r].token].session ELSE t]]
    /\ Finish(r, "served", t)

LEMMA IssueTypeInv ==
  ASSUME TypeInv, NEW r \in Requests, Issue(r)
  PROVE  TypeInv'
  <1>1. PICK t \in Tokens : IssueOf(r, t)
    BY DEF Issue, IssueOf
  <1> DEFINE s == IF req[r].op = "refresh" THEN tokens[req[r].token].session ELSE t
             row == [status |-> "live", user |-> req[r].user, session |-> s]
  <1>2. /\ req[r].user \in Users
        /\ users[req[r].user] # NoUser
        /\ req[r].op = "refresh" =>
              req[r].token \in Tokens /\ tokens[req[r].token].status = "revoked"
        /\ req \in [Requests -> Request]
        /\ tokens \in [Tokens -> Token]
        /\ UNCHANGED users
    BY DEF TypeInv, TypeOK, LocalsOK, Issue
  <1>3. s \in Tokens /\ (s # t => tokens[s].status # "unissued")
    BY <1>2 DEF TypeInv, SessionsOK
  <1>4. row \in Token
    BY <1>2, <1>3 DEF Token
  <1>5. tokens[t].status = "unissued" /\ tokens' = [tokens EXCEPT ![t] = row]
    BY <1>1 DEF IssueOf
  <1>6. /\ tokens' \in [Tokens -> Token]
        /\ tokens'[t] = row
        /\ \A v \in Tokens : v # t => tokens'[v] = tokens[v]
    BY <1>2, <1>4, <1>5
  <1>7. Monotone
    BY <1>2, <1>5, <1>6 DEF Monotone
  <1>8. /\ req' \in [Requests -> Request]
        /\ LocalsOK(r)'
        /\ \A q \in Requests : q # r => req'[q] = req[q]
    BY <1>1, <1>2, FinishKept DEF LocalsOK, IssueOf
  <1>9. \A q \in Requests : LocalsOK(q)'
    BY <1>7, <1>8, OthersKept DEF TypeInv
  <1>10. TypeOK'
    BY <1>2, <1>6, <1>8 DEF TypeInv, TypeOK
  <1>11. SessionsOK'
    BY <1>3, <1>5, <1>6 DEF TypeInv, SessionsOK
  <1> QED
    BY <1>9, <1>10, <1>11 DEF TypeInv

LEMMA ExpireTokenTypeInv ==
  ASSUME TypeInv, NEW t \in Tokens, ExpireToken(t)
  PROVE  TypeInv'
  <1>1. /\ tokens[t].status = "live"
        /\ tokens' = [tokens EXCEPT ![t].status = "expired"]
        /\ UNCHANGED <<users, req>>
    BY DEF ExpireToken
  <1>2. tokens \in [Tokens -> Token]
    BY DEF TypeInv, TypeOK
  <1>3. /\ tokens' \in [Tokens -> Token]
        /\ tokens'[t].status = "expired"
        /\ \A u \in Tokens : /\ tokens'[u].session = tokens[u].session
                             /\ tokens'[u].user = tokens[u].user
                             /\ u # t => tokens'[u] = tokens[u]
    BY <1>1, <1>2 DEF Token
  <1>4. Monotone
    BY <1>1, <1>2, <1>3 DEF Monotone
  <1>5. \A s \in Requests : LocalsOK(s)'
    BY <1>1, <1>4, OthersKept DEF TypeInv
  <1>6. TypeOK' /\ SessionsOK'
    BY <1>1, <1>3 DEF TypeInv, TypeOK, SessionsOK
  <1> QED
    BY <1>5, <1>6 DEF TypeInv

LEMMA RespondTypeInv ==
  ASSUME TypeInv, NEW r \in Requests, Respond(r)
  PROVE  TypeInv'
  <1>1. Idle \in Request /\ req \in [Requests -> Request]
    BY DEF TypeInv, TypeOK, Idle, Request, Changes, Ops
  <1>2. /\ req' \in [Requests -> Request]
        /\ req'[r] = Idle
        /\ \A s \in Requests : s # r => req'[s] = req[s]
    BY <1>1, RequestKept DEF Respond
  <1>3. LocalsOK(r)'
    BY <1>2 DEF LocalsOK, Idle
  <1> QED
    BY <1>2, <1>3, TablesKept DEF Respond

LEMMA NextTypeInv == TypeInv /\ [Next]_vars => TypeInv'
  <1> SUFFICES ASSUME TypeInv, [Next]_vars
               PROVE  TypeInv'
    OBVIOUS
  <1>1. ASSUME NEW r \in Requests,
               PublicCall(r) \/ ProtectedCall(r) \/ Serve(r) \/ Fail(r) \/ Respond(r)
        PROVE  TypeInv'
    BY <1>1, PublicCallTypeInv, ProtectedCallTypeInv, ReadUserTypeInv, UpsertTypeInv,
       RevokeTokenTypeInv, LoadTokenUserTypeInv, IssueTypeInv, RejectTypeInv, RespondTypeInv
       DEF Serve, Fail
  <1>2. ASSUME NEW t \in Tokens, ExpireToken(t)
        PROVE  TypeInv'
    BY <1>2, ExpireTokenTypeInv
  <1>3. CASE UNCHANGED vars
    BY <1>3 DEF vars, TypeInv, TypeOK, SessionsOK, LocalsOK
  <1> QED
    BY <1>1, <1>2, <1>3 DEF Next

LEMMA TypeCorrect == Spec => []TypeInv
  BY InitTypeInv, NextTypeInv, PTL DEF Spec

\* The tables and the requests keep to their types, and a token that was issued
\* belongs to a user that exists, whatever calls interleave or fail.
THEOREM AccountsTypeOK == Spec => []TypeOK
  <1>1. TypeInv => TypeOK
    BY DEF TypeInv
  <1> QED
    BY <1>1, TypeCorrect, PTL

-----------------------------------------------------------------------------
(* The owner *)

LEMMA UsersStep ==
  ASSUME TypeInv, [Next]_vars
  PROVE  UNCHANGED users \/ \E r \in Requests : Upsert(r)
  <1>1. ASSUME NEW r \in Requests, PublicCall(r)
        PROVE  UNCHANGED users
    BY <1>1 DEF PublicCall, Setup, Login, Refresh
  <1>2. ASSUME NEW r \in Requests, ProtectedCall(r)
        PROVE  UNCHANGED users
    BY <1>2 DEF ProtectedCall, Logout, CreateUser, UpdateUser, ChangePassword
  <1>3. ASSUME NEW r \in Requests, Serve(r)
        PROVE  UNCHANGED users \/ Upsert(r)
    BY <1>3 DEF Serve, ReadUser, RevokeToken, LoadTokenUser, Issue
  <1>4. ASSUME NEW r \in Requests, Fail(r) \/ Respond(r)
        PROVE  UNCHANGED users
    BY <1>4 DEF Fail, Respond
  <1>5. ASSUME NEW t \in Tokens, ExpireToken(t)
        PROVE  UNCHANGED users
    BY <1>5 DEF ExpireToken
  <1> QED
    BY <1>1, <1>2, <1>3, <1>4, <1>5 DEF Next, vars

\* Setting up twice at once, or promoting a member meanwhile, leaves one owner:
\* what SetupStatus read does not matter, the partial index does.
THEOREM SingleOwner == Spec => []OneOwner
  <1>1. Init => OneOwner
    BY DEF Init, OneOwner, Admin
  <1>2. TypeInv /\ OneOwner /\ [Next]_vars => OneOwner'
    <2> SUFFICES ASSUME TypeInv, OneOwner, [Next]_vars
                 PROVE  OneOwner'
      OBVIOUS
    <2>1. CASE UNCHANGED users
      BY <2>1 DEF OneOwner, Admin
    <2>2. ASSUME NEW r \in Requests, Upsert(r)
          PROVE  OneOwner'
      <3>1. /\ req[r].user \in Users
            /\ req[r].row \in Row
            /\ users \in [Users -> Row \cup {NoUser}]
        BY <2>2 DEF TypeInv, TypeOK, LocalsOK, Upsert
      <3>2. CASE UNCHANGED users
        BY <3>2 DEF OneOwner, Admin
      <3>3. CASE /\ users' = [users EXCEPT ![req[r].user] = req[r].row]
                 /\ req[r].row.role = "owner" =>
                       ~\E u \in Users \ {req[r].user} : users[u] # NoUser /\ users[u].role = "owner"
        BY <3>1, <3>3 DEF OneOwner, Admin
      <3> QED
        BY <2>2, <3>2, <3>3 DEF Upsert
    <2> QED
      BY <2>1, <2>2, UsersStep
  <1> QED
    BY <1>1, <1>2, TypeCorrect, PTL DEF Spec

-----------------------------------------------------------------------------
(* Sessions *)

\* No request enters a rotation.
NoNewRotation == \A q \in Requests, s \in Tokens : Rotating(q, s)' => Rotating(q, s)

LEMMA RejectStep ==
  ASSUME TypeInv, NEW r \in Requests, UNCHANGED tokens,
         NEW t \in Tokens \cup {NoToken}, NEW pc \in {"served", "failed"}, Finish(r, pc, t)
  PROVE  NoNewRotation
  BY FinishKept DEF TypeInv, TypeOK, NoNewRotation, Rotating

LEMMA BeginStep ==
  ASSUME TypeInv, NEW r \in Requests, UNCHANGED tokens,
         NEW op, NEW pc \in {"read", "upsert", "revoke"}, NEW user, NEW change, NEW row, NEW token,
         Begin(r, op, pc, user, change, row, token)
  PROVE  NoNewRotation
  <1>1. req \in [Requests -> Request]
    BY DEF TypeInv, TypeOK
  <1>2. req'[r].pc = pc /\ \A q \in Requests : q # r => req'[q] = req[q]
    BY <1>1 DEF Begin
  <1> QED
    BY <1>2 DEF NoNewRotation, Rotating

\* A rotation is entered by RevokeToken only: a Login that goes on to Issue, too,
\* has no token to exchange.
LEMMA TokensStep ==
  ASSUME TypeInv, [Next]_vars
  PROVE  \/ UNCHANGED tokens /\ NoNewRotation
         \/ \E r \in Requests : RevokeToken(r)
         \/ \E r \in Requests : Issue(r)
         \/ \E t \in Tokens : ExpireToken(t)
  <1> DEFINE Quiet == UNCHANGED tokens /\ NoNewRotation
  <1>1. ASSUME NEW r \in Requests, Reject(r), UNCHANGED tokens
        PROVE  Quiet
    BY <1>1, RejectStep DEF Reject
  <1>2. ASSUME NEW r \in Requests, PublicCall(r)
        PROVE  Quiet
    BY <1>1, <1>2, BeginStep DEF PublicCall, Setup, Login, Refresh
  <1>3. ASSUME NEW r \in Requests, ProtectedCall(r)
        PROVE  Quiet
    BY <1>1, <1>3, BeginStep DEF ProtectedCall, Logout, CreateUser, UpdateUser, ChangePassword
  <1>4. req \in [Requests -> Request]
    BY DEF TypeInv, TypeOK
  <1>5. ASSUME NEW r \in Requests, ReadUser(r)
        PROVE  Quiet
    <2>1. CASE Reject(r)
      BY <1>1, <1>5, <2>1 DEF ReadUser
    <2>2. CASE ~Reject(r)
      <3>1. PICK row : req' = [req EXCEPT ![r].pc = "upsert", ![r].row = row]
        BY <1>5, <2>2 DEF ReadUser
      <3>2. req'[r].pc = "upsert" /\ \A q \in Requests : q # r => req'[q] = req[q]
        BY <1>4, <3>1 DEF Request
      <3> QED
        BY <1>5, <3>2 DEF NoNewRotation, Rotating, ReadUser
    <2> QED
      BY <2>1, <2>2
  <1>6. ASSUME NEW r \in Requests, Upsert(r)
        PROVE  Quiet
    <2>1. CASE Reject(r) \/ Finish(r, "served", NoToken)
      BY <1>1, <1>6, <2>1, RejectStep DEF Upsert
    <2>2. CASE Goto(r, "issue") /\ req[r].op \in {"setup", "login"}
      <3>1. req'[r].op = req[r].op /\ \A q \in Requests : q # r => req'[q] = req[q]
        BY <1>4, <2>2, GotoKept DEF Request
      <3> QED
        BY <1>6, <2>2, <3>1 DEF NoNewRotation, Rotating, Upsert
    <2> QED
      BY <1>6, <2>1, <2>2 DEF Upsert, AfterUpsert
  <1>7. ASSUME NEW r \in Requests, LoadTokenUser(r)
        PROVE  Quiet
    <2>1. CASE Reject(r)
      BY <1>1, <1>7, <2>1 DEF LoadTokenUser
    <2>2. CASE ~Reject(r)
      <3>1. PICK u : req' = [req EXCEPT ![r].pc = "issue", ![r].user = u]
        BY <1>7, <2>2 DEF LoadTokenUser
      <3>2. /\ req'[r].op = req[r].op
            /\ req'[r].token = req[r].token
            /\ \A q \in Requests : q # r => req'[q] = req[q]
        BY <1>4, <3>1 DEF Request
      <3> QED
        BY <1>7, <3>2 DEF NoNewRotation, Rotating, LoadTokenUser
    <2> QED
      BY <2>1, <2>2
  <1>8. ASSUME NEW r \in Requests, Fail(r)
        PROVE  Quiet
    BY <1>1, <1>8 DEF Fail
  <1>9. ASSUME NEW r \in Requests, Respond(r)
        PROVE  Quiet
    <2>1. req'[r] = Idle /\ \A q \in Requests : q # r => req'[q] = req[q]
      BY <1>4, <1>9 DEF Respond
    <2> QED
      BY <1>9, <2>1 DEF NoNewRotation, Rotating, Idle, Respond
  <1>10. CASE UNCHANGED vars
    BY <1>10 DEF NoNewRotation, Rotating, vars
  <1> QED
    BY <1>2, <1>3, <1>5, <1>6, <1>7, <1>8, <1>9, <1>10 DEF Next, Serve

\* RevokeToken takes its token out of those that can be exchanged; if it was one
\* of them, r may now be rotating its session, and nobody else begins to.
LEMMA RevokeStep ==
  ASSUME TypeInv, NEW r \in Requests, RevokeToken(r)
  PROVE  /\ \A t \in Tokens : tokens'[t].session = tokens[t].session
         /\ \A t \in Tokens : Exchangeable(t)' => Exchangeable(t) /\ t # req[r].token
         /\ \A t \in Tokens : tokens[t].status = "revoked" => tokens'[t].status = "revoked"
         /\ \A q \in Requests, s \in Tokens : Rotating(q, s)' =>
               \/ Rotating(q, s)
               \/ /\ q = r
                  /\ req[r].token \in Tokens
                  /\ Exchangeable(req[r].token)
                  /\ tokens[req[r].token].session = s
  <1> DEFINE t == req[r].token
  <1>1. /\ t \in Tokens
        /\ tokens[t].status # "unissued"
        /\ req[r].op \in {"logout", "refresh"}
        /\ req \in [Requests -> Request]
        /\ tokens \in [Tokens -> Token]
    BY DEF TypeInv, TypeOK, LocalsOK, RevokeToken
  <1>2. /\ tokens' = [tokens EXCEPT ![t].status = "revoked"]
        /\ AfterRevoke(r, tokens[t].status)
        /\ req[r].pc = "revoke"
    BY DEF RevokeToken
  <1>3. /\ tokens' \in [Tokens -> Token]
        /\ tokens'[t].status = "revoked"
        /\ \A u \in Tokens : /\ tokens'[u].session = tokens[u].session
                             /\ u # t => tokens'[u] = tokens[u]
    BY <1>1, <1>2 DEF Token
  <1>4. CASE req[r].op = "refresh" /\ tokens[t].status # "revoked"
    <2>1. Goto(r, "load")
      BY <1>2, <1>4 DEF AfterRevoke
    <2>2. /\ req'[r] = [req[r] EXCEPT !.pc = "load"]
          /\ \A q \in Requests : q # r => req'[q] = req[q]
      BY <1>1, <2>1, GotoKept
    <2>3. req'[r].op = "refresh" /\ req'[r].token = t
      BY <1>1, <1>4, <2>2 DEF Request
    <2>4. Exchangeable(t)
      BY <1>1, <1>4 DEF Exchangeable, Token
    <2>5. \A q \in Requests, s \in Tokens : q # r /\ Rotating(q, s)' => Rotating(q, s)
      BY <1>3, <2>2, <1>1 DEF Rotating, TypeInv, LocalsOK
    <2>6. \A s \in Tokens : Rotating(r, s)' => tokens[t].session = s
      BY <1>1, <1>3, <2>3 DEF Rotating
    <2> QED
      BY <1>1, <1>3, <2>4, <2>5, <2>6 DEF Exchangeable
  <1>5. CASE req[r].op = "logout" \/ tokens[t].status = "revoked"
    <2>1. PICK pc \in {"served", "failed"} : Finish(r, pc, NoToken)
      BY <1>1, <1>2, <1>5 DEF AfterRevoke, Reject
    <2>2. /\ req'[r].op = "none"
          /\ \A q \in Requests : q # r => req'[q] = req[q]
      BY <1>1, <2>1, FinishKept
    <2>3. \A q \in Requests, s \in Tokens : Rotating(q, s)' => Rotating(q, s)
      BY <1>3, <2>2, <1>1 DEF Rotating, TypeInv, LocalsOK
    <2> QED
      BY <1>1, <1>3, <2>3 DEF Exchangeable
  <1> QED
    BY <1>1, <1>4, <1>5

\* Issue gives a session its next token, ending the rotation that was under way,
\* or opens a session nobody has a token of.
LEMMA IssueStep ==
  ASSUME TypeInv, NEW r \in Requests, Issue(r)
  PROVE  \E t \in Tokens :
            /\ tokens[t].status = "unissued"
            /\ tokens'[t].session \in Tokens
            /\ \/ Rotating(r, tokens'[t].session)
               \/ tokens'[t].session = t
            /\ \A u \in Tokens : u # t => tokens'[u] = tokens[u]
            /\ \A q \in Requests, s \in Tokens : Rotating(q, s)' => q # r /\ Rotating(q, s)
  <1>1. PICK t \in Tokens : IssueOf(r, t)
    BY DEF Issue, IssueOf
  <1> DEFINE s == IF req[r].op = "refresh" THEN tokens[req[r].token].session ELSE t
  <1>2. /\ req[r].op = "refresh" =>
              req[r].token \in Tokens /\ tokens[req[r].token].status = "revoked"
        /\ req \in [Requests -> Request]
        /\ tokens \in [Tokens -> Token]
        /\ req[r].pc = "issue"
    BY DEF TypeInv, TypeOK, LocalsOK, Issue
  <1>3. s \in Tokens
    BY <1>2 DEF TypeInv, SessionsOK
  <1>4. /\ tokens'[t].session = s
        /\ \A u \in Tokens : u # t => tokens'[u] = tokens[u]
        /\ tokens[t].status = "unissued"
    BY <1>1, <1>2 DEF IssueOf
  <1>5. /\ req'[r].op = "none"
        /\ \A q \in Requests : q # r => req'[q] = req[q]
    BY <1>1, <1>2, FinishKept DEF IssueOf
  <1>6. Rotating(r, s) \/ s = t
    BY <1>2 DEF Rotating
  <1>7. \A q \in Requests, v \in Tokens : Rotating(q, v)' => q # r /\ Rotating(q, v)
    <2> SUFFICES ASSUME NEW q \in Requests, NEW v \in Tokens, Rotating(q, v)'
                 PROVE  q # r /\ Rotating(q, v)
      OBVIOUS
    <2>1. q # r /\ req'[q] = req[q]
      BY <1>5 DEF Rotating
    <2>2. req[q].token \in Tokens /\ tokens[req[q].token].status = "revoked"
      BY <2>1 DEF Rotating, TypeInv, LocalsOK
    <2>3. tokens'[req[q].token] = tokens[req[q].token]
      BY <1>4, <2>2
    <2> QED
      BY <2>1, <2>3 DEF Rotating
  <1> QED
    BY <1>3, <1>4, <1>6, <1>7

LEMMA ExpireStep ==
  ASSUME TypeInv, NEW t \in Tokens, ExpireToken(t)
  PROVE  /\ \A u \in Tokens : tokens'[u].session = tokens[u].session
         /\ \A u \in Tokens : Exchangeable(u)' <=> Exchangeable(u)
         /\ \A u \in Tokens : tokens[u].status = "revoked" => tokens'[u].status = "revoked"
         /\ NoNewRotation
  <1>1. /\ tokens[t].status = "live"
        /\ tokens' = [tokens EXCEPT ![t].status = "expired"]
        /\ UNCHANGED <<users, req>>
        /\ tokens \in [Tokens -> Token]
    BY DEF ExpireToken, TypeInv, TypeOK
  <1>2. /\ tokens'[t].status = "expired"
        /\ \A u \in Tokens : /\ tokens'[u].session = tokens[u].session
                             /\ u # t => tokens'[u] = tokens[u]
    BY <1>1 DEF Token
  <1>3. NoNewRotation
    BY <1>1, <1>2 DEF NoNewRotation, Rotating, TypeInv, LocalsOK
  <1> QED
    BY <1>1, <1>2, <1>3 DEF Exchangeable

\* "token rotation on refresh": of the tokens one login led to, at most one can be
\* exchanged, and none during a rotation, however many requests present the same.
THEOREM SingleUse == Spec => []OneTokenPerSession
  <1>1. Init => OneTokenPerSession
    BY DEF Init, OneTokenPerSession, Exchangeable, Rotating, NewToken, Idle
  <1>2. TypeInv /\ OneTokenPerSession /\ [Next]_vars => OneTokenPerSession'
    <2> SUFFICES ASSUME TypeInv, OneTokenPerSession, [Next]_vars
                 PROVE  OneTokenPerSession'
      OBVIOUS
    <2>1. \A t \in Tokens : Exchangeable(t) => tokens[t].session \in Tokens
      BY DEF Exchangeable, TypeInv, SessionsOK
    <2>2. CASE UNCHANGED tokens /\ NoNewRotation
      BY <2>1, <2>2 DEF OneTokenPerSession, Exchangeable, NoNewRotation
    <2>3. ASSUME NEW r \in Requests, RevokeToken(r)
          PROVE  OneTokenPerSession'
      BY <2>1, <2>3, RevokeStep DEF OneTokenPerSession
    <2>4. ASSUME NEW r \in Requests, Issue(r)
          PROVE  OneTokenPerSession'
      <3>1. PICK t \in Tokens :
              /\ tokens[t].status = "unissued"
              /\ tokens'[t].session \in Tokens
              /\ Rotating(r, tokens'[t].session) \/ tokens'[t].session = t
              /\ \A u \in Tokens : u # t => tokens'[u] = tokens[u]
              /\ \A q \in Requests, s \in Tokens : Rotating(q, s)' => q # r /\ Rotating(q, s)
        BY <2>4, IssueStep
      <3>2. \A u \in Tokens : tokens[u].status # "unissued" => tokens[u].session # t
        BY <3>1 DEF TypeInv, SessionsOK
      <3>3. \A u \in Tokens : u # t => (Exchangeable(u)' <=> Exchangeable(u))
        BY <3>1 DEF Exchangeable
      <3>4. \A u \in Tokens : u # t /\ Exchangeable(u)' =>
              tokens'[u].session # tokens'[t].session
        <4> SUFFICES ASSUME NEW u \in Tokens, u # t, Exchangeable(u)',
                            tokens'[u].session = tokens'[t].session
                     PROVE  FALSE
          OBVIOUS
        <4>1. Exchangeable(u) /\ tokens[u].session = tokens'[t].session
          BY <3>1, <3>3
        <4>2. tokens[u].session # t
          BY <3>2, <4>1 DEF Exchangeable
        <4>3. ~Rotating(r, tokens[u].session)
          BY <4>1 DEF OneTokenPerSession
        <4> QED
          BY <3>1, <4>1, <4>2, <4>3
      <3>5. \A q \in Requests : ~Rotating(q, tokens[t].session)'
        <4> DEFINE s == tokens'[t].session
        <4> SUFFICES ASSUME NEW q \in Requests, Rotating(q, s)
                     PROVE  q = r
          BY <3>1 DEF Rotating
        <4>1. req[q].token \in Tokens /\ tokens[req[q].token].status = "revoked"
          BY DEF Rotating, TypeInv, LocalsOK
        <4>2. s # t
          BY <3>2, <4>1 DEF Rotating
        <4> QED
          BY <3>1, <4>2 DEF OneTokenPerSession
      <3>6. \A u, v \in Tokens :
              u # t /\ v # t /\ Exchangeable(u)' /\ Exchangeable(v)'
              /\ tokens'[u].session = tokens'[v].session => u = v
        BY <3>1, <3>3 DEF OneTokenPerSession
      <3>7. \A u \in Tokens, q \in Requests :
              u # t /\ Exchangeable(u)' => ~Rotating(q, tokens[u].session)'
        <4> SUFFICES ASSUME NEW u \in Tokens, NEW q \in Requests, u # t, Exchangeable(u)'
                     PROVE  ~Rotating(q, tokens[u].session)'
          OBVIOUS
        <4>1. Exchangeable(u) /\ tokens'[u] = tokens[u]
          BY <3>1, <3>3
        <4>2. ~Rotating(q, tokens[u].session) /\ tokens[u].session \in Tokens
          BY <2>1, <4>1 DEF OneTokenPerSession
        <4>3. ASSUME NEW s \in Tokens, ~Rotating(q, s)
              PROVE  ~Rotating(q, s)'
          BY <3>1, <4>3
        <4> QED
          BY <4>1, <4>2, <4>3 DEF Rotating
      <3>8. \A s \in Tokens, p, q \in Requests : Rotating(p, s)' /\ Rotating(q, s)' => p = q
        BY <3>1 DEF OneTokenPerSession
      <3> QED
        BY <3>4, <3>5, <3>6, <3>7, <3>8 DEF OneTokenPerSession
    <2>5. ASSUME NEW t \in Tokens, ExpireToken(t)
          PROVE  OneTokenPerSession'
      BY <2>1, <2>5, ExpireStep DEF OneTokenPerSession, NoNewRotation
    <2> QED
      BY <2>2, <2>3, <2>4, <2>5, TokensStep
  <1> QED
    BY <1>1, <1>2, TypeCorrect, PTL DEF Spec

\* "logout token revocation": no refresh brings an ended session back.
THEOREM NoRevival == Spec => EndedSessionsStayEnded
  <1>1. TypeInv /\ [Next]_vars => [\A s \in Tokens : Ended(s) => Ended(s)']_vars
    <2> SUFFICES ASSUME TypeInv, [Next]_vars, NEW s \in Tokens, Ended(s)
                 PROVE  Ended(s)'
      OBVIOUS
    <2>1. \A t \in Tokens : tokens[t].session = s => ~Exchangeable(t)
      BY DEF Ended, Exchangeable
    <2>2. CASE UNCHANGED tokens /\ NoNewRotation
      BY <2>2 DEF Ended, NoNewRotation
    <2>3. ASSUME NEW r \in Requests, RevokeToken(r)
          PROVE  Ended(s)'
      BY <2>1, <2>3, RevokeStep DEF Ended
    <2>4. ASSUME NEW r \in Requests, Issue(r)
          PROVE  Ended(s)'
      <3>1. tokens[s].status = "revoked"
        BY DEF Ended
      <3> QED
        BY <2>4, <3>1, IssueStep DEF Ended
    <2>5. ASSUME NEW t \in Tokens, ExpireToken(t)
          PROVE  Ended(s)'
      BY <2>5, ExpireStep DEF Ended, NoNewRotation
    <2> QED
      BY <2>2, <2>3, <2>4, <2>5, TokensStep
  <1> QED
    BY <1>1, TypeCorrect, PTL DEF Spec, EndedSessionsStayEnded
====
