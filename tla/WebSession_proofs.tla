---- MODULE WebSession_proofs ----
(***************************************************************************)
(* The session of the web client, for any numbers of pages, tabs, calls    *)
(* and tokens: what browser and server know of each other's tokens.        *)
(***************************************************************************)
EXTENDS WebSession, Accounts_proofs

Issued(t) == t \in Tokens /\ tokens[t].status # "unissued"

\* The tokens page x knows, or has known.
Names(x) == {store, page[x].shown, page[x].refresh, page[x].leaving} \cup asked[x]

NamesOK == \A x \in Pages : \A t \in Names(x) \ {NoToken} : Issued(t)

\* Nobody in this model deactivates a user.
RowsActive ==
    /\ \A u \in Users : users[u] # NoUser => users[u].active
    /\ \A r \in Requests : req[r].pc = "upsert" => req[r].row.active

\* What a page has sent is what the server works on, as long as it does.
RefreshOK(x) ==
    LET q == req[R(x)] IN
    /\ q.pc \in {"idle", "revoke", "load", "issue", "served", "failed"}
    /\ q.pc # "idle" => page[x].refresh # NoToken
    /\ q.pc \in {"revoke", "load", "issue"} => q.op = "refresh" /\ q.token = page[x].refresh
    /\ q.pc = "served" => Issued(q.token)
    /\ q.pc = "failed" => q.token = NoToken

LoginOK(x) ==
    LET q == req[L(x)] IN
    /\ q.pc \in {"idle", "upsert", "issue", "served", "failed"}
    /\ q.pc # "idle" => page[x].signing
    /\ q.pc \in {"upsert", "issue"} => q.op \in {"setup", "login"}
    /\ q.pc = "served" => Issued(q.token)
    /\ q.pc = "failed" => q.token = NoToken

LogoutOK(x) ==
    LET q == req[O(x)] IN
    /\ q.pc \in {"idle", "revoke", "served", "failed"}
    /\ q.pc # "idle" => page[x].leaving # NoToken
    /\ q.pc = "revoke" => q.op = "logout" /\ q.token = page[x].leaving
    /\ q.pc \in {"served", "failed"} => q.token = NoToken

RequestsOK == \A x \in Pages : RefreshOK(x) /\ LoginOK(x) /\ LogoutOK(x)

WebInv == WebTypeOK /\ TypeInv /\ NamesOK /\ RowsActive /\ RequestsOK

-----------------------------------------------------------------------------
(* Requests *)

LEMMA Kinds ==
    /\ \A x \in Pages : R(x) \in Requests /\ L(x) \in Requests /\ O(x) \in Requests
    /\ \A x, y \in Pages : R(x) # L(y) /\ R(x) # O(y) /\ L(x) # O(y)
    /\ \A x, y \in Pages : (R(x) = R(y) \/ L(x) = L(y) \/ O(x) = O(y)) => x = y
    /\ \A r \in Requests : \E x \in Pages : r \in {R(x), L(x), O(x)}
BY WebAssumption DEF R, L, O

\* A step of r leaves the other requests alone.
Alone(r) == \A s \in Requests : s # r => req'[s] = req[s]

Failed(r) == req[r].pc = "failed" /\ req[r].token = NoToken

LEMMA RejectEffect ==
    ASSUME TypeInv, NEW r \in Requests, Reject(r), UNCHANGED <<users, tokens>>
    PROVE  TypeInv' /\ Failed(r)' /\ Alone(r)
<1>1. req \in [Requests -> Request] /\ Finish(r, "failed", NoToken)
  BY DEF TypeInv, TypeOK, Reject
<1> QED
  BY <1>1, RejectTypeInv, FinishKept DEF Failed, Alone

LEMMA RespondEffect ==
    ASSUME TypeInv, NEW r \in Requests, Respond(r)
    PROVE  /\ TypeInv' /\ UNCHANGED <<users, tokens>>
           /\ req[r].pc \in {"served", "failed"} /\ req'[r] = Idle /\ Alone(r)
<1>1. req \in [Requests -> Request]
  BY DEF TypeInv, TypeOK
<1> QED
  BY <1>1, RespondTypeInv DEF Respond, Alone

LEMMA BeginEffect ==
    ASSUME TypeInv, NEW r \in Requests, NEW op, NEW pc, NEW user, NEW change, NEW row, NEW token,
           Begin(r, op, pc, user, change, row, token)
    PROVE  /\ req'[r].op = op /\ req'[r].pc = pc /\ req'[r].row = row /\ req'[r].token = token
           /\ Alone(r)
<1>1. req \in [Requests -> Request]
  BY DEF TypeInv, TypeOK
<1> QED
  BY <1>1 DEF Begin, Alone

LEMMA RefreshEffect ==
    ASSUME TypeInv, NEW r \in Requests, NEW t \in Tokens, Refresh(r, t)
    PROVE  /\ TypeInv' /\ UNCHANGED <<users, tokens>> /\ Alone(r) /\ req[r].pc = "idle"
           /\ \/ /\ tokens[t].status = "live"
                 /\ req'[r].op = "refresh" /\ req'[r].pc = "revoke" /\ req'[r].token = t
              \/ tokens[t].status # "live" /\ Failed(r)'
BY RefreshTypeInv, RejectEffect, BeginEffect DEF Refresh

LEMMA LogoutEffect ==
    ASSUME TypeInv, NEW r \in Requests, NEW c, NEW t \in Tokens, tokens[t].status # "unissued",
           Logout(r, c, t)
    PROVE  /\ TypeInv' /\ UNCHANGED <<users, tokens>> /\ Alone(r) /\ req[r].pc = "idle"
           /\ \/ req'[r].op = "logout" /\ req'[r].pc = "revoke" /\ req'[r].token = t
              \/ Failed(r)'
BY LogoutTypeInv, RejectEffect, BeginEffect DEF Logout

\* Signing in, or setting up: a row that is active will be written.
Signing(r) ==
    /\ req[r].op \in {"setup", "login"} /\ req[r].pc = "upsert" /\ req[r].row.active

LEMMA SetupEffect ==
    ASSUME TypeInv, NEW r \in Requests, NEW u \in Users, NEW p \in Passwords, Setup(r, u, p)
    PROVE  /\ TypeInv' /\ UNCHANGED <<users, tokens>> /\ Alone(r) /\ req[r].pc = "idle"
           /\ Signing(r)' \/ Failed(r)'
BY SetupTypeInv, RejectEffect, BeginEffect DEF Setup, Signing

LEMMA LoginEffect ==
    ASSUME TypeInv, NEW r \in Requests, NEW u \in Users, Login(r, u)
    PROVE  /\ TypeInv' /\ UNCHANGED <<users, tokens>> /\ Alone(r) /\ req[r].pc = "idle"
           /\ Signing(r)' \/ Failed(r)'
BY LoginTypeInv, RejectEffect, BeginEffect DEF Login, Signing

LEMMA UpsertEffect ==
    ASSUME TypeInv, RowsActive, NEW r \in Requests, req[r].op \in {"setup", "login"}, Upsert(r)
    PROVE  /\ TypeInv' /\ UNCHANGED tokens /\ Alone(r) /\ req[r].pc = "upsert"
           /\ Failed(r)' \/ (req'[r].pc = "issue" /\ req'[r].op = req[r].op)
           /\ \A u \in Users : users'[u] # NoUser => users'[u].active
<1>1. /\ req \in [Requests -> Request] /\ users \in [Users -> Row \cup {NoUser}]
      /\ req[r].pc = "upsert" /\ UNCHANGED tokens
      /\ req[r].user \in Users /\ req[r].row \in Row /\ req[r].row.active
  BY DEF TypeInv, TypeOK, LocalsOK, Upsert, RowsActive
<1>2. CASE Reject(r) /\ UNCHANGED users
  <2>1. \A u \in Users : users'[u] # NoUser => users'[u].active
    BY <1>2 DEF RowsActive
  <2> QED
    BY <1>1, <1>2, <2>1, RejectEffect
<1>3. CASE ~(Reject(r) /\ UNCHANGED users)
  <2>1. users' = [users EXCEPT ![req[r].user] = req[r].row] /\ Goto(r, "issue")
    BY <1>3 DEF Upsert, AfterUpsert
  <2>2. \A u \in Users : users'[u] # NoUser => users'[u].active
    <3> SUFFICES ASSUME NEW u \in Users, users'[u] # NoUser PROVE users'[u].active
      OBVIOUS
    <3>1. CASE u = req[r].user
      <4>1. users'[u] = req[r].row
        BY <1>1, <2>1, <3>1
      <4> QED
        BY <1>1, <4>1
    <3>2. CASE u # req[r].user
      <4>1. users'[u] = users[u]
        BY <1>1, <2>1, <3>2
      <4> QED
        BY <4>1 DEF RowsActive
    <3> QED
      BY <3>1, <3>2
  <2>3. req'[r].pc = "issue" /\ req'[r].op = req[r].op /\ Alone(r)
    <3>1. req'[r] = [req[r] EXCEPT !.pc = "issue"] /\ Alone(r)
      BY <1>1, <2>1, GotoKept DEF Alone
    <3> QED
      BY <1>1, <3>1 DEF Request
  <2> QED
    BY <1>1, <2>2, <2>3, UpsertTypeInv
<1> QED
  BY <1>2, <1>3

\* The token is revoked; a refresh goes on if it was the one to do it.
LEMMA RevokeEffect ==
    ASSUME TypeInv, NEW r \in Requests, RevokeToken(r)
    PROVE  /\ TypeInv' /\ UNCHANGED users /\ Alone(r) /\ req[r].pc = "revoke"
           /\ req[r].token \in Tokens /\ tokens[req[r].token].status # "unissued"
           /\ tokens'[req[r].token].status = "revoked"
           /\ \A u \in Tokens : /\ tokens'[u].session = tokens[u].session
                                /\ u # req[r].token => tokens'[u] = tokens[u]
           /\ \/ /\ req[r].op = "refresh" /\ tokens[req[r].token].status # "revoked"
                 /\ req'[r].pc = "load" /\ req'[r].op = "refresh" /\ req'[r].token = req[r].token
              \/ req[r].op = "refresh" /\ tokens[req[r].token].status = "revoked" /\ Failed(r)'
              \/ req[r].op = "logout" /\ req'[r].pc = "served" /\ req'[r].token = NoToken
<1> DEFINE t == req[r].token
<1>1. /\ t \in Tokens /\ tokens[t].status # "unissued" /\ req[r].op \in {"logout", "refresh"}
      /\ req \in [Requests -> Request] /\ tokens \in [Tokens -> Token]
      /\ req[r].pc = "revoke" /\ tokens' = [tokens EXCEPT ![t].status = "revoked"]
      /\ AfterRevoke(r, tokens[t].status) /\ UNCHANGED users
  BY DEF TypeInv, TypeOK, LocalsOK, RevokeToken
<1>6. TypeInv'
  BY RevokeTokenTypeInv
<1>2. /\ tokens'[t].status = "revoked"
      /\ \A u \in Tokens : /\ tokens'[u].session = tokens[u].session
                           /\ u # t => tokens'[u] = tokens[u]
  BY <1>1 DEF Token
<1>3. CASE req[r].op = "refresh" /\ tokens[t].status # "revoked"
  <2>1. Goto(r, "load")
    BY <1>1, <1>3 DEF AfterRevoke
  <2>2. req'[r].pc = "load" /\ req'[r].op = "refresh" /\ req'[r].token = t /\ Alone(r)
    <3>1. req'[r] = [req[r] EXCEPT !.pc = "load"] /\ Alone(r)
      BY <1>1, <2>1, GotoKept DEF Alone
    <3> QED
      BY <1>1, <1>3, <3>1 DEF Request
  <2> QED
    BY <1>1, <1>2, <1>3, <1>6, <2>2
<1>4. CASE req[r].op = "refresh" /\ tokens[t].status = "revoked"
  <2>1. Finish(r, "failed", NoToken)
    BY <1>1, <1>4 DEF AfterRevoke, Reject
  <2>2. Failed(r)' /\ Alone(r)
    BY <1>1, <2>1, FinishKept DEF Failed, Alone
  <2> QED
    BY <1>1, <1>2, <1>4, <1>6, <2>2
<1>5. CASE req[r].op = "logout"
  <2>1. Finish(r, "served", NoToken)
    BY <1>1, <1>5 DEF AfterRevoke
  <2>2. req'[r].pc = "served" /\ req'[r].token = NoToken /\ Alone(r)
    BY <1>1, <2>1, FinishKept DEF Alone
  <2> QED
    BY <1>1, <1>2, <1>5, <1>6, <2>2
<1> QED
  BY <1>1, <1>3, <1>4, <1>5

LEMMA LoadEffect ==
    ASSUME TypeInv, RowsActive, NEW r \in Requests, LoadTokenUser(r)
    PROVE  /\ TypeInv' /\ UNCHANGED <<users, tokens>> /\ Alone(r)
           /\ req[r].pc = "load" /\ req[r].op = "refresh"
           /\ req'[r].pc = "issue" /\ req'[r].op = "refresh" /\ req'[r].token = req[r].token
<1> DEFINE u == tokens[req[r].token].user
<1>1. /\ req \in [Requests -> Request] /\ req[r].op = "refresh" /\ req[r].pc = "load"
      /\ u \in Users /\ users[u] # NoUser
  BY DEF TypeInv, TypeOK, LocalsOK, LoadTokenUser
<1>2. users[u].active
  BY <1>1 DEF RowsActive
<1>3. req' = [req EXCEPT ![r].pc = "issue", ![r].user = u] /\ UNCHANGED <<users, tokens>>
  BY <1>2 DEF LoadTokenUser
<1>4. req'[r] = [req[r] EXCEPT !.pc = "issue", !.user = u] /\ Alone(r)
  BY <1>1, <1>3 DEF Alone
<1>5. req'[r].pc = "issue" /\ req'[r].op = "refresh" /\ req'[r].token = req[r].token
  BY <1>1, <1>4 DEF Request
<1> QED
  BY <1>1, <1>3, <1>4, <1>5, LoadTokenUserTypeInv

LEMMA IssueEffect ==
    ASSUME TypeInv, NEW r \in Requests, Issue(r)
    PROVE  /\ TypeInv' /\ UNCHANGED users /\ Alone(r) /\ req[r].pc = "issue"
           /\ \E t \in Tokens :
                 /\ tokens[t].status = "unissued" /\ tokens'[t].status = "live"
                 /\ tokens'[t].session =
                       IF req[r].op = "refresh" THEN tokens[req[r].token].session ELSE t
                 /\ \A u \in Tokens : u # t => tokens'[u] = tokens[u]
                 /\ req'[r].pc = "served" /\ req'[r].token = t
<1>1. PICK t \in Tokens : IssueOf(r, t)
  BY DEF Issue, IssueOf
<1>2. /\ req \in [Requests -> Request] /\ tokens \in [Tokens -> Token]
      /\ req[r].pc = "issue" /\ UNCHANGED users
  BY DEF TypeInv, TypeOK, Issue
<1>3. /\ tokens[t].status = "unissued" /\ tokens'[t].status = "live"
      /\ tokens'[t].session = IF req[r].op = "refresh" THEN tokens[req[r].token].session ELSE t
      /\ \A u \in Tokens : u # t => tokens'[u] = tokens[u]
  BY <1>1, <1>2 DEF IssueOf
<1>4. req'[r].pc = "served" /\ req'[r].token = t /\ Alone(r)
  BY <1>1, <1>2, FinishKept DEF IssueOf, Alone
<1> QED
  BY <1>2, <1>3, <1>4, IssueTypeInv

-----------------------------------------------------------------------------
(* Steps of the server *)

IssuedKept == \A t \in Tokens : tokens[t].status # "unissued" => tokens'[t].status # "unissued"

LEMMA RefreshKept ==
    ASSUME NEW x \in Pages, RefreshOK(x), IssuedKept, req'[R(x)] = req[R(x)],
           page'[x].refresh = page[x].refresh \/ page[x].refresh = NoToken
    PROVE  RefreshOK(x)'
BY DEF RefreshOK, IssuedKept, Issued

LEMMA LoginKept ==
    ASSUME NEW x \in Pages, LoginOK(x), IssuedKept, req'[L(x)] = req[L(x)],
           page'[x].signing = page[x].signing \/ ~page[x].signing
    PROVE  LoginOK(x)'
BY DEF LoginOK, IssuedKept, Issued

LEMMA LogoutKept ==
    ASSUME NEW x \in Pages, LogoutOK(x), req'[O(x)] = req[O(x)],
           page'[x].leaving = page[x].leaving \/ page[x].leaving = NoToken
    PROVE  LogoutOK(x)'
BY DEF LogoutOK

LEMMA RowsKept ==
    ASSUME RowsActive, NEW r \in Requests, Alone(r), UNCHANGED users,
           req'[r].pc # "upsert" \/ Signing(r)'
    PROVE  RowsActive'
<1>1. \A u \in Users : users'[u] # NoUser => users'[u].active
  BY DEF RowsActive
<1>2. \A s \in Requests : req'[s].pc = "upsert" => req'[s].row.active
  BY DEF RowsActive, Alone, Signing
<1> QED
  BY <1>1, <1>2 DEF RowsActive

LEMMA NamesKept ==
    ASSUME NamesOK, IssuedKept, NEW n, n = NoToken \/ Issued(n)',
           \A x \in Pages : Names(x)' \subseteq Names(x) \cup {n, NoToken}
    PROVE  NamesOK'
BY DEF NamesOK, IssuedKept, Issued

\* The browser does not notice; only the state of r is in question.
LEMMA ServerStep ==
    ASSUME WebInv, TypeInv', IssuedKept, RowsActive', NEW r \in Requests, Alone(r),
           UNCHANGED <<store, stale, page, call, asked>>, broken' \in BOOLEAN,
           \A x \in Pages : /\ r = R(x) => RefreshOK(x)'
                            /\ r = L(x) => LoginOK(x)'
                            /\ r = O(x) => LogoutOK(x)'
    PROVE  WebInv'
<1>1. RequestsOK'
  <2> SUFFICES ASSUME NEW x \in Pages PROVE RefreshOK(x)' /\ LoginOK(x)' /\ LogoutOK(x)'
    BY DEF RequestsOK
  <2>1. R(x) \in Requests /\ L(x) \in Requests /\ O(x) \in Requests
    BY Kinds
  <2>2. RefreshOK(x) /\ LoginOK(x) /\ LogoutOK(x)
    BY DEF WebInv, RequestsOK
  <2> QED
    BY <2>1, <2>2, RefreshKept, LoginKept, LogoutKept DEF Alone
<1>2. NamesOK'
  BY NamesKept DEF WebInv, Names
<1>3. WebTypeOK'
  BY DEF WebInv, WebTypeOK, TypeInv, Open
<1> QED
  BY <1>1, <1>2, <1>3 DEF WebInv

LEMMA RefreshArrivesInv ==
    ASSUME WebInv, NEW x \in Pages, RefreshArrives(x)
    PROVE  WebInv'
<1>1. /\ page[x].refresh \in Tokens /\ page[x].refresh # NoToken
      /\ R(x) \in Requests /\ Refresh(R(x), page[x].refresh) /\ TypeInv
  BY Kinds DEF WebInv, WebTypeOK, Page, Sessions, RefreshArrives
<1>2. /\ TypeInv' /\ UNCHANGED <<users, tokens>> /\ Alone(R(x))
      /\ \/ /\ req'[R(x)].op = "refresh" /\ req'[R(x)].pc = "revoke"
            /\ req'[R(x)].token = page[x].refresh
         \/ Failed(R(x))'
  BY <1>1, RefreshEffect
<1>3. IssuedKept /\ UNCHANGED <<store, stale, page, call, asked>> /\ broken' \in BOOLEAN
  BY <1>2 DEF IssuedKept, RefreshArrives, WebInv, WebTypeOK
<1>4. RefreshOK(x)'
  BY <1>1, <1>2, <1>3 DEF RefreshOK, Failed
<1>5. RowsActive'
  BY <1>1, <1>2, RowsKept DEF WebInv, Failed
<1> QED
  BY <1>1, <1>2, <1>3, <1>4, <1>5, Kinds, ServerStep

LEMMA LogoutArrivesInv ==
    ASSUME WebInv, NEW x \in Pages, LogoutArrives(x)
    PROVE  WebInv'
<1>1. /\ page[x].leaving \in Tokens /\ page[x].leaving # NoToken
      /\ O(x) \in Requests /\ TypeInv
  BY Kinds DEF WebInv, WebTypeOK, Page, Sessions, LogoutArrives
<1>2. tokens[page[x].leaving].status # "unissued"
  BY <1>1 DEF WebInv, NamesOK, Names, Issued
<1>3. /\ TypeInv' /\ UNCHANGED <<users, tokens>> /\ Alone(O(x))
      /\ \/ /\ req'[O(x)].op = "logout" /\ req'[O(x)].pc = "revoke"
            /\ req'[O(x)].token = page[x].leaving
         \/ Failed(O(x))'
  BY <1>1, <1>2, RejectEffect, LogoutEffect DEF LogoutArrives
<1>4. IssuedKept /\ UNCHANGED <<store, stale, page, call, asked>> /\ broken' \in BOOLEAN
  BY <1>3 DEF IssuedKept, LogoutArrives, WebInv, WebTypeOK
<1>5. LogoutOK(x)'
  BY <1>1, <1>3, <1>4 DEF LogoutOK, Failed
<1>6. RowsActive'
  BY <1>1, <1>3, RowsKept DEF WebInv, Failed
<1> QED
  BY <1>1, <1>3, <1>4, <1>5, <1>6, Kinds, ServerStep

\* Which requests may be where.
LEMMA Places ==
    ASSUME WebInv, NEW r \in Requests
    PROVE  /\ req[r].pc # "read"
           /\ req[r].pc = "upsert" => req[r].op \in {"setup", "login"} /\ \E x \in Pages : r = L(x)
           /\ req[r].pc = "revoke" => \E x \in Pages : r \in {R(x), O(x)}
           /\ req[r].pc = "load" => \E x \in Pages : r = R(x)
           /\ req[r].pc = "issue" => \E x \in Pages : r \in {R(x), L(x)}
<1>1. PICK x \in Pages : r \in {R(x), L(x), O(x)}
  BY Kinds
<1>2. RefreshOK(x) /\ LoginOK(x) /\ LogoutOK(x)
  BY DEF WebInv, RequestsOK
<1>3. CASE r = R(x)
  BY <1>2, <1>3 DEF RefreshOK
<1>4. CASE r = L(x)
  BY <1>2, <1>4 DEF LoginOK
<1>5. CASE r = O(x)
  BY <1>2, <1>5 DEF LogoutOK
<1> QED
  BY <1>1, <1>3, <1>4, <1>5

LEMMA ServeInv ==
    ASSUME WebInv, NEW r \in Requests, ServeRequest(r)
    PROVE  WebInv' /\ IssuedKept
<1>1. /\ UNCHANGED <<store, stale, page, call, asked>> /\ broken' \in BOOLEAN
      /\ TypeInv /\ RowsActive /\ Serve(r)
  BY DEF WebInv, WebTypeOK, ServeRequest
<1>2. \A x \in Pages : RefreshOK(x) /\ LoginOK(x) /\ LogoutOK(x)
  BY DEF WebInv, RequestsOK
<1>3. CASE ReadUser(r)
  BY <1>3, Places DEF ReadUser
<1>4. CASE Upsert(r)
  <2>1. PICK x \in Pages : r = L(x)
    BY <1>4, Places DEF Upsert
  <2>2. /\ TypeInv' /\ UNCHANGED tokens /\ Alone(r) /\ req[r].pc = "upsert"
        /\ Failed(r)' \/ (req'[r].pc = "issue" /\ req'[r].op = req[r].op)
        /\ \A u \in Users : users'[u] # NoUser => users'[u].active
    BY <1>1, <1>4, Places, UpsertEffect DEF Upsert
  <2>3. IssuedKept
    BY <2>2 DEF IssuedKept
  <2>4. LoginOK(x)'
    BY <1>1, <1>2, <2>1, <2>2 DEF LoginOK, Failed
  <2>5. RowsActive'
    <3>1. \A s \in Requests : req'[s].pc = "upsert" => req'[s].row.active
      BY <1>1, <2>2 DEF RowsActive, Alone, Failed
    <3> QED
      BY <2>2, <3>1 DEF RowsActive
  <2> QED
    BY <1>1, <2>1, <2>2, <2>3, <2>4, <2>5, Kinds, ServerStep
<1>5. CASE RevokeToken(r)
  <2>1. PICK x \in Pages : r \in {R(x), O(x)}
    BY <1>5, Places DEF RevokeToken
  <2>2. /\ TypeInv' /\ UNCHANGED users /\ Alone(r) /\ req[r].pc = "revoke"
        /\ tokens[req[r].token].status # "unissued" /\ tokens'[req[r].token].status = "revoked"
        /\ \A u \in Tokens : u # req[r].token => tokens'[u] = tokens[u]
        /\ \/ /\ req[r].op = "refresh"
              /\ req'[r].pc = "load" /\ req'[r].op = "refresh" /\ req'[r].token = req[r].token
           \/ req[r].op = "refresh" /\ Failed(r)'
           \/ req[r].op = "logout" /\ req'[r].pc = "served" /\ req'[r].token = NoToken
    BY <1>1, <1>5, RevokeEffect
  <2>3. IssuedKept
    BY <2>2 DEF IssuedKept
  <2>4. RowsActive'
    BY <1>1, <2>2, RowsKept DEF Failed
  <2>5. CASE r = R(x)
    <3>1. RefreshOK(x)'
      BY <1>1, <1>2, <2>2, <2>5 DEF RefreshOK, Failed
    <3> QED
      BY <1>1, <2>2, <2>3, <2>4, <2>5, <3>1, Kinds, ServerStep
  <2>6. CASE r = O(x)
    <3>1. LogoutOK(x)'
      BY <1>1, <1>2, <2>2, <2>6 DEF LogoutOK, Failed
    <3> QED
      BY <1>1, <2>2, <2>3, <2>4, <2>6, <3>1, Kinds, ServerStep
  <2> QED
    BY <2>1, <2>5, <2>6
<1>6. CASE LoadTokenUser(r)
  <2>1. PICK x \in Pages : r = R(x)
    BY <1>6, Places DEF LoadTokenUser
  <2>2. /\ TypeInv' /\ UNCHANGED <<users, tokens>> /\ Alone(r) /\ req[r].pc = "load"
        /\ req'[r].pc = "issue" /\ req'[r].op = "refresh" /\ req'[r].token = req[r].token
    BY <1>1, <1>6, LoadEffect
  <2>3. IssuedKept /\ RowsActive'
    BY <1>1, <2>2, RowsKept DEF IssuedKept
  <2>4. RefreshOK(x)'
    BY <1>1, <1>2, <2>1, <2>2 DEF RefreshOK
  <2> QED
    BY <1>1, <2>1, <2>2, <2>3, <2>4, Kinds, ServerStep
<1>7. CASE Issue(r)
  <2>1. PICK x \in Pages : r \in {R(x), L(x)}
    BY <1>7, Places DEF Issue
  <2>2. PICK t \in Tokens :
           /\ TypeInv' /\ UNCHANGED users /\ Alone(r) /\ req[r].pc = "issue"
           /\ tokens'[t].status = "live" /\ \A u \in Tokens : u # t => tokens'[u] = tokens[u]
           /\ req'[r].pc = "served" /\ req'[r].token = t
    BY <1>1, <1>7, IssueEffect
  <2>3. IssuedKept /\ RowsActive' /\ Issued(t)'
    BY <1>1, <2>2, RowsKept DEF IssuedKept, Issued
  <2>4. CASE r = R(x)
    <3>1. RefreshOK(x)'
      BY <1>1, <1>2, <2>2, <2>3, <2>4 DEF RefreshOK
    <3> QED
      BY <1>1, <2>2, <2>3, <2>4, <3>1, Kinds, ServerStep
  <2>5. CASE r = L(x)
    <3>1. LoginOK(x)'
      BY <1>1, <1>2, <2>2, <2>3, <2>5 DEF LoginOK
    <3> QED
      BY <1>1, <2>2, <2>3, <2>5, <3>1, Kinds, ServerStep
  <2> QED
    BY <2>1, <2>4, <2>5
<1> QED
  BY <1>1, <1>3, <1>4, <1>5, <1>6, <1>7 DEF Serve

LEMMA FailInv ==
    ASSUME WebInv, NEW r \in Requests, FailRequest(r)
    PROVE  WebInv' /\ Failed(r)' /\ Alone(r) /\ UNCHANGED <<users, tokens>>
<1>1. /\ UNCHANGED <<store, stale, page, call, asked, users, tokens>> /\ broken' \in BOOLEAN
      /\ TypeInv /\ RowsActive /\ Reject(r) /\ req[r].pc # "idle"
  BY DEF WebInv, FailRequest, Fail
<1>2. TypeInv' /\ Failed(r)' /\ Alone(r)
  BY <1>1, RejectEffect
<1>3. IssuedKept /\ RowsActive'
  BY <1>1, <1>2, RowsKept DEF IssuedKept, Failed
<1>4. ASSUME NEW x \in Pages
      PROVE  /\ r = R(x) => RefreshOK(x)'
             /\ r = L(x) => LoginOK(x)'
             /\ r = O(x) => LogoutOK(x)'
  <2>1. RefreshOK(x) /\ LoginOK(x) /\ LogoutOK(x)
    BY DEF WebInv, RequestsOK
  <2>2. ASSUME r = R(x) PROVE RefreshOK(x)'
    BY <1>1, <1>2, <2>1, <2>2 DEF RefreshOK, Failed
  <2>3. ASSUME r = L(x) PROVE LoginOK(x)'
    BY <1>1, <1>2, <2>1, <2>3 DEF LoginOK, Failed
  <2>4. ASSUME r = O(x) PROVE LogoutOK(x)'
    BY <1>1, <1>2, <2>1, <2>4 DEF LogoutOK, Failed
  <2> QED
    BY <2>2, <2>3, <2>4
<1> QED
  BY <1>1, <1>2, <1>3, <1>4, ServerStep

LEMMA ExpireEffect ==
    ASSUME WebInv, NEW t \in Tokens, ExpireRefresh(t)
    PROVE  /\ WebInv'
           /\ \A u \in Tokens : /\ tokens'[u].session = tokens[u].session
                                /\ tokens'[u].status = tokens[u].status
                                   \/ (tokens[u].status = "live" /\ tokens'[u].status = "expired")
<1>1. /\ UNCHANGED <<users, req, store, stale, page, call, asked, broken>>
      /\ TypeInv /\ ExpireToken(t) /\ tokens \in [Tokens -> Token]
      /\ tokens[t].status = "live" /\ tokens' = [tokens EXCEPT ![t].status = "expired"]
  BY DEF WebInv, TypeInv, TypeOK, ExpireRefresh, ExpireToken
<1>2. \A u \in Tokens : /\ tokens'[u].session = tokens[u].session
                        /\ tokens'[u].status = tokens[u].status
                           \/ (tokens[u].status = "live" /\ tokens'[u].status = "expired")
  BY <1>1 DEF Token
<1>3. TypeInv' /\ IssuedKept
  BY <1>1, <1>2, ExpireTokenTypeInv DEF IssuedKept
<1>4. RowsActive'
  BY <1>1 DEF WebInv, RowsActive
<1>5. RequestsOK'
  <2> SUFFICES ASSUME NEW x \in Pages PROVE RefreshOK(x)' /\ LoginOK(x)' /\ LogoutOK(x)'
    BY DEF RequestsOK
  <2>1. RefreshOK(x) /\ LoginOK(x) /\ LogoutOK(x)
    BY DEF WebInv, RequestsOK
  <2> QED
    BY <1>1, <1>3, <2>1, RefreshKept, LoginKept, LogoutKept
<1>6. NamesOK'
  BY <1>1, <1>3, NamesKept DEF WebInv, Names
<1>7. WebTypeOK'
  BY <1>1, <1>3 DEF WebInv, WebTypeOK, TypeInv, Open
<1> QED
  BY <1>2, <1>3, <1>4, <1>5, <1>6, <1>7 DEF WebInv

-----------------------------------------------------------------------------
(* Steps of the browser *)

WaitersOK ==
    \A c \in Calls : /\ call[c].pc # "idle" => page[PageOf[c]].at = "open"
                     /\ call[c].pc = "waiting" => page[PageOf[c]].refresh # NoToken

\* Page x acts, and learns at most of token n.
LEMMA BrowserStep ==
    ASSUME WebInv, NEW x \in Pages, TypeInv', RowsActive', UNCHANGED tokens,
           NEW r \in {R(x), L(x), O(x)}, Alone(r),
           NEW y \in Page, page' = [page EXCEPT ![x] = y],
           store' \in Sessions, stale' \subseteq Tokens, call' \in [Calls -> Call], WaitersOK',
           asked' \in [Pages -> SUBSET Tokens], broken' \in BOOLEAN,
           RefreshOK(x)', LoginOK(x)', LogoutOK(x)',
           NEW n, n = NoToken \/ Issued(n), store' \in {store, n, NoToken},
           {y.shown, y.refresh, y.leaving} \subseteq Names(x) \cup {n, NoToken},
           \A z \in Pages : asked'[z] \subseteq asked[z] \cup {store}
    PROVE  WebInv'
<1>1. /\ page \in [Pages -> Page] /\ page' \in [Pages -> Page] /\ page'[x] = y
      /\ \A z \in Pages : z # x => page'[z] = page[z]
  BY DEF WebInv, WebTypeOK
<1>2. IssuedKept
  BY DEF IssuedKept
<1>3. RequestsOK'
  <2> SUFFICES ASSUME NEW z \in Pages, z # x PROVE RefreshOK(z)' /\ LoginOK(z)' /\ LogoutOK(z)'
    BY DEF RequestsOK
  <2>1. RefreshOK(z) /\ LoginOK(z) /\ LogoutOK(z)
    BY DEF WebInv, RequestsOK
  <2>2. req'[R(z)] = req[R(z)] /\ req'[L(z)] = req[L(z)] /\ req'[O(z)] = req[O(z)]
    BY Kinds DEF Alone
  <2> QED
    BY <1>1, <1>2, <2>1, <2>2, RefreshKept, LoginKept, LogoutKept
<1>4. NamesOK'
  <2>1. \A z \in Pages : Names(z)' \subseteq Names(z) \cup {n, NoToken}
    <3> SUFFICES ASSUME NEW z \in Pages PROVE Names(z)' \subseteq Names(z) \cup {n, NoToken}
      OBVIOUS
    <3>1. CASE z = x
      BY <1>1, <3>1 DEF Names
    <3>2. CASE z # x
      BY <1>1, <3>2 DEF Names
    <3> QED
      BY <3>1, <3>2
  <2>2. n = NoToken \/ Issued(n)'
    BY DEF Issued
  <2> QED
    BY <1>2, <2>1, <2>2, NamesKept DEF WebInv
<1>5. WebTypeOK'
  BY <1>1 DEF WebTypeOK, TypeInv, WaitersOK, Open
<1> QED
  BY <1>3, <1>4, <1>5 DEF WebInv

\* What the browser's variables are, and what may be said of page x.
LEMMA PageFacts ==
    ASSUME WebInv, NEW x \in Pages
    PROVE  /\ TypeInv /\ RowsActive /\ page \in [Pages -> Page] /\ page[x] \in Page
           /\ store \in Sessions /\ stale \subseteq Tokens /\ call \in [Calls -> Call]
           /\ asked \in [Pages -> SUBSET Tokens] /\ broken \in BOOLEAN /\ WaitersOK
           /\ NoToken \notin Tokens
           /\ RefreshOK(x) /\ LoginOK(x) /\ LogoutOK(x)
           /\ \A t \in Names(x) \ {NoToken} : Issued(t)
           /\ NoToken \in Sessions /\ Tokens \subseteq Sessions
BY AccountsAssumption DEF WebInv, WebTypeOK, WaitersOK, RequestsOK, NamesOK, Sessions, Open

\* Nothing is sent and nothing answered.
LEMMA LocalStep ==
    ASSUME WebInv, NEW x \in Pages, UNCHANGED <<users, tokens, req, broken>>,
           NEW y \in Page, page' = [page EXCEPT ![x] = y], y.signing = page[x].signing,
           y.refresh = page[x].refresh \/ page[x].refresh = NoToken,
           y.leaving = page[x].leaving \/ page[x].leaving = NoToken,
           {y.shown, y.refresh, y.leaving} \subseteq Names(x) \cup {NoToken},
           store' \in {store, page[x].shown, NoToken}, stale' \subseteq Tokens,
           call' \in [Calls -> Call], WaitersOK', asked' \in [Pages -> SUBSET Tokens],
           \A z \in Pages : asked'[z] \subseteq asked[z] \cup {store}
    PROVE  WebInv'
<1>1. /\ TypeInv /\ RowsActive /\ page \in [Pages -> Page] /\ page[x] \in Page
      /\ store \in Sessions /\ broken \in BOOLEAN /\ NoToken \in Sessions
      /\ RefreshOK(x) /\ LoginOK(x) /\ LogoutOK(x)
      /\ page[x].shown = NoToken \/ Issued(page[x].shown)
  BY PageFacts DEF Names
<1>2. page[x].shown \in Sessions /\ store' \in Sessions
  BY <1>1 DEF Page
<1>3. TypeInv' /\ RowsActive' /\ IssuedKept
  BY <1>1 DEF TypeInv, TypeOK, SessionsOK, LocalsOK, RowsActive, IssuedKept
<1>4. page'[x] = y
  BY <1>1
<1>5. RefreshOK(x)' /\ LoginOK(x)' /\ LogoutOK(x)'
  BY <1>1, <1>3, <1>4, RefreshKept, LoginKept, LogoutKept
<1>6. Alone(R(x))
  BY DEF Alone
<1> PICK n : n = page[x].shown
  OBVIOUS
<1>7. n = NoToken \/ Issued(n)
  BY <1>1
<1>8. {y.shown, y.refresh, y.leaving} \subseteq Names(x) \cup {n, NoToken}
  OBVIOUS
<1>9. store' \in {store, n, NoToken} /\ broken' \in BOOLEAN
  BY <1>1
<1> QED
  BY <1>2, <1>3, <1>5, <1>6, <1>7, <1>8, <1>9, BrowserStep

\* A page is loaded or left: what it has sent is not touched.
LEMMA LoadInv ==
    ASSUME WebInv, NEW x \in Pages, Load(x) \/ Leave(x)
    PROVE  WebInv'
<1>0. /\ page \in [Pages -> Page] /\ page[x] \in Page /\ call \in [Calls -> Call]
      /\ store \in Sessions /\ asked \in [Pages -> SUBSET Tokens] /\ WaitersOK
      /\ stale \subseteq Tokens /\ NoToken \in Sessions /\ PageOf \in [Calls -> Pages]
  BY PageFacts, WebAssumption
<1>1. UNCHANGED <<users, tokens, req, store, stale, asked, broken>>
  BY DEF Load, Leave
<1>2. PICK y \in Page : /\ page' = [page EXCEPT ![x] = y] /\ y.shown \in {store, NoToken}
                       /\ y.refresh = page[x].refresh /\ y.leaving = page[x].leaving
                       /\ y.signing = page[x].signing
  <2>1. ASSUME NEW at \in {"open", "left"}, NEW t \in {store, NoToken},
               page' = [page EXCEPT ![x].at = at, ![x].shown = t]
        PROVE  \E y \in Page : /\ page' = [page EXCEPT ![x] = y] /\ y.shown \in {store, NoToken}
                               /\ y.refresh = page[x].refresh /\ y.leaving = page[x].leaving
                               /\ y.signing = page[x].signing
    <3> DEFINE y == [page[x] EXCEPT !.at = at, !.shown = t]
    <3>1. /\ y \in Page /\ y.shown = t /\ y.refresh = page[x].refresh
          /\ y.leaving = page[x].leaving /\ y.signing = page[x].signing
      BY <1>0 DEF Page
    <3>2. page' = [page EXCEPT ![x] = y]
      BY <1>0, <2>1
    <3> HIDE DEF y
    <3> QED
      BY <3>1, <3>2
  <2> QED
    BY <2>1 DEF Load, Leave
<1>3. call' \in [Calls -> Call]
  <2>1. NoCall \in Call
    BY <1>0 DEF NoCall, Call
  <2> QED
    BY <1>0, <2>1 DEF Load, Leave
<1>4. WaitersOK'
  <2>1. \A z \in Pages : page'[z].refresh = page[z].refresh /\ (z # x => page'[z] = page[z])
    BY <1>0, <1>2
  <2>2. CASE Load(x)
    <3>1. page'[x].at = "open" /\ call' = call
      BY <1>0, <2>2 DEF Load, Page
    <3> QED
      BY <1>0, <2>1, <3>1 DEF WaitersOK
  <2>3. CASE Leave(x)
    <3>1. \A c \in Calls : call'[c] = IF PageOf[c] = x THEN NoCall ELSE call[c]
      BY <2>3 DEF Leave
    <3> QED
      BY <1>0, <2>1, <3>1 DEF WaitersOK, NoCall
  <2> QED
    BY <2>2, <2>3
<1>5. {y.shown, y.refresh, y.leaving} \subseteq Names(x) \cup {NoToken}
  BY <1>2 DEF Names
<1> QED
  BY <1>0, <1>1, <1>2, <1>3, <1>4, <1>5, LocalStep

LEMMA SendCallInv ==
    ASSUME WebInv, NEW c \in Calls, SendCall(c)
    PROVE  WebInv'
<1> PICK x \in Pages : x = PageOf[c]
  BY WebAssumption
<1>1. UNCHANGED <<users, tokens, req, store, stale, page, asked, broken>>
  BY DEF SendCall
<1>2. /\ call' \in [Calls -> Call] /\ WaitersOK'
  <2>1. [pc |-> "sent", with |-> store] \in Call
    BY PageFacts DEF Call
  <2>2. call' = [call EXCEPT ![c] = [pc |-> "sent", with |-> store]] /\ Open(x)
    BY DEF SendCall
  <2> QED
    BY <1>1, <2>1, <2>2, PageFacts DEF WaitersOK, Open
<1>3. page' = [page EXCEPT ![x] = page[x]]
  BY <1>1, PageFacts
<1>4. /\ {page[x].shown, page[x].refresh, page[x].leaving} \subseteq Names(x) \cup {NoToken}
      /\ page[x] \in Page /\ stale' \subseteq Tokens /\ asked' \in [Pages -> SUBSET Tokens]
  BY <1>1, PageFacts DEF Names
<1> QED
  BY <1>1, <1>2, <1>3, <1>4, LocalStep

\* The call ends; if the page stores a session, it is the one it shows.
LEMMA CallSucceedsInv ==
    ASSUME WebInv, NEW c \in Calls, CallSucceeds(c)
    PROVE  WebInv'
<1> PICK x \in Pages : x = PageOf[c]
  BY WebAssumption
<1>1. UNCHANGED <<users, tokens, req, stale, asked, broken>> /\ call' = [call EXCEPT ![c] = NoCall]
  BY DEF CallSucceeds
<1>2. /\ page' = [page EXCEPT ![x] = page[x]]
      /\ store' \in {store, page[x].shown}
  <2>1. page \in [Pages -> Page] /\ page[x] \in Page
    BY PageFacts
  <2>2. CASE SetSession(x, page[x].shown, page[x])
    <3>1. [page[x] EXCEPT !.shown = page[x].shown] = page[x]
      BY <2>1 DEF Page
    <3> QED
      BY <2>2, <3>1 DEF SetSession
  <2>3. CASE UNCHANGED <<store, page>>
    BY <2>1, <2>3
  <2> QED
    BY <2>2, <2>3 DEF CallSucceeds
<1>3. page' = page
  BY <1>2, PageFacts
<1>4. call' \in [Calls -> Call] /\ WaitersOK'
  <2>1. NoCall \in Call
    BY PageFacts DEF NoCall, Call
  <2> QED
    BY <1>1, <1>3, <2>1, PageFacts DEF WaitersOK, NoCall
<1>5. /\ {page[x].shown, page[x].refresh, page[x].leaving} \subseteq Names(x) \cup {NoToken}
      /\ page[x] \in Page /\ stale' \subseteq Tokens /\ asked' \in [Pages -> SUBSET Tokens]
  BY <1>1, PageFacts DEF Names
<1> QED
  BY <1>1, <1>2, <1>4, <1>5, LocalStep

LEMMA CallRefusedInv ==
    ASSUME WebInv, NEW c \in Calls, CallRefused(c)
    PROVE  WebInv'
<1> PICK x \in Pages : x = PageOf[c]
  BY WebAssumption
<1>0. /\ page \in [Pages -> Page] /\ page[x] \in Page
      /\ call \in [Calls -> Call] /\ call[c] \in Call
      /\ store \in Sessions /\ asked \in [Pages -> SUBSET Tokens] /\ WaitersOK
      /\ stale \subseteq Tokens /\ PageOf \in [Calls -> Pages]
  BY PageFacts, WebAssumption
<1>1. UNCHANGED <<users, tokens, req, store, stale, broken>> /\ page[x].at = "open"
  BY <1>0 DEF CallRefused, WaitersOK
<1>2. CASE store # NoToken /\ page[x].refresh = NoToken /\ AwaitRefresh(c, x)
           /\ call' = [call EXCEPT ![c].pc = "waiting"]
  <2> DEFINE y == [page[x] EXCEPT !.refresh = store]
  <2>1. /\ y \in Page /\ y.shown = page[x].shown /\ y.refresh = store /\ y.leaving = page[x].leaving
        /\ y.signing = page[x].signing /\ y.at = page[x].at
    BY <1>0 DEF Page
  <2>2. page' = [page EXCEPT ![x] = y] /\ asked' = [asked EXCEPT ![x] = @ \cup {store}]
    BY <1>0, <1>2 DEF AwaitRefresh
  <2> HIDE DEF y
  <2>3. /\ call' \in [Calls -> Call] /\ call'[c].pc = "waiting"
        /\ \A d \in Calls : d # c => call'[d] = call[d]
    BY <1>0, <1>2 DEF Call
  <2>4. WaitersOK'
    <3>1. \A z \in Pages : z # x => page'[z] = page[z]
      BY <1>0, <2>2
    <3>2. page'[x].refresh # NoToken /\ page'[x].at = "open"
      BY <1>0, <1>1, <1>2, <2>1, <2>2
    <3> QED
      BY <1>0, <2>3, <3>1, <3>2 DEF WaitersOK
  <2>5. /\ asked' \in [Pages -> SUBSET Tokens]
        /\ \A z \in Pages : asked'[z] \subseteq asked[z] \cup {store}
    BY <1>0, <1>2, <2>2 DEF Sessions
  <2>6. {y.shown, y.refresh, y.leaving} \subseteq Names(x) \cup {NoToken}
    BY <2>1 DEF Names
  <2> QED
    BY <1>0, <1>1, <1>2, <2>1, <2>2, <2>3, <2>4, <2>5, <2>6, LocalStep
<1>3. CASE /\ UNCHANGED <<page, asked>>
           /\ \/ call' = [call EXCEPT ![c] = NoCall]
              \/ page[x].refresh # NoToken /\ call' = [call EXCEPT ![c].pc = "waiting"]
  <2>1. NoCall \in Call
    BY PageFacts DEF NoCall, Call
  <2>2. call' \in [Calls -> Call]
    BY <1>0, <1>3, <2>1 DEF Call
  <2>3. WaitersOK'
    BY <1>0, <1>1, <1>3 DEF WaitersOK, NoCall
  <2>4. page' = [page EXCEPT ![x] = page[x]]
    BY <1>0, <1>3
  <2>5. {page[x].shown, page[x].refresh, page[x].leaving} \subseteq Names(x) \cup {NoToken}
    BY DEF Names
  <2> QED
    BY <1>0, <1>1, <1>3, <2>2, <2>3, <2>4, <2>5, LocalStep
<1> QED
  BY <1>2, <1>3 DEF CallRefused, AwaitRefresh

LEMMA SignOutInv ==
    ASSUME WebInv, NEW x \in Pages, SignOut(x)
    PROVE  WebInv'
<1>0. /\ page \in [Pages -> Page] /\ page[x] \in Page /\ call \in [Calls -> Call]
      /\ store \in Sessions /\ asked \in [Pages -> SUBSET Tokens] /\ WaitersOK
      /\ stale \subseteq Tokens /\ NoToken \in Sessions /\ PageOf \in [Calls -> Pages]
  BY PageFacts, WebAssumption
<1>1. UNCHANGED <<users, tokens, req, stale, call, asked, broken>> /\ page[x].leaving = NoToken
  BY DEF SignOut
<1>2. PICK y \in Page :
         /\ page' = [page EXCEPT ![x] = y] /\ store' \in {store, NoToken}
         /\ y.signing = page[x].signing /\ y.refresh = page[x].refresh /\ y.at = page[x].at
         /\ y.shown \in {page[x].shown, NoToken} /\ y.leaving \in {store, NoToken}
  <2>1. CASE store = NoToken
    <3> DEFINE y == [page[x] EXCEPT !.shown = NoToken]
    <3>1. /\ y \in Page /\ y.signing = page[x].signing /\ y.refresh = page[x].refresh
          /\ y.at = page[x].at /\ y.shown = NoToken /\ y.leaving = NoToken
      BY <1>0, <1>1 DEF Page
    <3>2. page' = [page EXCEPT ![x] = y] /\ store' = NoToken
      BY <2>1 DEF SignOut, SetSession
    <3> HIDE DEF y
    <3> QED
      BY <3>1, <3>2
  <2>2. CASE store # NoToken
    <3> DEFINE y == [page[x] EXCEPT !.leaving = store]
    <3>1. /\ y \in Page /\ y.signing = page[x].signing /\ y.refresh = page[x].refresh
          /\ y.at = page[x].at /\ y.shown = page[x].shown /\ y.leaving = store
      BY <1>0 DEF Page
    <3>2. page' = [page EXCEPT ![x] = y] /\ store' = store
      BY <1>0, <2>2 DEF SignOut
    <3> HIDE DEF y
    <3> QED
      BY <3>1, <3>2
  <2> QED
    BY <2>1, <2>2
<1>3. WaitersOK'
  <2>1. \A z \in Pages : page'[z].refresh = page[z].refresh /\ page'[z].at = page[z].at
    BY <1>0, <1>2
  <2> QED
    BY <1>0, <1>1, <2>1 DEF WaitersOK
<1>4. {y.shown, y.refresh, y.leaving} \subseteq Names(x) \cup {NoToken}
  BY <1>2 DEF Names
<1> QED
  BY <1>0, <1>1, <1>2, <1>3, <1>4, LocalStep

LEMMA ExpireAccessInv ==
    ASSUME WebInv, NEW t \in Tokens, ExpireAccess(t)
    PROVE  WebInv'
<1>1. /\ UNCHANGED <<users, tokens, req, store, page, call, asked, broken>>
      /\ stale \subseteq Tokens /\ stale' = stale \cup {t}
  BY DEF ExpireAccess, WebInv, WebTypeOK
<1>2. stale' \subseteq Tokens
  BY <1>1
<1>3. /\ WebTypeOK' /\ TypeInv' /\ RowsActive'
  BY <1>1, <1>2 DEF WebInv, WebTypeOK, TypeInv, TypeOK, SessionsOK, LocalsOK, RowsActive, Open
<1>4. NamesOK' /\ RequestsOK'
  BY <1>1 DEF WebInv, NamesOK, Names, Issued, RequestsOK, RefreshOK, LoginOK, LogoutOK
<1> QED
  BY <1>3, <1>4 DEF WebInv

\* Page x has the answer of r, with token n.
LEMMA AnswerStep ==
    ASSUME WebInv, NEW x \in Pages, NEW r \in {R(x), L(x), O(x)}, Respond(r),
           NEW y \in Page, page' = [page EXCEPT ![x] = y],
           r = R(x) \/ y.refresh = page[x].refresh,
           r = L(x) \/ y.signing = page[x].signing,
           r = O(x) \/ y.leaving = page[x].leaving,
           NEW n, n = NoToken \/ Issued(n), store' \in {store, n, NoToken},
           {y.shown, y.refresh, y.leaving} \subseteq Names(x) \cup {n, NoToken},
           call' \in [Calls -> Call], WaitersOK', UNCHANGED <<stale, asked>>, broken' \in BOOLEAN
    PROVE  WebInv'
<1>1. r \in Requests /\ R(x) # L(x) /\ R(x) # O(x) /\ L(x) # O(x)
  BY Kinds
<1>2. /\ page \in [Pages -> Page] /\ TypeInv /\ RowsActive /\ store \in Sessions
      /\ stale \subseteq Tokens /\ asked \in [Pages -> SUBSET Tokens]
      /\ NoToken \in Sessions /\ Tokens \subseteq Sessions
      /\ RefreshOK(x) /\ LoginOK(x) /\ LogoutOK(x)
  BY PageFacts
<1>3. /\ TypeInv' /\ UNCHANGED <<users, tokens>> /\ req'[r] = Idle /\ Alone(r)
  BY <1>1, <1>2, RespondEffect
<1>4. RowsActive' /\ IssuedKept
  BY <1>1, <1>2, <1>3, RowsKept DEF Idle, IssuedKept
<1>5. page'[x] = y
  BY <1>2
<1>6. RefreshOK(x)'
  <2>1. CASE r = R(x)
    BY <1>3, <2>1 DEF RefreshOK, Idle
  <2>2. CASE r # R(x)
    BY <1>1, <1>2, <1>3, <1>4, <1>5, <2>2, Kinds, RefreshKept DEF Alone
  <2> QED
    BY <2>1, <2>2
<1>7. LoginOK(x)'
  <2>1. CASE r = L(x)
    BY <1>3, <2>1 DEF LoginOK, Idle
  <2>2. CASE r # L(x)
    BY <1>1, <1>2, <1>3, <1>4, <1>5, <2>2, Kinds, LoginKept DEF Alone
  <2> QED
    BY <2>1, <2>2
<1>8. LogoutOK(x)'
  <2>1. CASE r = O(x)
    BY <1>3, <2>1 DEF LogoutOK, Idle
  <2>2. CASE r # O(x)
    BY <1>1, <1>2, <1>3, <1>5, <2>2, Kinds, LogoutKept DEF Alone
  <2> QED
    BY <2>1, <2>2
<1>9. store' \in Sessions
  BY <1>2 DEF Issued
<1> QED
  BY <1>2, <1>3, <1>4, <1>6, <1>7, <1>8, <1>9, BrowserStep

\* What RefreshEnds leaves in page x.
LEMMA EndsEffect ==
    ASSUME WebInv, NEW x \in Pages, NEW t \in Sessions, RefreshEnds(x, t)
    PROVE  /\ store' = t
           /\ \E y \in Page : /\ page' = [page EXCEPT ![x] = y]
                              /\ y.shown = t /\ y.refresh = NoToken /\ y.at = page[x].at
                              /\ y.leaving = page[x].leaving /\ y.signing = page[x].signing
           /\ call' \in [Calls -> Call] /\ WaitersOK'
<1>0. /\ page \in [Pages -> Page] /\ page[x] \in Page /\ call \in [Calls -> Call]
      /\ NoToken \in Sessions /\ WaitersOK /\ PageOf \in [Calls -> Pages]
  BY PageFacts, WebAssumption
<1> DEFINE y == [page[x] EXCEPT !.refresh = NoToken, !.shown = t]
<1>1. /\ y \in Page /\ y.shown = t /\ y.refresh = NoToken /\ y.at = page[x].at
      /\ y.leaving = page[x].leaving /\ y.signing = page[x].signing
  BY <1>0 DEF Page
<1>2. store' = t /\ page' = [page EXCEPT ![x] = y] /\ call' = Resumed(x, t)
  BY <1>0 DEF RefreshEnds, SetSession, Page
<1> HIDE DEF y
<1>3. [pc |-> "again", with |-> t] \in Call /\ NoCall \in Call
  BY <1>0 DEF Call, NoCall
<1>4. call' \in [Calls -> Call]
  BY <1>0, <1>2, <1>3 DEF Resumed
<1>5. WaitersOK'
  <2> SUFFICES ASSUME NEW c \in Calls
               PROVE  /\ call'[c].pc # "idle" => page'[PageOf[c]].at = "open"
                      /\ call'[c].pc = "waiting" => page'[PageOf[c]].refresh # NoToken
    BY DEF WaitersOK
  <2>1. /\ call'[c].pc # "idle" => call[c].pc # "idle"
        /\ call'[c].pc = "waiting" => PageOf[c] # x /\ call'[c] = call[c]
    BY <1>2 DEF Resumed, NoCall
  <2>2. /\ page'[PageOf[c]].at = page[PageOf[c]].at
        /\ PageOf[c] # x => page'[PageOf[c]] = page[PageOf[c]]
    BY <1>0, <1>1, <1>2
  <2> QED
    BY <1>0, <2>1, <2>2 DEF WaitersOK
<1> QED
  BY <1>1, <1>2, <1>4, <1>5

LEMMA RefreshAnsweredInv ==
    ASSUME WebInv, NEW x \in Pages, RefreshAnswered(x) \/ RefreshAnswerLost(x)
    PROVE  WebInv'
<1>1. /\ Respond(R(x)) /\ UNCHANGED <<stale, asked>> /\ broken' \in BOOLEAN
      /\ \E t \in {req[R(x)].token, NoToken} : RefreshEnds(x, t)
  BY PageFacts DEF RefreshAnswered, RefreshAnswerLost
<1>2. req[R(x)].token = NoToken \/ Issued(req[R(x)].token)
  BY <1>1, PageFacts, Kinds, RespondEffect DEF RefreshOK
<1>3. PICK t \in Sessions : RefreshEnds(x, t) /\ (t = NoToken \/ Issued(t))
  BY <1>1, <1>2, PageFacts DEF Issued
<1>4. PICK y \in Page : /\ page' = [page EXCEPT ![x] = y]
                        /\ y.shown = t /\ y.refresh = NoToken
                        /\ y.leaving = page[x].leaving /\ y.signing = page[x].signing
  BY <1>3, EndsEffect
<1>5. store' = t /\ call' \in [Calls -> Call] /\ WaitersOK'
  BY <1>3, EndsEffect
<1>6. {y.shown, y.refresh, y.leaving} \subseteq Names(x) \cup {t, NoToken}
  BY <1>4 DEF Names
<1> QED
  BY <1>1, <1>3, <1>4, <1>5, <1>6, AnswerStep

\* Waiting calls go on waiting where refresh stays.
LEMMA WaitersKept ==
    ASSUME WebInv, UNCHANGED call,
           \A z \in Pages : page'[z].refresh = page[z].refresh /\ page'[z].at = page[z].at
    PROVE  call' \in [Calls -> Call] /\ WaitersOK'
BY WebAssumption DEF WaitersOK, WebInv, WebTypeOK, Open

LEMMA SubmitSignInInv ==
    ASSUME WebInv, NEW x \in Pages, SubmitSignIn(x)
    PROVE  WebInv'
<1>0. /\ page \in [Pages -> Page] /\ page[x] \in Page /\ call \in [Calls -> Call] /\ TypeInv
      /\ store \in Sessions /\ stale \subseteq Tokens /\ asked \in [Pages -> SUBSET Tokens]
      /\ broken \in BOOLEAN /\ RowsActive /\ RefreshOK(x) /\ LoginOK(x) /\ LogoutOK(x)
      /\ L(x) \in Requests
  BY PageFacts, Kinds
<1>1. /\ UNCHANGED <<store, stale, call, asked, broken>> /\ ~page[x].signing
      /\ page' = [page EXCEPT ![x].signing = TRUE]
      /\ \E u \in Users : (\E p \in Passwords : Setup(L(x), u, p)) \/ Login(L(x), u)
  BY DEF SubmitSignIn
<1>2. /\ TypeInv' /\ UNCHANGED <<users, tokens>> /\ Alone(L(x))
      /\ Signing(L(x))' \/ Failed(L(x))'
  BY <1>0, <1>1, SetupEffect, LoginEffect
<1>3. RowsActive' /\ IssuedKept
  BY <1>0, <1>2, RowsKept DEF Failed, IssuedKept
<1> DEFINE y == [page[x] EXCEPT !.signing = TRUE]
<1>4. /\ y \in Page /\ y.shown = page[x].shown /\ y.refresh = page[x].refresh
      /\ y.leaving = page[x].leaving /\ y.signing = TRUE /\ page' = [page EXCEPT ![x] = y]
      /\ y.at = page[x].at
  BY <1>0, <1>1 DEF Page
<1> HIDE DEF y
<1>5. /\ page'[x] = y
      /\ \A z \in Pages : page'[z].refresh = page[z].refresh /\ page'[z].at = page[z].at
  BY <1>0, <1>4
<1>6. call' \in [Calls -> Call] /\ WaitersOK'
  BY <1>1, <1>5, WaitersKept
<1>7. RefreshOK(x)' /\ LogoutOK(x)'
  BY <1>0, <1>2, <1>3, <1>4, <1>5, Kinds, RefreshKept, LogoutKept DEF Alone
<1>8. LoginOK(x)'
  BY <1>2, <1>4, <1>5 DEF LoginOK, Signing, Failed
<1> PICK n : n = NoToken
  OBVIOUS
<1>9. {y.shown, y.refresh, y.leaving} \subseteq Names(x) \cup {n, NoToken}
  BY <1>4 DEF Names
<1>10. /\ store' \in Sessions /\ store' \in {store, n, NoToken} /\ stale' \subseteq Tokens
       /\ asked' \in [Pages -> SUBSET Tokens] /\ broken' \in BOOLEAN
       /\ \A z \in Pages : asked'[z] \subseteq asked[z] \cup {store}
  BY <1>0, <1>1
<1> QED
  BY <1>2, <1>3, <1>4, <1>6, <1>7, <1>8, <1>9, <1>10, BrowserStep

LEMMA SignInAnsweredInv ==
    ASSUME WebInv, NEW x \in Pages, SignInAnswered(x)
    PROVE  WebInv'
<1> DEFINE n == req[L(x)].token
<1>0. /\ page \in [Pages -> Page] /\ page[x] \in Page /\ call \in [Calls -> Call] /\ TypeInv
      /\ store \in Sessions /\ broken \in BOOLEAN /\ L(x) \in Requests /\ LoginOK(x)
  BY PageFacts, Kinds
<1>1. Respond(L(x)) /\ UNCHANGED <<stale, call, asked, broken>>
  BY DEF SignInAnswered
<1>2. req[L(x)].pc \in {"served", "failed"}
  BY <1>0, <1>1, RespondEffect
<1>3. n = NoToken \/ Issued(n)
  BY <1>0, <1>2 DEF LoginOK
<1>4. PICK y \in Page :
         /\ page' = [page EXCEPT ![x] = y] /\ store' \in {store, n}
         /\ y.refresh = page[x].refresh /\ y.leaving = page[x].leaving
         /\ y.shown \in {page[x].shown, n} /\ y.at = page[x].at
  <2>1. CASE req[L(x)].pc = "served"
    <3> DEFINE y == [page[x] EXCEPT !.signing = FALSE, !.shown = n]
    <3>1. n \in Sessions
      BY <1>3, PageFacts DEF Issued
    <3>2. /\ y \in Page /\ y.refresh = page[x].refresh /\ y.leaving = page[x].leaving
          /\ y.shown = n /\ y.at = page[x].at
      BY <1>0, <3>1 DEF Page
    <3>3. page' = [page EXCEPT ![x] = y] /\ store' = n
      BY <1>0, <2>1 DEF SignInAnswered, SetSession, Page
    <3> HIDE DEF y
    <3> QED
      BY <3>2, <3>3
  <2>2. CASE req[L(x)].pc # "served"
    <3> DEFINE y == [page[x] EXCEPT !.signing = FALSE]
    <3>1. /\ y \in Page /\ y.refresh = page[x].refresh /\ y.leaving = page[x].leaving
          /\ y.shown = page[x].shown /\ y.at = page[x].at
      BY <1>0 DEF Page
    <3>2. page' = [page EXCEPT ![x] = y] /\ store' = store
      BY <2>2 DEF SignInAnswered
    <3> HIDE DEF y
    <3> QED
      BY <3>1, <3>2
  <2> QED
    BY <2>1, <2>2
<1> HIDE DEF n
<1>5. \A z \in Pages : page'[z].refresh = page[z].refresh /\ page'[z].at = page[z].at
  BY <1>0, <1>4
<1>6. call' \in [Calls -> Call] /\ WaitersOK'
  BY <1>1, <1>5, WaitersKept
<1>7. {y.shown, y.refresh, y.leaving} \subseteq Names(x) \cup {n, NoToken}
  BY <1>4 DEF Names
<1>8. store' \in {store, n, NoToken} /\ broken' \in BOOLEAN
  BY <1>0, <1>1, <1>4
<1>9. (n = NoToken \/ Issued(n)) /\ UNCHANGED <<stale, asked>>
  BY <1>1, <1>3
<1> PICK r \in {R(x), L(x), O(x)} : r = L(x)
  OBVIOUS
<1>10. Respond(r) /\ y.refresh = page[x].refresh /\ y.leaving = page[x].leaving
  BY <1>1, <1>4
<1> QED
  BY <1>4, <1>6, <1>7, <1>8, <1>9, <1>10, AnswerStep

LEMMA LogoutAnsweredInv ==
    ASSUME WebInv, NEW x \in Pages, LogoutAnswered(x)
    PROVE  WebInv'
<1>0. /\ page \in [Pages -> Page] /\ page[x] \in Page /\ store \in Sessions /\ broken \in BOOLEAN
      /\ NoToken \in Sessions
  BY PageFacts
<1>1. /\ Respond(O(x)) /\ UNCHANGED <<stale, call, asked, broken>>
      /\ SetSession(x, NoToken, [page[x] EXCEPT !.leaving = NoToken])
  BY DEF LogoutAnswered
<1> DEFINE y == [page[x] EXCEPT !.leaving = NoToken, !.shown = NoToken]
<1>2. /\ y \in Page /\ y.refresh = page[x].refresh /\ y.signing = page[x].signing
      /\ y.shown = NoToken /\ y.leaving = NoToken /\ y.at = page[x].at
  BY <1>0 DEF Page
<1>3. page' = [page EXCEPT ![x] = y] /\ store' = NoToken
  BY <1>0, <1>1 DEF SetSession, Page
<1> HIDE DEF y
<1>4. \A z \in Pages : page'[z].refresh = page[z].refresh /\ page'[z].at = page[z].at
  BY <1>0, <1>2, <1>3
<1>5. call' \in [Calls -> Call] /\ WaitersOK'
  BY <1>1, <1>4, WaitersKept
<1> PICK n : n = NoToken
  OBVIOUS
<1>6. {y.shown, y.refresh, y.leaving} \subseteq Names(x) \cup {n, NoToken}
  BY <1>2 DEF Names
<1> QED
  BY <1>0, <1>1, <1>2, <1>3, <1>5, <1>6, AnswerStep

-----------------------------------------------------------------------------
(* Types *)

LEMMA InitWebInv == WebInit => WebInv
<1> SUFFICES ASSUME WebInit PROVE WebInv
  OBVIOUS
<1>1. TypeInv
  BY InitTypeInv DEF WebInit
<1>2. /\ page = [x \in Pages |-> NewPage]
      /\ call = [c \in Calls |-> NoCall] /\ asked = [x \in Pages |-> {}]
      /\ store = NoToken /\ stale = {} /\ broken = FALSE
      /\ users = [u \in Users |-> NoUser] /\ req = [r \in Requests |-> Idle]
  BY DEF WebInit, Init
<1>3. WebTypeOK
  BY <1>1, <1>2 DEF WebTypeOK, TypeInv, Sessions, Page, NewPage, Call, NoCall
<1>4. NamesOK /\ RowsActive
  BY <1>2 DEF NamesOK, Names, RowsActive, Idle, NewPage
<1>5. RequestsOK
  BY <1>2, Kinds DEF RequestsOK, RefreshOK, LoginOK, LogoutOK, Idle
<1> QED
  BY <1>1, <1>3, <1>4, <1>5 DEF WebInv

LEMMA NextWebInv == WebInv /\ [WebNext]_webVars => WebInv'
<1> SUFFICES ASSUME WebInv, [WebNext]_webVars PROVE WebInv'
  OBVIOUS
<1>1. ASSUME NEW c \in Calls, SendCall(c) \/ CallStep(c) PROVE WebInv'
  BY <1>1, SendCallInv, CallSucceedsInv, CallRefusedInv DEF CallStep
<1>2. ASSUME NEW x \in Pages, RefreshArrives(x) \/ RefreshAnswered(x) \/ RefreshAnswerLost(x)
      PROVE  WebInv'
  BY <1>2, RefreshArrivesInv, RefreshAnsweredInv
<1>3. ASSUME NEW x \in Pages, Load(x) \/ Leave(x) \/ SubmitSignIn(x) \/ SignInAnswered(x)
      PROVE  WebInv'
  BY <1>3, LoadInv, SubmitSignInInv, SignInAnsweredInv
<1>4. ASSUME NEW x \in Pages, SignOut(x) \/ LogoutArrives(x) \/ LogoutAnswered(x) PROVE WebInv'
  BY <1>4, SignOutInv, LogoutArrivesInv, LogoutAnsweredInv
<1>5. ASSUME NEW r \in Requests, ServeRequest(r) \/ FailRequest(r) PROVE WebInv'
  BY <1>5, ServeInv, FailInv
<1>6. ASSUME NEW t \in Tokens, ExpireAccess(t) \/ ExpireRefresh(t) PROVE WebInv'
  BY <1>6, ExpireAccessInv, ExpireEffect
<1>7. CASE UNCHANGED webVars
  <2>1. WebTypeOK' /\ TypeInv'
    BY <1>7 DEF webVars, WebInv, WebTypeOK, TypeInv, TypeOK, SessionsOK, LocalsOK, Open
  <2>2. NamesOK' /\ RowsActive' /\ RequestsOK'
    BY <1>7 DEF webVars, WebInv, NamesOK, Names, Issued, RowsActive, RequestsOK, RefreshOK,
       LoginOK, LogoutOK
  <2> QED
    BY <2>1, <2>2 DEF WebInv
<1> QED
  BY <1>1, <1>2, <1>3, <1>4, <1>5, <1>6, <1>7 DEF WebNext

LEMMA WebCorrect == WebSpec => []WebInv
BY InitWebInv, NextWebInv, PTL DEF WebSpec

\* A call waits only while its page is open and a refresh of it is under way that
\* will wake it, and no page ever stores or sends a token the server has not issued:
\* whatever is loaded, left or lost.
THEOREM WebTypesOK == WebSpec => []WebTypeOK
<1>1. WebInv => WebTypeOK
  BY DEF WebInv
<1> QED
  BY <1>1, WebCorrect, PTL

-----------------------------------------------------------------------------
(* The flow of tokens between server, store and tabs *)

\* Nobody writes the store but who owns it: no page stores the session of its last
\* render, or there is one tab only.
OneWriter == Saving = {} \/ \A x, y \in Pages : TabOf[x] = TabOf[y]

\* A tab shows one page at a time, and a page that is not loaded has sent nothing.
PagesOK ==
    /\ \A x, y \in Pages : Open(x) /\ Open(y) /\ TabOf[x] = TabOf[y] => x = y
    /\ \A x \in Pages : page[x].at = "new" =>
                            page[x].refresh = NoToken /\ page[x].leaving = NoToken

\* r carries t to the browser.
InFlight(r, t) == t \in Tokens /\ req[r].pc = "served" /\ req[r].token = t

ShownIsStored == Saving # {} => \A x \in Pages : Open(x) => page[x].shown = store

\* A token on its way to a page is known to nobody else, and has not been used.
FreshOK ==
    \A r \in Requests, t \in Tokens : InFlight(r, t) =>
        /\ tokens[t].status # "revoked"
        /\ \A x \in Pages : t \notin Names(x)
        /\ \A q \in Requests : InFlight(q, t) => q = r

AskedOnce == \A x \in Pages : store \in asked[x] => page[x].refresh = store

StoredOK ==
    store # NoToken /\ tokens[store].status = "revoked" =>
        \E x \in Pages : store \in {page[x].refresh, page[x].leaving}

Flow == PagesOK /\ ShownIsStored /\ FreshOK /\ AskedOnce /\ StoredOK

\* What a step may do to all this.

Calm == \A r \in Requests, t \in Tokens : InFlight(r, t)' => InFlight(r, t)

Aged(t) ==
    /\ tokens'[t].session = tokens[t].session
    /\ \/ tokens'[t].status = tokens[t].status
       \/ tokens[t].status = "live" /\ tokens'[t].status = "expired"

\* Nothing; sign-out may begin, tokens may expire.
Still ==
    /\ store' = store /\ asked' = asked /\ Calm
    /\ \A t \in Tokens : Aged(t)
    /\ \A x \in Pages :
          /\ page'[x].at = page[x].at
          /\ page'[x].shown = page[x].shown /\ page'[x].refresh = page[x].refresh
          /\ page'[x].leaving = page[x].leaving
             \/ (Open(x) /\ page[x].leaving = NoToken /\ page'[x].leaving = store)

\* Page x is loaded or left.
Moves(x) ==
    /\ UNCHANGED <<store, tokens, req, asked>>
    /\ \A y \in Pages \ {x} : page'[y] = page[y]
    /\ page'[x].refresh = page[x].refresh /\ page'[x].leaving = page[x].leaving
    /\ \/ /\ page[x].at = "new" /\ page'[x].at = "open" /\ page'[x].shown = store
          /\ \A y \in Pages : TabOf[y] = TabOf[x] => ~Open(y)
       \/ Open(x) /\ page'[x].at = "left" /\ page'[x].shown = NoToken

\* Page x sends the stored token to /auth/refresh.
Awaits(x) ==
    /\ UNCHANGED <<store, tokens, req>> /\ store # NoToken
    /\ Open(x) /\ page[x].refresh = NoToken
    /\ page' = [page EXCEPT ![x].refresh = store]
    /\ asked' = [asked EXCEPT ![x] = @ \cup {store}]

\* Page x stores t, which it has been sent, or drops the session.
Settles(x, t) ==
    /\ store' = t /\ asked' = asked /\ tokens' = tokens /\ Calm
    /\ t # NoToken =>
          /\ \E r \in Requests :
                InFlight(r, t) /\ ~InFlight(r, t)' /\ (r = L(x) \/ page'[x].refresh = NoToken)
          /\ page[x].signing \/ page[x].refresh # NoToken
    /\ t = NoToken =>
          \/ store = NoToken \/ broken' \/ page[x].leaving # NoToken
          \/ page[x].refresh # NoToken /\ req[R(x)].pc = "failed"
    /\ Open(x) /\ page'[x].at = page[x].at /\ page'[x].shown = t
    /\ page'[x].refresh \in {page[x].refresh, NoToken}
    /\ page'[x].leaving = page[x].leaving \/ (page'[x].leaving = NoToken /\ t = NoToken)
    /\ \A y \in Pages \ {x} : page'[y] = page[y]

\* The server revokes a token that a page has sent to it.
Revokes(t) ==
    /\ UNCHANGED <<store, page, asked>> /\ Calm
    /\ \E x \in Pages : \/ t = page[x].leaving
                        \/ t = page[x].refresh /\ req[R(x)].pc = "revoke"
    /\ tokens'[t].session = tokens[t].session
    /\ \A u \in Tokens \ {t} : tokens'[u] = tokens[u]

\* The server issues t to the sender of r, for a new session or the one refreshed.
Issues(r, t) ==
    /\ UNCHANGED <<store, page, asked>>
    /\ \/ tokens'[t].session = t
       \/ \E x \in Pages : /\ r = R(x) /\ page[x].refresh \in Tokens
                           /\ tokens'[t].session = tokens[page[x].refresh].session
    /\ tokens[t].status = "unissued" /\ tokens'[t].status = "live"
    /\ \A u \in Tokens \ {t} : tokens'[u] = tokens[u]
    /\ \A q \in Requests, u \in Tokens : InFlight(q, u)' => InFlight(q, u) \/ (q = r /\ u = t)

FlowStep ==
    \/ Still
    \/ \E x \in Pages : Moves(x) \/ Awaits(x)
    \/ \E x \in Pages, t \in Sessions : Settles(x, t)
    \/ \E t \in Tokens : Revokes(t)
    \/ \E r \in Requests, t \in Tokens : Issues(r, t)

\* A request that is answered, fails or goes on brings no token.
LEMMA CalmStep ==
    ASSUME NEW r \in Requests, Alone(r),
           req'[r].pc # "served" \/ req'[r].token \notin Tokens \/ req'[r] = req[r]
    PROVE  Calm
BY DEF Calm, InFlight, Alone

LEMMA CallFlow ==
    ASSUME WebInv, OneWriter, ShownIsStored, NEW c \in Calls, SendCall(c) \/ CallStep(c)
    PROVE  FlowStep
<1> PICK x \in Pages : x = PageOf[c]
  BY WebAssumption
<1>1. /\ page \in [Pages -> Page] /\ page[x] \in Page
      /\ call[c].pc # "idle" => Open(x)
  BY PageFacts DEF WaitersOK, Open
<1>2. UNCHANGED <<tokens, req>>
  BY DEF SendCall, CallStep, CallSucceeds, CallRefused
<1>3. Calm
  BY <1>2 DEF Calm, InFlight
<1>4. ASSUME UNCHANGED <<store, page, asked>> PROVE Still
  BY <1>2, <1>3, <1>4 DEF Still, Aged
<1>5. CASE SendCall(c)
  BY <1>4, <1>5 DEF SendCall, FlowStep
<1>6. CASE CallSucceeds(c)
  <2>1. CASE c \in Saving /\ SetSession(x, page[x].shown, page[x])
    <3>1. page[x].shown = store
      BY <1>1, <1>6, <2>1 DEF ShownIsStored, CallSucceeds
    <3>2. [page[x] EXCEPT !.shown = page[x].shown] = page[x]
      BY <1>1 DEF Page
    <3>3. store' = store /\ page' = page
      BY <1>1, <2>1, <3>1, <3>2 DEF SetSession
    <3> QED
      BY <1>4, <1>6, <3>3 DEF CallSucceeds, FlowStep
  <2>2. CASE UNCHANGED <<store, page>>
    BY <1>4, <1>6, <2>2 DEF CallSucceeds, FlowStep
  <2> QED
    BY <1>6, <2>1, <2>2 DEF CallSucceeds
<1>7. CASE CallRefused(c)
  <2>1. CASE UNCHANGED <<page, asked>>
    BY <1>4, <1>7, <2>1 DEF CallRefused, FlowStep
  <2>2. CASE store # NoToken /\ page[x].refresh = NoToken /\ AwaitRefresh(c, x)
    <3>1. Awaits(x)
      BY <1>1, <1>2, <1>7, <2>2 DEF Awaits, AwaitRefresh, CallRefused
    <3> QED
      BY <3>1 DEF FlowStep
  <2> QED
    BY <1>7, <2>1, <2>2 DEF CallRefused, AwaitRefresh
<1> QED
  BY <1>5, <1>6, <1>7 DEF CallStep

\* Requests that begin, and steps of the server that give the browser nothing.
LEMMA StillStep ==
    ASSUME UNCHANGED <<store, asked>>, Calm,
           \A t \in Tokens :
              /\ tokens'[t].session = tokens[t].session
              /\ \/ tokens'[t].status = tokens[t].status
                 \/ tokens[t].status = "live" /\ tokens'[t].status = "expired",
           \A x \in Pages :
              /\ page'[x].at = page[x].at
              /\ page'[x].shown = page[x].shown /\ page'[x].refresh = page[x].refresh
              /\ page'[x].leaving = page[x].leaving
                 \/ (Open(x) /\ page[x].leaving = NoToken /\ page'[x].leaving = store)
    PROVE  FlowStep
BY DEF Still, Aged, FlowStep

LEMMA RefreshFlow ==
    ASSUME WebInv, NEW x \in Pages,
           RefreshArrives(x) \/ RefreshAnswered(x) \/ RefreshAnswerLost(x)
    PROVE  FlowStep
<1>1. TypeInv /\ R(x) \in Requests /\ RefreshOK(x) /\ NoToken \notin Tokens /\ page[x] \in Page
  BY PageFacts, Kinds
<1>2. CASE RefreshArrives(x)
  <2>1. page[x].refresh \in Tokens /\ UNCHANGED <<store, page, asked>>
    BY <1>1, <1>2 DEF RefreshArrives, Page, Sessions
  <2>2. /\ UNCHANGED tokens /\ Alone(R(x))
        /\ req'[R(x)].pc = "revoke" \/ Failed(R(x))'
    BY <1>1, <1>2, <2>1, RefreshEffect DEF RefreshArrives
  <2>3. Calm
    BY <1>1, <2>2, CalmStep DEF Failed
  <2> QED
    BY <2>1, <2>2, <2>3, StillStep
<1>3. CASE RefreshAnswered(x) \/ RefreshAnswerLost(x)
  <2>1. Respond(R(x)) /\ asked' = asked /\ Open(x)
    BY <1>3 DEF RefreshAnswered, RefreshAnswerLost
  <2>2. /\ UNCHANGED tokens /\ req[R(x)].pc \in {"served", "failed"}
        /\ req'[R(x)] = Idle /\ Alone(R(x))
    BY <1>1, <2>1, RespondEffect
  <2>3. req[R(x)].token = NoToken \/ InFlight(R(x), req[R(x)].token)
    BY <1>1, <2>2 DEF RefreshOK, Issued, InFlight
  <2>4. PICK t \in Sessions : /\ RefreshEnds(x, t)
                              /\ \/ InFlight(R(x), t)
                                 \/ t = NoToken /\ (broken' \/ req[R(x)].pc = "failed")
    BY <1>1, <1>3, <2>2, <2>3
    DEF RefreshAnswered, RefreshAnswerLost, Sessions, InFlight, RefreshOK, Issued
  <2>5. PICK y \in Page : /\ page' = [page EXCEPT ![x] = y]
                          /\ y.shown = t /\ y.refresh = NoToken /\ y.leaving = page[x].leaving
                          /\ y.at = page[x].at
    BY <2>4, EndsEffect
  <2>6. page'[x] = y /\ (\A z \in Pages \ {x} : page'[z] = page[z]) /\ store' = t
    BY <2>4, <2>5, EndsEffect, PageFacts
  <2>7. Calm /\ page[x].refresh # NoToken /\ \A u \in Tokens : ~InFlight(R(x), u)'
    BY <1>1, <2>2, CalmStep DEF Idle, InFlight, RefreshOK
  <2>8. t # NoToken => \E r \in Requests : InFlight(r, t) /\ ~InFlight(r, t)'
    BY <1>1, <2>4, <2>7 DEF InFlight
  <2>9. Settles(x, t)
    BY <1>1, <2>1, <2>2, <2>4, <2>5, <2>6, <2>7, <2>8 DEF Settles, InFlight
  <2> QED
    BY <2>9 DEF FlowStep
<1> QED
  BY <1>2, <1>3

LEMMA SignInFlow ==
    ASSUME WebInv, NEW x \in Pages, SubmitSignIn(x) \/ SignInAnswered(x)
    PROVE  FlowStep
<1>1. /\ TypeInv /\ L(x) \in Requests /\ LoginOK(x) /\ NoToken \notin Tokens
      /\ page \in [Pages -> Page] /\ page[x] \in Page
  BY PageFacts, Kinds
<1>2. CASE SubmitSignIn(x)
  <2>1. /\ UNCHANGED <<store, asked>> /\ page' = [page EXCEPT ![x].signing = TRUE]
        /\ \E u \in Users : (\E p \in Passwords : Setup(L(x), u, p)) \/ Login(L(x), u)
    BY <1>2 DEF SubmitSignIn
  <2>2. UNCHANGED tokens /\ Alone(L(x)) /\ (Signing(L(x))' \/ Failed(L(x))')
    BY <1>1, <2>1, SetupEffect, LoginEffect
  <2>3. Calm
    BY <1>1, <2>2, CalmStep DEF Failed, Signing
  <2>4. \A z \in Pages : /\ page'[z].shown = page[z].shown /\ page'[z].refresh = page[z].refresh
                         /\ page'[z].leaving = page[z].leaving /\ page'[z].at = page[z].at
    BY <1>1, <2>1 DEF Page
  <2> QED
    BY <2>1, <2>2, <2>3, <2>4, StillStep
<1>3. CASE SignInAnswered(x)
  <2> DEFINE n == req[L(x)].token
  <2>1. Respond(L(x)) /\ asked' = asked /\ page[x].signing /\ Open(x)
    BY <1>3 DEF SignInAnswered
  <2>2. /\ UNCHANGED tokens /\ req[L(x)].pc \in {"served", "failed"}
        /\ req'[L(x)] = Idle /\ Alone(L(x))
    BY <1>1, <2>1, RespondEffect
  <2>3. Calm /\ ~InFlight(L(x), n)'
    BY <1>1, <2>2, CalmStep DEF Idle, InFlight
  <2>4. CASE req[L(x)].pc = "served"
    <3> DEFINE y == [page[x] EXCEPT !.signing = FALSE, !.shown = n]
    <3>1. InFlight(L(x), n) /\ n \in Sessions
      BY <1>1, <2>4 DEF LoginOK, Issued, InFlight, Sessions
    <3>2. /\ y.refresh = page[x].refresh /\ y.leaving = page[x].leaving
          /\ y.shown = n /\ y.at = page[x].at
      BY <1>1 DEF Page
    <3>3. page' = [page EXCEPT ![x] = y] /\ store' = n
      BY <1>1, <1>3, <2>4 DEF SignInAnswered, SetSession, Page
    <3> HIDE DEF y
    <3>4. page'[x] = y /\ \A z \in Pages \ {x} : page'[z] = page[z]
      BY <1>1, <3>3
    <3>5. Settles(x, n)
      BY <1>1, <2>1, <2>2, <2>3, <3>1, <3>2, <3>3, <3>4 DEF Settles, InFlight
    <3> QED
      BY <3>1, <3>5 DEF FlowStep
  <2>5. CASE req[L(x)].pc # "served"
    <3>1. store' = store /\ page' = [page EXCEPT ![x] = [page[x] EXCEPT !.signing = FALSE]]
      BY <1>3, <2>5 DEF SignInAnswered
    <3>2. \A z \in Pages : /\ page'[z].shown = page[z].shown /\ page'[z].refresh = page[z].refresh
                           /\ page'[z].leaving = page[z].leaving /\ page'[z].at = page[z].at
      BY <1>1, <3>1 DEF Page
    <3> QED
      BY <2>1, <2>2, <2>3, <3>1, <3>2, StillStep
  <2> QED
    BY <2>4, <2>5
<1> QED
  BY <1>2, <1>3

LEMMA SignOutFlow ==
    ASSUME WebInv, NEW x \in Pages, SignOut(x) \/ LogoutArrives(x) \/ LogoutAnswered(x)
    PROVE  FlowStep
<1>1. /\ TypeInv /\ O(x) \in Requests /\ LogoutOK(x) /\ NoToken \notin Tokens
      /\ page \in [Pages -> Page] /\ page[x] \in Page /\ NoToken \in Sessions
  BY PageFacts, Kinds
<1>2. CASE SignOut(x)
  <2>1. UNCHANGED <<tokens, req, asked>> /\ page[x].leaving = NoToken /\ Open(x)
    BY <1>2 DEF SignOut
  <2>2. Calm
    BY <2>1 DEF Calm, InFlight
  <2>3. CASE store = NoToken
    <3> DEFINE y == [page[x] EXCEPT !.shown = NoToken]
    <3>1. /\ y.shown = NoToken /\ y.refresh = page[x].refresh /\ y.leaving = page[x].leaving
          /\ y.at = page[x].at
      BY <1>1 DEF Page
    <3>2. page' = [page EXCEPT ![x] = y] /\ store' = NoToken
      BY <1>2, <2>3 DEF SignOut, SetSession
    <3> HIDE DEF y
    <3>3. page'[x] = y /\ \A z \in Pages \ {x} : page'[z] = page[z]
      BY <1>1, <3>2
    <3>4. Settles(x, NoToken)
      BY <2>1, <2>2, <2>3, <3>1, <3>2, <3>3 DEF Settles
    <3> QED
      BY <1>1, <3>4 DEF FlowStep
  <2>4. CASE store # NoToken
    <3>1. store' = store /\ page' = [page EXCEPT ![x].leaving = store]
      BY <1>2, <2>4 DEF SignOut
    <3>2. \A z \in Pages :
             /\ page'[z].shown = page[z].shown /\ page'[z].refresh = page[z].refresh
             /\ page'[z].at = page[z].at
             /\ page'[z].leaving = page[z].leaving
                \/ (Open(z) /\ page[z].leaving = NoToken /\ page'[z].leaving = store)
      BY <1>1, <2>1, <3>1 DEF Page
    <3> QED
      BY <2>1, <2>2, <3>1, <3>2, StillStep
  <2> QED
    BY <2>3, <2>4
<1>3. CASE LogoutArrives(x)
  <2>1. page[x].leaving \in Tokens /\ UNCHANGED <<store, page, asked>>
    BY <1>1, <1>3 DEF LogoutArrives, Page, Sessions
  <2>2. tokens[page[x].leaving].status # "unissued"
    BY <1>1, <2>1 DEF WebInv, NamesOK, Names, Issued
  <2>3. /\ UNCHANGED tokens /\ Alone(O(x))
        /\ req'[O(x)].pc = "revoke" \/ Failed(O(x))'
    BY <1>1, <1>3, <2>1, <2>2, RejectEffect, LogoutEffect DEF LogoutArrives
  <2>4. Calm
    BY <1>1, <2>3, CalmStep DEF Failed
  <2> QED
    BY <2>1, <2>3, <2>4, StillStep
<1>4. CASE LogoutAnswered(x)
  <2>1. /\ Respond(O(x)) /\ asked' = asked /\ Open(x)
        /\ SetSession(x, NoToken, [page[x] EXCEPT !.leaving = NoToken])
    BY <1>4 DEF LogoutAnswered
  <2>2. UNCHANGED tokens /\ req'[O(x)] = Idle /\ Alone(O(x)) /\ page[x].leaving # NoToken
    BY <1>1, <2>1, RespondEffect DEF LogoutOK
  <2>3. Calm
    BY <1>1, <2>2, CalmStep DEF Idle
  <2> DEFINE y == [page[x] EXCEPT !.leaving = NoToken, !.shown = NoToken]
  <2>4. /\ y.refresh = page[x].refresh /\ y.shown = NoToken /\ y.leaving = NoToken
        /\ y.at = page[x].at
    BY <1>1 DEF Page
  <2>5. page' = [page EXCEPT ![x] = y] /\ store' = NoToken
    BY <1>1, <2>1 DEF SetSession, Page
  <2> HIDE DEF y
  <2>6. page'[x] = y /\ \A z \in Pages \ {x} : page'[z] = page[z]
    BY <1>1, <2>5
  <2>7. Settles(x, NoToken)
    BY <2>1, <2>2, <2>3, <2>4, <2>5, <2>6 DEF Settles
  <2> QED
    BY <1>1, <2>7 DEF FlowStep
<1> QED
  BY <1>2, <1>3, <1>4

LEMMA ServeFlow ==
    ASSUME WebInv, NEW r \in Requests, ServeRequest(r)
    PROVE  FlowStep
<1>1. /\ UNCHANGED <<store, page, asked>> /\ TypeInv /\ RowsActive /\ Serve(r)
      /\ NoToken \notin Tokens
  BY AccountsAssumption DEF WebInv, ServeRequest
<1>2. ASSUME UNCHANGED tokens, Alone(r), req'[r].pc # "served"
      PROVE  FlowStep
  BY <1>1, <1>2, CalmStep, StillStep
<1>3. CASE ReadUser(r)
  BY <1>3, Places DEF ReadUser
<1>4. CASE Upsert(r)
  <2>1. UNCHANGED tokens /\ Alone(r) /\ (Failed(r)' \/ req'[r].pc = "issue")
    BY <1>1, <1>4, Places, UpsertEffect DEF Upsert
  <2> QED
    BY <1>2, <2>1 DEF Failed
<1>5. CASE RevokeToken(r)
  <2>1. /\ Alone(r) /\ req[r].pc = "revoke" /\ req[r].token \in Tokens
        /\ \A u \in Tokens : /\ tokens'[u].session = tokens[u].session
                             /\ u # req[r].token => tokens'[u] = tokens[u]
        /\ req'[r].pc = "load" \/ Failed(r)' \/ req'[r].token = NoToken
    BY <1>1, <1>5, RevokeEffect
  <2>2. Calm
    BY <1>1, <2>1, CalmStep DEF Failed
  <2>3. PICK x \in Pages : r \in {R(x), O(x)}
    BY <2>1, Places
  <2>4. \/ req[r].token = page[x].leaving
        \/ req[r].token = page[x].refresh /\ req[R(x)].pc = "revoke"
    BY <2>1, <2>3, PageFacts DEF RefreshOK, LogoutOK
  <2>5. Revokes(req[r].token)
    BY <1>1, <2>1, <2>2, <2>4 DEF Revokes
  <2> QED
    BY <2>1, <2>5 DEF FlowStep
<1>6. CASE LoadTokenUser(r)
  <2>1. UNCHANGED tokens /\ Alone(r) /\ req'[r].pc = "issue"
    BY <1>1, <1>6, LoadEffect
  <2> QED
    BY <1>2, <2>1
<1>7. CASE Issue(r)
  <2>1. PICK t \in Tokens : /\ Alone(r) /\ req'[r].token = t /\ req[r].pc = "issue"
                            /\ tokens[t].status = "unissued" /\ tokens'[t].status = "live"
                            /\ tokens'[t].session = IF req[r].op = "refresh"
                                                    THEN tokens[req[r].token].session ELSE t
                            /\ \A u \in Tokens : u # t => tokens'[u] = tokens[u]
    BY <1>1, <1>7, IssueEffect
  <2>2. \A q \in Requests, u \in Tokens : InFlight(q, u)' => InFlight(q, u) \/ (q = r /\ u = t)
    BY <2>1 DEF InFlight, Alone
  <2>3. PICK x \in Pages : r \in {R(x), L(x)}
    BY <2>1, Places
  <2>4. \/ tokens'[t].session = t
        \/ /\ r = R(x) /\ page[x].refresh \in Tokens
           /\ tokens'[t].session = tokens[page[x].refresh].session
    BY <1>1, <2>1, <2>3, PageFacts DEF RefreshOK, LoginOK, Page, Sessions
  <2>5. Issues(r, t)
    BY <1>1, <2>1, <2>2, <2>4 DEF Issues
  <2> QED
    BY <2>5 DEF FlowStep
<1> QED
  BY <1>1, <1>3, <1>4, <1>5, <1>6, <1>7 DEF Serve

LEMMA FlowSteps ==
    ASSUME WebInv, OneWriter, ShownIsStored, [WebNext]_webVars
    PROVE  FlowStep
<1>1. ASSUME NEW r \in Requests, FailRequest(r) PROVE FlowStep
  <2>1. Failed(r)' /\ Alone(r) /\ UNCHANGED <<tokens, store, page, asked>> /\ NoToken \notin Tokens
    BY <1>1, FailInv, AccountsAssumption DEF FailRequest
  <2>2. Calm
    BY <2>1, CalmStep DEF Failed
  <2> QED
    BY <2>1, <2>2, StillStep
<1>2. ASSUME NEW t \in Tokens, ExpireAccess(t) PROVE FlowStep
  <2>1. UNCHANGED <<tokens, req, store, page, asked>>
    BY <1>2 DEF ExpireAccess
  <2> QED
    BY <2>1, StillStep DEF Calm, InFlight
<1>3. ASSUME NEW t \in Tokens, ExpireRefresh(t) PROVE FlowStep
  <2>1. UNCHANGED <<req, store, page, asked>>
    BY <1>3 DEF ExpireRefresh, ExpireToken
  <2> QED
    BY <1>3, <2>1, ExpireEffect, StillStep DEF Calm, InFlight
<1>4. CASE UNCHANGED webVars
  <2>1. UNCHANGED <<tokens, req, store, page, asked>>
    BY <1>4 DEF webVars
  <2> QED
    BY <2>1, StillStep DEF Calm, InFlight
<1>5. ASSUME NEW x \in Pages, Load(x) \/ Leave(x) PROVE FlowStep
  <2>1. page \in [Pages -> Page] /\ page[x] \in Page
    BY PageFacts
  <2>2. Moves(x)
    BY <1>5, <2>1 DEF Load, Leave, Moves, Open, Page
  <2> QED
    BY <2>2 DEF FlowStep
<1> QED
  BY <1>1, <1>2, <1>3, <1>4, <1>5, CallFlow, RefreshFlow, SignInFlow, SignOutFlow, ServeFlow
  DEF WebNext

-----------------------------------------------------------------------------
(* The flow is kept *)

LEMMA InFlightIssued ==
    ASSUME WebInv, NEW r \in Requests, NEW t, InFlight(r, t)
    PROVE  tokens[t].status # "unissued"
<1>1. PICK x \in Pages : r \in {R(x), L(x), O(x)}
  BY Kinds
<1> QED
  BY <1>1, PageFacts DEF InFlight, RefreshOK, LoginOK, LogoutOK, Issued

LEMMA FreshKept ==
    ASSUME FreshOK, Calm, \A t \in Tokens : tokens'[t].status = "revoked" =>
                             tokens[t].status = "revoked" \/ \E x \in Pages : t \in Names(x),
           \A x \in Pages, t \in Tokens :
              t \in Names(x)' => (\E y \in Pages : t \in Names(y))
                                 \/ \A r \in Requests : ~InFlight(r, t)'
    PROVE  FreshOK'
<1> SUFFICES ASSUME NEW r \in Requests, NEW t \in Tokens, InFlight(r, t)'
             PROVE  /\ tokens'[t].status # "revoked"
                    /\ \A x \in Pages : t \notin Names(x)'
                    /\ \A q \in Requests : InFlight(q, t)' => q = r
  BY DEF FreshOK
<1>1. /\ tokens[t].status # "revoked" /\ \A x \in Pages : t \notin Names(x)
      /\ \A q \in Requests : InFlight(q, t) => q = r
  BY DEF FreshOK, Calm
<1> QED
  BY <1>1 DEF Calm

LEMMA StillKept ==
    ASSUME WebInv, Flow, Still
    PROVE  Flow'
<1>1. FreshOK'
  <2>1. \A x \in Pages : Names(x)' \subseteq Names(x)
    BY DEF Still, Names
  <2> QED
    BY <2>1, FreshKept DEF Flow, Still, Aged
<1>2. AskedOnce' /\ ShownIsStored' /\ PagesOK'
  BY DEF Still, Flow, AskedOnce, ShownIsStored, PagesOK, Open
<1>3. StoredOK'
  <2> SUFFICES ASSUME store # NoToken, tokens'[store].status = "revoked"
               PROVE  \E x \in Pages : store \in {page'[x].refresh, page'[x].leaving}
    BY DEF StoredOK, Still
  <2>1. store \in Tokens
    BY DEF WebInv, WebTypeOK, Sessions
  <2>2. PICK x \in Pages : store \in {page[x].refresh, page[x].leaving}
    BY <2>1 DEF Flow, StoredOK, Still, Aged
  <2> QED
    BY <2>2 DEF Still
<1> QED
  BY <1>1, <1>2, <1>3 DEF Flow

LEMMA MovesKept ==
    ASSUME WebInv, Flow, NEW x \in Pages, Moves(x)
    PROVE  Flow'
<1>1. /\ UNCHANGED <<store, tokens, req, asked>>
      /\ \A y \in Pages : /\ y # x => page'[y] = page[y]
                          /\ page'[y].refresh = page[y].refresh
                          /\ page'[y].leaving = page[y].leaving
      /\ page'[x].shown \in {store, NoToken} /\ NoToken \notin Tokens
  BY PageFacts DEF Moves
<1>2. FreshOK'
  <2>1. \A y \in Pages : Names(y)' \subseteq Names(y) \cup {NoToken}
    <3> SUFFICES ASSUME NEW y \in Pages PROVE Names(y)' \subseteq Names(y) \cup {NoToken}
      OBVIOUS
    <3>1. page'[y].shown \in {page[y].shown, store, NoToken}
      BY <1>1
    <3> QED
      BY <1>1, <3>1 DEF Names
  <2> QED
    BY <1>1, <2>1, FreshKept DEF Flow, Calm, InFlight
<1>3. AskedOnce' /\ StoredOK'
  BY <1>1 DEF Flow, AskedOnce, StoredOK
<1>4. CASE page'[x].at = "open"
  <2>1. /\ page[x].at = "new" /\ page'[x].shown = store
        /\ \A y \in Pages : TabOf[y] = TabOf[x] => ~Open(y)
    BY <1>4 DEF Moves
  <2>2. \A y \in Pages : Open(y)' => y = x \/ (Open(y) /\ page'[y] = page[y])
    BY <1>1 DEF Open
  <2>3. PagesOK'
    BY <1>1, <1>4, <2>1, <2>2 DEF Flow, PagesOK, Open
  <2>4. ShownIsStored'
    BY <1>1, <2>1, <2>2 DEF Flow, ShownIsStored
  <2> QED
    BY <1>2, <1>3, <2>3, <2>4 DEF Flow
<1>5. CASE page'[x].at = "left"
  <2>1. \A y \in Pages : Open(y)' => Open(y) /\ page'[y] = page[y]
    BY <1>1, <1>5 DEF Open
  <2>2. PagesOK'
    BY <1>1, <1>5, <2>1 DEF Flow, PagesOK
  <2>3. ShownIsStored'
    BY <1>1, <2>1 DEF Flow, ShownIsStored
  <2> QED
    BY <1>2, <1>3, <2>2, <2>3 DEF Flow
<1> QED
  BY <1>4, <1>5 DEF Moves

LEMMA AwaitsKept ==
    ASSUME WebInv, Flow, NEW x \in Pages, Awaits(x)
    PROVE  Flow'
<1>0. page \in [Pages -> Page] /\ page[x] \in Page /\ asked \in [Pages -> SUBSET Tokens]
  BY PageFacts
<1>1. /\ UNCHANGED <<store, tokens, req>> /\ store # NoToken /\ page[x].refresh = NoToken
      /\ \A y \in Pages : page'[y].shown = page[y].shown /\ page'[y].leaving = page[y].leaving
      /\ \A y \in Pages : y # x => page'[y].refresh = page[y].refresh /\ asked'[y] = asked[y]
      /\ page'[x].refresh = store /\ asked'[x] = asked[x] \cup {store} /\ Open(x)
      /\ \A y \in Pages : page'[y].at = page[y].at
  BY <1>0 DEF Awaits, Page
<1>2. FreshOK'
  <2>1. \A y \in Pages : Names(y)' \subseteq Names(y)
    BY <1>1 DEF Names
  <2> QED
    BY <1>1, <2>1, FreshKept DEF Flow, Calm, InFlight
<1>3. AskedOnce' /\ ShownIsStored' /\ StoredOK' /\ PagesOK'
  BY <1>1 DEF Flow, AskedOnce, ShownIsStored, StoredOK, PagesOK, Open
<1> QED
  BY <1>2, <1>3 DEF Flow

LEMMA SettlesKept ==
    ASSUME WebInv, OneWriter, Flow, NEW x \in Pages, NEW t \in Sessions, Settles(x, t)
    PROVE  Flow'
<1>0. NoToken \notin Tokens /\ asked \in [Pages -> SUBSET Tokens]
  BY PageFacts
<1>1. /\ store' = t /\ asked' = asked /\ tokens' = tokens /\ Calm
      /\ page'[x].shown = t /\ page'[x].refresh \in {page[x].refresh, NoToken}
      /\ page'[x].leaving \in {page[x].leaving, NoToken}
      /\ \A y \in Pages : y # x => page'[y] = page[y]
      /\ Open(x) /\ \A y \in Pages : page'[y].at = page[y].at
  BY DEF Settles
<1>2. t # NoToken => /\ t \in Tokens /\ tokens[t].status # "revoked"
                     /\ \A y \in Pages : t \notin Names(y)
                     /\ \A q \in Requests : ~InFlight(q, t)'
  <2> SUFFICES ASSUME t # NoToken
               PROVE  /\ t \in Tokens /\ tokens[t].status # "revoked"
                      /\ \A y \in Pages : t \notin Names(y)
                      /\ \A q \in Requests : ~InFlight(q, t)'
    OBVIOUS
  <2>1. t \in Tokens
    BY DEF Sessions
  <2>2. \E r \in Requests : InFlight(r, t) /\ ~InFlight(r, t)'
    BY DEF Settles
  <2> QED
    BY <1>1, <2>1, <2>2 DEF Flow, FreshOK, Calm
<1>3. FreshOK'
  <2>1. \A y \in Pages : Names(y)' \subseteq Names(y) \cup {t, NoToken}
    <3> SUFFICES ASSUME NEW y \in Pages PROVE Names(y)' \subseteq Names(y) \cup {t, NoToken}
      OBVIOUS
    <3>1. CASE y = x
      BY <1>1, <3>1 DEF Names
    <3>2. CASE y # x
      BY <1>1, <3>2 DEF Names
    <3> QED
      BY <3>1, <3>2
  <2> QED
    BY <1>0, <1>1, <1>2, <2>1, FreshKept DEF Flow
<1>4. AskedOnce'
  BY <1>0, <1>1, <1>2 DEF AskedOnce, Names
<1>5. ShownIsStored' /\ PagesOK'
  <2>1. PagesOK'
    BY <1>1 DEF Flow, PagesOK, Open
  <2>2. ASSUME Saving # {}, NEW y \in Pages, Open(y)' PROVE page'[y].shown = store'
    <3>1. Open(y) /\ TabOf[x] = TabOf[y]
      BY <1>1, <2>2 DEF Open, OneWriter
    <3> QED
      BY <1>1, <3>1 DEF Flow, PagesOK
  <2> QED
    BY <2>1, <2>2 DEF ShownIsStored
<1>6. StoredOK'
  BY <1>1, <1>2 DEF StoredOK
<1> QED
  BY <1>3, <1>4, <1>5, <1>6 DEF Flow

LEMMA RevokesKept ==
    ASSUME WebInv, Flow, NEW t \in Tokens, Revokes(t)
    PROVE  Flow'
<1>1. /\ UNCHANGED <<store, page, asked>> /\ Calm
      /\ \E x \in Pages : t \in {page[x].refresh, page[x].leaving}
      /\ \A u \in Tokens : u # t => tokens'[u] = tokens[u]
  BY DEF Revokes
<1>2. FreshOK'
  <2>1. /\ \E x \in Pages : t \in Names(x)
        /\ \A x \in Pages : Names(x)' = Names(x)
    BY <1>1 DEF Names
  <2> QED
    BY <1>1, <2>1, FreshKept DEF Flow
<1>3. AskedOnce' /\ ShownIsStored' /\ PagesOK'
  BY <1>1 DEF Flow, AskedOnce, ShownIsStored, PagesOK, Open
<1>4. StoredOK'
  <2>1. store # NoToken => store \in Tokens
    BY DEF WebInv, WebTypeOK, Sessions
  <2> QED
    BY <1>1, <2>1 DEF Flow, StoredOK
<1> QED
  BY <1>2, <1>3, <1>4 DEF Flow

LEMMA IssuesKept ==
    ASSUME WebInv, Flow, NEW r \in Requests, NEW t \in Tokens, Issues(r, t)
    PROVE  Flow'
<1>0. /\ NoToken \notin Tokens
      /\ store # NoToken => store \in Tokens
  BY AccountsAssumption DEF WebInv, WebTypeOK, Sessions
<1>1. /\ UNCHANGED <<store, page, asked>>
      /\ tokens[t].status = "unissued" /\ tokens'[t].status = "live"
      /\ \A u \in Tokens : u # t => tokens'[u] = tokens[u]
      /\ \A q \in Requests, u \in Tokens : InFlight(q, u)' => InFlight(q, u) \/ (q = r /\ u = t)
  BY DEF Issues
<1>2. /\ \A x \in Pages : Names(x)' = Names(x) /\ t \notin Names(x)
      /\ \A q \in Requests : ~InFlight(q, t)
  BY <1>0, <1>1, InFlightIssued DEF WebInv, NamesOK, Names, Issued
<1>3. FreshOK'
  BY <1>1, <1>2 DEF Flow, FreshOK
<1>4. AskedOnce' /\ ShownIsStored' /\ PagesOK'
  BY <1>1 DEF Flow, AskedOnce, ShownIsStored, PagesOK, Open
<1>5. StoredOK'
  BY <1>0, <1>1 DEF Flow, StoredOK
<1> QED
  BY <1>3, <1>4, <1>5 DEF Flow

LEMMA NextFlow ==
    ASSUME WebInv, OneWriter, Flow, [WebNext]_webVars
    PROVE  Flow'
<1>1. FlowStep
  BY FlowSteps DEF Flow
<1> QED
  BY <1>1, StillKept, MovesKept, AwaitsKept, SettlesKept, RevokesKept, IssuesKept DEF FlowStep

LEMMA InitFlow == WebInit => Flow
<1> SUFFICES ASSUME WebInit PROVE Flow
  OBVIOUS
<1>1. /\ page = [x \in Pages |-> NewPage]
      /\ asked = [x \in Pages |-> {}] /\ store = NoToken
      /\ req = [r \in Requests |-> Idle]
  BY DEF WebInit, Init
<1> QED
  BY <1>1 DEF Flow, PagesOK, Open, NewPage, ShownIsStored, FreshOK, InFlight, Idle, AskedOnce,
              StoredOK

LEMMA FlowCorrect == ASSUME OneWriter PROVE WebSpec => [](WebInv /\ Flow)
<1>1. WebInit => WebInv /\ Flow
  BY InitWebInv, InitFlow
<1>2. WebInv /\ Flow /\ [WebNext]_webVars => (WebInv /\ Flow)'
  BY NextWebInv, NextFlow
<1> QED
  BY <1>1, <1>2, PTL DEF WebSpec

\* Where nothing but a tab's own answers writes the store, what is stored has been
\* rotated away or revoked only while somebody waits for the answer that replaces or
\* drops it, or would have, had the page not been left.
THEOREM StoredIsCurrent == ASSUME OneWriter PROVE WebSpec => []StoredSessionIsCurrent
<1>1. WebInv /\ Flow => StoredSessionIsCurrent
  BY DEF Flow, StoredOK, StoredSessionIsCurrent, Unanswered
<1> QED
  BY <1>1, FlowCorrect, PTL

\* A tab shows no page but x: what another page of it waits for, no answer reaches.
LEMMA OthersLeft ==
    ASSUME WebInv, PagesOK, NEW x \in Pages, Open(x), NEW y \in Pages, y # x,
           TabOf[y] = TabOf[x], NEW t, Unanswered(y, t)
    PROVE  LeftWith(y, t)
<1>1. page[y].at \in {"new", "open", "left"}
  BY PageFacts DEF Page
<1> QED
  BY <1>1 DEF PagesOK, Open, Unanswered, LeftWith

\* Under the same condition a tab sends a refresh token for the second time only if
\* the page that sent it first was left before the answer.
THEOREM NeverAskedTwice == ASSUME OneWriter PROVE WebSpec => NoTokenAskedTwice
<1> DEFINE Once == \A x, y \in Pages :
                      /\ page'[x].refresh \notin {NoToken, page[x].refresh}
                      /\ page'[x].refresh \in asked[y]
                      /\ TabOf[x] = TabOf[y]
                      => LeftWith(y, page'[x].refresh)
<1>1. ASSUME WebInv, Flow, [WebNext]_webVars PROVE Once
  <2> SUFFICES ASSUME NEW x \in Pages, NEW y \in Pages,
                      page'[x].refresh \notin {NoToken, page[x].refresh},
                      page'[x].refresh \in asked[y], TabOf[x] = TabOf[y]
               PROVE  LeftWith(y, page'[x].refresh)
    OBVIOUS
  <2>1. page \in [Pages -> Page]
    BY <1>1, PageFacts
  <2>2. FlowStep
    BY <1>1, FlowSteps DEF Flow
  <2>3. PICK z \in Pages : Awaits(z)
    BY <2>2 DEF FlowStep, Still, Moves, Settles, Revokes, Issues
  <2>4. page'[x].refresh = store /\ page[x].refresh # store /\ store # NoToken /\ Open(x)
    BY <2>1, <2>3 DEF Awaits, Page
  <2>5. page[y].refresh = store
    BY <1>1, <2>4 DEF Flow, AskedOnce
  <2> QED
    BY <1>1, <2>4, <2>5, OthersLeft DEF Flow, Unanswered
<1>2. WebInv /\ Flow /\ [WebNext]_webVars => [Once]_webVars
  BY <1>1
<1> QED
  BY <1>2, FlowCorrect, PTL DEF WebSpec, NoTokenAskedTwice

\* Under the same condition sign-out ends with no session, whatever the server
\* answers, and a session that appears afterwards was asked for.
THEOREM SignOutIsFinal == ASSUME OneWriter PROVE WebSpec => SignOutEndsSession
<1> DEFINE Final ==
      /\ \A x \in Pages : page[x].leaving # NoToken /\ page'[x].leaving = NoToken =>
            store' = NoToken /\ page'[x].shown = NoToken
      /\ store = NoToken /\ store' # NoToken =>
            \E x \in Pages : Open(x) /\ (page[x].signing \/ page[x].refresh # NoToken)
<1>1. ASSUME WebInv, Flow, [WebNext]_webVars PROVE Final
  <2>1. FlowStep
    BY <1>1, FlowSteps DEF Flow
  <2>2. CASE Still \/ \E x \in Pages : Moves(x)
    BY <2>2 DEF Still, Moves
  <2>3. ASSUME NEW x \in Pages, Awaits(x) PROVE Final
    <3>1. page \in [Pages -> Page]
      BY <1>1, PageFacts
    <3>2. store' = store /\ \A y \in Pages : page'[y].leaving = page[y].leaving
      BY <2>3, <3>1 DEF Awaits, Page
    <3> QED
      BY <3>2
  <2>4. ASSUME NEW x \in Pages, NEW t \in Sessions, Settles(x, t) PROVE Final
    BY <2>4 DEF Settles
  <2>5. CASE \E t \in Tokens : Revokes(t) \/ \E r \in Requests : Issues(r, t)
    BY <2>5 DEF Revokes, Issues
  <2> QED
    BY <2>1, <2>2, <2>3, <2>4, <2>5 DEF FlowStep
<1>2. WebInv /\ Flow /\ [WebNext]_webVars => [Final]_webVars
  BY <1>1
<1> QED
  BY <1>2, FlowCorrect, PTL DEF WebSpec, SignOutEndsSession

-----------------------------------------------------------------------------
(* Why a refresh is refused *)

\* A token that signing in brings starts a session of its own.
LoginFresh ==
    \A x \in Pages, t \in Tokens : InFlight(L(x), t) =>
        \A u \in Tokens : tokens[u].session = t <=> u = t

\* The refresh of x is refused, or will be.
Refused(x) ==
    /\ page[x].refresh # NoToken
    /\ \/ req[R(x)].pc = "failed"
       \/ req[R(x)].pc \in {"idle", "revoke"} /\ tokens[page[x].refresh].status = "revoked"

\* Its token has expired.
Lapsed(x) == tokens[page[x].refresh].status = "expired"

\* Another page sent the token too, and was left.
Bereft(x) == \E y \in Pages : LeftWith(y, page[x].refresh)

Reason(x) ==
    \/ broken \/ Lapsed(x) \/ Bereft(x)
    \/ store = NoToken \/ page[x].leaving # NoToken
    \/ tokens[page[x].refresh].session # tokens[store].session

RefusedForAReason == \A x \in Pages : Open(x) /\ Refused(x) => Reason(x)

OneTab == \A x, y \in Pages : TabOf[x] = TabOf[y]

LEMMA LoginFreshKept ==
    ASSUME WebInv, Flow, LoginFresh, FlowStep
    PROVE  LoginFresh'
<1> SUFFICES ASSUME NEW x \in Pages, NEW t \in Tokens, InFlight(L(x), t)'
             PROVE  \A u \in Tokens : tokens'[u].session = t <=> u = t
  BY DEF LoginFresh
<1>1. CASE Calm /\ \A u \in Tokens : tokens'[u].session = tokens[u].session
  <2>1. InFlight(L(x), t)
    BY <1>1, Kinds DEF Calm
  <2> QED
    BY <1>1, <2>1 DEF LoginFresh
<1>2. ASSUME NEW r \in Requests, NEW n \in Tokens, Issues(r, n)
      PROVE  \A u \in Tokens : tokens'[u].session = t <=> u = t
  <2>1. /\ tokens[n].status = "unissued" /\ \A u \in Tokens : u # n => tokens'[u] = tokens[u]
        /\ InFlight(L(x), t) \/ (L(x) = r /\ t = n)
    BY <1>2, Kinds DEF Issues
  <2>2. CASE InFlight(L(x), t)
    <3>1. n # t
      BY <2>1, <2>2, Kinds, InFlightIssued
    <3>2. /\ \A u \in Tokens : tokens[u].session = t <=> u = t
          /\ \A y \in Pages : t \notin Names(y)
      BY <2>2, Kinds DEF LoginFresh, Flow, FreshOK
    <3>3. tokens'[n].session # t
      BY <1>2, <3>1, <3>2 DEF Issues, Names
    <3> QED
      BY <2>1, <3>1, <3>2, <3>3
  <2>3. CASE L(x) = r /\ t = n
    <3>1. tokens'[t].session = t
      BY <1>2, <2>3, Kinds DEF Issues
    <3>2. \A u \in Tokens : tokens[u].session # t
      BY <2>1, <2>3, AccountsAssumption DEF WebInv, TypeInv, SessionsOK, NewToken
    <3> QED
      BY <2>1, <2>3, <3>1, <3>2
  <2> QED
    BY <2>1, <2>2, <2>3
<1>3. CASE Still
  BY <1>1, <1>3 DEF Still, Aged
<1>4. CASE \E y \in Pages : Moves(y) \/ Awaits(y)
  BY <1>1, <1>4 DEF Moves, Awaits, Calm, InFlight
<1>5. CASE \E y \in Pages, n \in Sessions : Settles(y, n)
  BY <1>1, <1>5 DEF Settles
<1>6. CASE \E n \in Tokens : Revokes(n)
  BY <1>1, <1>6 DEF Revokes
<1> QED
  BY <1>2, <1>3, <1>4, <1>5, <1>6 DEF FlowStep

\* Nothing happens to the refresh of x but that its token ages.
LEMMA RefusedBefore ==
    ASSUME NEW x \in Pages, WebInv, Refused(x)', page'[x].refresh = page[x].refresh,
           req'[R(x)].pc = req[R(x)].pc,
           page[x].refresh \in Tokens /\ tokens'[page[x].refresh].status = "revoked" =>
              tokens[page[x].refresh].status = "revoked"
    PROVE  Refused(x)
<1>1. page[x].refresh \in Sessions
  BY PageFacts DEF Page
<1> QED
  BY <1>1 DEF Refused, Sessions

LEMMA RefusedServe ==
    ASSUME WebInv, PagesOK, OneTab, NEW x \in Pages, Open(x),
           NEW r \in Requests, ServeRequest(r), Refused(x)'
    PROVE  Refused(x) \/ page[x].leaving # NoToken \/ Bereft(x)
<1> DEFINE t == page[x].refresh
<1>1. /\ UNCHANGED <<store, page, asked>> /\ TypeInv /\ RowsActive /\ Serve(r)
      /\ RefreshOK(x) /\ R(x) \in Requests /\ t \in Tokens
  BY PageFacts, Kinds DEF WebInv, ServeRequest, Refused, Page, Sessions
<1>2. ASSUME r # R(x), Alone(r), tokens'[t].status = "revoked" => tokens[t].status = "revoked"
      PROVE  Refused(x)
  BY <1>1, <1>2, RefusedBefore DEF Alone
<1>3. CASE ReadUser(r)
  BY <1>3, Places DEF ReadUser
<1>4. CASE Upsert(r)
  <2>1. UNCHANGED tokens /\ Alone(r) /\ r # R(x)
    BY <1>1, <1>4, Places, UpsertEffect DEF Upsert, RefreshOK
  <2> QED
    BY <1>2, <2>1
<1>5. CASE RevokeToken(r)
  <2>1. /\ Alone(r) /\ req[r].pc = "revoke" /\ req[r].token \in Tokens
        /\ \A u \in Tokens : u # req[r].token => tokens'[u] = tokens[u]
        /\ req[r].op = "refresh" => \/ req'[r].pc = "load"
                                    \/ tokens[req[r].token].status = "revoked"
    BY <1>1, <1>5, RevokeEffect
  <2>2. CASE r = R(x)
    <3>1. req[r].op = "refresh" /\ req[r].token = t
      BY <1>1, <2>1, <2>2 DEF RefreshOK
    <3> QED
      BY <1>1, <2>1, <2>2, <3>1 DEF Refused
  <2>3. CASE r # R(x) /\ req[r].token # t
    BY <1>1, <1>2, <2>1, <2>3
  <2>4. CASE r # R(x) /\ req[r].token = t
    <3>1. PICK z \in Pages : r \in {R(z), O(z)}
      BY <2>1, Places
    <3>2. Unanswered(z, t) /\ (z = x => page[x].leaving = t)
      BY <1>1, <2>1, <2>4, <3>1, PageFacts DEF RefreshOK, LogoutOK, Unanswered
    <3>3. CASE z = x
      BY <3>2, <3>3 DEF Unanswered
    <3>4. CASE z # x
      <4>1. LeftWith(z, t)
        BY <3>2, <3>4, OthersLeft DEF OneTab
      <4> QED
        BY <4>1 DEF Bereft
    <3> QED
      BY <3>3, <3>4
  <2> QED
    BY <2>2, <2>3, <2>4
<1>6. CASE LoadTokenUser(r)
  <2>1. UNCHANGED tokens /\ Alone(r) /\ req'[r].pc = "issue"
    BY <1>1, <1>6, LoadEffect
  <2> QED
    BY <1>2, <2>1 DEF Refused
<1>7. CASE Issue(r)
  <2>1. PICK u \in Tokens : /\ Alone(r) /\ req'[r].pc = "served" /\ tokens'[u].status = "live"
                            /\ \A v \in Tokens : v # u => tokens'[v] = tokens[v]
    BY <1>1, <1>7, IssueEffect
  <2> QED
    BY <1>1, <1>2, <2>1 DEF Refused
<1> QED
  BY <1>1, <1>3, <1>4, <1>5, <1>6, <1>7 DEF Serve

LEMMA RefusedStep ==
    ASSUME WebInv, PagesOK, OneTab, NEW x \in Pages, Open(x), [WebNext]_webVars, Refused(x)',
           page'[x].refresh = page[x].refresh
    PROVE  Refused(x) \/ broken' \/ Lapsed(x)' \/ page[x].leaving # NoToken \/ Bereft(x)
<1>1. /\ TypeInv /\ RefreshOK(x) /\ page[x] \in Page /\ R(x) \in Requests
      /\ \A t \in Names(x) \ {NoToken} : Issued(t)
  BY PageFacts, Kinds
<1>2. ASSUME req'[R(x)] = req[R(x)], UNCHANGED tokens PROVE Refused(x)
  BY <1>2, RefusedBefore
<1>3. ASSUME NEW r \in Requests, r # R(x), Alone(r), UNCHANGED tokens PROVE Refused(x)
  BY <1>1, <1>2, <1>3 DEF Alone
<1>4. CASE \/ UNCHANGED webVars
           \/ \E c \in Calls : SendCall(c) \/ CallStep(c)
           \/ \E t \in Tokens : ExpireAccess(t)
           \/ \E y \in Pages : SignOut(y) \/ Load(y) \/ Leave(y)
  BY <1>2, <1>4 DEF webVars, SendCall, CallStep, CallSucceeds, CallRefused, ExpireAccess, SignOut,
     Load, Leave
<1>5. ASSUME NEW y \in Pages, SubmitSignIn(y) \/ SignInAnswered(y) PROVE Refused(x)
  <2>1. L(y) \in Requests /\ L(y) # R(x)
    BY Kinds
  <2>2. UNCHANGED tokens /\ Alone(L(y))
    BY <1>1, <1>5, <2>1, SetupEffect, LoginEffect, RespondEffect DEF SubmitSignIn, SignInAnswered
  <2> QED
    BY <1>3, <2>1, <2>2
<1>6. ASSUME NEW y \in Pages, LogoutArrives(y) \/ LogoutAnswered(y) PROVE Refused(x)
  <2>1. O(y) \in Requests /\ O(y) # R(x)
    BY Kinds
  <2>2. CASE LogoutArrives(y)
    <3>1. page[y].leaving \in Tokens /\ tokens[page[y].leaving].status # "unissued"
      BY <2>2, PageFacts DEF LogoutArrives, Page, Sessions, Names, Issued
    <3>2. UNCHANGED tokens /\ Alone(O(y))
      BY <1>1, <2>1, <2>2, <3>1, RejectEffect, LogoutEffect DEF LogoutArrives
    <3> QED
      BY <1>3, <2>1, <3>2
  <2>3. CASE LogoutAnswered(y)
    <3>1. UNCHANGED tokens /\ Alone(O(y))
      BY <1>1, <2>1, <2>3, RespondEffect DEF LogoutAnswered
    <3> QED
      BY <1>3, <2>1, <3>1
  <2> QED
    BY <1>6, <2>2, <2>3
<1>7. ASSUME NEW y \in Pages, RefreshArrives(y) PROVE Refused(x) \/ Lapsed(x)'
  <2>1. /\ page[y].refresh \in Tokens /\ R(y) \in Requests
        /\ tokens[page[y].refresh].status # "unissued"
    BY <1>7, PageFacts, Kinds DEF RefreshArrives, Page, Sessions, Names, Issued
  <2>2. /\ UNCHANGED tokens /\ Alone(R(y)) /\ req[R(y)].pc = "idle"
        /\ tokens[page[y].refresh].status = "live" => req'[R(y)].pc = "revoke"
    BY <1>1, <1>7, <2>1, RefreshEffect DEF RefreshArrives
  <2>3. tokens[page[y].refresh].status \in {"live", "expired", "revoked"}
    BY <1>1, <2>1 DEF TypeInv, TypeOK, Token
  <2>4. CASE y = x
    BY <2>1, <2>2, <2>3, <2>4 DEF Refused, Lapsed
  <2>5. CASE y # x
    BY <1>3, <2>1, <2>2, <2>5, Kinds
  <2> QED
    BY <2>4, <2>5
<1>8. ASSUME NEW y \in Pages, RefreshAnswered(y) \/ RefreshAnswerLost(y) PROVE Refused(x)
  <2>1. /\ Respond(R(y)) /\ R(y) \in Requests
        /\ \E t \in {req[R(y)].token, NoToken} : RefreshEnds(y, t)
    BY <1>8, Kinds DEF RefreshAnswered, RefreshAnswerLost
  <2>2. /\ req[R(y)].pc # "idle" /\ UNCHANGED tokens /\ Alone(R(y))
    BY <1>1, <2>1, RespondEffect
  <2>3. CASE y = x
    <3>1. page[x].refresh # NoToken
      BY <1>1, <2>2, <2>3 DEF RefreshOK
    <3>2. page'[x].refresh = NoToken
      <4>1. /\ page \in [Pages -> Page]
            /\ \E t : page' = [page EXCEPT ![x] =
                                  [[page[x] EXCEPT !.refresh = NoToken] EXCEPT !.shown = t]]
        BY <2>1, <2>3, PageFacts DEF RefreshEnds, SetSession
      <4> QED
        BY <1>1, <4>1 DEF Page
    <3> QED
      BY <3>1, <3>2
  <2>4. CASE y # x
    BY <1>3, <2>1, <2>2, <2>4, Kinds
  <2> QED
    BY <2>3, <2>4
<1>9. ASSUME NEW r \in Requests, ServeRequest(r) \/ FailRequest(r)
      PROVE  Refused(x) \/ broken' \/ page[x].leaving # NoToken \/ Bereft(x)
  BY <1>9, RefusedServe DEF FailRequest
<1>10. ASSUME NEW t \in Tokens, ExpireRefresh(t) PROVE Refused(x)
  <2>1. req'[R(x)] = req[R(x)]
    BY <1>10 DEF ExpireRefresh, ExpireToken
  <2> QED
    BY <1>10, <2>1, ExpireEffect, RefusedBefore
<1> QED
  BY <1>4, <1>5, <1>6, <1>7, <1>8, <1>9, <1>10 DEF WebNext

LEMMA BrokenKept == ASSUME [WebNext]_webVars, broken PROVE broken'
BY DEF WebNext, webVars, SendCall, CallStep, CallSucceeds, CallRefused, RefreshArrives,
   RefreshAnswered, RefreshAnswerLost, Load, Leave, SubmitSignIn, SignInAnswered, SignOut,
   LogoutArrives, LogoutAnswered, ServeRequest, FailRequest, ExpireAccess, ExpireRefresh

\* Nothing happens any more to a page that was left.
LEMMA LeftKept ==
    ASSUME WebInv, FlowStep, NEW y \in Pages, NEW t, LeftWith(y, t)
    PROVE  LeftWith(y, t)'
<1>1. page \in [Pages -> Page] /\ page[y].at = "left" /\ t # NoToken
  BY PageFacts DEF LeftWith, Unanswered
<1>2. CASE Still
  BY <1>1, <1>2 DEF Still, LeftWith, Unanswered, Open
<1>3. ASSUME NEW x \in Pages, Moves(x) \/ Awaits(x) \/ \E n \in Sessions : Settles(x, n)
      PROVE  LeftWith(y, t)'
  <2>1. page[x].at # "left"
    BY <1>3 DEF Moves, Awaits, Settles, Open
  <2>2. page'[y] = page[y]
    BY <1>1, <1>3, <2>1 DEF Moves, Awaits, Settles
  <2> QED
    BY <2>2 DEF LeftWith, Unanswered
<1>4. CASE \E n \in Tokens : Revokes(n) \/ \E r \in Requests : Issues(r, n)
  BY <1>4 DEF Revokes, Issues, LeftWith, Unanswered
<1> QED
  BY <1>2, <1>3, <1>4 DEF FlowStep

LEMMA ReasonKept ==
    ASSUME WebInv, Flow, LoginFresh, OneTab, NEW x \in Pages, Open(x) /\ Refused(x) => Reason(x),
           [WebNext]_webVars, FlowStep, Open(x)', Refused(x)'
    PROVE  Reason(x)'
<1>0. /\ page \in [Pages -> Page] /\ page[x] \in Page /\ RefreshOK(x) /\ TypeInv
      /\ store # NoToken => store \in Tokens /\ tokens[store].status # "unissued"
      /\ page[x].refresh # NoToken =>
            page[x].refresh \in Tokens /\ tokens[page[x].refresh].status # "unissued"
      /\ PagesOK
  BY PageFacts DEF Names, Issued, Flow
<1>1. Open(x) /\ \A y \in Pages : Open(y) => y = x
  <2>1. Open(x)
    <3>1. ASSUME NEW y \in Pages, Moves(y) PROVE Open(x)
      BY <1>0, <3>1 DEF Moves, PagesOK, Refused, Open
    <3>2. ASSUME NEW y \in Pages, Awaits(y) PROVE Open(x)
      BY <1>0, <3>2 DEF Awaits, Open, Page
    <3> QED
      BY <3>1, <3>2 DEF FlowStep, Still, Settles, Revokes, Issues, Open
  <2> QED
    BY <1>0, <2>1 DEF PagesOK, OneTab
<1>2. ASSUME page'[x].refresh = page[x].refresh
      PROVE  Refused(x) \/ broken' \/ Lapsed(x)' \/ page[x].leaving # NoToken \/ Bereft(x)
  BY <1>0, <1>1, <1>2, RefusedStep
<1>3. /\ broken => broken'
      /\ page'[x].refresh = page[x].refresh /\ Bereft(x) => Bereft(x)'
  BY BrokenKept, LeftKept DEF Bereft
<1>4. CASE Still \/ \E y \in Pages : Moves(y)
  <2>1. /\ store' = store /\ page'[x].refresh = page[x].refresh
        /\ page[x].leaving # NoToken => page'[x].leaving # NoToken
        /\ \A t \in Tokens : Aged(t)
    BY <1>4 DEF Still, Moves, Aged
  <2>2. page[x].refresh # NoToken /\ Lapsed(x) => Lapsed(x)'
    BY <1>0, <2>1 DEF Lapsed, Aged
  <2>3. CASE Refused(x) /\ ~(broken' \/ Lapsed(x)' \/ page[x].leaving # NoToken \/ Bereft(x))
    <3>1. page[x].refresh # NoToken
      BY <2>3 DEF Refused
    <3>2. store = NoToken \/ tokens[page[x].refresh].session # tokens[store].session
      BY <1>1, <1>3, <2>2, <2>3, <3>1 DEF Reason
    <3> QED
      BY <1>0, <2>1, <3>1, <3>2 DEF Reason, Aged
  <2> QED
    BY <1>2, <1>3, <2>1, <2>3 DEF Reason
<1>5. ASSUME NEW y \in Pages, Awaits(y) PROVE Reason(x)'
  <2>1. /\ y = x /\ UNCHANGED <<store, tokens, req>> /\ store # NoToken /\ page[x].refresh = NoToken
        /\ page'[x].refresh = store /\ page'[x].leaving = page[x].leaving
        /\ \A z \in Pages : z # x => page'[z] = page[z]
    BY <1>0, <1>1, <1>5 DEF Awaits, Page
  <2>2. req[R(x)].pc = "idle"
    BY <1>0, <2>1 DEF RefreshOK
  <2>3. tokens[store].status = "revoked"
    BY <2>1, <2>2 DEF Refused
  <2>4. PICK z \in Pages : store \in {page[z].refresh, page[z].leaving}
    BY <2>1, <2>3 DEF Flow, StoredOK
  <2>5. CASE z = x
    BY <2>1, <2>4, <2>5 DEF Reason
  <2>6. CASE z # x
    <3>1. LeftWith(z, store)
      BY <1>0, <1>1, <2>1, <2>4, <2>6, OthersLeft DEF OneTab, Unanswered
    <3>2. LeftWith(z, store)'
      BY <2>1, <2>6, <3>1 DEF LeftWith, Unanswered
    <3> QED
      BY <2>1, <3>2 DEF Reason, Bereft, LeftWith, Unanswered
  <2> QED
    BY <2>5, <2>6
<1>6. ASSUME NEW y \in Pages, NEW t \in Sessions, Settles(y, t) PROVE Reason(x)'
  <2>1. y = x /\ store' = t /\ tokens' = tokens /\ page'[x].refresh = page[x].refresh
    BY <1>1, <1>6 DEF Settles, Refused
  <2>2. CASE t = NoToken
    BY <2>1, <2>2 DEF Reason
  <2>3. CASE t # NoToken
    <3>1. PICK r \in Requests : InFlight(r, t) /\ r = L(x)
      BY <1>6, <2>1, <2>3 DEF Settles, Refused
    <3>2. page[x].refresh \in Tokens /\ t \in Tokens /\ t # page[x].refresh
      BY <1>0, <2>1, <3>1 DEF Refused, Flow, FreshOK, InFlight, Names
    <3>3. tokens[page[x].refresh].session # t /\ tokens[t].session = t
      BY <3>1, <3>2 DEF LoginFresh
    <3> QED
      BY <2>1, <3>3 DEF Reason
  <2> QED
    BY <2>2, <2>3
<1>7. ASSUME NEW t \in Tokens, Revokes(t) PROVE Reason(x)'
  <2>1. /\ UNCHANGED <<store, page>>
        /\ \A u \in Tokens : /\ tokens'[u].session = tokens[u].session
                             /\ u # t => tokens'[u] = tokens[u]
    BY <1>7 DEF Revokes
  <2>2. CASE page[x].leaving # NoToken \/ Bereft(x)
    BY <1>3, <2>1, <2>2 DEF Reason
  <2>3. CASE Refused(x) /\ ~(broken' \/ Lapsed(x)' \/ page[x].leaving # NoToken \/ Bereft(x))
    <3>1. PICK z \in Pages : \/ t = page[z].leaving
                             \/ t = page[z].refresh /\ req[R(z)].pc = "revoke"
      BY <1>7 DEF Revokes
    <3>2. page[x].refresh # NoToken /\ page[x].refresh \in Tokens /\ t # NoToken
      BY <1>0, <2>3, AccountsAssumption DEF Refused
    <3>3. Lapsed(x) => Lapsed(x)'
      <4>1. CASE t = page[x].refresh
        <5>1. z = x
          BY <1>0, <1>1, <2>3, <3>1, <3>2, <4>1, OthersLeft DEF Bereft, Unanswered, OneTab
        <5> QED
          BY <2>3, <3>1, <3>2, <4>1, <5>1 DEF Refused, Lapsed
      <4>2. CASE t # page[x].refresh
        BY <2>1, <3>2, <4>2 DEF Lapsed
      <4> QED
        BY <4>1, <4>2
    <3>4. store = NoToken \/ tokens[page[x].refresh].session # tokens[store].session
      BY <1>1, <1>3, <2>3, <3>3 DEF Reason
    <3> QED
      BY <1>0, <2>1, <3>2, <3>4 DEF Reason
  <2> QED
    BY <1>2, <1>3, <2>1, <2>2, <2>3 DEF Reason
<1>8. ASSUME NEW r \in Requests, NEW t \in Tokens, Issues(r, t) PROVE Reason(x)'
  <2>1. /\ UNCHANGED <<store, page>> /\ tokens[t].status = "unissued"
        /\ \A u \in Tokens : u # t => tokens'[u] = tokens[u]
    BY <1>8 DEF Issues
  <2>2. page[x].refresh # NoToken /\ Lapsed(x) => Lapsed(x)'
    BY <1>0, <2>1 DEF Lapsed
  <2>3. CASE Refused(x) /\ ~(broken' \/ Lapsed(x)' \/ page[x].leaving # NoToken \/ Bereft(x))
    <3>1. page[x].refresh # NoToken
      BY <2>3 DEF Refused
    <3>2. store = NoToken \/ tokens[page[x].refresh].session # tokens[store].session
      BY <1>1, <1>3, <2>2, <2>3, <3>1 DEF Reason
    <3> QED
      BY <1>0, <2>1, <3>1, <3>2 DEF Reason
  <2> QED
    BY <1>2, <1>3, <2>1, <2>3 DEF Reason
<1> QED
  BY <1>4, <1>5, <1>6, <1>7, <1>8 DEF FlowStep

LEMMA ReasonsCorrect ==
    ASSUME OneTab PROVE WebSpec => [](WebInv /\ Flow /\ LoginFresh /\ RefusedForAReason)
<1> DEFINE Inv == WebInv /\ Flow /\ LoginFresh /\ RefusedForAReason
<1>1. OneWriter
  BY DEF OneTab, OneWriter
<1>2. WebInit => Inv
  <2> SUFFICES ASSUME WebInit PROVE LoginFresh /\ RefusedForAReason
    BY InitWebInv, InitFlow
  <2>1. page = [x \in Pages |-> NewPage] /\ req = [r \in Requests |-> Idle]
    BY DEF WebInit, Init
  <2> QED
    BY <2>1, Kinds DEF LoginFresh, InFlight, Idle, RefusedForAReason, Refused, NewPage
<1>3. ASSUME Inv, [WebNext]_webVars PROVE Inv'
  <2>1. FlowStep
    BY <1>1, <1>3, FlowSteps DEF Flow
  <2>2. WebInv' /\ Flow' /\ LoginFresh'
    BY <1>1, <1>3, <2>1, NextWebInv, NextFlow, LoginFreshKept
  <2>3. RefusedForAReason'
    <3> SUFFICES ASSUME NEW x \in Pages, Open(x)', Refused(x)' PROVE Reason(x)'
      BY DEF RefusedForAReason
    <3>1. Open(x) /\ Refused(x) => Reason(x)
      BY <1>3 DEF RefusedForAReason
    <3> QED
      BY <1>3, <2>1, <3>1, ReasonKept
  <2> QED
    BY <2>2, <2>3
<1>4. Inv /\ [WebNext]_webVars => Inv'
  BY <1>3
<1> QED
  BY <1>2, <1>4, PTL DEF WebSpec

\* In one tab, however the calls of a page are refused and whatever order answers
\* come in, the user loses the session only for a reason that lies outside the
\* client, or because a page was left before the answer to what it had sent.
THEOREM SignOutHasAReason == ASSUME OneTab PROVE WebSpec => SignedOutForAReason
<1> DEFINE Because == store # NoToken /\ store' = NoToken =>
      \/ broken'
      \/ \E t \in Tokens : tokens[t].status = "expired"
      \/ \E x \in Pages : Open(x) /\ page[x].leaving # NoToken
      \/ \E x \in Pages :
            /\ Open(x)
            /\ page[x].refresh # NoToken
            /\ \/ tokens[page[x].refresh].session # tokens[store].session
               \/ \E y \in Pages : LeftWith(y, page[x].refresh)
<1>1. ASSUME WebInv, Flow, RefusedForAReason, [WebNext]_webVars PROVE Because
  <2> SUFFICES ASSUME store # NoToken, store' = NoToken PROVE Because
    OBVIOUS
  <2>1. FlowStep /\ (broken => broken')
    BY <1>1, FlowSteps, BrokenKept DEF Flow, OneTab, OneWriter
  <2>2. PICK x \in Pages : Settles(x, NoToken)
    BY <2>1 DEF FlowStep, Still, Moves, Awaits, Settles, Revokes, Issues
  <2>3. /\ Open(x)
        /\ \/ broken' \/ page[x].leaving # NoToken
           \/ page[x].refresh # NoToken /\ req[R(x)].pc = "failed"
    BY <2>2 DEF Settles
  <2>4. page[x].refresh # NoToken /\ req[R(x)].pc = "failed" => Reason(x)
    BY <1>1, <2>3 DEF RefusedForAReason, Refused
  <2>5. page[x].refresh # NoToken => page[x].refresh \in Tokens
    BY <1>1, PageFacts DEF Page, Sessions
  <2>6. page[x].refresh # NoToken /\ Reason(x) => Because
    BY <2>1, <2>3, <2>5 DEF Reason, Lapsed, Bereft
  <2> QED
    BY <2>3, <2>4, <2>6
<1>2. WebInv /\ Flow /\ RefusedForAReason /\ [WebNext]_webVars => [Because]_webVars
  BY <1>1
<1> QED
  BY <1>2, ReasonsCorrect, PTL DEF WebSpec, SignedOutForAReason
====
