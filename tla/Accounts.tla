---- MODULE Accounts ----
(***************************************************************************)
(* services/users and the authentication in front of it: the users and     *)
(* refresh_tokens tables and the requests that read and write them, one    *)
(* storage call a step.  A users row is always read whole and written back *)
(* whole.                                                                  *)
(*                                                                         *)
(* A user is its email: rows are never deleted and keep their email.  The  *)
(* name and last_login_at of a row are left out.  The access token of a    *)
(* pair is the one signed with its refresh token.                          *)
(***************************************************************************)
EXTENDS FiniteSets, Naturals

CONSTANTS
    Users,          \* emails
    Passwords,
    Tokens,         \* refresh tokens the server may still issue, and issued ones
    Requests,       \* requests being served
    NoUser,         \* no users row; the caller of a public route
    NoToken,
    Updates,        \* arguments of UpdateUser
    NewRoles,       \* roles of created users
    FaultKinds      \* kinds of failure that may happen, any number of times

Roles == {"owner", "admin", "member"}

Row == [role : Roles, active : BOOLEAN, password : Passwords, must : BOOLEAN]

\* revoked is revoked_at; session is a history variable: the first token of the
\* chain of rotations the token belongs to.
Token == [status : {"unissued", "live", "expired", "revoked"},
          user : Users \cup {NoUser}, session : Tokens \cup {NoToken}]

NewToken == [status |-> "unissued", user |-> NoUser, session |-> NoToken]

ASSUME AccountsAssumption ==
    /\ NoUser \notin Users \cup Row
    /\ NoToken \notin Tokens
    /\ Updates \subseteq [role : Roles] \cup [active : BOOLEAN] \cup [role : Roles, active : BOOLEAN]
    /\ NewRoles \subseteq Roles

VARIABLES
    users,      \* users[u]: the row with email u
    tokens,     \* tokens[t]: row of refresh_tokens, and whether it has expired
    req         \* state of each request

vars == <<users, tokens, req>>

\* What UpdateUser and ChangePassword assign to the row they have read; Login
\* assigns nothing the model has.
Changes == Updates \cup [password : Passwords, must : {FALSE}] \cup {<<>>}

Ops == {"setup", "login", "refresh", "logout", "create", "update", "password"}

\* pc is the next call; user the row in question; row what will be written;
\* token the argument, then the result.
Request == [op     : Ops \cup {"none"},
            pc     : {"idle", "read", "upsert", "revoke", "load", "issue", "served", "failed"},
            user   : Users \cup {NoUser},
            change : Changes,
            row    : Row \cup {NoUser},
            token  : Tokens \cup {NoToken}]

Idle == [op |-> "none", pc |-> "idle", user |-> NoUser, change |-> <<>>, row |-> NoUser,
         token |-> NoToken]

\* refresh_tokens.user_id is a foreign key.
TypeOK ==
    /\ users \in [Users -> Row \cup {NoUser}]
    /\ tokens \in [Tokens -> Token]
    /\ \A t \in Tokens : tokens[t].status # "unissued" =>
          tokens[t].user \in Users /\ users[tokens[t].user] # NoUser
    /\ req \in [Requests -> Request]

Init ==
    /\ users = [u \in Users |-> NoUser]
    /\ tokens = [t \in Tokens |-> NewToken]
    /\ req = [r \in Requests |-> Idle]

-----------------------------------------------------------------------------
\* Helpers.

Admin(row) == row # NoUser /\ row.role \in {"owner", "admin"}

\* c has been given an access token; nothing but time ends its validity.
SignedIn(c) == \E t \in Tokens : tokens[t].status # "unissued" /\ tokens[t].user = c

Begin(r, op, pc, user, change, row, token) ==
    req' = [req EXCEPT ![r] = [op |-> op, pc |-> pc, user |-> user, change |-> change,
                               row |-> row, token |-> token]]

Goto(r, pc) == req' = [req EXCEPT ![r].pc = pc]

\* The handler returns, with token t or an error.
Finish(r, pc, t) == req' = [req EXCEPT ![r] = [Idle EXCEPT !.pc = pc, !.token = t]]

Reject(r) == Finish(r, "failed", NoToken)

\* row with the columns of change replaced.
Apply(change, row) ==
    [role     |-> IF "role" \in DOMAIN change THEN change.role ELSE row.role,
     active   |-> IF "active" \in DOMAIN change THEN change.active ELSE row.active,
     password |-> IF "password" \in DOMAIN change THEN change.password ELSE row.password,
     must     |-> IF "must" \in DOMAIN change THEN change.must ELSE row.must]

\* Middleware, Authenticate and IsAdmin: the row of the caller as it is now; a
\* user who must change the password may only do that or log out.
Authorized(c, op) ==
    /\ users[c] # NoUser
    /\ users[c].active
    /\ users[c].must => op \in {"password", "logout"}
    /\ op \in {"update", "create"} => Admin(users[c])

-----------------------------------------------------------------------------
\* The first call of each request.

\* SetupStatus: no owner or admin, active or not; then the row is made.
Setup(r, u, p) ==
    /\ req[r].pc = "idle"
    /\ IF \E v \in Users : Admin(users[v])
       THEN Reject(r)
       ELSE Begin(r, "setup", "upsert", u, <<>>,
                  [role |-> "owner", active |-> TRUE, password |-> p, must |-> FALSE], NoToken)
    /\ UNCHANGED <<users, tokens>>

\* getUserByEmail; the password of the client is right or wrong.
Login(r, u) ==
    /\ req[r].pc = "idle"
    /\ \/ /\ users[u] # NoUser
          /\ users[u].active
          /\ Begin(r, "login", "upsert", u, <<>>, users[u], NoToken)
       \/ Reject(r)
    /\ UNCHANGED <<users, tokens>>

\* GetRefreshToken and the checks of what it returns.
Refresh(r, t) ==
    /\ req[r].pc = "idle"
    /\ IF tokens[t].status = "live"
       THEN Begin(r, "refresh", "revoke", NoUser, <<>>, NoUser, t)
       ELSE Reject(r)
    /\ UNCHANGED <<users, tokens>>

Logout(r, c, t) ==
    /\ req[r].pc = "idle"
    /\ IF Authorized(c, "logout")
       THEN Begin(r, "logout", "revoke", NoUser, <<>>, NoUser, t)
       ELSE Reject(r)
    /\ UNCHANGED <<users, tokens>>

\* A user with a temporary password.
CreateUser(r, c, u, p, role) ==
    /\ req[r].pc = "idle"
    /\ IF Authorized(c, "create")
       THEN Begin(r, "create", "upsert", u, <<>>,
                  [role |-> role, active |-> TRUE, password |-> p, must |-> TRUE], NoToken)
       ELSE Reject(r)
    /\ UNCHANGED <<users, tokens>>

UpdateUser(r, c, u, change) ==
    /\ req[r].pc = "idle"
    /\ IF Authorized(c, "update")
       THEN Begin(r, "update", "read", u, change, NoUser, NoToken)
       ELSE Reject(r)
    /\ UNCHANGED <<users, tokens>>

ChangePassword(r, c, p) ==
    /\ req[r].pc = "idle"
    /\ IF Authorized(c, "password")
       THEN Begin(r, "password", "read", c, [password |-> p, must |-> FALSE], NoUser, NoToken)
       ELSE Reject(r)
    /\ UNCHANGED <<users, tokens>>

-----------------------------------------------------------------------------
\* The other calls.

\* GetUser, for ChangePassword the comparison with the current password (right
\* or wrong), and the assignments to the row that was read.
ReadUser(r) ==
    LET u == users[req[r].user] IN
    /\ req[r].pc = "read"
    /\ \/ /\ u # NoUser
          /\ req' = [req EXCEPT ![r].pc = "upsert", ![r].row = Apply(req[r].change, u)]
       \/ /\ u = NoUser \/ req[r].op = "password"
          /\ Reject(r)
    /\ UNCHANGED <<users, tokens>>

AfterUpsert(r) ==
    IF req[r].op \in {"setup", "login"} THEN Goto(r, "issue") ELSE Finish(r, "served", NoToken)

\* Mutant of Upsert: no users_single_owner_idx.
UpsertUnindexed(r) ==
    /\ req[r].pc = "upsert"
    /\ users' = [users EXCEPT ![req[r].user] = req[r].row]
    /\ AfterUpsert(r)
    /\ UNCHANGED tokens

\* UpsertUser: every column of the row, by email; a second owner violates
\* users_single_owner_idx.
Upsert(r) ==
    /\ req[r].pc = "upsert"
    /\ IF /\ req[r].row.role = "owner"
          /\ \E u \in Users \ {req[r].user} : users[u] # NoUser /\ users[u].role = "owner"
       THEN Reject(r) /\ UNCHANGED users
       ELSE /\ users' = [users EXCEPT ![req[r].user] = req[r].row]
            /\ AfterUpsert(r)
    /\ UNCHANGED tokens

\* was is the status the token had.
AfterRevoke(r, was) ==
    CASE req[r].op = "logout" -> Finish(r, "served", NoToken)
      [] req[r].op = "refresh" /\ was # "revoked" -> Goto(r, "load")
      [] req[r].op = "refresh" /\ was = "revoked" -> Reject(r)

\* Mutant of RevokeToken: the number of updated rows is not looked at.
RevokeUnchecked(r) ==
    /\ req[r].pc = "revoke"
    /\ tokens' = [tokens EXCEPT ![req[r].token].status = "revoked"]
    /\ AfterRevoke(r, "live")
    /\ UNCHANGED users

\* Mutant of RevokeToken: the update is lost.
RevokeNothing(r) ==
    /\ req[r].pc = "revoke"
    /\ AfterRevoke(r, tokens[req[r].token].status)
    /\ UNCHANGED <<users, tokens>>

\* RevokeRefreshToken: UPDATE ... WHERE revoked_at IS NULL.  Refresh refuses a
\* token it did not itself revoke; to Logout it makes no difference.
RevokeToken(r) ==
    LET t == req[r].token IN
    /\ req[r].pc = "revoke"
    /\ tokens' = [tokens EXCEPT ![t].status = "revoked"]
    /\ AfterRevoke(r, tokens[t].status)
    /\ UNCHANGED users

\* Mutant of LoadTokenUser: the row is checked, not kept.
LoadTokenUserOnly(r) ==
    /\ req[r].pc = "load"
    /\ IF users[tokens[req[r].token].user].active THEN Goto(r, "issue") ELSE Reject(r)
    /\ UNCHANGED <<users, tokens>>

\* GetUser of the token's user, who must be active.
LoadTokenUser(r) ==
    LET u == tokens[req[r].token].user IN
    /\ req[r].pc = "load"
    /\ IF users[u].active
       THEN req' = [req EXCEPT ![r].pc = "issue", ![r].user = u]
       ELSE Reject(r)
    /\ UNCHANGED <<users, tokens>>

\* issueTokenPair: InsertRefreshToken.
Issue(r) ==
    /\ req[r].pc = "issue"
    /\ \E t \in Tokens :
          /\ tokens[t].status = "unissued"
          /\ tokens' = [tokens EXCEPT ![t] =
                [status |-> "live", user |-> req[r].user,
                 session |-> IF req[r].op = "refresh" THEN tokens[req[r].token].session ELSE t]]
          /\ Finish(r, "served", t)
    /\ UNCHANGED users

\* The refresh TTL runs out.
ExpireToken(t) ==
    /\ tokens[t].status = "live"
    /\ tokens' = [tokens EXCEPT ![t].status = "expired"]
    /\ UNCHANGED <<users, req>>

\* The call at this place fails, or the client has gone away.
Fail(r) ==
    /\ "request" \in FaultKinds
    /\ req[r].pc \notin {"idle", "served", "failed"}
    /\ Reject(r)
    /\ UNCHANGED <<users, tokens>>

\* The client has its answer.
Respond(r) ==
    /\ req[r].pc \in {"served", "failed"}
    /\ req' = [req EXCEPT ![r] = Idle]
    /\ UNCHANGED <<users, tokens>>

Serve(r) == ReadUser(r) \/ Upsert(r) \/ RevokeToken(r) \/ LoadTokenUser(r) \/ Issue(r)

\* Bound: there is a token for every request under way that issues one, and for
\* one more.
TokensLeft ==
    Cardinality({r \in Requests : req[r].op \in {"setup", "login", "refresh"}})
        < Cardinality({t \in Tokens : tokens[t].status = "unissued"})

\* Public routes.
PublicCall(r) ==
    /\ TokensLeft
    /\ \/ \E u \in Users, p \in Passwords : Setup(r, u, p)
       \/ \E u \in Users : Login(r, u)
       \/ \E t \in Tokens : tokens[t].status # "unissued" /\ Refresh(r, t)

\* Protected routes, called with an access token and the client's own tokens.
ProtectedCall(r) ==
    \E c \in {d \in Users : SignedIn(d)} :
        \/ \E t \in Tokens : tokens[t].user = c /\ Logout(r, c, t)
        \/ \E u \in Users, p \in Passwords, role \in NewRoles : CreateUser(r, c, u, p, role)
        \/ \E u \in Users, change \in Updates : UpdateUser(r, c, u, change)
        \/ \E p \in Passwords : ChangePassword(r, c, p)

Next ==
    \/ \E r \in Requests : PublicCall(r) \/ ProtectedCall(r) \/ Serve(r) \/ Fail(r) \/ Respond(r)
    \/ \E t \in Tokens : ExpireToken(t)

Spec == Init /\ [][Next]_vars

-----------------------------------------------------------------------------

\* Two requests to set up, or one and an administrator promoting somebody, never
\* leave two owners: the list SetupStatus reads is out of date when the row is
\* written, and only the partial index stands between.
OneOwner ==
    \A u, v \in Users :
        Admin(users[u]) /\ Admin(users[v]) /\ users[u].role = "owner" /\ users[v].role = "owner"
            => u = v

\* It has not been revoked: a refresh that has read it can exchange it.
Exchangeable(t) == tokens[t].status \in {"live", "expired"}

\* r has revoked the token of session s and not yet issued the next one.
Rotating(r, s) ==
    req[r].op = "refresh" /\ req[r].pc \in {"load", "issue"} /\ tokens[req[r].token].session = s

\* "token rotation on refresh": of all tokens a login led to, at most one can
\* still be exchanged, and none while a rotation is under way, however many
\* refreshes and logouts present the same token at once.
OneTokenPerSession ==
    /\ \A t, u \in Tokens :
          Exchangeable(t) /\ Exchangeable(u) /\ tokens[t].session = tokens[u].session => t = u
    /\ \A t \in Tokens, r \in Requests : Exchangeable(t) => ~Rotating(r, tokens[t].session)
    /\ \A s \in Tokens, q, r \in Requests : Rotating(q, s) /\ Rotating(r, s) => q = r

\* s has no token left to exchange.
Ended(s) ==
    /\ tokens[s].session = s
    /\ \A t \in Tokens : tokens[t].session = s => tokens[t].status = "revoked"
    /\ \A r \in Requests : ~Rotating(r, s)

\* "logout token revocation": a session that was logged out, or whose rotation
\* failed, is over; no refresh that read its token before gets another one.
EndedSessionsStayEnded == [][\A s \in Tokens : Ended(s) => Ended(s)']_vars
====
