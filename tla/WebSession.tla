---- MODULE WebSession ----
(***************************************************************************)
(* The web client's session (apps/web: api/client.ts, AuthProvider.tsx)    *)
(* against the users service: pages whose calls are answered 401 once the  *)
(* access token is out of date share one refresh, while the user signs in  *)
(* and out and reloads.  JavaScript runs to completion between two awaits; *)
(* answers arrive in any order, and never at a page that has been left.    *)
(*                                                                         *)
(* A page is one load of the application in a tab of the browser; loading  *)
(* it anew is leaving the page and loading the next one.  The calls of a   *)
(* page do nothing here but need an access token.                          *)
(***************************************************************************)
EXTENDS Accounts

CONSTANTS
    Pages,      \* loads of the application by one user; localStorage is common to them
    TabOf,      \* TabOf[x]: the tab that loads page x
    Calls,      \* protected calls of the pages
    PageOf,     \* PageOf[c]: the page that makes call c
    Saving,     \* calls after which the page stores its session again (ProfilePage)
    Forms,      \* bound: the sign-in forms and sign-out buttons that are used
    OneMishap   \* bound: whether nothing fails or expires after the first that does

ASSUME WebAssumption ==
    /\ DOMAIN TabOf = Pages
    /\ PageOf \in [Calls -> Pages]
    /\ Saving \subseteq Calls
    /\ Requests = Pages \X {"refresh", "login", "logout"}
    /\ Forms \subseteq Requests
    /\ OneMishap \in BOOLEAN

VARIABLES
    store,  \* the session in localStorage, by its refresh token
    stale,  \* tokens whose access token has expired
    page,   \* state of each page
    call,   \* state of each call
    asked,  \* history: asked[x], the tokens page x has sent to /auth/refresh
    broken  \* history: whether a request or an answer was ever lost

webVars == <<users, tokens, req, store, stale, page, call, asked, broken>>

Sessions == Tokens \cup {NoToken}

\* shown: the session React renders; refresh, leaving: the token sent to
\* /auth/refresh (refreshPromise is pending) and to /auth/logout; signing: the
\* sign-in form is submitted.  A page that was left keeps what it had sent: no
\* browser has that any more, but the server may still be at it.
Page == [at      : {"new", "open", "left"},
         shown   : Sessions,
         refresh : Sessions,
         leaving : Sessions,
         signing : BOOLEAN]

NewPage == [at |-> "new", shown |-> NoToken, refresh |-> NoToken, leaving |-> NoToken,
            signing |-> FALSE]

\* with: the access token it is sent with; again: for the second time.
Call == [pc : {"idle", "sent", "waiting", "again"}, with : Sessions]

NoCall == [pc |-> "idle", with |-> NoToken]

Open(x) == page[x].at = "open"

WebTypeOK ==
    /\ TypeOK
    /\ store \in Sessions
    /\ stale \subseteq Tokens
    /\ page \in [Pages -> Page]
    /\ call \in [Calls -> Call]
    /\ asked \in [Pages -> SUBSET Tokens]
    /\ broken \in BOOLEAN
    \* Calls are of open pages, and who waits for a refresh has one to wait for.
    /\ \A c \in Calls : call[c].pc # "idle" => Open(PageOf[c])
    /\ \A c \in Calls : call[c].pc = "waiting" => page[PageOf[c]].refresh # NoToken

WebInit ==
    /\ Init
    /\ store = NoToken
    /\ stale = {}
    /\ page = [x \in Pages |-> NewPage]
    /\ call = [c \in Calls |-> NoCall]
    /\ asked = [x \in Pages |-> {}]
    /\ broken = FALSE

-----------------------------------------------------------------------------
\* Session store.

\* storeSession and dropSession, together with what else the page records.
SetSession(x, t, changed) ==
    /\ store' = t
    /\ page' = [page EXCEPT ![x] = [changed EXCEPT !.shown = t]]

\* Authenticate accepts the access token signed with t.
Accepted(t) == t # NoToken /\ t \notin stale /\ Authorized(tokens[t].user, "page")

\* Bound: whatever may still need a token, a call that was sent included, gets one.
Affordable ==
    Cardinality({c \in Calls : call[c].pc = "sent"})
    + Cardinality({x \in Pages : page[x].refresh # NoToken /\ req[<<x, "refresh">>].pc = "idle"})
    + Cardinality({r \in Requests : req[r].op \in {"setup", "login", "refresh"}})
        < Cardinality({t \in Tokens : tokens[t].status = "unissued"})

Untroubled == OneMishap => ~broken /\ \A t \in Tokens : tokens[t].status # "expired"

-----------------------------------------------------------------------------
\* Calls of a page.

\* A tab loads the application, which shows what is stored then.
Load(x) ==
    /\ page[x].at = "new"
    /\ \A y \in Pages : TabOf[y] = TabOf[x] => ~Open(y)
    /\ page' = [page EXCEPT ![x].at = "open", ![x].shown = store]
    /\ UNCHANGED <<users, tokens, req, store, stale, call, asked, broken>>

\* Mutant of Leave: the calls of the page stay under way.
LeaveWithCalls(x) ==
    /\ Open(x)
    /\ page' = [page EXCEPT ![x].at = "left", ![x].shown = NoToken]
    /\ UNCHANGED <<users, tokens, req, store, stale, call, asked, broken>>

\* The tab is closed or reloaded, whatever is under way: the page's promises and
\* React state are gone, the requests it has sent are not.
Leave(x) ==
    /\ Open(x)
    /\ page' = [page EXCEPT ![x].at = "left", ![x].shown = NoToken]
    /\ call' = [c \in Calls |-> IF PageOf[c] = x THEN NoCall ELSE call[c]]
    /\ UNCHANGED <<users, tokens, req, store, stale, asked, broken>>

\* headersFor reads the store when the call is sent.
SendCall(c) ==
    /\ call[c].pc = "idle"
    /\ Open(PageOf[c])
    /\ page[PageOf[c]].shown # NoToken
    /\ Affordable
    /\ call' = [call EXCEPT ![c] = [pc |-> "sent", with |-> store]]
    /\ UNCHANGED <<users, tokens, req, store, stale, page, asked, broken>>

\* 200.  ProfilePage then stores the session of its last render with the new user.
CallSucceeds(c) ==
    LET x == PageOf[c] IN
    /\ call[c].pc \in {"sent", "again"}
    /\ Accepted(call[c].with)
    /\ call' = [call EXCEPT ![c] = NoCall]
    /\ IF c \in Saving /\ page[x].shown # NoToken
       THEN SetSession(x, page[x].shown, page[x])
       ELSE UNCHANGED <<store, page>>
    /\ UNCHANGED <<users, tokens, req, stale, asked, broken>>

\* Mutant of AwaitRefresh: it is the call's own token that is sent.
AwaitRefreshOfCall(c, x) ==
    IF page[x].refresh = NoToken
    THEN /\ page' = [page EXCEPT ![x].refresh = call[c].with]
         /\ asked' = [asked EXCEPT ![x] = @ \cup {call[c].with}]
    ELSE UNCHANGED <<page, asked>>

\* refreshPromise ??= ...
AwaitRefresh(c, x) ==
    IF page[x].refresh = NoToken
    THEN /\ page' = [page EXCEPT ![x].refresh = store]
         /\ asked' = [asked EXCEPT ![x] = @ \cup {store}]
    ELSE UNCHANGED <<page, asked>>

\* 401: the first time the call awaits the page's refresh, if there is a session
\* to refresh; otherwise it fails.
CallRefused(c) ==
    LET x == PageOf[c] IN
    /\ call[c].pc \in {"sent", "again"}
    /\ ~Accepted(call[c].with)
    /\ IF call[c].pc = "sent" /\ store # NoToken
       THEN AwaitRefresh(c, x) /\ call' = [call EXCEPT ![c].pc = "waiting"]
       ELSE UNCHANGED <<page, asked>> /\ call' = [call EXCEPT ![c] = NoCall]
    /\ UNCHANGED <<users, tokens, req, store, stale, broken>>

-----------------------------------------------------------------------------
\* Refresh.

R(x) == <<x, "refresh">>

\* The calls that awaited the refresh of x send again with session t, or fail.
Resumed(x, t) ==
    [c \in Calls |-> IF PageOf[c] # x \/ call[c].pc # "waiting" THEN call[c]
                     ELSE IF t = NoToken THEN NoCall
                     ELSE [pc |-> "again", with |-> t]]

\* Mutant of RefreshEnds: only a call that is sent again learns of the outcome.
RefreshEndsSilently(x, t) ==
    /\ SetSession(x, t, [page[x] EXCEPT !.refresh = NoToken])
    /\ call' = IF t = NoToken THEN call ELSE Resumed(x, t)

\* Mutant of RefreshEnds: refreshPromise is not shared, every call that waits has
\* sent the token itself.
RefreshEndsForOne(x, t) ==
    \E c \in {d \in Calls : PageOf[d] = x /\ call[d].pc = "waiting"} :
        /\ call' = [call EXCEPT ![c] = Resumed(x, t)[c]]
        /\ SetSession(x, t, [page[x] EXCEPT !.refresh =
              IF \E d \in Calls \ {c} : call[d].pc = "waiting" THEN @ ELSE NoToken])

\* Mutant of RefreshEnds: the answer is not stored.
RefreshEndsUnstored(x, t) ==
    /\ page' = [page EXCEPT ![x].refresh = NoToken]
    /\ call' = Resumed(x, t)
    /\ UNCHANGED store

\* .then, .catch and .finally: the session is stored, or cleared on any error.
RefreshEnds(x, t) ==
    /\ SetSession(x, t, [page[x] EXCEPT !.refresh = NoToken])
    /\ call' = Resumed(x, t)

RefreshArrives(x) ==
    /\ page[x].refresh # NoToken
    /\ Refresh(R(x), page[x].refresh)
    /\ UNCHANGED <<store, stale, page, call, asked, broken>>

RefreshAnswered(x) ==
    /\ Open(x)
    /\ Respond(R(x))
    /\ RefreshEnds(x, req[R(x)].token)
    /\ UNCHANGED <<stale, asked, broken>>

RefreshAnswerLost(x) ==
    /\ "answer" \in FaultKinds
    /\ Untroubled
    /\ Open(x)
    /\ Respond(R(x))
    /\ RefreshEnds(x, NoToken)
    /\ broken' = TRUE
    /\ UNCHANGED <<stale, asked>>

-----------------------------------------------------------------------------
\* Signing in and out.

L(x) == <<x, "login">>
O(x) == <<x, "logout">>

SubmitSignIn(x) ==
    /\ L(x) \in Forms
    /\ Open(x)
    /\ page[x].shown = NoToken
    /\ ~page[x].signing
    /\ Affordable
    /\ page' = [page EXCEPT ![x].signing = TRUE]
    /\ \E u \in Users : (\E p \in Passwords : Setup(L(x), u, p)) \/ Login(L(x), u)
    /\ UNCHANGED <<store, stale, call, asked, broken>>

SignInAnswered(x) ==
    LET done == [page[x] EXCEPT !.signing = FALSE] IN
    /\ Open(x)
    /\ page[x].signing
    /\ Respond(L(x))
    /\ IF req[L(x)].pc = "served"
       THEN SetSession(x, req[L(x)].token, done)
       ELSE UNCHANGED store /\ page' = [page EXCEPT ![x] = done]
    /\ UNCHANGED <<stale, call, asked, broken>>

\* logout: without a stored session it only drops what is shown.
SignOut(x) ==
    /\ O(x) \in Forms
    /\ Open(x)
    /\ page[x].shown # NoToken
    /\ page[x].leaving = NoToken
    /\ IF store = NoToken
       THEN SetSession(x, NoToken, page[x])
       ELSE UNCHANGED store /\ page' = [page EXCEPT ![x].leaving = store]
    /\ UNCHANGED <<users, tokens, req, stale, call, asked, broken>>

\* The route is protected: an expired access token is refused.
LogoutArrives(x) ==
    LET t == page[x].leaving IN
    /\ t # NoToken
    /\ IF t \in stale
       THEN req[O(x)].pc = "idle" /\ Reject(O(x)) /\ UNCHANGED <<users, tokens>>
       ELSE Logout(O(x), tokens[t].user, t)
    /\ UNCHANGED <<store, stale, page, call, asked, broken>>

\* Mutant of LogoutAnswered: an error leaves the session where it is.
LogoutAnsweredWell(x) ==
    LET done == [page[x] EXCEPT !.leaving = NoToken] IN
    /\ Open(x)
    /\ Respond(O(x))
    /\ IF req[O(x)].pc = "served"
       THEN SetSession(x, NoToken, done)
       ELSE UNCHANGED store /\ page' = [page EXCEPT ![x] = done]
    /\ UNCHANGED <<stale, call, asked, broken>>

\* The answer, whatever it is; finally dropSession.
LogoutAnswered(x) ==
    /\ Open(x)
    /\ Respond(O(x))
    /\ SetSession(x, NoToken, [page[x] EXCEPT !.leaving = NoToken])
    /\ UNCHANGED <<stale, call, asked, broken>>

-----------------------------------------------------------------------------
\* Server and time.

ServeRequest(r) ==
    /\ Serve(r)
    /\ UNCHANGED <<store, stale, page, call, asked, broken>>

FailRequest(r) ==
    /\ Untroubled
    /\ Fail(r)
    /\ broken' = TRUE
    /\ UNCHANGED <<store, stale, page, call, asked>>

\* The access TTL runs out.
ExpireAccess(t) ==
    /\ tokens[t].status # "unissued"
    /\ t \notin stale
    /\ stale' = stale \cup {t}
    /\ UNCHANGED <<users, tokens, req, store, page, call, asked, broken>>

ExpireRefresh(t) ==
    /\ Untroubled
    /\ ExpireToken(t)
    /\ UNCHANGED <<store, stale, page, call, asked, broken>>

CallStep(c) == CallSucceeds(c) \/ CallRefused(c)

WebNext ==
    \/ \E c \in Calls : SendCall(c) \/ CallStep(c)
    \/ \E x \in Pages : RefreshArrives(x) \/ RefreshAnswered(x) \/ RefreshAnswerLost(x)
    \/ \E x \in Pages : Load(x) \/ Leave(x) \/ SubmitSignIn(x) \/ SignInAnswered(x)
    \/ \E x \in Pages : SignOut(x) \/ LogoutArrives(x) \/ LogoutAnswered(x)
    \/ \E r \in Requests : ServeRequest(r) \/ FailRequest(r)
    \/ \E t \in Tokens : ExpireAccess(t) \/ ExpireRefresh(t)

WebSpec == WebInit /\ [][WebNext]_webVars

\* A page that stays open runs its continuations and its refresh reaches the server,
\* which serves it.  No user has to sign in or out or leave a page.
WebFairness ==
    /\ \A c \in Calls : WF_webVars(CallStep(c))
    /\ \A x \in Pages :
          /\ WF_webVars(Open(x) /\ RefreshArrives(x))
          /\ WF_webVars(ServeRequest(R(x)))
          /\ WF_webVars(RefreshAnswered(x))

FairWebSpec == WebSpec /\ WebFairness

-----------------------------------------------------------------------------

\* Page x has sent t, and nothing was made of an answer yet.
Unanswered(x, t) == t # NoToken /\ t \in {page[x].refresh, page[x].leaving}

\* Page x was left before the answer: whatever the server did, the store has not
\* heard of it.
LeftWith(x, t) == page[x].at = "left" /\ Unanswered(x, t)

\* A tab presents a refresh token twice only if it had left the page that presented
\* it first before the answer, however many calls are refused at once and whenever
\* their answers arrive: the second time the token may be revoked already, and then
\* the whole session is cleared with it.
NoTokenAskedTwice ==
    [][\A x, y \in Pages :
          /\ page'[x].refresh \notin {NoToken, page[x].refresh}
          /\ page'[x].refresh \in asked[y]
          /\ TabOf[x] = TabOf[y]
          => LeftWith(y, page'[x].refresh)]_webVars

\* A stored session that has been rotated away or logged out is one whose answer is
\* still due, or was due at a page that has been left.  So as long as no page is left
\* while it waits, the next 401 can be repaired.
StoredSessionIsCurrent ==
    store # NoToken /\ tokens[store].status = "revoked"
        => \E x \in Pages : Unanswered(x, store)

\* The user is signed out only by signing out, because the refresh token has
\* expired, the server or its answer failed, because the refresh of a session
\* signed out earlier is answered only now, or because a page was left before the
\* answer to what it had sent with the same token.  Refusals alone never do it.
SignedOutForAReason ==
    [][store # NoToken /\ store' = NoToken =>
          \/ broken'
          \/ \E t \in Tokens : tokens[t].status = "expired"
          \/ \E x \in Pages : Open(x) /\ page[x].leaving # NoToken
          \/ \E x \in Pages :
                /\ Open(x)
                /\ page[x].refresh # NoToken
                /\ \/ tokens[page[x].refresh].session # tokens[store].session
                   \/ \E y \in Pages : LeftWith(y, page[x].refresh)]_webVars

\* "Local sign-out must complete even if the server cannot revoke the token": the
\* step in which logout ends leaves no session behind, and one that is stored
\* afterwards comes from signing in or from a refresh that had been sent before, by
\* a page that is still there.
SignOutEndsSession ==
    [][/\ \A x \in Pages : page[x].leaving # NoToken /\ page'[x].leaving = NoToken =>
             store' = NoToken /\ page'[x].shown = NoToken
       /\ store = NoToken /\ store' # NoToken =>
             \E x \in Pages : Open(x) /\ (page[x].signing \/ page[x].refresh # NoToken)]_webVars

\* No page waits for ever: a call whose refresh succeeds, fails or is lost ends.
EveryCallEnds == \A c \in Calls : call[c].pc = "waiting" ~> call[c].pc = "idle"
====
