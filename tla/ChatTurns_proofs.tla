---- MODULE ChatTurns_proofs ----
(***************************************************************************)
(* Proofs about ChatTurns, for any number of users, connections,           *)
(* conversations, requests and attempts: whatever is deleted, fails or is  *)
(* rolled back meanwhile, references lead somewhere, and a turn is stored  *)
(* whole, and its messages next to one another.                            *)
(***************************************************************************)
EXTENDS ChatTurns, FiniteSetTheorems, WellFoundedInduction, TLAPS

\* What a request may be doing, by its kind.
PcsOf == [none   |-> {"idle", "done"},
          turn   |-> {"authorize", "generate", "answer", "begin", "user", "retrieval",
                      "assistant", "execution", "commit"},
          create |-> {"authorize", "insert"},
          title  |-> {"source", "reread", "save"},
          delete |-> {"delete"},
          drop   |-> {"drop", "snapshots", "conversations"}]

ArgumentsOK(x) ==
    /\ x.pc \in PcsOf[x.kind]
    /\ x.kind \in {"turn", "title", "delete"} => x.conversation \in Conversations
    /\ x.kind \in {"turn", "title", "create"} => x.user \in Users
    /\ x.kind # "none" => x.connection \in Connections

\* A turn fails only when all attempts are used up.
CallsOK(x) ==
    /\ x.pc \in {"authorize", "generate"} => ~x.executed /\ x.calls < MaxAttempts
    /\ x.pc = "authorize" => x.calls = 0
    /\ x.pc = "answer" => x.executed /\ x.calls \in 1 .. MaxAttempts
    /\ x.kind = "turn" /\ x.pc \notin {"authorize", "generate", "answer"} =>
          /\ x.calls \in 1 .. MaxAttempts + 1
          /\ ~x.executed => x.calls = MaxAttempts
    /\ x.pc = "execution" => x.executed

\* The transaction of a turn is open; it has stored the question.
Began(x) == x.pc \in {"user", "retrieval", "assistant", "execution", "commit"}

Wrote1(x) == x.pc \in {"retrieval", "assistant", "execution", "commit"}

Question(r, x, i) ==
    [id |-> i, conversation |-> x.conversation, role |-> "user", status |-> "completed",
     turn |-> r, at |-> x.at]

Reply(r, x, i) ==
    [id |-> i, conversation |-> x.conversation, role |-> "assistant",
     status |-> IF x.executed THEN "completed" ELSE "failed", turn |-> r, at |-> x.at]

\* What the transaction has stored so far.
WroteOK(r, x) ==
    /\ ~Wrote1(x) => x.wrote = NoRows
    /\ x.pc = "retrieval" => \E i \in Nat :
          x.wrote = [NoRows EXCEPT !.messages = {Question(r, x, i)}]
    /\ x.pc = "assistant" => \E i \in Nat :
          x.wrote = [messages |-> {Question(r, x, i)}, retrievals |-> {i}, calls |-> {},
                     executions |-> {}]
    /\ x.pc \in {"execution", "commit"} => \E i, j \in Nat :
          /\ i < j
          /\ x.wrote = [messages   |-> {Question(r, x, i), Reply(r, x, j)},
                        retrievals |-> {i},
                        calls      |-> {j} \X (1 .. x.calls),
                        executions |-> IF x.pc = "commit" /\ x.executed THEN {j} ELSE {}]

KeepsConversation(x) ==
    Wrote1(x) => [mode |-> "share", row |-> <<"conversation", x.conversation>>] \in x.held

LocalOK(r, x) ==
    /\ x \in Request
    /\ ArgumentsOK(x)
    /\ CallsOK(x)
    /\ WroteOK(r, x)
    /\ KeepsConversation(x)

\* No two requests hold the same row in conflicting modes.
Compatible(x, y) ==
    \A g \in x.held, h \in y.held : g.row = h.row => g.mode = "share" /\ h.mode = "share"

LocksOK ==
    /\ \A r, s \in Requests : r # s => Compatible(req[r], req[s])
    /\ \A r \in Requests : Wrote1(req[r]) => conversations[req[r].conversation] # None

StoreOK ==
    /\ connections \subseteq Connections
    /\ canQuery \subseteq Users \X connections
    /\ conversations \in [Conversations -> Conversation \cup {None}]
    /\ \A c \in Conversations : conversations[c] # None => conversations[c].connection \in connections
    /\ lastId \in [conversation : Nat, message : Nat]
    /\ clock \in Nat

Ids(R) == {m.id : m \in R.messages}

\* The rows that are keyed by a message have it.
Referenced(R) == R.retrievals \cup R.executions \cup {call[1] : call \in R.calls} \subseteq Ids(R)

\* Ids are unique; a transaction stores one question and its reply, in this order.
Distinct(ms) ==
    \A m, n \in ms :
        /\ m.id = n.id => m = n
        /\ m.at = n.at <=> m.turn = n.turn
        /\ m.turn = n.turn /\ m.role = n.role => m = n
        /\ m.turn = n.turn /\ m.role = "user" /\ n.role = "assistant" => m.id < n.id

Whole(m, R) ==
    LET calls == {call \in R.calls : call[1] = m.id}
    IN /\ \E n \in R.messages : /\ n.turn = m.turn
                                /\ n.conversation = m.conversation
                                /\ n.role # m.role
       /\ m.role = "user" => m.id \in R.retrievals
       /\ m.role = "assistant" => /\ calls # {}
                                  /\ m.id \in R.executions <=> m.status = "completed"
                                  /\ m.status = "failed" => Cardinality(calls) = MaxAttempts

RowsOK ==
    /\ rows \in Rows
    /\ Referenced(rows)
    /\ Distinct(rows.messages)
    /\ \A m \in rows.messages : Whole(m, rows)
    /\ \A m \in rows.messages : conversations[m.conversation] # None

\* Ids and times are taken once.
FreshOK ==
    /\ \A m \in rows.messages : /\ m.id <= lastId.message
                                /\ m.at <= clock
                                /\ m.turn \in Requests => req[m.turn].pc = "done"
    /\ \A r \in Requests :
          /\ \A m \in req[r].wrote.messages : /\ m.id <= lastId.message
                                              /\ m.id \notin Ids(rows)
          /\ Began(req[r]) => /\ req[r].at <= clock
                              /\ \A m \in rows.messages : m.at # req[r].at
    /\ \A r, s \in Requests : r # s =>
          /\ \A m \in req[r].wrote.messages, n \in req[s].wrote.messages : m.id # n.id
          /\ Began(req[r]) /\ Began(req[s]) => req[r].at # req[s].at

ChatInv ==
    /\ StoreOK
    /\ \A r \in Requests : LocalOK(r, req[r])
    /\ req \in [Requests -> Request]
    /\ RowsOK
    /\ LocksOK
    /\ FreshOK

-----------------------------------------------------------------------------
\* What each step makes of its request.

Done == [Idle EXCEPT !.pc = "done"]

LEMMA Constants ==
    /\ NoRows \in Rows
    /\ NoRows.messages = {} /\ NoRows.retrievals = {} /\ NoRows.calls = {}
    /\ NoRows.executions = {}
    /\ 0 \in 0 .. MaxAttempts + 1
    /\ {None, Given} \subseteq Title
    /\ {} \in SUBSET Lock
BY ChatTurnsAssumption DEF NoRows, Rows, Title

LEMMA Pcs ==
    /\ PcsOf["none"] = {"idle", "done"}
    /\ PcsOf["turn"] = {"authorize", "generate", "answer", "begin", "user", "retrieval",
                        "assistant", "execution", "commit"}
    /\ PcsOf["create"] = {"authorize", "insert"}
    /\ PcsOf["title"] = {"source", "reread", "save"}
    /\ PcsOf["delete"] = {"delete"}
    /\ PcsOf["drop"] = {"drop", "snapshots", "conversations"}
BY DEF PcsOf

\* The kind of a request follows from what it does.
LEMMA KindOf ==
    ASSUME NEW x \in Request, ArgumentsOK(x)
    PROVE  /\ x.pc \in {"idle", "done"} <=> x.kind = "none"
           /\ x.pc \in {"generate", "answer", "begin", "user", "retrieval", "assistant",
                         "execution", "commit"} => x.kind = "turn"
           /\ x.pc = "authorize" => x.kind \in {"turn", "create"}
           /\ x.pc = "insert" => x.kind = "create"
           /\ x.pc \in {"source", "reread", "save"} => x.kind = "title"
           /\ x.pc = "delete" => x.kind = "delete"
           /\ x.pc \in {"drop", "snapshots", "conversations"} => x.kind = "drop"
<1>1. x.kind \in {"none", "turn", "create", "title", "delete", "drop"} /\ x.pc \in PcsOf[x.kind]
  BY DEF Request, ArgumentsOK
<1> QED
  BY <1>1, Pcs

LEMMA IdleOK == ASSUME NEW r \in Requests PROVE LocalOK(r, Idle) /\ LocalOK(r, Done)
<1>1. Idle \in Request /\ Done \in Request
  BY Constants DEF Idle, Done, Request
<1>2. ArgumentsOK(Idle) /\ ArgumentsOK(Done)
  BY DEF ArgumentsOK, PcsOf, Idle, Done
<1>3. CallsOK(Idle) /\ CallsOK(Done)
  BY DEF CallsOK, Idle, Done
<1>4. /\ WroteOK(r, Idle) /\ KeepsConversation(Idle)
      /\ WroteOK(r, Done) /\ KeepsConversation(Done)
  BY DEF WroteOK, KeepsConversation, Wrote1, Idle, Done
<1> QED
  BY <1>1, <1>2, <1>3, <1>4 DEF LocalOK

\* A request that begins.
LEMMA FirstCallOK ==
    ASSUME NEW r \in Requests, NEW y \in Request,
           y.kind \in {"turn", "title", "delete", "create", "drop"},
           y.pc \in PcsOf[y.kind], y.pc \in {"authorize", "source", "delete", "drop"},
           y.kind \in {"turn", "title", "delete"} => y.conversation \in Conversations,
           y.kind # "drop" => y.user \in Users,
           y.connection \in Connections,
           y.calls = 0, y.executed = FALSE, y.wrote = NoRows
    PROVE  LocalOK(r, y)
<1>1. ArgumentsOK(y)
  BY DEF ArgumentsOK
<1>2. CallsOK(y)
  BY ChatTurnsAssumption DEF CallsOK, PcsOf
<1>3. WroteOK(r, y) /\ KeepsConversation(y)
  BY DEF WroteOK, KeepsConversation, Wrote1
<1> QED
  BY <1>1, <1>2, <1>3 DEF LocalOK

\* A step of r leaves the others alone, and r as LocalOK wants it.
Stepped(r) ==
    /\ req' \in [Requests -> Request]
    /\ LocalOK(r, req'[r])
    /\ \A s \in Requests \ {r} : req'[s] = req[s]

LEMMA Replaced ==
    ASSUME ChatInv, NEW r \in Requests, NEW y, req' = [req EXCEPT ![r] = y], LocalOK(r, y)
    PROVE  Stepped(r) /\ req'[r] = y
<1>1. req \in [Requests -> Request] /\ y \in Request
  BY DEF ChatInv, LocalOK
<1>2. req'[r] = y /\ req' \in [Requests -> Request]
  BY <1>1
<1>3. \A s \in Requests \ {r} : req'[s] = req[s]
  BY <1>1
<1> QED
  BY <1>2, <1>3 DEF Stepped

\* A step that neither writes nor locks anything, nor begins a transaction.
Quiet(r) ==
    /\ Stepped(r)
    /\ req[r].pc = "done" => req'[r].pc = "done"
    /\ ~Began(req'[r])
    /\ req'[r].held \subseteq req[r].held

LEMMA FinishIsQuiet ==
    ASSUME ChatInv, NEW r \in Requests, Finish(r)
    PROVE  Quiet(r)
<1>1. req' = [req EXCEPT ![r] = Done]
  BY DEF Finish, Done
<1>2. Stepped(r) /\ req'[r] = Done
  BY <1>1, IdleOK, Replaced
<1>3. Done.pc = "done" /\ Done.held = {}
  BY DEF Done, Idle
<1> QED
  BY <1>2, <1>3 DEF Quiet, Began

LEMMA OpenIsQuiet ==
    ASSUME ChatInv, NEW r \in Requests, NEW u \in Users, NEW c \in Conversations,
           SendMessage(r, u, c) \/ DeleteConversation(r, u, c) \/ InferConversationTitle(r, u, c)
    PROVE  Quiet(r)
<1>1. ASSUME NEW kind, NEW pc,
             \/ kind = "turn" /\ pc = "authorize"
             \/ kind = "delete" /\ pc = "delete"
             \/ kind = "title" /\ pc = "source",
             Open(r, u, c, kind, pc), Owned(u, c)
      PROVE  Quiet(r)
  <2> DEFINE k == conversations[c].connection
             y == [Idle EXCEPT !.kind = kind, !.pc = pc, !.user = u, !.conversation = c,
                               !.connection = k]
  <2>1. k \in Connections
    BY <1>1 DEF Owned, ChatInv, StoreOK
  <2>2. /\ pc \in PcsOf[kind] /\ pc \in {"authorize", "source", "delete", "drop"}
        /\ kind \in {"turn", "title", "delete"}
    BY <1>1 DEF PcsOf
  <2>3. y \in Request
    BY <2>1, <2>2, Constants DEF Idle, Request, PcsOf
  <2>4. /\ y.kind = kind /\ y.pc = pc /\ y.user = u /\ y.conversation = c /\ y.connection = k
        /\ y.calls = 0 /\ y.executed = FALSE /\ y.wrote = NoRows /\ y.held = {}
    BY DEF Idle
  <2>5. req[r].pc = "idle" /\ req' = [req EXCEPT ![r] = y]
    BY <1>1 DEF Open
  <2> HIDE DEF y
  <2>6. LocalOK(r, y)
    BY <2>1, <2>2, <2>3, <2>4, FirstCallOK
  <2> QED
    BY <2>2, <2>4, <2>5, <2>6, Replaced DEF Quiet, Began
<1>2. ASSUME NEW kind, NEW pc, Open(r, u, c, kind, pc), ~Owned(u, c) PROVE Finish(r)
  BY <1>2 DEF Open
<1> QED
  BY <1>1, <1>2, FinishIsQuiet DEF SendMessage, DeleteConversation, InferConversationTitle

LEMMA CreateIsQuiet ==
    ASSUME ChatInv, NEW r \in Requests, NEW k \in Connections,
           (\E u \in Users : CreateConversation(r, u, k)) \/ DeleteConnection(r, k)
    PROVE  Quiet(r)
<1>1. ASSUME NEW u \in Users, NEW title \in {None, Given},
             req[r].pc = "idle",
             req' = [req EXCEPT ![r] = [Idle EXCEPT !.kind = "create", !.pc = "authorize", !.user = u,
                                           !.connection = k, !.title = title]]
      PROVE  Quiet(r)
  <2> DEFINE y == [Idle EXCEPT !.kind = "create", !.pc = "authorize", !.user = u,
                               !.connection = k, !.title = title]
  <2>1. y \in Request
    BY Constants DEF Idle, Request
  <2>2. /\ y.kind = "create" /\ y.pc = "authorize" /\ y.user = u /\ y.connection = k
        /\ y.calls = 0 /\ y.executed = FALSE /\ y.wrote = NoRows /\ y.held = {}
    BY DEF Idle
  <2>3. req' = [req EXCEPT ![r] = y]
    BY <1>1
  <2> HIDE DEF y
  <2>4. LocalOK(r, y)
    BY <2>1, <2>2, FirstCallOK, Pcs
  <2> QED
    BY <1>1, <2>2, <2>3, <2>4, Replaced DEF Quiet, Began
<1>2. ASSUME req[r].pc = "idle",
             req' = [req EXCEPT ![r] = [Idle EXCEPT !.kind = "drop", !.pc = "drop",
                                                    !.connection = k]]
      PROVE  Quiet(r)
  <2> DEFINE y == [Idle EXCEPT !.kind = "drop", !.pc = "drop", !.connection = k]
  <2>1. y \in Request
    BY Constants DEF Idle, Request
  <2>2. /\ y.kind = "drop" /\ y.pc = "drop" /\ y.connection = k
        /\ y.calls = 0 /\ y.executed = FALSE /\ y.wrote = NoRows /\ y.held = {}
    BY DEF Idle
  <2>3. req' = [req EXCEPT ![r] = y]
    BY <1>2
  <2> HIDE DEF y
  <2>4. LocalOK(r, y)
    BY <2>1, <2>2, FirstCallOK, Pcs
  <2> QED
    BY <1>2, <2>2, <2>3, <2>4, Replaced DEF Quiet, Began
<1> QED
  BY <1>1, <1>2, FinishIsQuiet DEF CreateConversation, DeleteConnection

\* The calls before the transaction of a turn, and those of the inferred title.
Keeps(x, y) ==
    /\ y.kind = x.kind /\ y.user = x.user /\ y.conversation = x.conversation
    /\ y.connection = x.connection /\ y.wrote = x.wrote /\ y.held = x.held

LEMMA CallIsQuiet ==
    ASSUME ChatInv, NEW r \in Requests, NEW y \in Request, req' = [req EXCEPT ![r] = y],
           Keeps(req[r], y), CallsOK(y),
           ~Wrote1(req[r]), req[r].pc # "done",
           y.pc \in {"generate", "insert", "answer", "begin", "reread", "save"},
           y.pc \in PcsOf[y.kind]
    PROVE  Quiet(r)
<1>1. LocalOK(r, req[r])
  BY DEF ChatInv
<1>2. ArgumentsOK(y)
  BY <1>1 DEF ArgumentsOK, LocalOK, Keeps
<1>3. WroteOK(r, y) /\ KeepsConversation(y)
  BY <1>1 DEF WroteOK, KeepsConversation, Wrote1, LocalOK, Keeps
<1>4. LocalOK(r, y)
  BY <1>2, <1>3 DEF LocalOK
<1> QED
  BY <1>4, Replaced DEF Quiet, Began, Keeps

LEMMA CallsAreQuiet ==
    ASSUME ChatInv, NEW r \in Requests,
           Authorize(r) \/ Attempt(r) \/ Answer(r) \/ Source(r) \/ Reread(r)
    PROVE  Quiet(r)
<1> DEFINE x == req[r]
<1>1. /\ LocalOK(r, x) /\ x \in Request /\ ArgumentsOK(x) /\ CallsOK(x)
      /\ MaxAttempts \in Nat \ {0}
      /\ x.kind \in {"none", "turn", "create", "title", "delete", "drop"}
      /\ x.calls \in Nat
  BY ChatTurnsAssumption DEF ChatInv, LocalOK, Request
<1>2. ASSUME NEW pc, Goto(r, pc), ~Wrote1(x), x.pc # "done",
             pc \in {"generate", "insert", "answer", "begin", "reread", "save"},
             pc \in PcsOf[x.kind],
             CallsOK([x EXCEPT !.pc = pc])
      PROVE  Quiet(r)
  <2> DEFINE y == [x EXCEPT !.pc = pc]
  <2>1. y \in Request
    BY <1>1, <1>2 DEF Request
  <2>2. Keeps(x, y) /\ y.pc = pc /\ req' = [req EXCEPT ![r] = y]
    BY <1>1, <1>2 DEF Request, Keeps, Goto
  <2>3. y.pc \in PcsOf[y.kind]
    BY <1>2, <2>2 DEF Keeps
  <2> QED
    BY <1>2, <2>1, <2>2, <2>3, CallIsQuiet
<1>3. CASE Authorize(r)
  <2>1. x.pc = "authorize" /\ ~Wrote1(x)
    BY <1>3 DEF Authorize, Wrote1
  <2>2. CASE Finish(r)
    BY <2>2, FinishIsQuiet
  <2>3. CASE x.kind = "turn" /\ Goto(r, "generate")
    <3>1. CallsOK([x EXCEPT !.pc = "generate"])
      BY <1>1, <2>1 DEF CallsOK, Request
    <3> QED
      BY <1>2, <2>1, <2>3, <3>1, Pcs
  <2>4. CASE x.kind = "create" /\ Goto(r, "insert")
    <3>1. CallsOK([x EXCEPT !.pc = "insert"])
      BY <1>1, <2>1, <2>4 DEF CallsOK, Request
    <3> QED
      BY <1>2, <2>1, <2>4, <3>1, Pcs
  <2>5. x.kind \in {"turn", "create"}
    BY <1>1, <2>1, KindOf
  <2> QED
    BY <1>3, <2>2, <2>3, <2>4, <2>5 DEF Authorize
<1>4. CASE Attempt(r)
  <2>1. /\ x.pc = "generate" /\ ~Wrote1(x) /\ x.kind = "turn" /\ ~x.executed
        /\ x.calls + 1 \in 1 .. MaxAttempts /\ x.calls + 1 \in 0 .. MaxAttempts + 1
    BY <1>1, <1>4, KindOf DEF Attempt, Wrote1, CallsOK
  <2>2. ASSUME NEW next \in {"answer", "begin"},
               req' = [req EXCEPT ![r].calls = @ + 1, ![r].executed = TRUE, ![r].pc = next]
        PROVE  Quiet(r)
    <3> DEFINE n == x.calls + 1
               y == [x EXCEPT !.calls = n, !.executed = TRUE, !.pc = next]
    <3>1. y \in Request
      <4>1. n \in 0 .. MaxAttempts + 1
        BY <2>1
      <4> HIDE DEF n
      <4> QED
        BY <1>1, <4>1 DEF Request
    <3>2. /\ Keeps(x, y) /\ y.pc = next /\ y.calls = x.calls + 1 /\ y.executed
          /\ req' = [req EXCEPT ![r] = y]
      <4>1. req' = [req EXCEPT ![r] = y]
        BY <2>2
      <4> HIDE DEF n
      <4>2. Keeps(x, y) /\ y.pc = next /\ y.calls = n /\ y.executed
        BY <1>1 DEF Request, Keeps
      <4> QED
        BY <4>1, <4>2 DEF n
    <3> HIDE DEF y
    <3>3. CallsOK(y)
      BY <1>1, <2>1, <3>2 DEF CallsOK
    <3>4. y.pc \in {"answer", "begin"} /\ y.pc \in PcsOf[y.kind]
      BY <2>1, <3>2, Pcs DEF Keeps
    <3> QED
      BY <2>1, <3>1, <3>2, <3>3, <3>4, CallIsQuiet
  <2>3. ASSUME NEW next, next = IF x.calls + 1 < MaxAttempts THEN "generate" ELSE "begin",
               req' = [req EXCEPT ![r].calls = @ + 1, ![r].pc = next]
        PROVE  Quiet(r)
    <3> DEFINE n == x.calls + 1
               y == [x EXCEPT !.calls = n, !.pc = next]
    <3>1. y \in Request
      <4>1. n \in 0 .. MaxAttempts + 1 /\ next \in {"generate", "begin"}
        BY <2>1, <2>3
      <4> HIDE DEF n
      <4> QED
        BY <1>1, <4>1 DEF Request
    <3>2. /\ Keeps(x, y) /\ y.pc = next /\ y.calls = x.calls + 1 /\ ~y.executed
          /\ req' = [req EXCEPT ![r] = y]
      BY <1>1, <2>1, <2>3 DEF Request, Keeps
    <3> HIDE DEF y
    <3>3. CallsOK(y)
      BY <1>1, <2>1, <2>3, <3>2 DEF CallsOK
    <3>4. y.pc \in {"generate", "begin"} /\ y.pc \in PcsOf[y.kind]
      BY <2>1, <2>3, <3>2, Pcs DEF Keeps
    <3> QED
      BY <2>1, <3>1, <3>2, <3>3, <3>4, CallIsQuiet
  <2> QED
    BY <1>4, <2>2, <2>3 DEF Attempt
<1>5. CASE Answer(r)
  <2>1. /\ x.pc = "answer" /\ ~Wrote1(x) /\ x.kind = "turn" /\ x.executed
        /\ x.calls \in 1 .. MaxAttempts
    BY <1>1, <1>5, KindOf DEF Answer, Wrote1, CallsOK
  <2>2. PICK answered \in {0, 1} :
           req' = [req EXCEPT ![r].calls = @ + answered, ![r].pc = "begin"]
    BY <1>5 DEF Answer
  <2> DEFINE n == x.calls + answered
             y == [x EXCEPT !.calls = n, !.pc = "begin"]
  <2>3. n \in 0 .. MaxAttempts + 1 /\ n \in 1 .. MaxAttempts + 1
    BY <1>1, <2>1
  <2>4. /\ y \in Request /\ Keeps(x, y) /\ y.pc = "begin" /\ y.calls = n /\ y.executed
        /\ req' = [req EXCEPT ![r] = y]
    <3>1. req' = [req EXCEPT ![r] = y]
      BY <2>2
    <3> HIDE DEF n
    <3>2. y \in Request /\ Keeps(x, y) /\ y.pc = "begin" /\ y.calls = n /\ y.executed
      BY <1>1, <2>1, <2>3 DEF Request, Keeps
    <3> QED
      BY <3>1, <3>2
  <2> HIDE DEF y
  <2>5. CallsOK(y)
    BY <1>1, <2>1, <2>3, <2>4 DEF CallsOK
  <2>6. y.pc \in PcsOf[y.kind]
    BY <2>1, <2>4, Pcs DEF Keeps
  <2> QED
    BY <2>1, <2>4, <2>5, <2>6, CallIsQuiet
<1>6. CASE Source(r)
  <2>1. x.pc = "source" /\ ~Wrote1(x) /\ x.kind = "title"
    BY <1>1, <1>6, KindOf DEF Source, Wrote1
  <2>2. CASE Finish(r)
    BY <2>2, FinishIsQuiet
  <2>3. ASSUME NEW u \in rows.messages, NEW a \in rows.messages,
               req' = [req EXCEPT ![r].pc = "reread",
                          ![r].title = [user |-> u.turn, assistant |-> a.turn]]
        PROVE  Quiet(r)
    <3> DEFINE title == [user |-> u.turn, assistant |-> a.turn]
               y == [x EXCEPT !.pc = "reread", !.title = title]
    <3>1. title \in Title
      BY DEF ChatInv, RowsOK, Rows, Message, Title
    <3>2. y \in Request
      BY <1>1, <3>1 DEF Request
    <3>3. Keeps(x, y) /\ y.pc = "reread" /\ req' = [req EXCEPT ![r] = y]
      <4>1. req' = [req EXCEPT ![r] = y]
        BY <2>3
      <4> HIDE DEF title
      <4>2. Keeps(x, y) /\ y.pc = "reread"
        BY <1>1 DEF Request, Keeps
      <4> QED
        BY <4>1, <4>2
    <3> HIDE DEF y
    <3>4. CallsOK(y)
      BY <2>1, <3>3 DEF CallsOK, Keeps
    <3>5. y.pc \in PcsOf[y.kind]
      BY <2>1, <3>3, Pcs DEF Keeps
    <3> QED
      BY <2>1, <3>2, <3>3, <3>4, <3>5, CallIsQuiet
  <2> QED
    BY <1>6, <2>2, <2>3 DEF Source, FirstOf
<1>7. CASE Reread(r)
  <2>1. x.pc = "reread" /\ ~Wrote1(x) /\ x.kind = "title"
    BY <1>1, <1>7, KindOf DEF Reread, Wrote1
  <2>2. CASE Finish(r)
    BY <2>2, FinishIsQuiet
  <2>3. CASE Goto(r, "save")
    <3>1. CallsOK([x EXCEPT !.pc = "save"])
      BY <1>1, <2>1 DEF CallsOK, Request
    <3> QED
      BY <1>2, <2>1, <2>3, <3>1, Pcs
  <2> QED
    BY <1>7, <2>2, <2>3 DEF Reread
<1> QED
  BY <1>3, <1>4, <1>5, <1>6, <1>7

-----------------------------------------------------------------------------
\* Steps that change no row of a turn.

LEMMA Locals ==
    ASSUME ChatInv, NEW r \in Requests, Stepped(r)
    PROVE  req' \in [Requests -> Request] /\ \A s \in Requests : LocalOK(s, req'[s])
BY DEF ChatInv, Stepped

\* A step after which r has no transaction of a turn open.
LEMMA UnwrittenInv ==
    ASSUME ChatInv, NEW r \in Requests, Stepped(r), ~Began(req'[r]),
           req[r].pc = "done" => req'[r].pc = "done",
           UNCHANGED clock, StoreOK', RowsOK', rows'.messages \subseteq rows.messages,
           lastId.message <= lastId'.message,
           \A s, t \in Requests : s # t => Compatible(req'[s], req'[t]),
           \A s \in Requests \ {r} :
              Wrote1(req[s]) => conversations'[req[s].conversation] # None
    PROVE  ChatInv'
<1>1. /\ req' \in [Requests -> Request] /\ \A s \in Requests : LocalOK(s, req'[s])
      /\ \A s \in Requests \ {r} : req'[s] = req[s]
      /\ ~Wrote1(req'[r]) /\ req'[r].wrote.messages = {}
  BY Locals, Constants DEF Stepped, LocalOK, WroteOK, Began, Wrote1
<1>2. LocksOK'
  BY <1>1 DEF LocksOK
<1>3. FreshOK'
  <2>1. /\ lastId.message \in Nat /\ lastId'.message \in Nat
        /\ \A m \in rows.messages : m.id \in Nat
        /\ \A s \in Requests : \A m \in req[s].wrote.messages : m.id \in Nat
        /\ Ids(rows') \subseteq Ids(rows)
    BY DEF ChatInv, StoreOK, RowsOK, Rows, Message, Request, Ids
  <2>2. \A m \in rows'.messages : /\ m.id <= lastId'.message
                                  /\ m.at <= clock'
                                  /\ m.turn \in Requests => req'[m.turn].pc = "done"
    BY <1>1, <2>1 DEF ChatInv, FreshOK
  <2>3. ASSUME NEW s \in Requests
        PROVE  /\ \A m \in req'[s].wrote.messages : /\ m.id <= lastId'.message
                                                    /\ m.id \notin Ids(rows')
               /\ Began(req'[s]) => /\ req'[s].at <= clock'
                                    /\ \A m \in rows'.messages : m.at # req'[s].at
    <3>1. CASE s = r
      BY <1>1, <3>1
    <3>2. CASE s # r
      <4>1. req'[s] = req[s] /\ clock' = clock
        BY <1>1, <3>2
      <4>2. \A m \in req[s].wrote.messages : m.id <= lastId'.message
        BY <2>1 DEF ChatInv, FreshOK
      <4> QED
        BY <2>1, <4>1, <4>2 DEF ChatInv, FreshOK
    <3> QED
      BY <3>1, <3>2
  <2>4. ASSUME NEW s \in Requests, NEW t \in Requests, s # t
        PROVE  /\ \A m \in req'[s].wrote.messages, n \in req'[t].wrote.messages : m.id # n.id
               /\ Began(req'[s]) /\ Began(req'[t]) => req'[s].at # req'[t].at
    <3>1. CASE s = r \/ t = r
      BY <1>1, <2>4, <3>1
    <3>2. CASE s # r /\ t # r
      BY <1>1, <2>4, <3>2 DEF ChatInv, FreshOK
    <3> QED
      BY <3>1, <3>2
  <2> QED
    BY <2>2, <2>3, <2>4 DEF FreshOK
<1> QED
  BY <1>1, <1>2, <1>3 DEF ChatInv

\* The conversations that transactions write to are there.
LEMMA WritesToConversation ==
    ASSUME ChatInv, NEW s \in Requests, Wrote1(req[s])
    PROVE  req[s].conversation \in Conversations /\ conversations[req[s].conversation] # None
BY KindOf DEF ChatInv, LocksOK, LocalOK, ArgumentsOK, Wrote1

LEMMA QuietInv ==
    ASSUME ChatInv, NEW r \in Requests, Quiet(r), UNCHANGED <<rows, clock>>, StoreOK',
           lastId.message <= lastId'.message,
           \A c \in Conversations : conversations[c] # None => conversations'[c] # None
    PROVE  ChatInv'
<1>1. RowsOK'
  BY DEF ChatInv, RowsOK, Rows, Message
<1>2. \A s, t \in Requests : s # t => Compatible(req'[s], req'[t])
  BY DEF Quiet, Stepped, ChatInv, LocksOK, Compatible
<1>3. \A s \in Requests \ {r} : Wrote1(req[s]) => conversations'[req[s].conversation] # None
  BY WritesToConversation
<1> QED
  BY <1>1, <1>2, <1>3, UnwrittenInv DEF Quiet

\* Whatever is not stored, and what is stored of a conversation itself.
LEMMA QuietSteps ==
    ASSUME ChatInv, NEW r \in Requests,
           \/ Start(r) \/ Fail(r) \/ DeadlockVictim(r)
           \/ Authorize(r) \/ Attempt(r) \/ Answer(r) \/ Source(r) \/ Reread(r)
    PROVE  ChatInv'
<1>1. ASSUME Quiet(r), UNCHANGED <<connections, canQuery, conversations, lastId, rows, clock>>
      PROVE  ChatInv'
  <2>1. StoreOK' /\ lastId.message <= lastId'.message
    BY <1>1 DEF ChatInv, StoreOK
  <2> QED
    BY <1>1, <2>1, QuietInv
<1>2. ASSUME NEW u \in Users, NEW k \in Connections, CreateAccess(r, u, k) PROVE ChatInv'
  <2>1. StoreOK' /\ lastId.message <= lastId'.message
    BY <1>2 DEF ChatInv, StoreOK, CreateAccess
  <2>2. Quiet(r)
    BY <1>2, FinishIsQuiet DEF CreateAccess
  <2> QED
    BY <1>2, <2>1, <2>2, QuietInv DEF CreateAccess
<1>3. CASE Start(r)
  <2>1. ASSUME NEW u \in Users, NEW c \in Conversations,
               \/ SendMessage(r, u, c)
               \/ DeleteConversation(r, u, c)
               \/ InferConversationTitle(r, u, c)
        PROVE  ChatInv'
    <3>1. UNCHANGED <<connections, canQuery, conversations, lastId, rows, clock>>
      BY <2>1 DEF SendMessage, DeleteConversation, InferConversationTitle, Open
    <3> QED
      BY <1>1, <2>1, <3>1, OpenIsQuiet
  <2>2. ASSUME NEW k \in Connections,
               (\E u \in Users : CreateConversation(r, u, k)) \/ DeleteConnection(r, k)
        PROVE  ChatInv'
    <3>1. UNCHANGED <<connections, canQuery, conversations, lastId, rows, clock>>
      BY <2>2 DEF CreateConversation, DeleteConnection
    <3> QED
      BY <1>1, <2>2, <3>1, CreateIsQuiet
  <2> QED
    BY <1>2, <1>3, <2>1, <2>2 DEF Start
<1>4. CASE Fail(r) \/ DeadlockVictim(r)
  BY <1>1, <1>4, FinishIsQuiet DEF Fail, DeadlockVictim
<1>5. CASE Authorize(r) \/ Attempt(r) \/ Answer(r) \/ Source(r) \/ Reread(r)
  <2>1. UNCHANGED <<connections, canQuery, conversations, lastId, rows, clock>>
    BY <1>5 DEF Authorize, Attempt, Answer, Source, Reread
  <2> QED
    BY <1>1, <1>5, <2>1, CallsAreQuiet
<1> QED
  BY <1>3, <1>4, <1>5

\* What is stored of a conversation itself.
LEMMA ConversationSteps ==
    ASSUME ChatInv, NEW r \in Requests, SaveTitle(r) \/ InsertConversation(r)
    PROVE  ChatInv'
<1> DEFINE x == req[r]
           row == [user |-> x.user, connection |-> x.connection, title |-> x.title]
<1>1. /\ x \in Request /\ x.kind \in {"title", "create"}
      /\ x.user \in Users /\ x.title \in Title
      /\ conversations \in [Conversations -> Conversation \cup {None}]
      /\ lastId \in [conversation : Nat, message : Nat]
      /\ StoreOK
  <2>1. x \in Request /\ ArgumentsOK(x) /\ x.pc \in {"save", "insert"}
    BY DEF ChatInv, LocalOK, SaveTitle, InsertConversation
  <2> QED
    BY <2>1, KindOf DEF ChatInv, StoreOK, ArgumentsOK, Request
<1>2. Quiet(r) /\ UNCHANGED <<connections, canQuery, rows, clock>>
  BY FinishIsQuiet DEF SaveTitle, InsertConversation
<1>3. lastId' \in [conversation : Nat, message : Nat] /\ lastId'.message = lastId.message
  BY <1>1 DEF SaveTitle, InsertConversation
<1>4. ASSUME NEW c, x.connection \in connections, conversations' = [conversations EXCEPT ![c] = row]
      PROVE  /\ conversations' \in [Conversations -> Conversation \cup {None}]
             /\ \A d \in Conversations : conversations'[d] # None =>
                    conversations'[d].connection \in connections
             /\ \A d \in Conversations : conversations[d] # None => conversations'[d] # None
  <2>1. row \in Conversation /\ row # None /\ row.connection \in connections
    BY <1>1, <1>4, NoneAssumption DEF Conversation, StoreOK
  <2> HIDE DEF row
  <2>2. /\ conversations' \in [Conversations -> Conversation \cup {None}]
        /\ \A d \in Conversations : conversations'[d] = row \/ conversations'[d] = conversations[d]
    BY <1>1, <1>4, <2>1
  <2> QED
    BY <1>1, <2>1, <2>2 DEF StoreOK
<1>5. /\ conversations' \in [Conversations -> Conversation \cup {None}]
      /\ \A d \in Conversations : conversations'[d] # None =>
             conversations'[d].connection \in connections
      /\ \A d \in Conversations : conversations[d] # None => conversations'[d] # None
  <2>1. CASE UNCHANGED conversations
    BY <1>1, <2>1 DEF StoreOK
  <2>2. CASE SaveTitle(r) /\ ~UNCHANGED conversations
    BY <1>4, <2>2 DEF SaveTitle
  <2>3. CASE InsertConversation(r) /\ ~UNCHANGED conversations
    BY <1>4, <2>3 DEF InsertConversation
  <2> QED
    BY <2>1, <2>2, <2>3
<1>6. StoreOK' /\ lastId.message <= lastId'.message
  BY <1>1, <1>2, <1>3, <1>5 DEF StoreOK
<1> QED
  BY <1>2, <1>5, <1>6, QuietInv

-----------------------------------------------------------------------------
\* Row locks.

LEMMA LeastConversation ==
    ASSUME NEW S, S \subseteq Conversations, S # {}
    PROVE  \E d \in S : \A e \in S : d <= e
<1>1. S \subseteq Nat
  BY ChatTurnsAssumption
<1>2. PICK d \in S : \A e \in S : <<e, d>> \notin OpToRel(<, Nat)
  BY <1>1, NatLessThanWellFounded, WFMin
<1>3. ASSUME NEW e \in S PROVE d <= e
  <2>1. ~(e < d)
    BY <1>1, <1>2, <1>3 DEF OpToRel
  <2> QED
    BY <1>1, <2>1
<1> QED
  BY <1>3

ShareOf(row) == [mode |-> "share", row |-> row]

ExclusiveOf(row) == [mode |-> "exclusive", row |-> row]

\* Conversations of its connection that a deletion has not locked yet.
LeftTo(r) ==
    {d \in Conversations : /\ conversations[d] # None
                           /\ conversations[d].connection = req[r].connection
                           /\ ExclusiveOf(<<"conversation", d>>) \notin req[r].held}

LEMMA WantsAt ==
    ASSUME NEW r \in Requests
    PROVE  /\ req[r].pc = "user" =>
                  Wants(r) = {ShareOf(<<"conversation", req[r].conversation>>)}
           /\ req[r].pc = "retrieval" => Wants(r) = {ShareOf(<<"snapshot", req[r].connection>>)}
           /\ req[r].pc \in {"execution", "insert"} =>
                  Wants(r) = {ShareOf(<<"connection", req[r].connection>>)}
           /\ req[r].pc = "assistant" => Wants(r) = {}
           /\ req[r].pc = "delete" =>
                  Wants(r) = {ExclusiveOf(<<"conversation", req[r].conversation>>)}
           /\ req[r].pc = "drop" => Wants(r) = {ExclusiveOf(<<"connection", req[r].connection>>)}
           /\ req[r].pc = "snapshots" =>
                  Wants(r) = {ExclusiveOf(<<"snapshot", req[r].connection>>)}
           /\ req[r].pc = "conversations" =>
                  Wants(r) = IF LeftTo(r) = {} THEN {}
                             ELSE {ExclusiveOf(<<"conversation", CHOOSE d \in LeftTo(r) :
                                                   \A e \in LeftTo(r) : d <= e>>)}
BY DEF Wants, ShareOf, ExclusiveOf, LeftTo

\* A deletion wants the next conversation it has not locked, if there is one.
LEMMA WantsLeft ==
    ASSUME NEW r \in Requests, req[r].pc = "conversations"
    PROVE  \/ LeftTo(r) = {} /\ Wants(r) = {}
           \/ \E d \in LeftTo(r) : Wants(r) = {ExclusiveOf(<<"conversation", d>>)}
<1>1. CASE LeftTo(r) = {}
  BY <1>1, WantsAt
<1>2. CASE LeftTo(r) # {}
  <2> DEFINE least == CHOOSE d \in LeftTo(r) : \A e \in LeftTo(r) : d <= e
  <2>1. \E d \in LeftTo(r) : \A e \in LeftTo(r) : d <= e
    BY <1>2, LeastConversation DEF LeftTo
  <2>2. least \in LeftTo(r)
    BY <2>1
  <2>3. Wants(r) = {ExclusiveOf(<<"conversation", least>>)}
    BY <1>2, WantsAt
  <2> QED
    BY <2>2, <2>3
<1> QED
  BY <1>1, <1>2

LEMMA WantsType ==
    ASSUME ChatInv, NEW r \in Requests,
           req[r].pc \in {"user", "retrieval", "assistant", "execution", "insert", "delete", "drop",
                          "snapshots", "conversations"}
    PROVE  Wants(r) \subseteq Lock
<1> DEFINE x == req[r]
<1>1. /\ x \in Request /\ ArgumentsOK(x)
      /\ x.kind \in {"turn", "create", "delete", "drop"}
      /\ x.connection \in Connections
      /\ x.kind \in {"turn", "delete"} => x.conversation \in Conversations
  <2>1. x \in Request /\ ArgumentsOK(x)
    BY DEF ChatInv, LocalOK
  <2> QED
    BY <2>1, KindOf DEF ArgumentsOK
<1>2. /\ \A c \in Conversations : /\ ShareOf(<<"conversation", c>>) \in Lock
                                  /\ ExclusiveOf(<<"conversation", c>>) \in Lock
      /\ \A k \in Connections : /\ ShareOf(<<"snapshot", k>>) \in Lock
                                /\ ExclusiveOf(<<"snapshot", k>>) \in Lock
                                /\ ShareOf(<<"connection", k>>) \in Lock
                                /\ ExclusiveOf(<<"connection", k>>) \in Lock
  BY DEF ShareOf, ExclusiveOf, Lock
<1>3. CASE x.pc \in {"user", "delete"}
  <2>1. x.conversation \in Conversations
    BY <1>1, <1>3, KindOf
  <2> QED
    BY <1>2, <1>3, <2>1, WantsAt
<1>4. CASE x.pc \in {"retrieval", "assistant", "execution", "insert", "drop", "snapshots"}
  BY <1>1, <1>2, <1>4, WantsAt
<1>5. CASE x.pc = "conversations"
  BY <1>2, <1>5, WantsLeft DEF LeftTo
<1> QED
  BY <1>3, <1>4, <1>5

\* A lock is granted only where nobody holds the row in a conflicting mode.
LEMMA Granted ==
    ASSUME ChatInv, NEW r \in Requests, Wants(r) \subseteq Lock, Blockers(r) = {}, Stepped(r),
           req'[r].held \subseteq req[r].held \cup Wants(r)
    PROVE  \A s, t \in Requests : s # t => Compatible(req'[s], req'[t])
<1>1. \A s, t \in Requests : s # t => Compatible(req[s], req[t])
  BY DEF ChatInv, LocksOK
<1>2. \A s \in Requests \ {r} : req'[s] = req[s]
  BY DEF Stepped
<1>3. ASSUME NEW s \in Requests \ {r}, NEW g \in req'[r].held, NEW h \in req[s].held, g.row = h.row
      PROVE  g.mode = "share" /\ h.mode = "share"
  <2>1. CASE g \in req[r].held
    BY <1>1, <1>3, <2>1 DEF Compatible
  <2>2. CASE g \in Wants(r)
    <3>1. "exclusive" \notin {g.mode, h.mode}
      BY <1>3, <2>2 DEF Blockers
    <3>2. g \in Lock /\ h \in Lock
      BY <2>2 DEF ChatInv, LocalOK, Request
    <3>3. g.mode \in {"share", "exclusive"} /\ h.mode \in {"share", "exclusive"}
      BY <3>2 DEF Lock
    <3> QED
      BY <3>1, <3>3
  <2> QED
    BY <2>1, <2>2
<1> SUFFICES ASSUME NEW s \in Requests, NEW t \in Requests, s # t
             PROVE  Compatible(req'[s], req'[t])
  OBVIOUS
<1>4. CASE s = r
  BY <1>2, <1>3, <1>4 DEF Compatible
<1>5. CASE t = r
  BY <1>2, <1>3, <1>5 DEF Compatible
<1>6. CASE s # r /\ t # r
  BY <1>1, <1>2, <1>6
<1> QED
  BY <1>4, <1>5, <1>6

\* Nobody else is adding to a conversation that is locked for its deletion.
LEMMA NobodyWrites ==
    ASSUME ChatInv, NEW r \in Requests, NEW c \in Conversations,
           \/ ExclusiveOf(<<"conversation", c>>) \in req[r].held
           \/ ExclusiveOf(<<"conversation", c>>) \in Wants(r) /\ Blockers(r) = {},
           NEW s \in Requests, s # r, Wrote1(req[s])
    PROVE  req[s].conversation # c
<1> SUFFICES ASSUME req[s].conversation = c PROVE FALSE
  OBVIOUS
<1>1. ShareOf(<<"conversation", c>>) \in req[s].held
  BY DEF ChatInv, LocalOK, KeepsConversation, ShareOf
<1>2. /\ ShareOf(<<"conversation", c>>).row = ExclusiveOf(<<"conversation", c>>).row
      /\ ExclusiveOf(<<"conversation", c>>).mode = "exclusive"
  BY DEF ShareOf, ExclusiveOf
<1>3. CASE ExclusiveOf(<<"conversation", c>>) \in req[r].held
  BY <1>1, <1>2, <1>3 DEF ChatInv, LocksOK, Compatible
<1>4. CASE ExclusiveOf(<<"conversation", c>>) \in Wants(r) /\ Blockers(r) = {}
  <2>1. s \in Blockers(r)
    BY <1>1, <1>2, <1>4 DEF Blockers
  <2> QED
    BY <1>4, <2>1
<1> QED
  BY <1>3, <1>4

LEMMA DropLocksInv ==
    ASSUME ChatInv, NEW r \in Requests, DropLocks(r)
    PROVE  ChatInv'
<1> DEFINE x == req[r]
<1>1. CASE Finish(r)
  BY <1>1, FinishIsQuiet, QuietInv DEF DropLocks, ChatInv, StoreOK
<1>2. CASE ~Finish(r)
  <2>1. PICK pc \in {"snapshots", "conversations"} :
           req' = [req EXCEPT ![r].held = @ \cup Wants(r), ![r].pc = pc]
    BY <1>2 DEF DropLocks
  <2> DEFINE locks == x.held \cup Wants(r)
             y == [x EXCEPT !.held = locks, !.pc = pc]
  <2>2. /\ LocalOK(r, x) /\ x \in Request /\ ArgumentsOK(x) /\ x.kind = "drop" /\ ~Wrote1(x)
        /\ x.pc # "done" /\ x.held \subseteq Lock
    <3>1. LocalOK(r, x) /\ x \in Request /\ ArgumentsOK(x)
      BY DEF ChatInv, LocalOK
    <3> QED
      BY <3>1, KindOf DEF DropLocks, Wrote1, Request
  <2>3. Wants(r) \subseteq Lock
    BY WantsType DEF DropLocks
  <2>4. /\ y \in Request /\ y.kind = "drop" /\ y.pc = pc /\ y.connection = x.connection
        /\ y.wrote = x.wrote /\ y.held = locks
    <3>1. locks \subseteq Lock
      BY <2>2, <2>3
    <3> HIDE DEF locks
    <3> QED
      BY <2>2, <3>1 DEF Request
  <2>5. req' = [req EXCEPT ![r] = y]
    BY <2>1
  <2> HIDE DEF y
  <2>6. LocalOK(r, y) /\ ~Began(y)
    <3>1. ArgumentsOK(y)
      BY <2>2, <2>4, Pcs DEF ArgumentsOK
    <3>2. CallsOK(y) /\ WroteOK(r, y) /\ KeepsConversation(y) /\ ~Began(y)
      BY <2>2, <2>4 DEF CallsOK, WroteOK, KeepsConversation, Wrote1, Began, LocalOK
    <3> QED
      BY <2>4, <3>1, <3>2 DEF LocalOK
  <2>7. Stepped(r) /\ req'[r] = y
    BY <2>5, <2>6, Replaced
  <2>8. \A s, t \in Requests : s # t => Compatible(req'[s], req'[t])
    BY <2>3, <2>4, <2>7, Granted DEF DropLocks
  <2>9. StoreOK' /\ RowsOK' /\ rows' = rows /\ clock' = clock /\ lastId.message <= lastId'.message
    BY DEF DropLocks, ChatInv, StoreOK, RowsOK
  <2>10. \A s \in Requests \ {r} : Wrote1(req[s]) => conversations'[req[s].conversation] # None
    BY WritesToConversation DEF DropLocks
  <2> QED
    BY <2>2, <2>6, <2>7, <2>8, <2>9, <2>10, UnwrittenInv
<1> QED
  BY <1>1, <1>2

-----------------------------------------------------------------------------
\* Deletions.

LEMMA WithoutOK ==
    ASSUME ChatInv, NEW cs, NEW R, R = Without(cs)
    PROVE  /\ R \in Rows
           /\ Referenced(R)
           /\ Distinct(R.messages)
           /\ \A m \in R.messages : Whole(m, R)
           /\ R.messages \subseteq rows.messages
           /\ \A m \in R.messages : m.conversation \notin cs
<1>1. /\ R.messages = {m \in rows.messages : m.conversation \notin cs}
      /\ R.retrievals = rows.retrievals \cap Ids(R)
      /\ R.calls = {call \in rows.calls : call[1] \in Ids(R)}
      /\ R.executions = rows.executions \cap Ids(R)
  BY DEF Without, Ids
<1>2. /\ rows \in Rows /\ Distinct(rows.messages)
      /\ \A m \in rows.messages : Whole(m, rows)
  BY DEF ChatInv, RowsOK
<1>3. R \in Rows
  BY <1>2 DEF Without, Rows
<1>4. R.messages \subseteq rows.messages /\ \A m \in R.messages : m.conversation \notin cs
  BY <1>1
<1>5. Referenced(R)
  BY <1>1 DEF Referenced
<1>6. Distinct(R.messages)
  BY <1>2, <1>4 DEF Distinct
<1>7. ASSUME NEW m \in R.messages PROVE Whole(m, R)
  <2> DEFINE calls == {call \in rows.calls : call[1] = m.id}
  <2>1. m \in rows.messages /\ Whole(m, rows) /\ m.id \in Ids(R)
    BY <1>2, <1>4, <1>7 DEF Ids
  <2>2. {call \in R.calls : call[1] = m.id} = calls
    BY <1>1, <2>1
  <2>3. \E n \in R.messages : /\ n.turn = m.turn
                              /\ n.conversation = m.conversation
                              /\ n.role # m.role
    <3>1. PICK n \in rows.messages : /\ n.turn = m.turn
                                     /\ n.conversation = m.conversation
                                     /\ n.role # m.role
      BY <2>1 DEF Whole
    <3>2. n \in R.messages
      BY <1>1, <1>7, <3>1
    <3> QED
      BY <3>1, <3>2
  <2>4. m.role = "user" => m.id \in R.retrievals
    BY <1>1, <2>1 DEF Whole
  <2>5. m.role = "assistant" => /\ calls # {}
                                /\ m.id \in R.executions <=> m.status = "completed"
                                /\ m.status = "failed" => Cardinality(calls) = MaxAttempts
    BY <1>1, <2>1 DEF Whole
  <2> QED
    BY <2>2, <2>3, <2>4, <2>5 DEF Whole
<1> QED
  BY <1>3, <1>4, <1>5, <1>6, <1>7

\* A transaction that deletes the conversations cs, all of which it has locked.
LEMMA DeletedInv ==
    ASSUME ChatInv, NEW r \in Requests, Finish(r), NEW cs \in SUBSET Conversations,
           rows' = Without(cs), UNCHANGED <<lastId, clock>>, StoreOK',
           \A c \in Conversations \ cs : conversations'[c] = conversations[c],
           \A c \in cs : \/ ExclusiveOf(<<"conversation", c>>) \in req[r].held
                         \/ ExclusiveOf(<<"conversation", c>>) \in Wants(r) /\ Blockers(r) = {}
    PROVE  ChatInv'
<1>1. Quiet(r)
  BY FinishIsQuiet
<1>2. /\ rows' \in Rows /\ Referenced(rows') /\ Distinct(rows'.messages)
      /\ \A m \in rows'.messages : Whole(m, rows')
      /\ rows'.messages \subseteq rows.messages
      /\ \A m \in rows'.messages : m.conversation \notin cs
  BY WithoutOK
<1>3. RowsOK'
  <2>1. ASSUME NEW m \in rows'.messages PROVE conversations'[m.conversation] # None
    <3>1. m \in rows.messages /\ m.conversation \in Conversations \ cs
      BY <1>2, <2>1 DEF Rows, Message
    <3> QED
      BY <3>1 DEF ChatInv, RowsOK
  <2> QED
    BY <1>2, <2>1 DEF RowsOK
<1>4. \A s, t \in Requests : s # t => Compatible(req'[s], req'[t])
  BY <1>1 DEF Quiet, Stepped, ChatInv, LocksOK, Compatible
<1>5. ASSUME NEW s \in Requests \ {r}, Wrote1(req[s])
      PROVE  conversations'[req[s].conversation] # None
  <2>1. req[s].conversation \in Conversations /\ conversations[req[s].conversation] # None
    BY <1>5, WritesToConversation
  <2>2. req[s].conversation \notin cs
    BY <1>5, NobodyWrites
  <2> QED
    BY <2>1, <2>2
<1>6. lastId.message <= lastId'.message
  BY DEF ChatInv, StoreOK
<1> QED
  BY <1>1, <1>2, <1>3, <1>4, <1>5, <1>6, UnwrittenInv DEF Quiet

LEMMA DeletionInv ==
    ASSUME ChatInv, NEW r \in Requests, DeleteRow(r) \/ DropCommits(r)
    PROVE  ChatInv'
<1> DEFINE x == req[r]
<1>1. StoreOK /\ x \in Request /\ ArgumentsOK(x)
  BY DEF ChatInv, LocalOK
<1>2. CASE DeleteRow(r)
  <2>1. x.pc = "delete" /\ x.conversation \in Conversations
    BY <1>1, <1>2, KindOf DEF DeleteRow, ArgumentsOK
  <2>2. StoreOK'
    BY <1>1, <1>2 DEF DeleteRow, StoreOK
  <2>3. ExclusiveOf(<<"conversation", x.conversation>>) \in Wants(r)
    BY <2>1, WantsAt
  <2>4. \A c \in Conversations \ {x.conversation} : conversations'[c] = conversations[c]
    BY <1>1, <1>2 DEF DeleteRow, StoreOK
  <2> QED
    BY <1>2, <2>1, <2>2, <2>3, <2>4, DeletedInv DEF DeleteRow
<1>3. CASE DropCommits(r)
  <2> DEFINE k == x.connection
             gone == {c \in Conversations : conversations[c] # None
                                            /\ conversations[c].connection = k}
  <2>1. /\ x.pc = "conversations" /\ Wants(r) = {} /\ Finish(r)
        /\ connections' = connections \ {k}
        /\ canQuery' = {a \in canQuery : a[2] # k}
        /\ conversations' = [c \in Conversations |-> IF c \in gone THEN None ELSE conversations[c]]
        /\ rows' = Without(gone)
        /\ UNCHANGED <<lastId, clock>>
    BY <1>3 DEF DropCommits
  <2>2. LeftTo(r) = {}
    BY <2>1, WantsLeft
  <2>3. \A c \in gone : ExclusiveOf(<<"conversation", c>>) \in x.held
    BY <2>2 DEF LeftTo
  <2>4. StoreOK'
    <3>1. /\ connections' \subseteq Connections
          /\ lastId' \in [conversation : Nat, message : Nat] /\ clock' \in Nat
      BY <1>1, <2>1 DEF StoreOK
    <3>2. canQuery' \subseteq Users \X connections'
      BY <1>1, <2>1 DEF StoreOK
    <3>3. conversations' \in [Conversations -> Conversation \cup {None}]
      BY <1>1, <2>1 DEF StoreOK
    <3>4. \A c \in Conversations : conversations'[c] # None =>
              conversations'[c].connection \in connections'
      BY <1>1, <2>1 DEF StoreOK
    <3> QED
      BY <3>1, <3>2, <3>3, <3>4 DEF StoreOK
  <2>5. \A c \in Conversations \ gone : conversations'[c] = conversations[c]
    BY <2>1
  <2> HIDE DEF gone
  <2>6. gone \subseteq Conversations
    BY DEF gone
  <2> QED
    BY <2>1, <2>3, <2>4, <2>5, <2>6, DeletedInv
<1> QED
  BY <1>2, <1>3

-----------------------------------------------------------------------------
\* The transaction of a turn.

LEMMA BeginInv ==
    ASSUME ChatInv, NEW r \in Requests, Begin(r)
    PROVE  ChatInv'
<1> DEFINE x == req[r]
           now == clock + 1
           y == [x EXCEPT !.pc = "user", !.at = now]
<1>1. /\ x \in Request /\ ArgumentsOK(x) /\ CallsOK(x) /\ WroteOK(r, x)
      /\ x.pc = "begin" /\ x.kind = "turn" /\ ~Wrote1(x)
      /\ clock \in Nat /\ now \in Nat /\ clock' = now
      /\ UNCHANGED <<connections, canQuery, conversations, lastId, rows>>
  <2>1. x \in Request /\ ArgumentsOK(x) /\ CallsOK(x) /\ WroteOK(r, x) /\ clock \in Nat
    BY DEF ChatInv, LocalOK, StoreOK
  <2>2. x.pc = "begin"
    BY DEF Begin
  <2> QED
    BY <2>1, <2>2, KindOf DEF Begin, Wrote1
<1>2. /\ y \in Request /\ Keeps(x, y) /\ y.pc = "user" /\ y.at = now
      /\ y.calls = x.calls /\ y.executed = x.executed
      /\ req' = [req EXCEPT ![r] = y]
  <2>1. req' = [req EXCEPT ![r] = y]
    BY <1>1 DEF Begin
  <2> HIDE DEF now
  <2>2. /\ y \in Request /\ Keeps(x, y) /\ y.pc = "user" /\ y.at = now
        /\ y.calls = x.calls /\ y.executed = x.executed
    BY <1>1 DEF Request, Keeps
  <2> QED
    BY <2>1, <2>2
<1> HIDE DEF y
<1>3. LocalOK(r, y)
  <2>1. ArgumentsOK(y) /\ CallsOK(y)
    BY <1>1, <1>2, Pcs DEF ArgumentsOK, CallsOK, Keeps
  <2>2. WroteOK(r, y) /\ KeepsConversation(y)
    BY <1>1, <1>2 DEF WroteOK, KeepsConversation, Wrote1, Keeps
  <2> QED
    BY <1>2, <2>1, <2>2 DEF LocalOK
<1>4. Stepped(r) /\ req'[r] = y
  BY <1>2, <1>3, Replaced
<1>5. /\ req' \in [Requests -> Request] /\ \A s \in Requests : LocalOK(s, req'[s])
      /\ \A s \in Requests \ {r} : req'[s] = req[s]
  BY <1>4, Locals DEF Stepped
<1>6. StoreOK' /\ RowsOK'
  BY <1>1 DEF ChatInv, StoreOK, RowsOK, Rows, Message
<1>7. LocksOK'
  <2>1. \A s \in Requests : req'[s].held = req[s].held
    BY <1>2, <1>4, <1>5 DEF Keeps
  <2>2. \A s, t \in Requests : s # t => Compatible(req'[s], req'[t])
    BY <2>1 DEF ChatInv, LocksOK, Compatible
  <2>3. \A s \in Requests : Wrote1(req'[s]) => conversations'[req'[s].conversation] # None
    BY <1>1, <1>2, <1>4, <1>5 DEF ChatInv, LocksOK, Wrote1
  <2> QED
    BY <2>2, <2>3 DEF LocksOK
<1>8. FreshOK'
  <2>1. /\ \A m \in rows.messages : m.at \in Nat /\ m.at <= clock
        /\ \A s \in Requests : Began(req[s]) => req[s].at \in Nat /\ req[s].at <= clock
    BY DEF ChatInv, RowsOK, Rows, Message, Request, FreshOK
  <2>2. y.wrote.messages = {} /\ Began(y)
    BY <1>1, <1>2, Constants DEF Keeps, WroteOK, Began
  <2>3. \A m \in rows'.messages : /\ m.id <= lastId'.message
                                  /\ m.at <= clock'
                                  /\ m.turn \in Requests => req'[m.turn].pc = "done"
    <3> SUFFICES ASSUME NEW m \in rows.messages
                 PROVE  /\ m.id <= lastId.message
                        /\ m.at <= clock + 1
                        /\ m.turn \in Requests => req'[m.turn].pc = "done"
      BY <1>1
    <3>1. m.id <= lastId.message /\ (m.turn \in Requests => req[m.turn].pc = "done")
      BY DEF ChatInv, FreshOK
    <3> QED
      BY <1>1, <1>5, <2>1, <3>1
  <2>4. ASSUME NEW s \in Requests
        PROVE  /\ \A m \in req'[s].wrote.messages : /\ m.id <= lastId'.message
                                                    /\ m.id \notin Ids(rows')
               /\ Began(req'[s]) => /\ req'[s].at <= clock'
                                    /\ \A m \in rows'.messages : m.at # req'[s].at
    <3>1. CASE s = r
      BY <1>1, <1>2, <1>4, <2>1, <2>2, <3>1
    <3>2. CASE s # r
      <4>1. req'[s] = req[s] /\ rows' = rows /\ lastId' = lastId
        BY <1>1, <1>5, <3>2
      <4>2. Began(req[s]) => req[s].at <= clock'
        BY <1>1, <2>1
      <4> QED
        BY <4>1, <4>2 DEF ChatInv, FreshOK
    <3> QED
      BY <3>1, <3>2
  <2>5. ASSUME NEW s \in Requests, NEW t \in Requests, s # t
        PROVE  /\ \A m \in req'[s].wrote.messages, n \in req'[t].wrote.messages : m.id # n.id
               /\ Began(req'[s]) /\ Began(req'[t]) => req'[s].at # req'[t].at
    <3>1. CASE s = r
      BY <1>1, <1>2, <1>4, <1>5, <2>1, <2>2, <2>5, <3>1
    <3>2. CASE t = r
      BY <1>1, <1>2, <1>4, <1>5, <2>1, <2>2, <2>5, <3>2
    <3>3. CASE s # r /\ t # r
      BY <1>5, <2>5, <3>3 DEF ChatInv, FreshOK
    <3> QED
      BY <3>1, <3>2, <3>3
  <2> QED
    BY <2>3, <2>4, <2>5 DEF FreshOK
<1> QED
  BY <1>5, <1>6, <1>7, <1>8 DEF ChatInv

\* The rows of a transaction grow table by table.
Plus(R, S) == [messages   |-> R.messages \cup S.messages,
               retrievals |-> R.retrievals \cup S.retrievals,
               calls      |-> R.calls \cup S.calls,
               executions |-> R.executions \cup S.executions]

LEMMA Added ==
    ASSUME NEW R \in Rows, NEW S \in Rows
    PROVE  /\ [t \in DOMAIN NoRows |-> R[t] \cup S[t]] = Plus(R, S)
           /\ Plus(R, S) \in Rows
<1> DEFINE tables == {"messages", "retrievals", "calls", "executions"}
           f == [t \in DOMAIN NoRows |-> R[t] \cup S[t]]
           g == Plus(R, S)
<1>1. DOMAIN NoRows = tables
  BY DEF NoRows
<1>2. f = [t \in tables |-> f[t]]
  BY <1>1
<1>3. g = [t \in tables |-> g[t]]
  <2>1. DOMAIN g = tables /\ g = [t \in DOMAIN g |-> g[t]]
    BY DEF Plus
  <2> QED
    BY <2>1
<1>4. \A t \in tables : f[t] = g[t]
  <2>1. \A t \in tables : f[t] = R[t] \cup S[t]
    BY <1>1
  <2>2. \A t \in tables : g[t] = R[t] \cup S[t]
    BY DEF Plus
  <2> QED
    BY <2>1, <2>2
<1>5. g \in Rows
  <2>1. /\ R.messages \cup S.messages \in SUBSET Message
        /\ R.retrievals \cup S.retrievals \in SUBSET Nat
        /\ R.calls \cup S.calls \in SUBSET (Nat \X Nat)
        /\ R.executions \cup S.executions \in SUBSET Nat
    BY DEF Rows
  <2> QED
    BY <2>1 DEF Rows, Plus
<1> HIDE DEF f, g, tables
<1>6. [t \in tables |-> f[t]] = [t \in tables |-> g[t]]
  BY <1>4
<1>7. f = g
  BY <1>2, <1>3, <1>6
<1> QED
  BY <1>5, <1>7 DEF f, g

\* What an INSERT that finds the row it refers to makes of its request.
Adds(r, y, add) ==
    LET x == req[r]
    IN /\ y \in Request
       /\ y.kind = x.kind /\ y.user = x.user
       /\ y.conversation = x.conversation /\ y.connection = x.connection
       /\ y.calls = x.calls /\ y.executed = x.executed /\ y.at = x.at
       /\ y.held = x.held \cup Wants(r)
       /\ y.wrote = Plus(x.wrote, add)

LEMMA Inserted ==
    ASSUME ChatInv, NEW r \in Requests, NEW add \in Rows,
           req[r].pc \in {"user", "retrieval", "assistant", "execution"},
           NEW pc \in {"retrieval", "assistant", "execution", "commit"},
           Insert(r, TRUE, add, pc)
    PROVE  \E y : Adds(r, y, add) /\ y.pc = pc /\ req' = [req EXCEPT ![r] = y]
<1> DEFINE x == req[r]
           locks == x.held \cup Wants(r)
           wrote == [t \in DOMAIN NoRows |-> x.wrote[t] \cup add[t]]
           y == [x EXCEPT !.held = locks, !.pc = pc, !.wrote = wrote]
<1>1. x \in Request /\ x.wrote \in Rows
  BY DEF ChatInv, LocalOK, Request
<1>2. req' = [req EXCEPT ![r] = y]
  BY DEF Insert
<1>3. wrote = Plus(x.wrote, add) /\ wrote \in Rows
  BY <1>1, Added
<1>4. locks \in SUBSET Lock
  BY <1>1, WantsType DEF Request
<1> HIDE DEF wrote, locks
<1>5. /\ y \in Request /\ y.kind = x.kind /\ y.user = x.user /\ y.conversation = x.conversation
      /\ y.connection = x.connection /\ y.calls = x.calls /\ y.executed = x.executed /\ y.at = x.at
      /\ y.held = locks /\ y.wrote = wrote /\ y.pc = pc
  BY <1>1, <1>3, <1>4 DEF Request
<1> HIDE DEF y
<1> QED
  BY <1>2, <1>3, <1>5 DEF Adds, locks

\* An INSERT preserves the invariant when what its transaction has stored is right.
LEMMA WritingInv ==
    ASSUME ChatInv, NEW r \in Requests, NEW add \in Rows, NEW y, Adds(r, y, add),
           req' = [req EXCEPT ![r] = y],
           Began(req[r]), Wrote1(y), y.pc = "execution" => y.executed, WroteOK(r, y),
           Blockers(r) = {}, Wants(r) \subseteq Lock,
           conversations[req[r].conversation] # None,
           req[r].pc = "user" \/ Wrote1(req[r]),
           UNCHANGED <<connections, canQuery, conversations, rows, clock>>,
           \/ add.messages = {} /\ UNCHANGED lastId
           \/ /\ \A m \in add.messages : m.id = lastId.message + 1
              /\ lastId' = [lastId EXCEPT !.message = @ + 1]
    PROVE  ChatInv'
<1> DEFINE x == req[r]
<1>1. /\ LocalOK(r, x) /\ x \in Request /\ ArgumentsOK(x) /\ CallsOK(x) /\ KeepsConversation(x)
      /\ x.kind = "turn"
      /\ y \in Request /\ y.kind = "turn" /\ y.user = x.user /\ y.conversation = x.conversation
      /\ y.connection = x.connection /\ y.calls = x.calls /\ y.executed = x.executed /\ y.at = x.at
      /\ y.held = x.held \cup Wants(r)
      /\ y.wrote.messages = x.wrote.messages \cup add.messages
  <2>1. LocalOK(r, x) /\ x \in Request /\ ArgumentsOK(x) /\ CallsOK(x) /\ KeepsConversation(x)
    BY DEF ChatInv, LocalOK
  <2>2. x.kind = "turn"
    BY <2>1, KindOf DEF Began
  <2> QED
    BY <2>1, <2>2 DEF Adds, Plus
<1>2. LocalOK(r, y)
  <2>1. ArgumentsOK(y)
    <3>1. y.pc \in PcsOf[y.kind]
      BY <1>1, Pcs DEF Wrote1
    <3>2. x.conversation \in Conversations /\ x.user \in Users /\ x.connection \in Connections
      BY <1>1 DEF ArgumentsOK
    <3> QED
      BY <1>1, <3>1, <3>2 DEF ArgumentsOK
  <2>2. CallsOK(y)
    BY <1>1 DEF CallsOK, Wrote1, Began
  <2>3. KeepsConversation(y)
    BY <1>1, WantsAt DEF KeepsConversation, ShareOf
  <2> QED
    BY <1>1, <2>1, <2>2, <2>3 DEF LocalOK
<1>3. Stepped(r) /\ req'[r] = y
  BY <1>2, Replaced
<1>4. /\ req' \in [Requests -> Request] /\ \A s \in Requests : LocalOK(s, req'[s])
      /\ \A s \in Requests \ {r} : req'[s] = req[s]
  BY <1>3, Locals DEF Stepped
<1>5. /\ lastId' \in [conversation : Nat, message : Nat] /\ lastId.message \in Nat
      /\ lastId'.message \in {lastId.message, lastId.message + 1}
      /\ \A m \in add.messages : m.id = lastId.message + 1 /\ lastId'.message = lastId.message + 1
  BY DEF ChatInv, StoreOK
<1>6. StoreOK' /\ RowsOK'
  BY <1>5 DEF ChatInv, StoreOK, RowsOK, Rows, Message
<1>7. LocksOK'
  <2>1. \A s, t \in Requests : s # t => Compatible(req'[s], req'[t])
    BY <1>1, <1>3, Granted
  <2>2. \A s \in Requests : Wrote1(req'[s]) => conversations'[req'[s].conversation] # None
    BY <1>1, <1>3, <1>4 DEF ChatInv, LocksOK
  <2> QED
    BY <2>1, <2>2 DEF LocksOK
<1>8. FreshOK'
  <2>1. /\ \A m \in rows.messages : m.id \in Nat /\ m.id <= lastId.message
        /\ \A s \in Requests : \A m \in req[s].wrote.messages : m.id \in Nat
                                                                /\ m.id <= lastId.message
    BY DEF ChatInv, RowsOK, Rows, Message, Request, FreshOK
  <2>2. lastId.message + 1 \notin Ids(rows)
    BY <1>5, <2>1 DEF Ids
  <2>3. \A m \in rows'.messages : /\ m.id <= lastId'.message
                                  /\ m.at <= clock'
                                  /\ m.turn \in Requests => req'[m.turn].pc = "done"
    <3> SUFFICES ASSUME NEW m \in rows.messages
                 PROVE  /\ m.id <= lastId'.message
                        /\ m.at <= clock
                        /\ m.turn \in Requests => req'[m.turn].pc = "done"
      OBVIOUS
    <3>1. m.at <= clock /\ (m.turn \in Requests => req[m.turn].pc = "done")
      BY DEF ChatInv, FreshOK
    <3>2. m.id <= lastId'.message
      BY <1>5, <2>1
    <3> QED
      BY <1>4, <3>1, <3>2 DEF Began
  <2>4. ASSUME NEW s \in Requests
        PROVE  /\ \A m \in req'[s].wrote.messages : /\ m.id <= lastId'.message
                                                    /\ m.id \notin Ids(rows')
               /\ Began(req'[s]) => /\ req'[s].at <= clock'
                                    /\ \A m \in rows'.messages : m.at # req'[s].at
    <3>1. \A m \in req'[s].wrote.messages : m.id <= lastId'.message
      BY <1>1, <1>3, <1>4, <1>5, <2>1
    <3>2. \A m \in req'[s].wrote.messages : m.id \notin Ids(rows)
      BY <1>1, <1>3, <1>4, <1>5, <2>2 DEF ChatInv, FreshOK
    <3>3. Began(req'[s]) => /\ req'[s].at <= clock
                            /\ \A m \in rows.messages : m.at # req'[s].at
      BY <1>1, <1>3, <1>4 DEF ChatInv, FreshOK
    <3> QED
      BY <3>1, <3>2, <3>3
  <2>5. \A s \in Requests \ {r} :
           /\ \A m \in y.wrote.messages, n \in req[s].wrote.messages : m.id # n.id
           /\ Began(req[s]) => req[s].at # y.at
    <3> SUFFICES ASSUME NEW s \in Requests \ {r}
                 PROVE  /\ \A m \in y.wrote.messages, n \in req[s].wrote.messages : m.id # n.id
                        /\ Began(req[s]) => req[s].at # y.at
      OBVIOUS
    <3>1. Began(req[s]) => req[s].at # y.at
      BY <1>1 DEF ChatInv, FreshOK
    <3>2. \A m \in x.wrote.messages, n \in req[s].wrote.messages : m.id # n.id
      BY DEF ChatInv, FreshOK
    <3>3. \A m \in add.messages, n \in req[s].wrote.messages : m.id # n.id
      BY <1>5, <2>1
    <3> QED
      BY <1>1, <3>1, <3>2, <3>3
  <2>6. ASSUME NEW s \in Requests, NEW t \in Requests, s # t
        PROVE  /\ \A m \in req'[s].wrote.messages, n \in req'[t].wrote.messages : m.id # n.id
               /\ Began(req'[s]) /\ Began(req'[t]) => req'[s].at # req'[t].at
    <3>1. CASE s = r
      BY <1>3, <1>4, <2>5, <2>6, <3>1
    <3>2. CASE t = r
      BY <1>3, <1>4, <2>5, <2>6, <3>2
    <3>3. CASE s # r /\ t # r
      BY <1>4, <2>6, <3>3 DEF ChatInv, FreshOK
    <3> QED
      BY <3>1, <3>2, <3>3
  <2> QED
    BY <2>3, <2>4, <2>6 DEF FreshOK
<1> QED
  BY <1>4, <1>6, <1>7, <1>8 DEF ChatInv

LEMMA InsertFails ==
    ASSUME ChatInv, NEW r \in Requests, Finish(r),
           UNCHANGED <<connections, canQuery, conversations, rows, clock>>,
           UNCHANGED lastId \/ lastId' = [lastId EXCEPT !.message = @ + 1]
    PROVE  ChatInv'
<1>1. /\ lastId' \in [conversation : Nat, message : Nat]
      /\ lastId.message <= lastId'.message
  BY DEF ChatInv, StoreOK
<1>2. StoreOK'
  BY <1>1 DEF ChatInv, StoreOK
<1> QED
  BY <1>1, <1>2, FinishIsQuiet, QuietInv

\* The messages of a turn are well-formed.
LEMMA Messages ==
    ASSUME NEW r \in Requests, NEW x \in Request, NEW i \in Nat, x.conversation \in Conversations
    PROVE  Question(r, x, i) \in Message /\ Reply(r, x, i) \in Message
BY DEF Question, Reply, Message, Request, Turns

\* What is known of the request whose turn makes an INSERT.
LEMMA Inserting ==
    ASSUME ChatInv, NEW r \in Requests,
           req[r].pc \in {"user", "retrieval", "assistant", "execution", "commit"}
    PROVE  /\ req[r] \in Request /\ req[r].kind = "turn" /\ req[r].conversation \in Conversations
           /\ req[r].connection \in Connections
           /\ WroteOK(r, req[r]) /\ CallsOK(req[r]) /\ Began(req[r])
           /\ req[r].pc = "user" \/ Wrote1(req[r])
           /\ Wrote1(req[r]) => conversations[req[r].conversation] # None
           /\ req[r].pc # "commit" => Wants(r) \subseteq Lock
<1>1. LocalOK(r, req[r]) /\ req[r] \in Request /\ ArgumentsOK(req[r])
  BY DEF ChatInv, LocalOK
<1>2. req[r].kind = "turn"
  BY <1>1, KindOf
<1>3. req[r].pc # "commit" => Wants(r) \subseteq Lock
  BY WantsType
<1> QED
  BY <1>1, <1>2, <1>3 DEF ArgumentsOK, LocalOK, Began, Wrote1, ChatInv, LocksOK

LEMMA InsertUserMessageInv ==
    ASSUME ChatInv, NEW r \in Requests, InsertUserMessage(r)
    PROVE  ChatInv'
<1> DEFINE x == req[r]
           i == lastId.message + 1
           question == Question(r, x, i)
           add == [NoRows EXCEPT !.messages = {question}]
<1>1. /\ x.pc = "user" /\ x.wrote = NoRows
      /\ UNCHANGED <<connections, canQuery, conversations, rows, clock>>
      /\ lastId' = [lastId EXCEPT !.message = @ + 1]
      /\ Insert(r, conversations[x.conversation] # None, add, "retrieval")
  <2>1. NewMessage(r, "user", "completed") = question
    BY DEF NewMessage, Question
  <2>2. x.pc = "user" /\ Insert(r, conversations[x.conversation] # None, add, "retrieval")
    BY <2>1 DEF InsertUserMessage
  <2>3. UNCHANGED <<connections, canQuery, conversations, rows, clock>>
    BY <2>2 DEF Insert
  <2>4. x.wrote = NoRows
    BY <2>2, Inserting DEF WroteOK, Wrote1
  <2> QED
    BY <2>2, <2>3, <2>4 DEF InsertUserMessage
<1>2. CASE conversations[x.conversation] = None
  BY <1>1, <1>2, InsertFails DEF Insert
<1>3. CASE conversations[x.conversation] # None
  <2>1. i \in Nat /\ i = lastId.message + 1
    BY DEF ChatInv, StoreOK
  <2> HIDE DEF i
  <2>2. add \in Rows /\ add.messages = {question} /\ question.id = i
    BY <1>1, <2>1, Messages, Inserting, Constants DEF Rows, Question
  <2>3. Insert(r, TRUE, add, "retrieval")
    BY <1>1, <1>3 DEF Insert
  <2>4. Plus(NoRows, add) = add
    BY DEF Plus, NoRows
  <2> HIDE DEF add
  <2>5. PICK y : Adds(r, y, add) /\ y.pc = "retrieval" /\ req' = [req EXCEPT ![r] = y]
    BY <1>1, <2>2, <2>3, Inserted
  <2>6. y.wrote = [NoRows EXCEPT !.messages = {Question(r, y, i)}]
    <3>1. y.wrote = add
      BY <1>1, <2>4, <2>5 DEF Adds
    <3>2. Question(r, y, i) = question
      BY <2>5 DEF Adds, Question
    <3> QED
      BY <3>1, <3>2 DEF add
  <2>7. WroteOK(r, y) /\ Wrote1(y)
    BY <2>1, <2>5, <2>6 DEF WroteOK, Wrote1
  <2>8. Blockers(r) = {}
    BY <2>3 DEF Insert
  <2> QED
    BY <1>1, <1>3, <2>1, <2>2, <2>5, <2>7, <2>8, Inserting, WritingInv
<1> QED
  BY <1>2, <1>3

LEMMA InsertRetrievalInv ==
    ASSUME ChatInv, NEW r \in Requests, InsertRetrieval(r)
    PROVE  ChatInv'
<1> DEFINE x == req[r]
<1>1. /\ x.pc = "retrieval" /\ Wrote1(x) /\ WroteOK(r, x)
      /\ UNCHANGED <<connections, canQuery, conversations, lastId, rows, clock>>
  BY Inserting DEF InsertRetrieval, Insert, Wrote1
<1>2. PICK i \in Nat : x.wrote = [NoRows EXCEPT !.messages = {Question(r, x, i)}]
  BY <1>1 DEF WroteOK
<1>3. Wrote(r, "user") = i
  <2>1. x.wrote.messages = {Question(r, x, i)}
    BY <1>2 DEF NoRows
  <2>2. Question(r, x, i).role = "user" /\ Question(r, x, i).id = i
    BY DEF Question
  <2>3. (CHOOSE m \in x.wrote.messages : m.role = "user") = Question(r, x, i)
    BY <2>1, <2>2
  <2> QED
    BY <2>2, <2>3 DEF Wrote
<1> DEFINE add == [NoRows EXCEPT !.retrievals = {i}]
<1>4. CASE x.connection \notin connections
  BY <1>1, <1>4, InsertFails DEF InsertRetrieval, Insert
<1>5. CASE x.connection \in connections
  <2>1. Insert(r, TRUE, add, "assistant")
    BY <1>3, <1>5 DEF InsertRetrieval, Insert
  <2>2. add \in Rows /\ add.messages = {}
    BY DEF Rows, NoRows
  <2>3. Plus(x.wrote, add) = [messages |-> {Question(r, x, i)}, retrievals |-> {i}, calls |-> {},
                              executions |-> {}]
    <3>1. /\ x.wrote.messages = {Question(r, x, i)} /\ x.wrote.retrievals = {}
          /\ x.wrote.calls = {} /\ x.wrote.executions = {}
      BY <1>2 DEF NoRows
    <3>2. /\ add.messages = {} /\ add.retrievals = {i} /\ add.calls = {} /\ add.executions = {}
      BY DEF NoRows
    <3> QED
      BY <3>1, <3>2 DEF Plus
  <2> HIDE DEF add
  <2>4. PICK y : Adds(r, y, add) /\ y.pc = "assistant" /\ req' = [req EXCEPT ![r] = y]
    BY <1>1, <2>1, <2>2, Inserted
  <2>5. y.wrote = [messages |-> {Question(r, y, i)}, retrievals |-> {i}, calls |-> {},
                   executions |-> {}]
    <3>1. Question(r, y, i) = Question(r, x, i)
      BY <2>4 DEF Adds, Question
    <3> QED
      BY <2>3, <2>4, <3>1 DEF Adds
  <2>6. WroteOK(r, y) /\ Wrote1(y)
    BY <2>4, <2>5 DEF WroteOK, Wrote1
  <2>7. Blockers(r) = {}
    BY <2>1 DEF Insert
  <2> QED
    BY <1>1, <2>2, <2>4, <2>6, <2>7, Inserting, WritingInv
<1> QED
  BY <1>4, <1>5

LEMMA InsertAssistantMessageInv ==
    ASSUME ChatInv, NEW r \in Requests, InsertAssistantMessage(r)
    PROVE  ChatInv'
<1> DEFINE x == req[r]
           j == lastId.message + 1
           reply == Reply(r, x, j)
           calls == {j} \X (1 .. x.calls)
           add == [NoRows EXCEPT !.messages = {reply}, !.calls = calls]
           pc == IF x.executed THEN "execution" ELSE "commit"
<1>1. x.pc = "assistant" /\ Wrote1(x) /\ WroteOK(r, x)
  BY Inserting DEF InsertAssistantMessage, Wrote1
<1>2. PICK i \in Nat : x.wrote = [messages |-> {Question(r, x, i)}, retrievals |-> {i},
                                  calls |-> {}, executions |-> {}]
  BY <1>1 DEF WroteOK
<1>3. /\ Insert(r, TRUE, add, pc)
      /\ lastId' = [lastId EXCEPT !.message = @ + 1]
  <2>1. NewMessage(r, "assistant", IF x.executed THEN "completed" ELSE "failed") = reply
    BY DEF NewMessage, Reply
  <2>2. reply.id = j
    BY DEF Reply
  <2> QED
    BY <2>1, <2>2 DEF InsertAssistantMessage
<1>4. /\ UNCHANGED <<connections, canQuery, conversations, rows, clock>>
      /\ Blockers(r) = {}
  BY <1>3 DEF Insert
<1>5. j \in Nat /\ j = lastId.message + 1 /\ i < j
  <2>1. lastId.message \in Nat /\ Question(r, x, i) \in x.wrote.messages
    BY <1>2 DEF ChatInv, StoreOK
  <2>2. Question(r, x, i).id <= lastId.message
    BY <2>1 DEF ChatInv, FreshOK
  <2> QED
    BY <2>1, <2>2 DEF Question
<1> HIDE DEF j
<1>6. /\ calls \in SUBSET (Nat \X Nat)
      /\ reply \in Message /\ reply.id = j
  <2>1. x.calls \in Nat
    BY <1>1, ChatTurnsAssumption, Inserting DEF Request
  <2>2. 1 .. x.calls \subseteq Nat
    BY <2>1
  <2> QED
    BY <1>1, <1>5, <2>2, Messages, Inserting DEF Reply
<1> HIDE DEF reply, calls
<1>7. /\ add \in Rows
      /\ add.messages = {reply} /\ add.retrievals = {} /\ add.calls = calls /\ add.executions = {}
  BY <1>6 DEF NoRows, Rows
<1> HIDE DEF add
<1>8. pc \in {"execution", "commit"} /\ (pc = "execution" <=> x.executed)
  BY Inserting, <1>1 DEF Request
<1> HIDE DEF pc
<1>9. PICK y : Adds(r, y, add) /\ y.pc = pc /\ req' = [req EXCEPT ![r] = y]
  <2>1. Insert(r, TRUE, add, pc) /\ add \in Rows
    BY <1>3, <1>7
  <2>2. CASE pc = "execution"
    <3>1. Insert(r, TRUE, add, "execution")
      BY <2>1, <2>2
    <3>2. \E y : Adds(r, y, add) /\ y.pc = "execution" /\ req' = [req EXCEPT ![r] = y]
      BY <1>1, <2>1, <3>1, Inserted
    <3> QED
      BY <2>2, <3>2
  <2>3. CASE pc = "commit"
    <3>1. Insert(r, TRUE, add, "commit")
      BY <2>1, <2>3
    <3>2. \E y : Adds(r, y, add) /\ y.pc = "commit" /\ req' = [req EXCEPT ![r] = y]
      BY <1>1, <2>1, <3>1, Inserted
    <3> QED
      BY <2>3, <3>2
  <2> QED
    BY <1>8, <2>2, <2>3
<1>10. y.wrote = [messages   |-> {Question(r, y, i), Reply(r, y, j)},
                  retrievals |-> {i},
                  calls      |-> {j} \X (1 .. y.calls),
                  executions |-> {}]
  <2>1. /\ x.wrote.messages = {Question(r, x, i)} /\ x.wrote.retrievals = {i}
        /\ x.wrote.calls = {} /\ x.wrote.executions = {}
    BY <1>2
  <2>2. Question(r, y, i) = Question(r, x, i) /\ Reply(r, y, j) = reply
    BY <1>9 DEF Adds, Question, Reply, reply
  <2>3. calls = {j} \X (1 .. y.calls)
    BY <1>9 DEF Adds, calls
  <2>4. Plus(x.wrote, add) = [messages   |-> {Question(r, x, i), reply}, retrievals |-> {i},
                              calls      |-> calls, executions |-> {}]
    BY <1>7, <2>1 DEF Plus
  <2> QED
    BY <1>9, <2>2, <2>3, <2>4 DEF Adds
<1>11. y.executed = x.executed
  BY <1>9 DEF Adds
<1>12. WroteOK(r, y) /\ Wrote1(y)
  BY <1>5, <1>8, <1>9, <1>10, <1>11 DEF WroteOK, Wrote1
<1>13. Wants(r) \subseteq Lock /\ Began(x) /\ conversations[x.conversation] # None
  BY <1>1, Inserting
<1>14. \A m \in add.messages : m.id = lastId.message + 1
  BY <1>5, <1>6, <1>7
<1> QED
  BY <1>1, <1>3, <1>4, <1>7, <1>8, <1>9, <1>11, <1>12, <1>13, <1>14, WritingInv

LEMMA InsertExecutionInv ==
    ASSUME ChatInv, NEW r \in Requests, InsertExecution(r)
    PROVE  ChatInv'
<1> DEFINE x == req[r]
<1>1. /\ x.pc = "execution" /\ Wrote1(x) /\ WroteOK(r, x) /\ x.executed
      /\ UNCHANGED <<connections, canQuery, conversations, lastId, rows, clock>>
  BY Inserting DEF InsertExecution, Insert, Wrote1, CallsOK
<1>2. PICK i \in Nat, j \in Nat :
         /\ i < j
         /\ x.wrote = [messages   |-> {Question(r, x, i), Reply(r, x, j)},
                       retrievals |-> {i},
                       calls      |-> {j} \X (1 .. x.calls),
                       executions |-> {}]
  BY <1>1 DEF WroteOK
<1>3. Wrote(r, "assistant") = j
  <2>1. x.wrote.messages = {Question(r, x, i), Reply(r, x, j)}
    BY <1>2
  <2>2. /\ Question(r, x, i).role = "user"
        /\ Reply(r, x, j).role = "assistant" /\ Reply(r, x, j).id = j
    BY DEF Question, Reply
  <2>3. (CHOOSE m \in x.wrote.messages : m.role = "assistant") = Reply(r, x, j)
    BY <2>1, <2>2
  <2> QED
    BY <2>2, <2>3 DEF Wrote
<1> DEFINE add == [NoRows EXCEPT !.executions = {j}]
<1>4. CASE x.connection \notin connections
  BY <1>1, <1>4, InsertFails DEF InsertExecution, Insert
<1>5. CASE x.connection \in connections
  <2>1. Insert(r, TRUE, add, "commit")
    BY <1>3, <1>5 DEF InsertExecution, Insert
  <2>2. /\ add \in Rows
        /\ add.messages = {} /\ add.retrievals = {} /\ add.calls = {} /\ add.executions = {j}
    BY DEF Rows, NoRows
  <2> HIDE DEF add
  <2>3. PICK y : Adds(r, y, add) /\ y.pc = "commit" /\ req' = [req EXCEPT ![r] = y]
    BY <1>1, <2>1, <2>2, Inserted
  <2>4. y.wrote = [messages   |-> {Question(r, y, i), Reply(r, y, j)},
                   retrievals |-> {i},
                   calls      |-> {j} \X (1 .. y.calls),
                   executions |-> {j}]
    <3> DEFINE calls == {j} \X (1 .. x.calls)
    <3>1. /\ x.wrote.messages = {Question(r, x, i), Reply(r, x, j)} /\ x.wrote.retrievals = {i}
          /\ x.wrote.calls = calls /\ x.wrote.executions = {}
      BY <1>2
    <3>2. /\ Question(r, y, i) = Question(r, x, i) /\ Reply(r, y, j) = Reply(r, x, j)
          /\ calls = {j} \X (1 .. y.calls)
      BY <2>3 DEF Adds, Question, Reply
    <3> HIDE DEF calls
    <3>3. Plus(x.wrote, add) = [messages   |-> {Question(r, x, i), Reply(r, x, j)},
                                retrievals |-> {i}, calls |-> calls, executions |-> {j}]
      BY <2>2, <3>1 DEF Plus
    <3> QED
      BY <2>3, <3>2, <3>3 DEF Adds
  <2>5. y.executed = x.executed
    BY <2>3 DEF Adds
  <2>6. WroteOK(r, y) /\ Wrote1(y)
    BY <1>1, <1>2, <2>3, <2>4, <2>5 DEF WroteOK, Wrote1
  <2>7. Wants(r) \subseteq Lock /\ Began(x) /\ conversations[x.conversation] # None
    BY <1>1, Inserting
  <2>8. Blockers(r) = {}
    BY <2>1 DEF Insert
  <2> QED
    BY <1>1, <2>2, <2>3, <2>6, <2>7, <2>8, WritingInv
<1> QED
  BY <1>4, <1>5

\* The calls of an answer are as many as it took.
LEMMA CallsOf ==
    ASSUME NEW j \in Nat, NEW n \in Nat \ {0}
    PROVE  /\ {j} \X (1 .. n) # {}
           /\ Cardinality({j} \X (1 .. n)) = n
           /\ {j} \X (1 .. n) \subseteq Nat \X Nat
           /\ \A call \in {j} \X (1 .. n) : call[1] = j
<1>1. IsFiniteSet({j}) /\ Cardinality({j}) = 1
  BY FS_Singleton
<1>2. IsFiniteSet(1 .. n) /\ Cardinality(1 .. n) = n
  <2>1. n \in Int /\ n >= 1
    OBVIOUS
  <2> QED
    BY <2>1, FS_Interval
<1>3. Cardinality({j} \X (1 .. n)) = 1 * n
  BY <1>1, <1>2, FS_Product
<1>4. 1 \in 1 .. n /\ 1 .. n \subseteq Nat
  OBVIOUS
<1>5. <<j, 1>> \in {j} \X (1 .. n)
  BY <1>4
<1> QED
  BY <1>3, <1>4, <1>5

\* The rows of a turn that is stored together, next to those there are.
LEMMA CommittedRows ==
    ASSUME ChatInv, NEW r \in Requests, req[r].pc = "commit",
           NEW i \in Nat, NEW j \in Nat, i < j,
           req[r].wrote = [messages   |-> {Question(r, req[r], i), Reply(r, req[r], j)},
                           retrievals |-> {i},
                           calls      |-> {j} \X (1 .. req[r].calls),
                           executions |-> IF req[r].executed THEN {j} ELSE {}],
           NEW R, R = Plus(rows, req[r].wrote)
    PROVE  /\ R \in Rows
           /\ Referenced(R)
           /\ Distinct(R.messages)
           /\ \A m \in R.messages : Whole(m, R)
           /\ R.messages = rows.messages \cup {Question(r, req[r], i), Reply(r, req[r], j)}
<1> DEFINE x == req[r]
           question == Question(r, x, i)
           reply == Reply(r, x, j)
           calls == {j} \X (1 .. x.calls)
           executions == IF x.executed THEN {j} ELSE {}
<1>1. /\ x \in Request /\ x.wrote \in Rows /\ x.conversation \in Conversations
      /\ x.calls \in Nat \ {0}
      /\ ~x.executed => x.calls = MaxAttempts
      /\ x.executed \in BOOLEAN
  <2>1. x \in Request /\ x.conversation \in Conversations /\ x.kind = "turn" /\ CallsOK(x)
    BY Inserting
  <2>2. x.calls \in 1 .. MaxAttempts + 1 /\ (~x.executed => x.calls = MaxAttempts)
    BY <2>1 DEF CallsOK
  <2> QED
    BY <2>1, <2>2, ChatTurnsAssumption DEF Request
<1>2. /\ rows \in Rows /\ Referenced(rows) /\ Distinct(rows.messages)
      /\ \A m \in rows.messages : Whole(m, rows)
  BY DEF ChatInv, RowsOK
<1>3. R \in Rows
  BY <1>1, <1>2, Added
<1>4. /\ R.messages = rows.messages \cup {question, reply}
      /\ R.retrievals = rows.retrievals \cup {i}
      /\ R.calls = rows.calls \cup calls
      /\ R.executions = rows.executions \cup executions
  BY DEF Plus
<1>5. /\ question.id = i /\ question.role = "user" /\ question.turn = r /\ question.at = x.at
      /\ question.conversation = x.conversation
      /\ reply.id = j /\ reply.role = "assistant" /\ reply.turn = r /\ reply.at = x.at
      /\ reply.conversation = x.conversation
      /\ reply.status = "completed" <=> x.executed
      /\ reply.status = "failed" <=> ~x.executed
  BY <1>1 DEF Question, Reply
<1>6. \A m \in rows.messages : m.id # i /\ m.id # j /\ m.at # x.at /\ m.turn # r
  <2> SUFFICES ASSUME NEW m \in rows.messages
               PROVE  m.id # i /\ m.id # j /\ m.at # x.at /\ m.turn # r
    OBVIOUS
  <2>1. question \in x.wrote.messages /\ reply \in x.wrote.messages /\ m.id \in Ids(rows)
    BY DEF Ids
  <2>2. m.id # i /\ m.id # j
    BY <1>5, <2>1 DEF ChatInv, FreshOK
  <2>3. Began(x)
    BY DEF Began
  <2>4. m.at # x.at /\ m.turn # r
    BY <2>3 DEF ChatInv, FreshOK
  <2> QED
    BY <2>2, <2>4
<1>7. /\ calls # {} /\ Cardinality(calls) = x.calls
      /\ \A call \in calls : call[1] = j
  BY <1>1, CallsOf
<1>8. /\ \A k \in rows.retrievals \cup rows.executions : k \in Ids(rows)
      /\ \A call \in rows.calls : call[1] \in Ids(rows)
      /\ i \notin Ids(rows) /\ j \notin Ids(rows)
  BY <1>2, <1>6 DEF Referenced, Ids
<1> HIDE DEF question, reply, calls
<1>9. Referenced(R)
  <2>1. Ids(R) = Ids(rows) \cup {i, j}
    <3>1. \A k : k \in Ids(rows) <=> \E m \in rows.messages : m.id = k
      BY DEF Ids
    <3>2. \A k : k \in Ids(R) <=> \E m \in rows.messages \cup {question, reply} : m.id = k
      BY <1>4 DEF Ids
    <3>3. \A k : (\E m \in rows.messages \cup {question, reply} : m.id = k)
                    <=> (\E m \in rows.messages : m.id = k) \/ k = i \/ k = j
      BY <1>5
    <3>4. \A k : k \in Ids(R) <=> k \in Ids(rows) \cup {i, j}
      BY <3>1, <3>2, <3>3
    <3> QED
      BY <3>4
  <2>2. \A k \in R.retrievals \cup R.executions : k \in Ids(R)
    BY <1>4, <1>8, <2>1
  <2>3. \A call \in R.calls : call[1] \in Ids(R)
    BY <1>4, <1>7, <1>8, <2>1
  <2>4. {call[1] : call \in R.calls} \subseteq Ids(R)
    BY <2>3
  <2> QED
    BY <2>2, <2>4 DEF Referenced
<1>10. Distinct(R.messages)
  <2> SUFFICES ASSUME NEW m \in R.messages, NEW n \in R.messages
               PROVE  /\ m.id = n.id => m = n
                      /\ m.at = n.at <=> m.turn = n.turn
                      /\ m.turn = n.turn /\ m.role = n.role => m = n
                      /\ m.turn = n.turn /\ m.role = "user" /\ n.role = "assistant" => m.id < n.id
    BY DEF Distinct
  <2>1. CASE m \in rows.messages /\ n \in rows.messages
    BY <1>2, <2>1 DEF Distinct
  <2>2. CASE m \in rows.messages /\ n \in {question, reply}
    BY <1>5, <1>6, <2>2
  <2>3. CASE m \in {question, reply} /\ n \in rows.messages
    BY <1>5, <1>6, <2>3
  <2>4. CASE m \in {question, reply} /\ n \in {question, reply}
    BY <1>5, <2>4
  <2> QED
    BY <1>4, <2>1, <2>2, <2>3, <2>4
<1>11. ASSUME NEW m \in rows.messages PROVE Whole(m, R)
  <2>1. Whole(m, rows) /\ m.id # j
    BY <1>2, <1>6
  <2>2. {call \in R.calls : call[1] = m.id} = {call \in rows.calls : call[1] = m.id}
    BY <1>4, <1>7, <2>1
  <2>3. m.id \in R.executions <=> m.id \in rows.executions
    BY <1>4, <2>1
  <2>4. m.role = "user" => m.id \in R.retrievals
    BY <1>4, <2>1 DEF Whole
  <2>5. \E n \in R.messages : n.turn = m.turn /\ n.conversation = m.conversation /\ n.role # m.role
    BY <1>4, <2>1 DEF Whole
  <2> QED
    BY <2>1, <2>2, <2>3, <2>4, <2>5 DEF Whole
<1>12. Whole(question, R)
  <2>1. question.id \in R.retrievals /\ question.role = "user"
    BY <1>4, <1>5
  <2>2. \E n \in R.messages : /\ n.turn = question.turn
                              /\ n.conversation = question.conversation
                              /\ n.role # question.role
    <3>1. /\ reply \in R.messages /\ reply.turn = question.turn
          /\ reply.conversation = question.conversation /\ reply.role # question.role
      BY <1>4, <1>5
    <3> QED
      BY <3>1
  <2> QED
    BY <2>1, <2>2 DEF Whole
<1>13. Whole(reply, R)
  <2>1. {call \in R.calls : call[1] = reply.id} = calls
    BY <1>4, <1>5, <1>7, <1>8
  <2>2. reply.id \in R.executions <=> x.executed
    BY <1>4, <1>5, <1>8
  <2>3. \E n \in R.messages : /\ n.turn = reply.turn
                              /\ n.conversation = reply.conversation
                              /\ n.role # reply.role
    <3>1. /\ question \in R.messages /\ question.turn = reply.turn
          /\ question.conversation = reply.conversation /\ question.role # reply.role
      BY <1>4, <1>5
    <3> QED
      BY <3>1
  <2> QED
    BY <1>1, <1>5, <1>7, <2>1, <2>2, <2>3 DEF Whole
<1> QED
  BY <1>3, <1>4, <1>9, <1>10, <1>11, <1>12, <1>13 DEF question, reply

LEMMA CommitInv ==
    ASSUME ChatInv, NEW r \in Requests, Commit(r)
    PROVE  ChatInv'
<1> DEFINE x == req[r]
<1>1. /\ x.pc = "commit" /\ x \in Request /\ x.wrote \in Rows /\ WroteOK(r, x)
      /\ x.conversation \in Conversations /\ conversations[x.conversation] # None
      /\ Finish(r) /\ UNCHANGED <<connections, canQuery, conversations, lastId, clock>>
  BY Inserting DEF Commit, Request, Wrote1
<1>2. PICK i \in Nat, j \in Nat :
         /\ i < j
         /\ x.wrote = [messages   |-> {Question(r, x, i), Reply(r, x, j)},
                       retrievals |-> {i},
                       calls      |-> {j} \X (1 .. x.calls),
                       executions |-> IF x.executed THEN {j} ELSE {}]
  BY <1>1 DEF WroteOK
<1> DEFINE question == Question(r, x, i)
           reply == Reply(r, x, j)
<1>3. rows' = Plus(rows, x.wrote)
  BY <1>1, Added DEF Commit, ChatInv, RowsOK
<1>4. /\ rows' \in Rows /\ Referenced(rows') /\ Distinct(rows'.messages)
      /\ \A m \in rows'.messages : Whole(m, rows')
      /\ rows'.messages = rows.messages \cup {question, reply}
  BY <1>1, <1>2, <1>3, CommittedRows
<1>5. /\ question.id = i /\ question.turn = r /\ question.at = x.at
      /\ question.conversation = x.conversation
      /\ reply.id = j /\ reply.turn = r /\ reply.at = x.at
      /\ reply.conversation = x.conversation
      /\ x.wrote.messages = {question, reply}
  BY <1>2 DEF Question, Reply
<1> HIDE DEF question, reply
<1>6. Quiet(r) /\ req'[r].pc = "done"
  <2>1. req' = [req EXCEPT ![r] = Done]
    BY <1>1 DEF Finish, Done
  <2>2. req'[r] = Done
    BY <2>1, IdleOK, Replaced
  <2> QED
    BY <1>1, <2>2, FinishIsQuiet DEF Done, Idle
<1>7. /\ req' \in [Requests -> Request] /\ \A s \in Requests : LocalOK(s, req'[s])
      /\ \A s \in Requests \ {r} : req'[s] = req[s]
      /\ ~Began(req'[r]) /\ ~Wrote1(req'[r]) /\ req'[r].wrote.messages = {}
  BY <1>6, Locals, Constants DEF Quiet, Stepped, LocalOK, WroteOK, Began, Wrote1
<1>8. StoreOK'
  BY <1>1 DEF ChatInv, StoreOK
<1>9. RowsOK'
  <2>1. \A m \in rows'.messages : conversations'[m.conversation] # None
    BY <1>1, <1>4, <1>5 DEF ChatInv, RowsOK
  <2> QED
    BY <1>4, <2>1 DEF RowsOK
<1>10. LocksOK'
  <2>1. \A s, t \in Requests : s # t => Compatible(req'[s], req'[t])
    BY <1>6 DEF Quiet, Stepped, ChatInv, LocksOK, Compatible
  <2>2. \A s \in Requests : Wrote1(req'[s]) => conversations'[req'[s].conversation] # None
    BY <1>1, <1>7 DEF ChatInv, LocksOK
  <2> QED
    BY <2>1, <2>2 DEF LocksOK
<1>11. FreshOK'
  <2>1. Began(x)
    BY <1>1 DEF Began
  <2>2. \A m \in rows'.messages : /\ m.id <= lastId'.message
                                  /\ m.at <= clock'
                                  /\ m.turn \in Requests => req'[m.turn].pc = "done"
    <3> SUFFICES ASSUME NEW m \in rows'.messages
                 PROVE  /\ m.id <= lastId.message
                        /\ m.at <= clock
                        /\ m.turn \in Requests => req'[m.turn].pc = "done"
      BY <1>1
    <3>1. CASE m \in rows.messages
      BY <1>6, <1>7, <3>1 DEF ChatInv, FreshOK
    <3>2. CASE m \in {question, reply}
      BY <1>5, <1>6, <2>1, <3>2 DEF ChatInv, FreshOK
    <3> QED
      BY <1>4, <3>1, <3>2
  <2>3. Ids(rows') = Ids(rows) \cup {i, j}
    BY <1>4, <1>5 DEF Ids
  <2>4. ASSUME NEW s \in Requests
        PROVE  /\ \A m \in req'[s].wrote.messages : /\ m.id <= lastId'.message
                                                    /\ m.id \notin Ids(rows')
               /\ Began(req'[s]) => /\ req'[s].at <= clock'
                                    /\ \A m \in rows'.messages : m.at # req'[s].at
    <3>1. CASE s = r
      BY <1>7, <3>1
    <3>2. CASE s # r
      <4>1. req'[s] = req[s] /\ clock' = clock /\ lastId' = lastId
        BY <1>1, <1>7, <3>2
      <4>2. \A m \in req[s].wrote.messages : m.id <= lastId.message /\ m.id \notin Ids(rows)
        BY DEF ChatInv, FreshOK
      <4>3. \A m \in req[s].wrote.messages : m.id # i /\ m.id # j
        BY <1>5, <3>2 DEF ChatInv, FreshOK
      <4>4. Began(req[s]) => /\ req[s].at <= clock
                             /\ \A m \in rows.messages : m.at # req[s].at
                             /\ req[s].at # x.at
        BY <2>1, <3>2 DEF ChatInv, FreshOK
      <4>5. Began(req[s]) => \A m \in rows'.messages : m.at # req[s].at
        BY <1>4, <1>5, <4>4
      <4> QED
        BY <2>3, <4>1, <4>2, <4>3, <4>4, <4>5
    <3> QED
      BY <3>1, <3>2
  <2>5. ASSUME NEW s \in Requests, NEW t \in Requests, s # t
        PROVE  /\ \A m \in req'[s].wrote.messages, n \in req'[t].wrote.messages : m.id # n.id
               /\ Began(req'[s]) /\ Began(req'[t]) => req'[s].at # req'[t].at
    <3>1. CASE s = r \/ t = r
      BY <1>7, <2>5, <3>1
    <3>2. CASE s # r /\ t # r
      BY <1>7, <2>5, <3>2 DEF ChatInv, FreshOK
    <3> QED
      BY <3>1, <3>2
  <2> QED
    BY <2>2, <2>4, <2>5 DEF FreshOK
<1> QED
  BY <1>7, <1>8, <1>9, <1>10, <1>11 DEF ChatInv

-----------------------------------------------------------------------------
\* The invariant.

LEMMA InitChatInv == Init => ChatInv
<1> SUFFICES ASSUME Init PROVE ChatInv
  OBVIOUS
<1>1. PICK executed \in BOOLEAN : rows = TurnRows(First, 1, 1, 1, executed, MaxAttempts)
  BY DEF Init
<1> DEFINE status == IF executed THEN "completed" ELSE "failed"
           question == [id |-> 1, conversation |-> 1, role |-> "user", status |-> "completed",
                        turn |-> First, at |-> 1]
           reply == [question EXCEPT !.id = 2, !.role = "assistant", !.status = status]
           calls == {2} \X (1 .. MaxAttempts)
           executions == IF executed THEN {2} ELSE {}
<1>2. /\ rows.messages = {question, reply} /\ rows.retrievals = {1}
      /\ rows.calls = calls /\ rows.executions = executions
      /\ rows = [messages |-> {question, reply}, retrievals |-> {1},
                 calls |-> calls, executions |-> executions]
  <2>1. 1 + 1 = 2
    OBVIOUS
  <2> QED
    BY <1>1, <2>1 DEF TurnRows
<1>3. /\ question \in Message /\ question.id = 1 /\ question.role = "user" /\ question.at = 1
      /\ question.turn = First /\ question.conversation = 1
      /\ reply \in Message /\ reply.id = 2 /\ reply.role = "assistant" /\ reply.at = 1
      /\ reply.turn = First /\ reply.conversation = 1
      /\ reply.status = "completed" <=> executed
      /\ reply.status = "failed" <=> ~executed
  BY ChatTurnsAssumption DEF Message, Turns
<1>4. /\ calls # {} /\ Cardinality(calls) = MaxAttempts /\ calls \subseteq Nat \X Nat
      /\ \A call \in calls : call[1] = 2
  BY ChatTurnsAssumption, CallsOf
<1> HIDE DEF question, reply, calls
<1>5. /\ req \in [Requests -> Request]
      /\ \A r \in Requests : LocalOK(r, req[r]) /\ req[r] = Idle
  BY IdleOK DEF Init, LocalOK
<1>6. /\ conversations \in [Conversations -> Conversation \cup {None}]
      /\ 1 \in Conversations /\ conversations[1] # None
      /\ \A c \in Conversations : conversations[c] # None =>
             conversations[c].connection \in Connections
  <2>1. PICK u \in Users, k \in Connections :
           conversations = [c \in Conversations |->
               IF c = 1 THEN [user |-> u, connection |-> k, title |-> None] ELSE None]
    BY DEF Init
  <2>2. [user |-> u, connection |-> k, title |-> None] \in Conversation
    BY DEF Conversation, Title
  <2> QED
    BY <2>1, <2>2, NoneAssumption, ChatTurnsAssumption
<1>7. StoreOK
  BY <1>6 DEF Init, StoreOK
<1>8. RowsOK
  <2>1. rows \in Rows
    <3>1. {question, reply} \in SUBSET Message /\ executions \in SUBSET Nat
      BY <1>3
    <3> QED
      BY <1>2, <1>4, <3>1 DEF Rows
  <2>2. 1 \in Ids(rows) /\ 2 \in Ids(rows)
    BY <1>2, <1>3 DEF Ids
  <2>3. Referenced(rows)
    <3>1. {call[1] : call \in rows.calls} \subseteq {2}
      BY <1>2, <1>4
    <3> QED
      BY <1>2, <2>2, <3>1 DEF Referenced
  <2>4. Distinct(rows.messages)
    BY <1>2, <1>3 DEF Distinct
  <2>5. Whole(question, rows)
    <3>1. reply \in rows.messages /\ question.id \in rows.retrievals
      BY <1>2, <1>3
    <3> QED
      BY <1>3, <3>1 DEF Whole
  <2>6. Whole(reply, rows)
    <3>1. question \in rows.messages
      BY <1>2
    <3>2. {call \in rows.calls : call[1] = reply.id} = calls
      BY <1>2, <1>3, <1>4
    <3>3. reply.id \in rows.executions <=> executed
      BY <1>2, <1>3
    <3> QED
      BY <1>3, <1>4, <3>1, <3>2, <3>3 DEF Whole
  <2> QED
    BY <1>2, <1>3, <1>6, <2>1, <2>3, <2>4, <2>5, <2>6 DEF RowsOK
<1>9. LocksOK
  BY <1>5 DEF LocksOK, Compatible, Wrote1, Idle
<1>10. FreshOK
  <2>1. /\ \A r \in Requests : req[r].wrote.messages = {} /\ ~Began(req[r])
        /\ lastId.message = 2 /\ clock = 1
    BY <1>5, Constants DEF Began, Idle, Init
  <2>2. \A m \in rows.messages : m.id \in {1, 2} /\ m.at = 1 /\ m.turn \notin Requests
    BY <1>2, <1>3, ChatTurnsAssumption
  <2> QED
    BY <2>1, <2>2 DEF FreshOK
<1> QED
  BY <1>5, <1>7, <1>8, <1>9, <1>10 DEF ChatInv

LEMMA NextChatInv == ChatInv /\ [Next]_vars => ChatInv'
<1> SUFFICES ASSUME ChatInv, [Next]_vars PROVE ChatInv'
  OBVIOUS
<1>1. ASSUME NEW r \in Requests, Start(r) \/ Step(r) \/ Fail(r) PROVE ChatInv'
  <2>1. CASE \/ Start(r) \/ Fail(r) \/ DeadlockVictim(r)
             \/ Authorize(r) \/ Attempt(r) \/ Answer(r) \/ Source(r) \/ Reread(r)
    BY <2>1, QuietSteps
  <2>2. CASE Begin(r)
    BY <2>2, BeginInv
  <2>3. CASE InsertUserMessage(r)
    BY <2>3, InsertUserMessageInv
  <2>4. CASE InsertRetrieval(r)
    BY <2>4, InsertRetrievalInv
  <2>5. CASE InsertAssistantMessage(r)
    BY <2>5, InsertAssistantMessageInv
  <2>6. CASE InsertExecution(r)
    BY <2>6, InsertExecutionInv
  <2>7. CASE Commit(r)
    BY <2>7, CommitInv
  <2>8. CASE SaveTitle(r) \/ InsertConversation(r)
    BY <2>8, ConversationSteps
  <2>9. CASE DropLocks(r)
    BY <2>9, DropLocksInv
  <2>10. CASE DeleteRow(r) \/ DropCommits(r)
    BY <2>10, DeletionInv
  <2> QED
    BY <1>1, <2>1, <2>2, <2>3, <2>4, <2>5, <2>6, <2>7, <2>8, <2>9, <2>10 DEF Step
<1>2. CASE UNCHANGED vars
  <2>1. /\ UNCHANGED <<connections, canQuery, conversations, lastId, rows, clock, req>>
    BY <1>2 DEF vars
  <2>2. StoreOK' /\ RowsOK' /\ LocksOK'
    BY <2>1 DEF ChatInv, StoreOK, RowsOK, Rows, Message, LocksOK
  <2>3. FreshOK'
    BY <2>1 DEF ChatInv, FreshOK
  <2> QED
    BY <2>1, <2>2, <2>3 DEF ChatInv
<1> QED
  BY <1>1, <1>2 DEF Next

LEMMA ChatCorrect == Spec => []ChatInv
BY InitChatInv, NextChatInv, PTL DEF Spec

-----------------------------------------------------------------------------
\* Every foreign key leads to a row, whatever is deleted while a turn, a title or
\* a conversation is being stored (migration 000007).
THEOREM ChatTypeOK == Spec => []TypeOK
<1>1. ChatInv => TypeOK
  <2> SUFFICES ASSUME ChatInv PROVE TypeOK
    OBVIOUS
  <2>1. /\ connections \subseteq Connections
        /\ canQuery \subseteq Users \X connections
        /\ conversations \in [Conversations -> Conversation \cup {None}]
        /\ \A c \in Conversations : conversations[c] # None =>
               conversations[c].connection \in connections
        /\ lastId \in [conversation : Nat, message : Nat]
        /\ clock \in Nat
    BY DEF ChatInv, StoreOK
  <2>2. /\ DOMAIN rows = DOMAIN NoRows
        /\ \A m \in rows.messages : m \in Message /\ conversations[m.conversation] # None
    BY DEF ChatInv, RowsOK, Rows, NoRows
  <2>3. rows.retrievals \cup rows.executions \cup {call[1] : call \in rows.calls}
            \subseteq {m.id : m \in rows.messages}
    BY DEF ChatInv, RowsOK, Referenced, Ids
  <2>4. ASSUME NEW r \in Requests
        PROVE  /\ DOMAIN req[r] = DOMAIN Idle
               /\ req[r].kind = "none" <=> req[r].pc \in {"idle", "done"}
               /\ req[r].calls \in 0 .. MaxAttempts + 1
               /\ req[r].held \subseteq Lock
    <3>1. req[r] \in Request /\ ArgumentsOK(req[r])
      BY DEF ChatInv, LocalOK
    <3>2. req[r].kind = "none" <=> req[r].pc \in {"idle", "done"}
      BY <3>1, KindOf
    <3>3. DOMAIN req[r] = DOMAIN Idle
      BY <3>1 DEF Request, Idle
    <3>4. req[r].calls \in 0 .. MaxAttempts + 1 /\ req[r].held \subseteq Lock
      BY <3>1 DEF Request
    <3> QED
      BY <3>2, <3>3, <3>4
  <2>5. DOMAIN req = Requests
    BY DEF ChatInv
  <2> QED
    BY <2>1, <2>2, <2>3, <2>4, <2>5 DEF TypeOK
<1> QED
  BY <1>1, ChatCorrect, PTL

\* A turn is stored whole or not at all, for any number of turns, deletions and
\* failures at once (send_message.go:265-302).
THEOREM TurnsStoredWhole == Spec => []TurnsAreWhole
<1>1. ChatInv => TurnsAreWhole
  BY DEF ChatInv, RowsOK, Whole, TurnsAreWhole
<1> QED
  BY <1>1, ChatCorrect, PTL

\* No message of another turn is ever read between the two of a turn
\* (message_history.go:23-26, messages.go:25-28).
THEOREM TurnsStoredTogether == Spec => []TurnsStayTogether
<1>1. ChatInv => TurnsStayTogether
  <2> SUFFICES ASSUME ChatInv, NEW m \in rows.messages, NEW n \in rows.messages,
                      m.turn = n.turn, m.role = "user", n.role = "assistant"
               PROVE  /\ Precedes(m, n)
                      /\ \A o \in rows.messages \ {m, n} :
                            o.conversation = m.conversation => ~(Precedes(m, o) /\ Precedes(o, n))
    BY DEF TurnsStayTogether
  <2>1. Distinct(rows.messages) /\ \A o \in rows.messages : o \in Message
    BY DEF ChatInv, RowsOK, Rows
  <2>2. m.at = n.at /\ m.id < n.id
    BY <2>1 DEF Distinct
  <2>3. ASSUME NEW o \in rows.messages, Precedes(m, o), Precedes(o, n)
        PROVE  o \in {m, n}
    <3>1. m.at \in Nat /\ n.at \in Nat /\ o.at \in Nat /\ o.role \in {"user", "assistant"}
      BY <2>1 DEF Message
    <3>2. o.at = m.at
      BY <2>2, <2>3, <3>1 DEF Precedes
    <3>3. o.turn = m.turn
      BY <2>1, <3>2 DEF Distinct
    <3> QED
      BY <2>1, <3>1, <3>3 DEF Distinct
  <2> QED
    BY <2>2, <2>3 DEF Precedes
<1> QED
  BY <1>1, ChatCorrect, PTL
====
