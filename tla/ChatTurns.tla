---- MODULE ChatTurns ----
(***************************************************************************)
(* services/chat: conversations, their turns (SendMessageWithProgress),    *)
(* inferred titles, and what deleting a conversation or a connection takes *)
(* with it.  One storage or model call is one step, and in the transaction *)
(* that persists a turn one INSERT.  The row locks are PostgreSQL's: an    *)
(* INSERT holds the row its foreign key names (KEY SHARE) to the end of    *)
(* the transaction, a DELETE its own row and, one after the other, the     *)
(* rows it cascades to.                                                    *)
(*                                                                         *)
(* A message is known by the request that wrote it.  SQL, prompts, results *)
(* and the schema retrieved are left out, and so is what the history read  *)
(* before a turn says.  A request is never served twice: Requests bounds   *)
(* the calls of a behaviour, Conversations the ids of conversations.       *)
(***************************************************************************)
EXTENDS FiniteSets, Naturals

CONSTANTS
    Users,
    Admins,         \* users whose role is owner or admin
    Connections,
    Conversations,  \* conversation ids: 1 .. a bound
    Requests,
    First,          \* the request that wrote the turn there is at the start
    MaxAttempts,    \* maxSQLAttempts
    None, Given     \* no row or no title; a title chosen by the client

ASSUME ChatTurnsAssumption ==
    /\ Admins \subseteq Users
    /\ Conversations \subseteq Nat \ {0}
    /\ 1 \in Conversations
    /\ MaxAttempts \in Nat \ {0}
    /\ First \notin Requests

Turns == Requests \cup {First}

\* An inferred title is the pair of messages the model was shown, each named by
\* its turn.
Title == {None, Given} \cup [user : Turns, assistant : Turns]

Conversation == [user : Users, connection : Connections, title : Title]

ASSUME NoneAssumption == None \notin Conversation

\* at is created_at.
Message == [id : Nat, conversation : Conversations, role : {"user", "assistant"},
            status : {"completed", "failed"}, turn : Turns, at : Nat]

\* Rows of chat_messages, and of the tables keyed by a message: retrievals and
\* executions by their message, llm calls by message and number.
Rows == [messages : SUBSET Message, retrievals : SUBSET Nat, calls : SUBSET (Nat \X Nat),
         executions : SUBSET Nat]

NoRows == [messages |-> {}, retrievals |-> {}, calls |-> {}, executions |-> {}]

Lock == [mode : {"share", "exclusive"},
         row  : {"conversation", "snapshot", "connection"} \X (Conversations \cup Connections)]

\* wrote and held are the rows and the locks of the open transaction.
Request == [kind     : {"none", "turn", "create", "title", "delete", "drop"},
            pc       : {"idle", "authorize", "generate", "answer", "begin", "user", "retrieval",
                        "assistant", "execution", "commit", "insert", "source",
                        "reread", "save", "delete", "drop", "snapshots", "conversations",
                        "done"},
            user     : Users \cup {None},
            conversation : Conversations \cup {None},
            connection   : Connections \cup {None},
            calls    : 0 .. MaxAttempts + 1,
            executed : BOOLEAN,     \* finalSQLError == nil
            at       : Nat,         \* CURRENT_TIMESTAMP of the transaction
            wrote    : Rows,
            held     : SUBSET Lock,
            title    : Title]

Idle == [kind |-> "none", pc |-> "idle", user |-> None, conversation |-> None, connection |-> None,
         calls |-> 0, executed |-> FALSE, at |-> 0, wrote |-> NoRows,
         held |-> {}, title |-> None]

VARIABLES
    connections,    \* connections rows, each with its snapshot
    canQuery,       \* <<user, connection>> of the access rows with can_query
    conversations,  \* conversations[c]: row c or None
    lastId,         \* sequences of chat_conversations and chat_messages
    rows,           \* committed rows
    clock,          \* transactions begun
    req             \* state of each request

vars == <<connections, canQuery, conversations, lastId, rows, clock, req>>

\* Types, and the foreign keys between the tables.
TypeOK ==
    /\ connections \subseteq Connections
    /\ canQuery \subseteq Users \X connections
    /\ conversations \in [Conversations -> Conversation \cup {None}]
    /\ \A c \in Conversations : conversations[c] # None => conversations[c].connection \in connections
    /\ lastId \in [conversation : Nat, message : Nat]
    /\ DOMAIN rows = DOMAIN NoRows
    /\ \A m \in rows.messages : m \in Message /\ conversations[m.conversation] # None
    /\ rows.retrievals \cup rows.executions \cup {call[1] : call \in rows.calls}
          \subseteq {m.id : m \in rows.messages}
    /\ clock \in Nat
    /\ DOMAIN req = Requests
    /\ \A r \in Requests :
          /\ DOMAIN req[r] = DOMAIN Idle
          /\ req[r].kind = "none" <=> req[r].pc \in {"idle", "done"}
          /\ req[r].calls \in 0 .. MaxAttempts + 1
          /\ req[r].held \subseteq Lock

\* The rows of a turn of conversation c whose messages are i and i + 1.
TurnRows(turn, c, i, at, executed, calls) ==
    LET user == [id |-> i, conversation |-> c, role |-> "user", status |-> "completed",
                 turn |-> turn, at |-> at]
    IN [messages   |-> {user, [user EXCEPT !.id = i + 1, !.role = "assistant",
                                  !.status = IF executed THEN "completed" ELSE "failed"]},
        retrievals |-> {i},
        calls      |-> {i + 1} \X (1 .. calls),
        executions |-> IF executed THEN {i + 1} ELSE {}]

\* An installation with connections, granted to the users, and an untitled
\* conversation of one turn, which has failed or not.
Init ==
    /\ connections = Connections
    /\ canQuery = Users \X Connections
    /\ \E u \in Users, k \in Connections :
          conversations = [c \in Conversations |->
              IF c = 1 THEN [user |-> u, connection |-> k, title |-> None] ELSE None]
    /\ lastId = [conversation |-> 1, message |-> 2]
    /\ \E executed \in BOOLEAN : rows = TurnRows(First, 1, 1, 1, executed, MaxAttempts)
    /\ clock = 1
    /\ req = [r \in Requests |-> Idle]

-----------------------------------------------------------------------------
(* Locks *)

\* The row lock the next call of r waits for.
Wants(r) ==
    LET c == req[r].conversation
        k == req[r].connection
        Share(row)     == {[mode |-> "share", row |-> row]}
        Exclusive(row) == {[mode |-> "exclusive", row |-> row]}
        Left == {d \in Conversations : /\ conversations[d] # None
                                       /\ conversations[d].connection = k
                                       /\ [mode |-> "exclusive", row |-> <<"conversation", d>>]
                                             \notin req[r].held}
    IN CASE req[r].pc = "user"      -> Share(<<"conversation", c>>)
         [] req[r].pc = "retrieval" -> Share(<<"snapshot", k>>)
         [] req[r].pc \in {"execution", "insert"} -> Share(<<"connection", k>>)
         [] req[r].pc = "save"      -> Share(<<"conversation", c>>)
                \cup IF conversations[c] = None THEN Share(<<"connection", k>>) ELSE {}
         [] req[r].pc = "delete"    -> Exclusive(<<"conversation", c>>)
         [] req[r].pc = "drop"      -> Exclusive(<<"connection", k>>)
         [] req[r].pc = "snapshots" -> Exclusive(<<"snapshot", k>>)
         [] req[r].pc = "conversations" /\ Left # {} ->
                Exclusive(<<"conversation", CHOOSE d \in Left : \A e \in Left : d <= e>>)
         [] OTHER -> {}

Blockers(r) ==
    {s \in Requests \ {r} : \E want \in Wants(r), held \in req[s].held :
        /\ want.row = held.row
        /\ "exclusive" \in {want.mode, held.mode}}

Goto(r, pc) == req' = [req EXCEPT ![r].pc = pc]

\* MUTANT of Finish: an error path that leaves the transaction open.
FinishHolding(r) == req' = [req EXCEPT ![r] = [Idle EXCEPT !.pc = "done", !.held = req[r].held]]

\* A request ends, with a result or an error; a transaction still open is rolled
\* back.
Finish(r) == req' = [req EXCEPT ![r] = [Idle EXCEPT !.pc = "done"]]

-----------------------------------------------------------------------------
(* First calls *)

Owned(u, c) == conversations[c] # None /\ conversations[c].user = u

\* GetConversation(ctx, userID, conversationID) with the state to go on in.
Open(r, u, c, kind, next) ==
    /\ req[r].pc = "idle"
    /\ IF Owned(u, c)
       THEN req' = [req EXCEPT ![r] = [Idle EXCEPT !.kind = kind, !.pc = next, !.user = u,
                                          !.conversation = c,
                                          !.connection = conversations[c].connection]]
       ELSE Finish(r)
    /\ UNCHANGED <<connections, canQuery, conversations, lastId, rows, clock>>

SendMessage(r, u, c) == Open(r, u, c, "turn", "authorize")

DeleteConversation(r, u, c) == Open(r, u, c, "delete", "delete")

InferConversationTitle(r, u, c) ==
    IF Owned(u, c) /\ conversations[c].title # None
    THEN /\ req[r].pc = "idle"
         /\ Finish(r)
         /\ UNCHANGED <<connections, canQuery, conversations, lastId, rows, clock>>
    ELSE Open(r, u, c, "title", "source")

CreateConversation(r, u, k) ==
    /\ req[r].pc = "idle"
    /\ \E title \in {None, Given} :
          req' = [req EXCEPT ![r] = [Idle EXCEPT !.kind = "create", !.pc = "authorize", !.user = u,
                                        !.connection = k, !.title = title]]
    /\ UNCHANGED <<connections, canQuery, conversations, lastId, rows, clock>>

DeleteConnection(r, k) ==
    /\ req[r].pc = "idle"
    /\ IF k \in connections
       THEN req' = [req EXCEPT ![r] = [Idle EXCEPT !.kind = "drop", !.pc = "drop", !.connection = k]]
       ELSE Finish(r)
    /\ UNCHANGED <<connections, canQuery, conversations, lastId, rows, clock>>

\* UpsertAccess; a grant that changes nothing is left out.
CreateAccess(r, u, k) ==
    /\ req[r].pc = "idle"
    /\ k \in connections
    /\ canQuery' = IF <<u, k>> \in canQuery THEN canQuery \ {<<u, k>>} ELSE canQuery \cup {<<u, k>>}
    /\ Finish(r)
    /\ UNCHANGED <<connections, conversations, lastId, rows, clock>>

\* getQueryableConnection
Authorize(r) ==
    /\ req[r].pc = "authorize"
    /\ IF /\ req[r].connection \in connections
          /\ req[r].user \in Admins \/ <<req[r].user, req[r].connection>> \in canQuery
       THEN Goto(r, IF req[r].kind = "turn" THEN "generate" ELSE "insert")
       ELSE Finish(r)
    /\ UNCHANGED <<connections, canQuery, conversations, lastId, rows, clock>>

-----------------------------------------------------------------------------
(* A turn: the calls of the models and of the user's database *)

\* One pass of the loop: GenerateSQL, then sqlRunner.Run, which succeeds or fails
\* in a way another attempt may correct.
Attempt(r) ==
    /\ req[r].pc = "generate"
    /\ \/ \E next \in {"answer", "begin"} :      \* whether RequireNaturalResponse
             req' = [req EXCEPT ![r].calls = @ + 1, ![r].executed = TRUE, ![r].pc = next]
       \/ req' = [req EXCEPT ![r].calls = @ + 1,
                             ![r].pc = IF req[r].calls + 1 < MaxAttempts THEN "generate" ELSE "begin"]
    /\ UNCHANGED <<connections, canQuery, conversations, lastId, rows, clock>>

\* GenerateAnswer; its failure is noted in the message and the turn goes on.
Answer(r) ==
    /\ req[r].pc = "answer"
    /\ \E answered \in {0, 1} :
          req' = [req EXCEPT ![r].calls = @ + answered, ![r].pc = "begin"]
    /\ UNCHANGED <<connections, canQuery, conversations, lastId, rows, clock>>

-----------------------------------------------------------------------------
(* A turn: the transaction *)

Begin(r) ==
    /\ req[r].pc = "begin"
    /\ clock' = clock + 1
    /\ req' = [req EXCEPT ![r].pc = "user", ![r].at = clock']
    /\ UNCHANGED <<connections, canQuery, conversations, lastId, rows>>

\* MUTANT of NewMessage: created_at is set when the row is inserted.
NewMessageStampedNow(r, role, status) ==
    [id |-> lastId.message + 1, conversation |-> req[r].conversation, role |-> role,
     status |-> status, turn |-> r, at |-> lastId.message + 1]

NewMessage(r, role, status) ==
    [id |-> lastId.message + 1, conversation |-> req[r].conversation, role |-> role,
     status |-> status, turn |-> r, at |-> req[r].at]

\* The id of the message of that role r has inserted.
Wrote(r, role) == (CHOOSE m \in req[r].wrote.messages : m.role = role).id

\* MUTANT of Insert: the rows of a turn are inserted without InTransaction.
InsertAtOnce(r, exists, add, next) ==
    /\ Blockers(r) = {}
    /\ IF exists
       THEN /\ req' = [req EXCEPT ![r].pc = next,
                          ![r].wrote = [t \in DOMAIN NoRows |-> @[t] \cup add[t]]]
            /\ rows' = [t \in DOMAIN NoRows |-> rows[t] \cup add[t]]
       ELSE Finish(r) /\ UNCHANGED rows
    /\ UNCHANGED <<connections, canQuery, conversations, clock>>

\* An INSERT of the transaction: it waits for the row its foreign key names and
\* fails, and the transaction with it, when there is none.
Insert(r, exists, add, next) ==
    /\ Blockers(r) = {}
    /\ IF exists
       THEN req' = [req EXCEPT ![r].held = @ \cup Wants(r), ![r].pc = next,
                    ![r].wrote = [t \in DOMAIN NoRows |-> @[t] \cup add[t]]]
       ELSE Finish(r)
    /\ UNCHANGED <<connections, canQuery, conversations, rows, clock>>

InsertUserMessage(r) ==
    /\ req[r].pc = "user"
    /\ Insert(r, conversations[req[r].conversation] # None,
              [NoRows EXCEPT !.messages = {NewMessage(r, "user", "completed")}], "retrieval")
    /\ lastId' = [lastId EXCEPT !.message = @ + 1]

InsertRetrieval(r) ==
    /\ req[r].pc = "retrieval"
    /\ Insert(r, req[r].connection \in connections,
              [NoRows EXCEPT !.retrievals = {Wrote(r, "user")}], "assistant")
    /\ UNCHANGED lastId

\* With it the rows of the model calls, which nothing else can see or hold up.
InsertAssistantMessage(r) ==
    LET status  == IF req[r].executed THEN "completed" ELSE "failed"
        message == NewMessage(r, "assistant", status)
    IN /\ req[r].pc = "assistant"
       /\ Insert(r, TRUE,
                 [NoRows EXCEPT !.messages = {message},
                                !.calls = {message.id} \X (1 .. req[r].calls)],
                 IF req[r].executed THEN "execution" ELSE "commit")
       /\ lastId' = [lastId EXCEPT !.message = @ + 1]

InsertExecution(r) ==
    /\ req[r].pc = "execution"
    /\ Insert(r, req[r].connection \in connections,
              [NoRows EXCEPT !.executions = {Wrote(r, "assistant")}], "commit")
    /\ UNCHANGED lastId

Commit(r) ==
    /\ req[r].pc = "commit"
    /\ rows' = [t \in DOMAIN NoRows |-> rows[t] \cup req[r].wrote[t]]
    /\ Finish(r)
    /\ UNCHANGED <<connections, canQuery, conversations, lastId, clock>>

-----------------------------------------------------------------------------
(* Titles and new conversations *)

\* ORDER BY created_at, id
Precedes(m, n) == m.at < n.at \/ (m.at = n.at /\ m.id < n.id)

FirstOf(ms) == {m \in ms : \A n \in ms \ {m} : Precedes(m, n)}

\* firstCompletedTurn
Source(r) ==
    LET completed == {m \in rows.messages : /\ m.conversation = req[r].conversation
                                            /\ m.status = "completed"}
        user      == FirstOf({m \in completed : m.role = "user"})
        assistant == FirstOf({m \in completed : /\ m.role = "assistant"
                                                /\ \E n \in user : Precedes(n, m)})
    IN /\ req[r].pc = "source"
       /\ IF user = {} \/ assistant = {}
          THEN Finish(r)
          ELSE \E u \in user, a \in assistant :
                  req' = [req EXCEPT ![r].pc = "reread",
                             ![r].title = [user |-> u.turn, assistant |-> a.turn]]
       /\ UNCHANGED <<connections, canQuery, conversations, lastId, rows, clock>>

\* The conversation is read again when the model has answered.
Reread(r) ==
    LET c == req[r].conversation
    IN /\ req[r].pc = "reread"
       /\ CASE ~Owned(req[r].user, c)          -> Finish(r)
            [] conversations[c].title # None   -> Finish(r)
            [] OTHER                           -> Goto(r, "save")
       /\ UNCHANGED <<connections, canQuery, conversations, lastId, rows, clock>>

\* UpsertConversation by id: the row is inserted again when it is gone.
SaveTitle(r) ==
    LET row == [user |-> req[r].user, connection |-> req[r].connection, title |-> req[r].title]
    IN /\ req[r].pc = "save"
       /\ Blockers(r) = {}
       /\ IF req[r].connection \in connections
          THEN conversations' = [conversations EXCEPT ![req[r].conversation] = row] /\ Finish(r)
          ELSE Finish(r) /\ UNCHANGED conversations
       /\ UNCHANGED <<connections, canQuery, lastId, rows, clock>>

\* MUTANT of InsertConversation: connection_id does not reference connections.
InsertConversationUnreferenced(r) ==
    LET c == lastId.conversation + 1
    IN /\ req[r].pc = "insert"
       /\ conversations' = [conversations EXCEPT ![c] =
              [user |-> req[r].user, connection |-> req[r].connection, title |-> req[r].title]]
       /\ Finish(r)
       /\ lastId' = [lastId EXCEPT !.conversation = c]
       /\ UNCHANGED <<connections, canQuery, rows, clock>>

InsertConversation(r) ==
    LET c == lastId.conversation + 1
        row == [user |-> req[r].user, connection |-> req[r].connection, title |-> req[r].title]
    IN /\ req[r].pc = "insert"
       /\ Blockers(r) = {}
       /\ IF req[r].connection \in connections
          THEN conversations' = [conversations EXCEPT ![c] = row] /\ Finish(r)
          ELSE Finish(r) /\ UNCHANGED conversations
       /\ lastId' = [lastId EXCEPT !.conversation = c]
       /\ UNCHANGED <<connections, canQuery, rows, clock>>

-----------------------------------------------------------------------------
(* Deletions *)

\* What is left of the rows when the conversations cs have gone.
Without(cs) ==
    LET kept == {m \in rows.messages : m.conversation \notin cs}
        ids  == {m.id : m \in kept}
    IN [messages   |-> kept,
        retrievals |-> rows.retrievals \cap ids,
        calls      |-> {call \in rows.calls : call[1] \in ids},
        executions |-> rows.executions \cap ids]

DeleteRow(r) ==
    /\ req[r].pc = "delete"
    /\ Blockers(r) = {}
    /\ conversations' = [conversations EXCEPT ![req[r].conversation] = None]
    /\ rows' = Without({req[r].conversation})
    /\ Finish(r)
    /\ UNCHANGED <<connections, canQuery, lastId, clock>>

\* DELETE FROM connections: the row, its snapshots, its conversations one by one.
DropLocks(r) ==
    /\ req[r].pc \in {"drop", "snapshots", "conversations"}
    /\ Wants(r) # {}
    /\ Blockers(r) = {}
    /\ IF req[r].connection \in connections
       THEN req' = [req EXCEPT ![r].held = @ \cup Wants(r),
                       ![r].pc = IF req[r].pc = "drop" THEN "snapshots" ELSE "conversations"]
       ELSE Finish(r)
    /\ UNCHANGED <<connections, canQuery, conversations, lastId, rows, clock>>

DropCommits(r) ==
    LET k    == req[r].connection
        gone == {c \in Conversations : conversations[c] # None /\ conversations[c].connection = k}
    IN /\ req[r].pc = "conversations"
       /\ Wants(r) = {}
       /\ connections' = connections \ {k}
       /\ canQuery' = {a \in canQuery : a[2] # k}
       /\ conversations' = [c \in Conversations |-> IF c \in gone THEN None ELSE conversations[c]]
       /\ rows' = Without(gone)
       /\ Finish(r)
       /\ UNCHANGED <<lastId, clock>>

-----------------------------------------------------------------------------
(* Faults *)

\* A call fails, or the client hangs up (a progress event cannot be written).
Fail(r) ==
    /\ req[r].pc \notin {"idle", "done"}
    /\ Finish(r)
    /\ UNCHANGED <<connections, canQuery, conversations, lastId, rows, clock>>

\* PostgreSQL ends one of two transactions that wait for each other.  Longer
\* cycles do not arise: only a turn and the deletion of a connection hold a lock
\* while they wait for another.
DeadlockVictim(r) ==
    /\ \E s \in Blockers(r) : r \in Blockers(s)
    /\ Finish(r)
    /\ UNCHANGED <<connections, canQuery, conversations, lastId, rows, clock>>

-----------------------------------------------------------------------------
Start(r) ==
    \/ \E u \in Users, c \in Conversations :
          \/ SendMessage(r, u, c)
          \/ DeleteConversation(r, u, c)
          \/ InferConversationTitle(r, u, c)
    \/ \E u \in Users, k \in Connections :
          /\ Cardinality({s \in Requests : req[s].kind = "create"}) + lastId.conversation
                < Cardinality(Conversations)
          /\ CreateConversation(r, u, k)
    \/ \E u \in Users, k \in Connections : CreateAccess(r, u, k)
    \/ \E k \in Connections : DeleteConnection(r, k)

Step(r) ==
    \/ Authorize(r)
    \/ Attempt(r)
    \/ Answer(r)
    \/ Begin(r)
    \/ InsertUserMessage(r)
    \/ InsertRetrieval(r)
    \/ InsertAssistantMessage(r)
    \/ InsertExecution(r)
    \/ Commit(r)
    \/ Source(r)
    \/ Reread(r)
    \/ SaveTitle(r)
    \/ InsertConversation(r)
    \/ DeleteRow(r)
    \/ DropLocks(r)
    \/ DropCommits(r)
    \/ DeadlockVictim(r)

Next == \E r \in Requests : Start(r) \/ Step(r) \/ Fail(r)

Spec == Init /\ [][Next]_vars

\* A request that has begun goes on: its calls return, and PostgreSQL ends a
\* deadlock.
Fairness == \A r \in Requests : WF_vars(Step(r))

FairSpec == Spec /\ Fairness

-----------------------------------------------------------------------------
(* Properties *)

\* A turn is stored whole or not at all, whatever fails and whatever is deleted
\* meanwhile: a question has its answer and its retrieval; an answer the model
\* calls it took and, exactly when it did not fail, its execution; and a failed
\* answer is one for which all attempts were used (send_message.go:265-302).
TurnsAreWhole ==
    \A m \in rows.messages :
        LET calls == {call \in rows.calls : call[1] = m.id}
        IN /\ \E n \in rows.messages : /\ n.turn = m.turn
                                       /\ n.conversation = m.conversation
                                       /\ n.role # m.role
           /\ m.role = "user" => m.id \in rows.retrievals
           /\ m.role = "assistant" => /\ calls # {}
                                      /\ m.id \in rows.executions <=> m.status = "completed"
                                      /\ m.status = "failed" => Cardinality(calls) = MaxAttempts

\* In the order in which history is read (created_at, id) the two messages of a
\* turn are next to one another, however the transactions of two turns of one
\* conversation interleave (message_history.go:23-26, messages.go:25-28).
TurnsStayTogether ==
    \A m, n \in rows.messages :
        m.turn = n.turn /\ m.role = "user" /\ n.role = "assistant" =>
            /\ Precedes(m, n)
            /\ \A o \in rows.messages \ {m, n} :
                  o.conversation = m.conversation => ~(Precedes(m, o) /\ Precedes(o, n))

\* Every request is answered, also when a turn and the deletion of its connection
\* wait for each other's rows (send_message.go:265, migration 000007).
RequestsEnd == \A r \in Requests : req[r].pc # "idle" ~> req[r].pc = "done"

\* What API_ENDPOINTS.md:839 says of an inferred title: it is "from the first
\* successful user/assistant turn", so both its messages are of one turn.
TitleIsOfOneTurn ==
    \A c \in Conversations :
        conversations[c] # None /\ conversations[c].title \notin {None, Given} =>
            conversations[c].title.user = conversations[c].title.assistant
====
