# Datalk in TLA+

Datalk answers questions about a user's database: it introspects the schema of a configured
connection, stores it as a snapshot, embeds the snapshot in chunks, and a chat turn retrieves the
chunks that matter, has a language model write SQL and runs it. This directory models the part of
the backend (`src/apps/backend`) where several processes, one Postgres and unreliable calls meet, and
the session of its web client, checks them with TLC on small instances and proves what matters most
with TLAPS.

Paths below are relative to `src/apps/backend`, those of the web client to `src/apps/web/src`.

## Inventory of the system

| Component | State it keeps | Operations | What makes it hard | What makes it correct |
|---|---|---|---|---|
| Schema refresh, `services/schemas/internal/schemas/refresh_schema_snapshot.go` | locals of a request; a refresh lock per connection | lock, read the latest snapshot, introspect, compare, insert, publish, unlock | requests on several instances; every call may fail; insert and event are two calls | decisions are made on the current latest snapshot; the lock is always freed; a new snapshot is announced |
| Snapshot embedding, `.../embed_snapshot_content.go`, `services/schemas/events/handler` | locals of a worker; a job row; chunk rows; an embedding lock per connection | find, lock, load job, PROCESSING, render and embed, replace chunks, COMPLETED / FAILED, unlock | every instance gets each event; retries; the connection can be deleted under the handler; crashes | COMPLETED means searchable; nobody overwrites a running job's row; failures are recorded and counted |
| Chunk splitting, `splitChunkContent` in the same file | none | cut a rendered text into chunks under headers | the header's length depends on the number of parts and that on the header's length | the chunks are the text, fit, and cut only long lines |
| Schema retrieval, `.../retrieve_relevant_schema_context.go` | locals of a chat turn | list snapshots, read their jobs one by one, search chunks | reads race re-embedding and deletion | what is selected can still be searched |
| Schema storage, `services/schemas/internal/storage/db/db.go`, `db/migrations` | snapshots, jobs, chunks | insert, upsert, replace in a transaction, cascade | foreign keys and unique indexes make legal-looking calls fail | chunk sets change atomically |
| Snapshot events, `pkg/pubsub/postgres` | listener connection, a 256-slot channel per subscription | publish (`pg_notify`), enqueue, process with retries, close | at-most-once delivery, reconnects, restarts | a failing handler is retried `MaxRetries` times |
| In-memory bus, `pkg/pubsub/memory` | subscriptions per topic, channels | publish, subscribe, close | close against publish and workers, full channels; `cmd/api` never constructs it | |
| Distributed lock, `pkg/distlock` (Postgres; the Redis and dummy ones are not wired in `cmd/api`) | advisory locks per session | lock (waiting or not) on several keys, unlock | re-entrant sessions in a pool, sessions that end, partial acquisition | mutual exclusion, nothing stays locked |
| Connections, `services/connections` | connections, access grants | create (upsert by name), update, delete, grant | read-modify-write, cascades | a grant is honoured and its removal too |
| Chat turns, `services/chat/internal/chat/send_message.go` | conversation, messages, runs | own, authorize, retrieve, write SQL (three attempts), run, persist in one transaction | rights and rows checked early and used late; row locks of foreign keys against cascades | a turn is persisted whole, in one piece of history, or not at all; every request ends |
| Conversations and titles, `services/chat/internal/chat` | conversation row | create, delete, infer a title | the title is made of messages read before a model call and written by an upsert | an inferred title is of one turn |
| Provider configs | config row with an encrypted key | save (merge), list, delete | read-merge-write | a saved key is not lost |
| Users and tokens, `services/users`, `pkg/auth`, `servers/echo/api/authenticator` | users, refresh tokens | setup, login, refresh, logout, create, update, change password | token rotation in several statements, first-owner race, rows written back whole | a session has one token to exchange; what has ended stays ended; one owner |
| Web session, `api/client.ts`, `auth/AuthProvider.tsx` | the session in localStorage, a pending refresh per page | call, refresh, sign in, sign out | calls refused together, answers out of order or lost, reloads at any moment | a token is sent once; nobody is signed out without a reason; signing out works |
| SQL runner, LLM and embedding clients, introspector, renderer, secrets, HTTP handlers | none across calls | pure or one call each | failures, which are faults of the callers above | |

They interact by calls inside a process (handlers, services, storage), by rows in the shared
Postgres, by its advisory locks, and by one event, *snapshot created*, that `pg_notify` sends to every
instance. `PROJECT.json` lists each component with its status and the hazards with their lines.

## Modules

```
 Faults     SchemaStore, EventTopic ── SnapshotEvents ─┐
   └──────────────────────────────────────┐ ┌──────────┘  ResourceLock (what pkg/distlock promises)
                                          SchemaRefresh ◄── INSTANCE
                                               │
                                       SnapshotEmbedding
                                               │
                                        SchemaRetrieval
                                               │               EmbeddingJob (what a job promises)
                                         SchemaPipeline ──► INSTANCE, refinement mapping
                                          │          │
                            MCSchemaPipeline     SchemaPipeline_proofs ── SchemaData_proofs

 AdvisoryLock ── MCAdvisoryLock, AdvisoryLock_proofs      (AdvisoryLock implements ResourceLock)
 PostgresBus ─── MCPostgresBus, PostgresBus_proofs        (PostgresBus implements EventTopic)

 Accounts ◄── WebSession ── MCWebSession        ChatTurns ── MCChatTurns, ChatTurns_proofs
   ├── MCAccounts     │
   └── Accounts_proofs ◄── WebSession_proofs    ChunkSplitting ── MCChunkSplitting, ChunkSplitting_proofs
```

* **SchemaStore**: the tables. One operator per storage operation (`InsertSnapshot`,
  `UpsertEmbeddingJob`, `ReplaceChunks`, `DeleteConnection`), each one statement or transaction and
  so one step. Foreign keys with `ON DELETE CASCADE`, `UNIQUE (connection_id, schema_hash)` and the
  unique `snapshot_id` of jobs are guards and effects of these operators. A schema's content is its
  hash; the chunks it renders to are the set `ChunksOf[hash]`, empty for a schema without tables or
  views. `remote` is the schema of the user's own database, which changes whenever it likes.
* **EventTopic**: the topic as an abstract queue per listening instance: a message reaches the queue of
  every instance that listens at that moment; instances lose their connection, reconnect, and restart
  with an empty queue. **SnapshotEvents** makes its messages snapshot ids.
* **PostgresBus**: `pkg/pubsub/postgres` of one process, which implements `EventTopic`. One action per
  step of Go that others can see: `CheckOpen` and `Publish`; `Listen`, `Register` (under the mutex) and
  `Start` of `Subscribe`; the receiving goroutine (`ReceiveNotification`, `Enqueue` into the bounded
  `msgCh`, `ReceiverExits`); the workers with their retries and backoff; both `Close` operations through
  `sync.Once` (`EnterOnce`, `RemoveSubscription`, `CloseListener`, `AwaitStopped`). Where a `select` has
  several ready cases, each is an enabled action. lib/pq, which is not part of the repository, appears by what
  this code depends on: it hands over notifications in order through channels with room for `NotifySlots` of
  them, and since it reads one connection, `UnlistenAll` returns once what was notified before fits in those
  (`UnlistenAnswered`). `finished`, `returned` and `bus.drained` are history
  variables.
* **Faults**: a budget of failures; a run enables kinds of them: `refresh` (a call of a refresh
  request), `worker` (a call of the handler), `report` (the upsert of the FAILED row), `crash`,
  `listener`.
* **ResourceLock**: the abstract lock: an owner per key.
* **AdvisoryLock**: `pkg/distlock/postgres`. A session is `closed`, `idle` in the pool or `busy` with a
  client; `held` counts its locks per key, because Postgres grants a session a key it already has.
  `Normalized` is what `normalizeResources` returns, its overwritten set included. One action per
  statement: `Connect` (`db.Conn`), `LockKey`, `TryLockFails`, `UnlockKey`, `FinishUnlock` (`conn.Close`).
  The context, the server, the network, the process and `UncheckedUnlock` may interfere anywhere. It
  implements `ResourceLock`; keys that a pooled session still has locked have no owner there. `left` is
  a history variable: what a session had locked when it was handed out.
* **SchemaRefresh**: `RefreshSchemaSnapshot`, one action per call; `pc` is the place between two
  calls. Every error path goes to the deferred unlock.
* **SnapshotEmbedding**: the subscription's workers: `TakeEvent` is `start`, `EndAttempt` is the loop
  of `process`, the other actions are the calls of `EmbedSnapshotContent`. `Abort` is where the
  handler goes when the call at this place fails, following the two deferred functions: the FAILED
  row is written first, the lock is released second. Rendering and embedding touch no shared state
  and are one step.
* **SchemaRetrieval**: a chat turn's retrieval, one query a step.
* **SchemaPipeline**: all of them together with administrators, user databases and listeners; the
  properties and the fairness.
* **EmbeddingJob**: the abstract life cycle of one snapshot's job, without workers, locks, events or
  retries; `SchemaPipeline` implements it through the mapping in `Jobs`.
* **Accounts**: `services/users` behind the authentication middleware. A row of `users` and of
  `refresh_tokens` is a value of `users` and `tokens`; a request is at the storage call it makes next
  (`pc`) with the row it read and will write back whole. The first call of each request is its own
  action (`Setup`, `Login`, `Refresh`, ..., with `Authorized` for the protected ones), the calls several
  of them share are `ReadUser`, `Upsert` (with the partial index that admits one owner), `RevokeToken`
  (the `UPDATE ... WHERE revoked_at IS NULL` and what each caller makes of its count), `LoadTokenUser`
  and `Issue`. `session` is a history variable: the first token of a chain of rotations.
* **WebSession** extends it with the web client. `store` is localStorage. A page is one load of the application in
  a tab: it has the session it shows, the token of its pending `refreshPromise` and the token of its pending
  logout; the requests of a page are those of `Accounts`, so the server's steps interleave with the browser's.
  JavaScript between two awaits is one step. `Load` shows what is stored at that moment; nothing tells the page afterwards
  what another one stores. `Leave` closes or reloads a page at any moment, whatever is under way: its calls,
  promises and React state are gone, no answer reaches it any more, and the requests it has sent may still be
  served. The token a left page had sent stays in its record, where only the server's steps and the properties
  look at it. A reload is `Leave` and the `Load` of another page of the same tab, at once or later. `asked` and
  `broken` are history variables.
* **ChatTurns**: `SendMessageWithProgress`, conversations, titles, deletions and grants. The transaction
  that stores a turn is one step per INSERT, with the row locks PostgreSQL takes for foreign keys
  (`Wants`, `Blockers`): a turn locks its conversation, then the snapshot and the connection it names; the deletion of
  a connection locks its row, its snapshots and its conversations one after the other. So the
  two can wait for each other, and `DeadlockVictim` ends one. Rows are committed as a whole.
* **ChunkSplitting**: `splitChunkContent` with `splitContentIntoBodies` and `splitRunes`, one action per
  branch of a pass of their loops. A text is given by where its lines end, a body by the interval of
  the text it holds; the length of a header is a constant operator of part and total.
* **MCSchemaPipeline**, **MCAdvisoryLock**, **MCPostgresBus**, **MCAccounts**, **MCWebSession**,
  **MCChatTurns**, **MCChunkSplitting**: the instances for TLC.

Where a module defines an operator marked as a mutant, it is a plausible mistake in the definition
that follows it. It is used nowhere; putting it in place of that definition makes TLC find the
corresponding property violated (the list is in `PROJECT.json`), which shows the property depends on
what the code does.

## What is checked

| Run | Instance | Shows |
|---|---|---|
| `SchemaPipeline.cfg` | 1 connection, 2 requests, 2 instances with a worker each, 1 reader, 2 contents (one empty), 2 snapshots, 1 retry, 1 failure of any kind | `TypeOK`, `LocksMatchHolders`, `BaselineIsCurrent`, `InFlightIsVisible`, `CompletedIsSearchable`, `SelectedStaysSearchable`, and `ImplementsEmbeddingJob` (refinement) |
| `SchemaPipelineLive.cfg` | 1 request, 2 workers, 1 failing call of a worker | `ProcessingHasWorker`; `EverySnapshotIsEmbedded` under `FairSpec` |
| `SchemaPipelineLostEvent.cfg` | the same, 1 failing call of a request | `EverySnapshotIsEmbedded` is violated: insert, failing `SendSnapshotCreated`, and no later refresh announces the snapshot |
| `SchemaPipelineReinsert.cfg` | 1 request, no failure | `ChangedSchemaIsInsertable` is violated: contents A, B, A |
| `SchemaPipelineDuplicate.cfg` | 2 instances, no failure | `CompletedIsNotReopened` is violated: the second instance embeds again |
| `AdvisoryLock.cfg` | 2 callers, a pool of 2 sessions, 2 keys in both orders and both modes, 1 failure | `TypeOK`, `SessionBalanced`, `NoDeadlock`, `ImplementsResourceLock` (refinement), `EveryLockReturns` under `FairSpec` |
| `PostgresBus.cfg` | 1 subscription with 1 worker, a 1-slot channel, room for 1 notification in the listener, 3 messages, 2 callers of either `Close`, 1 failure | `TypeOK`, `ConcludedInOrder`, `ClosedIsQuiet`, `DrainedIsQuiet`, `ImplementsTopic` (refinement); `EveryMessageIsConcluded`, `CloseReturns` under `FairSpec` |
| `Accounts.cfg` | 2 users, 2 requests of any kind at a time, 3 tokens, failures anywhere, from an empty installation on | `TypeOK`, `OneOwner`, `OneTokenPerSession`, `EndedSessionsStayEnded` |
| `WebSession.cfg` | 1 tab that loads 2 pages, in either order and leaving the first at any moment; 2 calls on one page and 1 on the other, 1 user, 3 tokens; a request fails, an answer is lost or a token expires at any time, one of these once | `WebTypeOK`, `StoredSessionIsCurrent`, `NoTokenAskedTwice`, `SignedOutForAReason`, `SignOutEndsSession`; `EveryCallEnds` under `FairWebSpec` |
| `ChatTurns.cfg` | 2 requests of any kind, 2 users (one an administrator), 1 connection, a conversation with one turn that failed or succeeded; calls fail anywhere | `TypeOK`, `TurnsAreWhole`, `TurnsStayTogether`; `RequestsEnd` under `FairSpec` |
| `ChatTurnsTitle.cfg` | 2 requests, 1 user | `TitleIsOfOneTurn` is violated: a failed first turn, a second one, and the title shows the question of the first with the answer of the second |
| `ChunkSplitting.cfg` | texts of up to 5 lines around a limit of 8 runes and of up to 13 lines of equal length, headers that grow with the number of parts | `TypeOK`, `BodiesAreTheText`, `PartsFit`, `LinesStayWhole`; `Terminates` under `FairSpec` |

Deadlock is checked wherever something can always be requested. It is not in `PostgresBus`, where
everything may be closed and over, in `WebSession`, where the tokens of the instance run out, and in
`ChatTurns`, where each request is served once; there `RequestsEnd` says that nothing gets stuck.

*Bounds.* The locks, jobs and chunks of different connections are independent, so one connection is
enough for what the properties say. Two requests, two workers and two snapshots are needed for a
conflict, on one snapshot or on two of one connection. A second content exists so that a schema can
change and change back. `MaxRetries = 1` has both a retried and a dropped attempt (besides the failure
budget, a deleted connection makes every attempt fail), and one failure can fall anywhere. `MaxSnapshots`
bounds the id sequence; nothing else grows. The proofs below do not depend on any of these bounds.
The symmetries of the safety run exchange the requests, and the instances together with
their workers; no property there tells them apart, and no liveness property is checked with symmetry.

Two callers of one process and two sessions are enough for re-entrancy (a caller gets the session of an
earlier one) and exclusion; two keys in both orders for a deadlock, of which the model has some: a
session with a leaked key can be part of a cycle, and `BreakDeadlock` then fires. `MaxReentry` stops
new requests while a session has a key twice, since leaks would otherwise add up without end.

Subscriptions of one bus share only its `closed` flag and its set, so one of them, being subscribed and
closed twice at the same time, is enough; a third message meets a full one-slot channel with another
one in the receiver's hands. `NotifySlots = 1` stands for the two buffered channels between lib/pq's connection and the
receiver (64 notifications together), so that the three messages can fill them.

Two requests are what the races of the users service take: two setups, a setup and a promotion, two
refreshes of one token, a refresh and a logout. Three tokens are a login, its rotation and one more;
`TokensLeft` keeps new requests waiting when there would be none to issue. In `WebSession` one user
and a page with two calls make the shared refresh, the user next to it signs in and out, and a second page of the
tab is the reload, with a call of its own. Two bounds keep that instance small: `Forms` says which forms are used, the
sign-in and sign-out of one page, and with `OneMishap` nothing fails, is lost or expires after the
first that did. The proofs below have neither bound, and say
what holds of several tabs over one localStorage. In `ChatTurns` two requests next to an existing
turn are two turns, a turn and a deletion, a turn and an inference, and so on; `Conversations` bounds
the ids, and `CreateConversation` waits for one. In `ChunkSplitting` the limits are scaled down, and parts
counted in base 5, so that the number of digits changes within a small text and the text is split
again. With the limits of the code (6000 runes, 256 of them kept free) that takes a header longer than 256 runes.

*Fairness.* Goroutines keep running (weak fairness of each process's steps). `pg_advisory_lock` queues
its waiters, so whoever waits for a key that is freed again and again gets it (strong fairness of the
two acquire actions). `pq.Listener` reconnects until it succeeds.
In `AdvisoryLock`, `database/sql` serves those who wait for a connection in order and closes idle sessions
after `SetConnMaxLifetime` (strong fairness of `Connect` and `Expire`), and holders unlock. In `PostgresBus`, handlers return. In `WebSession` a page that stays open
runs its continuations, its calls are answered, and its refresh reaches the server and is served or fails; nobody has to sign
in or out, or to leave a page; in `ChatTurns` the calls of a request return (the SQL runner gives a
query 30 s and the model clients a request 60 s), and PostgreSQL ends a deadlock; a function runs on
(`ChunkSplitting`). Nothing else is fair: nobody has to
request a refresh, change a schema, or fail. Liveness is stated for instances where at most
`MaxRetries` calls of a worker fail and no event is lost; with a crash, a lost notification or a
failing publication it is false, because nothing in the code looks for snapshots without a job
(`lost_event` is the case the documentation speaks about).

*Assumptions of the model.* A call that fails has no effect (in `WebSession`, an answer may also be
lost after the effect). In the pipeline, the
database session holding a lock lives as long as its process (`AdvisoryLock` has sessions that end alone). `introspected_at`, by which retrieval sorts, grows with the snapshot id, as it
does while instances' clocks agree. A crash takes down one instance's workers, or one request. The
256-slot channel never fills in the pipeline: an instance receives one message per snapshot
(`PostgresBus` has channels that do).

## What is proved

`SchemaPipeline_proofs`, for every value of the constants:

* `TypesOK`: `Spec => []TypeOK`. `TypeOK` alone is not inductive: storing chunks reads the snapshot
  row the worker found earlier, publishing reads the id of the inserted row. `TypeInv` adds that these
  locals are set where they are used (`RefreshLocalsOK`, `WorkerLocalsOK`); `TypeCorrect` proves it.
  One lemma per storage, event and lock operation, one per process.
* `LocksCorrect`: `Spec => []LocksMatchHolders`, inductive relative to `TypeInv`. The argument: a step
  of one process leaves every other process's place alone (`RefreshersKept`, `OtherWorkersKept`), all
  but six actions neither enter nor leave a critical section (`LocksKept`; `AbortKeepsHolding` for
  the error paths), acquiring takes a free key, releasing and dying free one's own.
* `MutualExclusion`: two workers are never inside the critical section of one connection, nor are
  two requests; it follows from the two.

`SchemaData_proofs`, from these two and one more inductive invariant, `DataInv`: rows are numbered by the
sequence, and jobs and chunks belong to a row (`RowsOK`); a COMPLETED job has the chunks of its content; and what a
worker or a retrieval has read or written is still what the tables say, unless the row has gone
(`WorkerUpToDate`, `ReaderUpToDate`). A worker needs the lock for that: `OneWorkerPerSnapshot` turns
`LocksMatchHolders` into "nobody else is past Lock for this snapshot", so the steps of the others keep
what it goes on with. Then:

* `InFlightVisible`, `CompletedSearchable`, `SelectedSearchable`: `Spec => []` of `InFlightIsVisible`, `CompletedIsSearchable`,
  `SelectedStaysSearchable`, which are parts of `DataInv`.
* `BaselineCorrect`: `Spec => []BaselineIsCurrent`, inductive relative to `DataInv`: only the request with the
  refresh lock of the connection inserts a snapshot of it.
* `PipelineImplementsJobs`: `Spec => ImplementsEmbeddingJob`. Each of the six steps that change a mapped variable is
  an action of `EmbeddingJob` (`InsertIsRegister`, `MarkIsBegin`, `StoreIsStore`, `CompletedIsComplete`, `FailedIsFail`,
  `DeleteIsErase`), every other step a stutter. `DataInv` is what makes the guards of those actions true.
* `ProcessingWorkedOn`: `Spec => []ProcessingHasWorker` where `FaultKinds` has neither `crash` nor `report`, as the
  comment in the code has it. The assumption is needed: TLC shows a PROCESSING row left behind with either.

`AdvisoryLock_proofs`, for any sets of clients, sessions and keys and calls with any lists of resources:

* `LockTypeOK`, `SessionsBalanced`: `Spec => []` of `TypeOK`, `SessionBalanced`. `LockInv` adds how far each call is through its
  list (`Progress`), that what a session holds is what it had and what its client has taken (`Balanced`), that a key is
  held by one session (`OneHolder`), and that lists are finite.
* `NoDeadlocks`: `Spec => []NoDeadlock`. In a cycle each client would wait for a key that another one
  holds; what a client holds is smaller than what it waits for (`HeldPrecedesWanted`), so the client waiting for the
  greatest key (`GreatestExists`) would wait for nobody.
* `LockerImplementsResourceLock`: `Spec => ImplementsResourceLock`: a key's owner is the client that has acquired it
  (`OwnerIsAcquirer`); granting and unlocking are the abstract steps, and a session that is lost gives its keys up.

`PostgresBus_proofs`, for any sets of subscriptions, workers and closers, and any capacity and number of messages:

* `BusTypeOK`, `ClosedSubscriptionIsQuiet`, `ClosedBusIsQuiet`: `Spec => []` of `TypeOK`, `ClosedIsQuiet`, `DrainedIsQuiet`. `CloseInv` says
  where the receiver and the workers can be at each stage of closing (`ReceiverOK`, `WorkerOK`, `CloseStages`), that
  of the callers of one `sync.Once` only the first goes in and the others find it done (`CloserOK`), and what `Bus.Close` has taken over from
  `bus.subs` (`BusClosing`).
* `MessagesInOrder`: `Spec => []ConcludedInOrder`. `OrderInv` puts all a subscription has in a line: what is
  finished was sent before what the worker has, that before `msgCh`, that before what the receiver has, that
  before the Notify channel; `Append` and `Tail` keep each queue ascending.
* `BusImplementsTopic`: `Spec => ImplementsTopic`. A mailbox of the topic is what the Notify channel, the receiver,
  `msgCh` and the worker have, without the nil notifications of a reconnect. `MessagesIn` says which those are,
  as an ascending list of positions (`Lists`), of which there is just one (`ListUnique`); so it commutes with
  appending and with taking the head (`MessagesInAppend`, `MessagesInTail`). One lemma per kind of step then shows that it is an
  action of the topic or moves a message within its mailbox (`ReceiveStep`, `TakeStep`, `WorkerExitsStep`, ...);
  `WorkersStarted` is the invariant they need: who is not running holds nothing.

`ChatTurns_proofs`, for any sets of users, connections, conversations and requests, any number of attempts:

* `ChatTypeOK`: `Spec => []TypeOK`, all foreign keys included.
* `TurnsStoredWhole`, `TurnsStoredTogether`: `Spec => []` of `TurnsAreWhole`, `TurnsStayTogether`. `ChatInv` says
  what a turn has in its transaction at each INSERT (`WroteOK`), with how many calls it may be there
  (`CallsOK`), that it keeps its conversation locked (`KeepsConversation`), that no two requests hold a row in conflicting
  modes (`LocksOK`), and that ids and times are taken once (`FreshOK`). `NobodyWrites` is the point where the locks
  matter: a deletion that has a conversation's lock cannot take it from under a turn. A commit then adds a
  whole turn with ids of its own (`CommittedRows`), a deletion takes whole conversations (`WithoutOK`).

`Accounts_proofs`, for any sets of users, tokens, passwords and requests:

* `AccountsTypeOK`: `Spec => []TypeOK`, the foreign key from tokens to users included. `TypeInv` adds what
  a request has at hand at each call (`LocalsOK`) and that a session is named by a token that was
  issued (`SessionsOK`). It rests on two tables that only grow: a user's row never goes away, an
  issued token keeps its user and session, a revoked one stays revoked.
* `SingleOwner`: `Spec => []OneOwner`. Only `Upsert` writes users, and the index refuses a second owner whatever
  the request has read.
* `SingleUse`: `Spec => []OneTokenPerSession`. A request enters a rotation only by revoking the one token of the
  session that could be exchanged, and finds out from the count of updated rows that it was the
  one; it leaves the rotation by issuing the next token, or gives it up. So live token and rotation exclude each
  other.
* `NoRevival`: `Spec => EndedSessionsStayEnded`. `Issue` gives a token to a session only out of a rotation of
  that session, and a rotation begins only with a token that was not yet revoked; an ended session has neither.

`WebSession_proofs`, on top of the invariant of `Accounts_proofs`, for any sets of tabs, pages, calls, users and tokens:

* `WebTypesOK`: `WebSpec => []WebTypeOK`. `WebInv` adds that what a page knows has been issued (`NamesOK`), that users stay
  active (`RowsActive`), and that the server works on what a page has sent (`RequestsOK`).
* `StoredIsCurrent`, `NeverAskedTwice`, `SignOutIsFinal`: `StoredSessionIsCurrent`, `NoTokenAskedTwice`, `SignOutEndsSession`,
  if no page stores the session it shows, or there is one tab only (`OneWriter`). `Flow` follows tokens on their way:
  one that is still travelling is known to nobody and has not been used (`FreshOK`), a page that has sent
  the stored token still waits for its answer, or was left while it did (`AskedOnce`), and a revoked one is stored only while the
  answer that replaces or drops it is due, or was due at a page that was left (`StoredOK`). A tab has one page open at a time
  (`PagesOK`), so another page of it that waits has been left (`OthersLeft`). Every step is one of six as far as tokens
  go (`FlowStep`): nothing moves, a page is loaded or left, a page sends, a page stores or drops, the server
  revokes, the server issues; each keeps `Flow`.
* `SignOutHasAReason`: `SignedOutForAReason`, with one tab (`OneTab`) and any number of reloads. A refused refresh of the open
  page has a reason that is still there when the answer comes (`RefusedForAReason`): its token expired, a request was lost,
  the page signs out, the stored session is another one by now, or a page that was left had sent the same token
  (`Bereft`). Nobody else can have used the token that was stored.

The properties say themselves what a reload may do: a page that is left between the rotation on the server and the answer leaves the
old token in localStorage, and the next page presents it again, is refused and drops the session. `LeftWith` is
that case, the only exception a reload needs; TLC finds each of the three properties violated without it.

Both conditions are needed. With two tabs, one of them at `ProfilePage`, the other may rotate the stored token or sign out, and
the page then stores the session it still shows: `StoredSessionIsCurrent` and `SignOutEndsSession` fail, and the tab that rotated the token
sends it again (`NoTokenAskedTwice`). TLC shows this with two pages of two tabs, and it is an observation below, not a property. And any two tabs may
refresh the stored token together; one is refused and clears the session, without a reason that `SignedOutForAReason` knows.

`ChunkSplitting_proofs`, for any set of texts, any limits and any lengths of headers that grow with the part:

* `SplittingTypeOK`, `SplittingKeepsText`, `SplittingFits`, `SplittingKeepsLines`: `Spec => []` of `TypeOK`, `BodiesAreTheText`,
  `PartsFit`, `LinesStayWhole`. The inductive `IInv` says at every place of the loops that the bodies so far tile the
  text up to `from`, none longer than the limit (`Tiles`), that none ends inside a line that would have
  fitted (`CutsLongLines`), and how `from` lies to the current line (`Position`). At the end `from` is the
  length of the text and the limit leaves room for the longest header.

Assumptions used: `StoreAssumption`, `NoSnapshotAssumption`, `FaultsAssumption`, `ProcessAssumption`,
`EmbeddingAssumption`, `LockAssumption`, `BusAssumption`, `ChatTurnsAssumption`, `NoneAssumption`,
`AccountsAssumption`, `WebAssumption`, `ChunkSplittingAssumption`, each evaluated by TLC in the runs of its module. They say
that numbers are numbers, that markers such as `NoSnapshot` or `None` are not rows, that the workers of a subscription are finitely many (a
WaitGroup counts them), and that the conversation and the turn there are at the start are not those of a request. TLC
has checked the inductive invariants, too, on the instances of the runs.

Only model-checked: liveness (`EverySnapshotIsEmbedded`, `EveryLockReturns`, `EveryMessageIsConcluded`, `CloseReturns`,
`EveryCallEnds`, `RequestsEnd`, `Terminates`), which is out of the prover's reach. Every other property of a passing run is a theorem;
`OneWriter` and `OneTab` above, and the fault kinds of `ProcessingWorkedOn`, are the only hypotheses beyond the assumptions.

## Observations

What the models, or reading the code for them, show and no property states, because no document says
otherwise or nothing in the program leads there:

* Locks: `normalizeResources` given a repeated resource overwrites another one, and a request for several keys without
  waiting keeps the first ones when a later one is taken (`pkg/distlock/postgres/postgres_lock.go:147`, `:57`).
  Every caller locks a single resource.
* Users: Login, UpdateUser and ChangePassword write back the whole row they read. A login that began
  before undoes a deactivation, an update undoes a change of password (`update_user.go:41`). Creating a user
  with an email in use overwrites that user. Two setups with one email both succeed. Demoting the last
  owner or administrator opens setup again. A change of password leaves all refresh tokens live.
* Tokens: a refresh that fails after the revocation ends the session. A logout with an expired access
  token is refused by the middleware and the refresh token stays live, though the browser forgets it.
* Web: of two tabs that refresh the same token the second is refused and clears the session the first has
  stored. A refresh answered after signing out restores the session. A page reloaded while its refresh is
  under way never learns the new token: the stored one has been rotated away, and the next refusal signs the user out (the exception
  `LeftWith` in the properties). `ProfilePage` stores the session
  of its last render, which may be older than the stored one.
* Bus: `subscription.Close` closes `closeCh` first and calls `UnlistenAll` next (`postgres_pubsub.go:295`, `:297`). A receiver that stops with
  more notifications waiting than lib/pq's channels hold leaves them full; the answer of `UNLISTEN` is behind them, and `Close` waits for it in
  `once.Do`, past the deadline of its context, and so does every other `Close` of the subscription. It takes a slow handler
  and a burst of events, no failure. A `Subscribe` that `Bus.Close` overtakes hangs in the same way (line 112).
  `CloseReturns` names the case (`Backlogged`); TLC shows it when that disjunct is taken out.
* Chat: two inferences both read a missing title and the later overwrites the other; the upsert of the title inserts
  a conversation deleted meanwhile again, without its messages. A grant is checked once and SQL run later. A
  turn and the deletion of its connection deadlock in PostgreSQL, and one of them is aborted. History is cut to a
  number of messages and may begin with half a turn.
* Saving a provider config, or a connection, without its secret reads the stored one and writes it
  back: a new secret saved between the two is lost (`provider_configs.go:95`, `update_connection.go`).

## Plan

1. (done) Schema pipeline: modules above, five runs, types and locks proved.
2. (done) `AdvisoryLock`, refining `ResourceLock`. Left: `RedisLock` with its TTL, and a session that
   ends under a handler of the pipeline.
3. (done) `PostgresBus`, refining `EventTopic`. Left: the in-memory bus, which only tests use.
4. (done) `ChatTurns`. Left: provider configs.
5. (done) `Accounts`, types, owner and rotation proved; `WebSession` on top of it, reloads included.
6. (done) `ChunkSplitting`, all but termination proved.
7. (done) Proofs: every property of a passing run but liveness, three refinements among them.
8. Faults of the pipeline still missing: the session that holds a lock ends under its handler; the
   COMPLETED upsert commits and its answer is lost.

## Not modelled

* The in-memory bus and the Redis lock: `cmd/api` constructs neither.
* SQL validation, prompt building, limits and redaction, HTTP clients, Atlas introspection and catalog
  rendering, encryption, request decoding: sequential translations of data, or input/output whose
  failures are the fault actions above.
* Provider configs, and creating and updating a connection: one row, read and written once by a request
  (see the observations).
* The pages of the web client, beyond the session they share. A page that the browser brings back as it was
  left (its back/forward cache) does not occur: what is left is gone.
* Two turns that begin in the same microsecond: history then falls back to their ids alone, while `ChatTurns` gives every
  transaction a time of its own.
* `db/models`, `db/factory`, `db/info` and the mocks: generated, and most of the repository's lines.
