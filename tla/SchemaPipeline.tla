---- MODULE SchemaPipeline ----
(***************************************************************************)
(* The schema pipeline as deployed: refresh requests, the instances that   *)
(* embed what the requests announce, chat turns that retrieve embedded     *)
(* chunks, administrators deleting connections, and user databases whose   *)
(* schema changes, all over one Postgres.                                  *)
(***************************************************************************)
EXTENDS SchemaRetrieval

vars == <<storeVars, eventVars, locks, refresher, worker, reader, faults>>

Init ==
    /\ StoreInit
    /\ EventsInit
    /\ Lock!Init
    /\ RefreshInit
    /\ WorkerInit
    /\ ReaderInit
    /\ FaultsInit

\* DELETE /connections/{id}.
AdminDeletesConnection(c) ==
    /\ DeleteConnection(c)
    /\ UNCHANGED <<eventVars, locks, faults>>

RemoteSchemaChanges(c) ==
    /\ AlterRemoteSchema(c)
    /\ UNCHANGED <<eventVars, locks, faults>>

ListenerDisconnects(n) ==
    /\ Fault("listener")
    /\ Disconnect(n)
    /\ UNCHANGED <<storeVars, locks>>

ListenerReconnects(n) ==
    /\ Reconnect(n)
    /\ UNCHANGED <<storeVars, locks, faults>>

EnvironmentNext ==
    \/ \E c \in Connections : AdminDeletesConnection(c) \/ RemoteSchemaChanges(c)
    \/ \E n \in Instances : ListenerDisconnects(n) \/ ListenerReconnects(n)

Next ==
    \/ RefreshNext /\ UNCHANGED <<worker, reader>>
    \/ EmbeddingNext /\ UNCHANGED reader
    \/ RetrievalNext /\ UNCHANGED <<storeVars, eventVars, locks, refresher, worker, faults>>
    \/ EnvironmentNext /\ UNCHANGED <<refresher, worker, reader>>

Spec == Init /\ [][Next]_vars

\* Goroutines keep running; Postgres grants a waiting pg_advisory_lock in
\* request order, so a worker or request waiting for a key gets it; pq.Listener
\* retries until it is connected.  Nothing obliges anyone to request a refresh,
\* to change a schema or to fail.
Fairness ==
    /\ \A r \in Refreshers :
          /\ WF_vars(RefreshStep(r) /\ UNCHANGED <<worker, reader>>)
          /\ SF_vars(AcquireRefreshLock(r) /\ UNCHANGED <<worker, reader>>)
    /\ \A w \in Workers :
          /\ WF_vars(WorkerStep(w) /\ UNCHANGED reader)
          /\ SF_vars(AcquireEmbedLock(w) /\ UNCHANGED reader)
    /\ \A n \in Instances :
          WF_vars(ListenerReconnects(n) /\ UNCHANGED <<refresher, worker, reader>>)

FairSpec == Spec /\ Fairness

-----------------------------------------------------------------------------
\* Safety.

\* Every variable has the values its declaration says.
TypeOK ==
    /\ StoreTypeOK
    /\ EventsTypeOK
    /\ FaultsTypeOK
    /\ locks \in [LockKeys -> Processes \cup {Nobody}]
    /\ RefreshTypeOK
    /\ WorkerTypeOK
    /\ ReaderTypeOK

\* A key is owned exactly by the process that is between its Lock and its
\* Unlock: no early return, error or crash leaves a connection locked for ever,
\* and two processes are never inside the same critical section.
LocksMatchHolders ==
    /\ \A r \in Refreshers, c \in Connections :
          locks[RefreshKey(c)] = r <=> Refreshing(r) /\ refresher[r].conn = c
    /\ \A w \in Workers, c \in Connections :
          locks[EmbedKey(c)] = w <=> Holding(w) /\ worker[w].snap.conn = c

\* The latest hash a refresh read stays the latest until it has decided and
\* inserted: two requests cannot both take the same snapshot for the newest.
BaselineIsCurrent ==
    \A r \in Refreshers :
        /\ refresher[r].pc \in {"introspect", "insert"}
        /\ refresher[r].conn \in connections
        => IsLatestHash(refresher[r].base, refresher[r].conn)

\* While a worker embeds a snapshot its job row says PROCESSING with the retry
\* count the worker started from: no other worker, and no late FAILED of an
\* earlier attempt, overwrites it ("operators can observe in-flight state").
InFlightIsVisible ==
    \A w \in Workers :
        InFlight(w) /\ Exists(worker[w].id) =>
            jobs[worker[w].id] = [status |-> "PROCESSING", retry |-> worker[w].retry]

\* A COMPLETED job stands over the complete chunk set of its snapshot.
CompletedIsSearchable ==
    \A i \in SnapshotIds : jobs[i].status = "COMPLETED" => chunks[i] = Content(i)

\* Between finding a COMPLETED job and searching, a retrieval cannot lose the
\* chunks it is about to read, whatever re-embedding, failure or crash happens
\* meanwhile; only deleting the connection takes them away.
SelectedStaysSearchable ==
    \A q \in Readers :
        reader[q].pc = "search" /\ Exists(reader[q].id) =>
            chunks[reader[q].id] = Content(reader[q].id)

\* The pipeline implements the lifecycle of EmbeddingJob.
Jobs == INSTANCE EmbeddingJob WITH
    Ids        <- SnapshotIds,
    Rows       <- Parts,
    registered <- {i \in SnapshotIds : Exists(i)},
    content    <- [i \in SnapshotIds |-> Content(i)],
    stored     <- chunks,
    status     <- [i \in SnapshotIds |-> jobs[i].status],
    failures   <- [i \in SnapshotIds |-> jobs[i].retry]

ImplementsEmbeddingJob == Jobs!Spec

\* As long as no process dies and no FAILED row is lost, a PROCESSING job has a
\* worker: "any failure after the PROCESSING transition should leave behind a
\* FAILED job row".
ProcessingHasWorker ==
    \A i \in SnapshotIds :
        jobs[i].status = "PROCESSING" =>
            \E w \in Workers : worker[w].id = i /\ InFlight(w)

-----------------------------------------------------------------------------
\* Liveness.

\* Every snapshot that was inserted ends up embedded for good, unless its
\* connection is deleted.
EverySnapshotIsEmbedded ==
    \A i \in SnapshotIds :
        Exists(i) ~> [](Exists(i) => jobs[i].status = "COMPLETED")

-----------------------------------------------------------------------------
\* Stated by the documentation.

\* "stores a new snapshot only if the schema hash changed": a refresh that saw
\* a change can store it.
ChangedSchemaIsInsertable ==
    \A r \in Refreshers :
        /\ refresher[r].pc = "insert"
        /\ refresher[r].conn \in connections
        => Insertable(refresher[r].conn, refresher[r].hash)

\* "preventing duplicate schema embedding work when multiple app instances
\* receive the same event": what is embedded is not embedded again.
CompletedIsNotReopened ==
    [][\A i \in SnapshotIds :
          jobs[i].status = "COMPLETED" /\ Exists(i)' => jobs'[i].status = "COMPLETED"]_vars
====
