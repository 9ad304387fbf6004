---- MODULE SchemaData_proofs ----
(***************************************************************************)
(* What the tables of the schema pipeline say of each other and of the     *)
(* processes that read and write them: job rows, chunk rows, snapshots,    *)
(* and the values workers and retrievals go on with.                       *)
(***************************************************************************)
EXTENDS SchemaPipeline_proofs

\* A row is numbered by the sequence; what depends on it goes with it.
RowsOK ==
    \A i \in SnapshotIds :
        /\ Exists(i) => i <= lastId
        /\ ~Exists(i) => jobs[i] = NoJob /\ chunks[i] = {}

\* What worker v has read or written of its snapshot is still true, unless the
\* row is gone: the row itself, which never changes; from the read of its job to
\* the PROCESSING row the retry count; the PROCESSING row while v is in flight;
\* the complete chunks from their transaction to the COMPLETED row.
WorkerUpToDate(v) ==
    LET i == worker[v].id IN
    /\ worker[v].pc \notin {"idle", "find"} =>
          /\ i <= lastId
          /\ Exists(i) => snapshots[i] = worker[v].snap
    /\ worker[v].pc = "mark" /\ Exists(i) => jobs[i].retry = worker[v].retry
    /\ InFlight(v) /\ Exists(i) =>
          jobs[i] = [status |-> "PROCESSING", retry |-> worker[v].retry]
    /\ worker[v].pc = "complete" /\ Exists(i) => chunks[i] = Content(i)

\* The snapshots a retrieval has listed have been inserted, and the one it
\* selected can be searched unless it is gone.
ReaderUpToDate(q) ==
    /\ \A i \in reader[q].scan : i <= lastId
    /\ reader[q].pc = "search" =>
          /\ reader[q].id \in SnapshotIds
          /\ reader[q].id <= lastId
          /\ Exists(reader[q].id) => chunks[reader[q].id] = Content(reader[q].id)

DataInv ==
    /\ RowsOK
    /\ CompletedIsSearchable
    /\ \A v \in Workers : WorkerUpToDate(v)
    /\ \A q \in Readers : ReaderUpToDate(q)

LEMMA InitData == Init => DataInv
<1> SUFFICES ASSUME Init PROVE DataInv
  OBVIOUS
<1>1. RowsOK /\ CompletedIsSearchable
  BY DEF Init, StoreInit, RowsOK, CompletedIsSearchable, Exists, NoJob
<1>2. \A v \in Workers : WorkerUpToDate(v)
  BY DEF Init, WorkerInit, IdleWorker, WorkerUpToDate, InFlight
<1>3. \A q \in Readers : ReaderUpToDate(q)
  BY DEF Init, ReaderInit, IdleReader, ReaderUpToDate
<1> QED
  BY <1>1, <1>2, <1>3 DEF DataInv

-----------------------------------------------------------------------------
\* A step that touches a row a process relies on only by removing it.

Kept(i) == snapshots'[i] = snapshots[i] /\ jobs'[i] = jobs[i] /\ chunks'[i] = chunks[i]
Gone(i) == snapshots'[i] = NoSnapshot

LEMMA WorkerKeptUpToDate ==
    ASSUME StoreTypeOK, StoreTypeOK', WorkerTypeOK, WorkerLocalsOK,
           NEW v \in Workers, WorkerUpToDate(v), worker'[v] = worker[v], lastId <= lastId',
           \A i \in SnapshotIds : i <= lastId => Kept(i) \/ Gone(i)
    PROVE  WorkerUpToDate(v)'
<1> DEFINE i == worker[v].id
<1>1. CASE worker[v].pc \in {"idle", "find"}
  BY <1>1 DEF WorkerUpToDate, InFlight
<1>2. CASE worker[v].pc \notin {"idle", "find"}
  <2>1. i \in SnapshotIds /\ i <= lastId /\ (Kept(i) \/ Gone(i))
    BY <1>2 DEF WorkerLocalsOK, WorkerUpToDate
  <2>2. i <= lastId'
    BY <2>1 DEF StoreTypeOK, SnapshotIds
  <2>3. CASE Gone(i)
    BY <1>2, <2>2, <2>3 DEF WorkerUpToDate, InFlight, Exists, Gone
  <2>4. CASE Kept(i)
    BY <1>2, <2>2, <2>4 DEF WorkerUpToDate, InFlight, Exists, Kept, Content
  <2> QED
    BY <2>1, <2>3, <2>4
<1> QED
  BY <1>1, <1>2

LEMMA ReaderKeptUpToDate ==
    ASSUME StoreTypeOK, StoreTypeOK', ReaderTypeOK,
           NEW q \in Readers, ReaderUpToDate(q), reader'[q] = reader[q], lastId <= lastId',
           \A i \in SnapshotIds : i <= lastId => Kept(i) \/ Gone(i)
    PROVE  ReaderUpToDate(q)'
<1>1. \A i \in reader[q].scan : i <= lastId'
  BY DEF ReaderUpToDate, ReaderTypeOK, ReaderState, StoreTypeOK, SnapshotIds
<1>2. CASE reader[q].pc # "search"
  BY <1>1, <1>2 DEF ReaderUpToDate
<1>3. CASE reader[q].pc = "search"
  <2> DEFINE i == reader[q].id
  <2>1. i \in SnapshotIds /\ i <= lastId /\ (Kept(i) \/ Gone(i))
    BY <1>3 DEF ReaderUpToDate
  <2>2. i <= lastId'
    BY <2>1 DEF StoreTypeOK, SnapshotIds
  <2> QED
    BY <1>1, <1>3, <2>1, <2>2 DEF ReaderUpToDate, Kept, Gone, Exists, Content
<1> QED
  BY <1>2, <1>3

\* A step of somebody who is neither a worker nor a retrieval.
LEMMA RowsKeptData ==
    ASSUME TypeInv, TypeInv', DataInv, UNCHANGED <<worker, reader>>, lastId <= lastId',
           \A i \in SnapshotIds : i <= lastId => Kept(i) \/ Gone(i),
           RowsOK', CompletedIsSearchable'
    PROVE  DataInv'
<1>1. ASSUME NEW v \in Workers PROVE WorkerUpToDate(v)'
  BY <1>1, WorkerKeptUpToDate DEF DataInv, TypeInv, TypeOK
<1>2. ASSUME NEW q \in Readers PROVE ReaderUpToDate(q)'
  BY <1>2, ReaderKeptUpToDate DEF DataInv, TypeInv, TypeOK
<1> QED
  BY <1>1, <1>2 DEF DataInv

\* The step of a worker or a retrieval that leaves the tables alone.
LEMMA TablesUnchanged ==
    ASSUME DataInv, UNCHANGED storeVars
    PROVE  RowsOK' /\ CompletedIsSearchable'
BY DEF DataInv, RowsOK, CompletedIsSearchable, storeVars, Exists, Content

LEMMA InsertSnapshotData ==
    ASSUME TypeInv, TypeInv', DataInv, UNCHANGED <<worker, reader>>,
           NEW c \in Connections, NEW h \in Hashes, InsertSnapshot(c, h)
    PROVE  DataInv'
<1> DEFINE n == lastId + 1
<1>1. /\ lastId \in Nat /\ n \in SnapshotIds /\ lastId' = n
      /\ snapshots' = [snapshots EXCEPT ![n] = [conn |-> c, hash |-> h]]
      /\ UNCHANGED <<jobs, chunks>>
      /\ snapshots \in [SnapshotIds -> Snapshot \cup {NoSnapshot}]
      /\ \A i \in SnapshotIds : i \in Nat
  BY StoreAssumption DEF TypeInv, TypeOK, StoreTypeOK, InsertSnapshot, SnapshotIds
<1>2. /\ \A i \in SnapshotIds : i <= lastId => i # n /\ Kept(i)
      /\ \A i \in SnapshotIds : i # n => Kept(i)
  BY <1>1 DEF Kept
<1>3. ~Exists(n) /\ jobs[n] = NoJob /\ chunks[n] = {}
  BY <1>1 DEF DataInv, RowsOK
<1>4. RowsOK'
  <2> SUFFICES ASSUME NEW i \in SnapshotIds
               PROVE  (Exists(i)' => i <= lastId') /\ (~Exists(i)' => jobs'[i] = NoJob /\ chunks'[i] = {})
    BY DEF RowsOK
  <2>1. CASE i = n
    BY <1>1, <1>3, <2>1
  <2>2. CASE i # n
    BY <1>1, <1>2, <2>2 DEF Kept, Exists, DataInv, RowsOK
  <2> QED
    BY <2>1, <2>2
<1>5. CompletedIsSearchable'
  <2> SUFFICES ASSUME NEW i \in SnapshotIds, jobs'[i].status = "COMPLETED"
               PROVE  chunks'[i] = Content(i)'
    BY DEF CompletedIsSearchable
  <2>1. i # n
    BY <1>1, <1>3 DEF NoJob
  <2> QED
    BY <1>2, <2>1 DEF Kept, Exists, Content, DataInv, CompletedIsSearchable
<1> QED
  BY <1>1, <1>2, <1>4, <1>5, RowsKeptData

LEMMA DeleteConnectionData ==
    ASSUME TypeInv, TypeInv', DataInv, UNCHANGED <<worker, reader>>,
           NEW c \in Connections, DeleteConnection(c)
    PROVE  DataInv'
<1>1. \A i \in SnapshotIds :
         \/ i \notin SnapshotsOf(c) /\ Kept(i)
         \/ i \in SnapshotsOf(c) /\ Gone(i) /\ jobs'[i] = NoJob /\ chunks'[i] = {}
  BY DEF DeleteConnection, Kept, Gone
<1>2. lastId' = lastId /\ lastId \in Nat
  BY DEF DeleteConnection, TypeInv, TypeOK, StoreTypeOK
<1>3. RowsOK'
  BY <1>1, <1>2 DEF DataInv, RowsOK, Kept, Gone, Exists
<1>4. CompletedIsSearchable'
  <2> SUFFICES ASSUME NEW i \in SnapshotIds, jobs'[i].status = "COMPLETED"
               PROVE  chunks'[i] = Content(i)'
    BY DEF CompletedIsSearchable
  <2>1. Kept(i)
    BY <1>1 DEF NoJob
  <2> QED
    BY <2>1 DEF Kept, Exists, Content, DataInv, CompletedIsSearchable
<1> QED
  BY <1>1, <1>2, <1>3, <1>4, RowsKeptData

-----------------------------------------------------------------------------
\* Requests, retrievals and the environment.

LEMMA StoreUnchangedData ==
    ASSUME TypeInv, TypeInv', DataInv, UNCHANGED <<snapshots, lastId, jobs, chunks>>,
           UNCHANGED <<worker, reader>>
    PROVE  DataInv'
<1>1. RowsOK' /\ CompletedIsSearchable'
  BY DEF DataInv, RowsOK, CompletedIsSearchable, Exists, Content
<1>2. lastId <= lastId' /\ \A i \in SnapshotIds : Kept(i)
  BY DEF Kept, TypeInv, TypeOK, StoreTypeOK
<1> QED
  BY <1>1, <1>2, RowsKeptData

LEMMA RefreshData ==
    ASSUME TypeInv, TypeInv', DataInv, NEW r \in Refreshers, UNCHANGED <<worker, reader>>,
           \/ \E c \in Connections : StartRefresh(r, c)
           \/ RefreshStep(r)
           \/ FailRefresh(r)
           \/ CrashRefresh(r)
    PROVE  DataInv'
<1>1. ASSUME UNCHANGED storeVars PROVE DataInv'
  BY <1>1, StoreUnchangedData DEF storeVars
<1>2. CASE StoreNewSnapshot(r)
  <2>1. /\ refresher[r].conn \in Connections
        /\ refresher[r].hash \in Hashes
    BY <1>2
    DEF StoreNewSnapshot, TypeInv, TypeOK, RefreshTypeOK, RefreshState, RefreshLocalsOK
  <2> QED
    BY <1>1, <1>2, <2>1, InsertSnapshotData DEF StoreNewSnapshot
<1> QED
  BY <1>1, <1>2
  DEF StartRefresh, RefreshStep, AcquireRefreshLock, LoadLatestSnapshot, Introspect,
      AnnounceSnapshot, ReleaseRefreshLock, FailRefresh, CrashRefresh

LEMMA EnvironmentData ==
    ASSUME TypeInv, TypeInv', DataInv, EnvironmentNext, UNCHANGED <<worker, reader>>
    PROVE  DataInv'
<1>1. ASSUME NEW c \in Connections, AdminDeletesConnection(c)
      PROVE  DataInv'
  BY <1>1, DeleteConnectionData DEF AdminDeletesConnection
<1>2. ASSUME NEW c \in Connections, RemoteSchemaChanges(c)
      PROVE  DataInv'
  BY <1>2, StoreUnchangedData DEF RemoteSchemaChanges, AlterRemoteSchema
<1>3. ASSUME NEW n \in Instances, ListenerDisconnects(n) \/ ListenerReconnects(n)
      PROVE  DataInv'
  BY <1>3, StoreUnchangedData DEF ListenerDisconnects, ListenerReconnects, storeVars
<1> QED
  BY <1>1, <1>2, <1>3 DEF EnvironmentNext

LEMMA RetrievalData ==
    ASSUME TypeInv, TypeInv', DataInv, RetrievalNext, UNCHANGED <<storeVars, worker>>
    PROVE  DataInv'
<1>1. /\ StoreTypeOK /\ StoreTypeOK' /\ ReaderTypeOK /\ WorkerTypeOK /\ WorkerLocalsOK
      /\ lastId <= lastId' /\ \A i \in SnapshotIds : Kept(i)
      /\ UNCHANGED <<snapshots, lastId, jobs, chunks>>
  BY DEF TypeInv, TypeOK, StoreTypeOK, Kept, storeVars
<1>2. RowsOK' /\ CompletedIsSearchable'
  BY TablesUnchanged
<1>3. ASSUME NEW v \in Workers PROVE WorkerUpToDate(v)'
  BY <1>1, <1>3, WorkerKeptUpToDate DEF DataInv
<1>4. PICK q \in Readers :
         (\E c \in Connections : ListForRetrieval(q, c)) \/ CheckJob(q) \/ SearchChunks(q)
  BY DEF RetrievalNext
<1>5. reader \in [Readers -> ReaderState] /\ reader[q] \in ReaderState /\ ReaderUpToDate(q)
  BY DEF TypeInv, TypeOK, ReaderTypeOK, DataInv
<1>6. \A p \in Readers : p # q => reader'[p] = reader[p]
  BY <1>4, <1>5 DEF ListForRetrieval, CheckJob, SearchChunks
<1>7. \A p \in Readers : p # q => ReaderUpToDate(p)'
  BY <1>1, <1>6, ReaderKeptUpToDate DEF DataInv
<1>8. ReaderUpToDate(q)'
  <2>1. CASE SearchChunks(q) \/ reader' = [reader EXCEPT ![q] = IdleReader]
    BY <1>5, <2>1 DEF SearchChunks, IdleReader, ReaderUpToDate
  <2>2. ASSUME NEW c \in Connections, ListForRetrieval(q, c)
        PROVE  ReaderUpToDate(q)'
    <3>1. \A i \in SnapshotsOf(c) : i <= lastId
      BY DEF SnapshotsOf, DataInv, RowsOK
    <3>2. reader'[q].pc = "scan" /\ reader'[q].scan = SnapshotsOf(c)
      BY <1>5, <2>2 DEF ListForRetrieval, ReaderState
    <3> QED
      BY <1>1, <3>1, <3>2 DEF ReaderUpToDate
  <2>3. CASE CheckJob(q)
    <3>1. PICK i \in reader[q].scan :
             \/ /\ jobs[i].status = "COMPLETED"
                /\ reader' = [reader EXCEPT ![q] = [pc |-> "search", scan |-> {}, id |-> i]]
             \/ /\ reader[q].pc = "scan"
                /\ reader' = [reader EXCEPT ![q].scan = reader[q].scan \ {i}]
             \/ reader' = [reader EXCEPT ![q] = IdleReader]
      BY <2>3 DEF CheckJob
    <3>2. i \in SnapshotIds /\ i <= lastId
      BY <1>5 DEF ReaderState, ReaderUpToDate
    <3>3. CASE jobs[i].status = "COMPLETED"
               /\ reader' = [reader EXCEPT ![q] = [pc |-> "search", scan |-> {}, id |-> i]]
      <4>1. chunks[i] = Content(i)
        BY <3>2, <3>3 DEF DataInv, CompletedIsSearchable
      <4> QED
        BY <1>1, <1>5, <3>2, <3>3, <4>1 DEF ReaderUpToDate, Exists, Content
    <3>4. CASE reader[q].pc = "scan"
               /\ reader' = [reader EXCEPT ![q].scan = reader[q].scan \ {i}]
      BY <1>1, <1>5, <3>4 DEF ReaderUpToDate, ReaderState
    <3> QED
      BY <2>1, <3>1, <3>3, <3>4
  <2> QED
    BY <1>4, <2>1, <2>2, <2>3
<1> QED
  BY <1>2, <1>3, <1>7, <1>8 DEF DataInv

-----------------------------------------------------------------------------
\* Workers.

\* Two workers that hold the lock of one existing snapshot's connection are one.
LEMMA OneWorkerPerSnapshot ==
    ASSUME DataInv, Exclusive, NEW v \in Workers, NEW w \in Workers, Holding(v), Holding(w),
           worker[v].id = worker[w].id, Exists(worker[w].id)
    PROVE  v = w
<1> DEFINE i == worker[w].id
<1>1. worker[v].pc \notin {"idle", "find"} /\ worker[w].pc \notin {"idle", "find"}
  BY DEF Holding
<1>2. WorkerUpToDate(v) /\ WorkerUpToDate(w)
  BY DEF DataInv
<1>3. snapshots[i] = worker[v].snap /\ snapshots[i] = worker[w].snap
  BY <1>1, <1>2 DEF WorkerUpToDate
<1>4. worker[v].snap.conn = worker[w].snap.conn
  BY <1>3
<1> QED
  BY <1>4 DEF Exclusive

\* What one worker writes about its snapshot, another one does not rely on.
LEMMA OtherWorkersUpToDate ==
    ASSUME TypeInv, TypeInv', DataInv, Exclusive,
           NEW w \in Workers, Holding(w), NEW v \in Workers, v # w, worker'[v] = worker[v],
           UNCHANGED <<snapshots, lastId>>,
           \A i \in SnapshotIds : i # worker[w].id => Kept(i)
    PROVE  WorkerUpToDate(v)'
<1> DEFINE i == worker[v].id
<1>1. WorkerUpToDate(v) /\ StoreTypeOK /\ (worker[v].pc # "idle" => i \in SnapshotIds)
  BY DEF DataInv, TypeInv, TypeOK, WorkerLocalsOK
<1>2. CASE worker[v].pc \in {"idle", "find", "lock"}
  BY <1>1, <1>2 DEF WorkerUpToDate, InFlight, Exists
<1>3. CASE ~Exists(i)
  BY <1>1, <1>3 DEF WorkerUpToDate, InFlight, Exists
<1>4. CASE worker[v].pc \notin {"idle", "find", "lock"} /\ Exists(i)
  <2>1. Holding(v)
    BY <1>4 DEF Holding
  <2>2. Kept(i)
    BY <1>1, <1>4, <2>1, OneWorkerPerSnapshot
  <2> QED
    BY <1>1, <2>2 DEF WorkerUpToDate, InFlight, Exists, Content, Kept
<1> QED
  BY <1>2, <1>3, <1>4

\* A handler that gives up writes nothing, and goes on only to the FAILED row.
LEMMA AbortUpToDate ==
    ASSUME TypeInv, NEW w \in Workers, WorkerUpToDate(w), UNCHANGED storeVars,
           worker[w].pc \notin {"idle", "unlock"}, Abort(w)
    PROVE  WorkerUpToDate(w)'
<1>1. /\ worker \in [Workers -> WorkerState] /\ worker[w].pc \in WorkerPC
      /\ UNCHANGED <<snapshots, lastId, jobs, chunks>>
  BY DEF TypeInv, TypeOK, WorkerTypeOK, WorkerState, storeVars
<1>2. CASE worker[w].pc \in {"find", "lock"}
  <2>1. EndAttempt(w, FALSE)
    BY <1>2 DEF Abort
  <2>2. worker'[w].pc \in {"idle", "find"}
    BY <1>1, <2>1 DEF EndAttempt, IdleWorker, Attempt
  <2> QED
    BY <2>2 DEF WorkerUpToDate, InFlight
<1>3. CASE worker[w].pc \in {"load", "mark", "fail"}
  <2>1. worker' = [worker EXCEPT ![w].pc = "unlock"]
    BY <1>3 DEF Abort, WorkerGoto
  <2> QED
    BY <1>1, <1>3, <2>1 DEF WorkerUpToDate, InFlight, Exists, WorkerState
<1>4. CASE worker[w].pc \in {"embed", "replace", "complete"}
  <2>1. worker' = [worker EXCEPT ![w].pc = "fail"]
    BY <1>4 DEF Abort, WorkerGoto
  <2> QED
    BY <1>1, <1>4, <2>1 DEF WorkerUpToDate, InFlight, Exists, WorkerState
<1> QED
  BY <1>1, <1>2, <1>3, <1>4 DEF WorkerPC

\* A step of w that leaves the tables alone.
LEMMA WorkerReadsData ==
    ASSUME TypeInv, TypeInv', DataInv, NEW w \in Workers, UNCHANGED <<storeVars, reader>>,
           \A v \in Workers : v # w => worker'[v] = worker[v],
           WorkerUpToDate(w)'
    PROVE  DataInv'
<1>1. /\ StoreTypeOK /\ StoreTypeOK' /\ ReaderTypeOK /\ WorkerTypeOK /\ WorkerLocalsOK
      /\ lastId <= lastId' /\ \A i \in SnapshotIds : Kept(i)
  BY DEF TypeInv, TypeOK, StoreTypeOK, Kept, storeVars
<1>2. ASSUME NEW v \in Workers, v # w PROVE WorkerUpToDate(v)'
  BY <1>1, <1>2, WorkerKeptUpToDate DEF DataInv
<1>3. ASSUME NEW q \in Readers PROVE ReaderUpToDate(q)'
  BY <1>1, <1>3, ReaderKeptUpToDate DEF DataInv
<1> QED
  BY <1>2, <1>3, TablesUnchanged DEF DataInv

\* A step of w that writes the job row of its snapshot.
LEMMA WorkerUpsertsData ==
    ASSUME TypeInv, TypeInv', DataInv, Exclusive,
           NEW w \in Workers, Holding(w), UNCHANGED reader,
           \A v \in Workers : v # w => worker'[v] = worker[v],
           WorkerUpToDate(w)', NEW s, NEW n,
           UpsertEmbeddingJob(worker[w].id, s, n),
           s = "COMPLETED" => chunks[worker[w].id] = Content(worker[w].id)
    PROVE  DataInv'
<1> DEFINE i == worker[w].id
<1>1. /\ i \in SnapshotIds /\ jobs \in [SnapshotIds -> Job] /\ lastId \in Nat
      /\ ReaderTypeOK /\ StoreTypeOK /\ StoreTypeOK'
  BY DEF TypeInv, TypeOK, StoreTypeOK, WorkerLocalsOK, Holding
<1>2. /\ Exists(i) /\ UNCHANGED <<snapshots, lastId, chunks>>
      /\ jobs'[i] = [status |-> s, retry |-> n]
      /\ \A j \in SnapshotIds : j # i => Kept(j)
  BY <1>1 DEF UpsertEmbeddingJob, Kept
<1>3. RowsOK'
  BY <1>2 DEF DataInv, RowsOK, Kept, Exists
<1>4. CompletedIsSearchable'
  BY <1>2 DEF DataInv, CompletedIsSearchable, Kept, Content, Exists
<1>5. ASSUME NEW v \in Workers PROVE WorkerUpToDate(v)'
  BY <1>2, <1>5, OtherWorkersUpToDate
<1>6. ASSUME NEW q \in Readers PROVE ReaderUpToDate(q)'
  BY <1>2 DEF DataInv, ReaderUpToDate, Content, Exists
<1> QED
  BY <1>3, <1>4, <1>5, <1>6 DEF DataInv

\* The step of w that replaces the chunk rows of its snapshot.
LEMMA StoreChunksData ==
    ASSUME TypeInv, TypeInv', DataInv, Exclusive,
           NEW w \in Workers, worker[w].pc = "replace", UNCHANGED reader,
           \A v \in Workers : v # w => worker'[v] = worker[v],
           ReplaceChunks(worker[w].id, ChunksOf[worker[w].snap.hash]), WorkerGoto(w, "complete")
    PROVE  DataInv'
<1> DEFINE i == worker[w].id
<1>1. /\ i \in SnapshotIds /\ chunks \in [SnapshotIds -> SUBSET Parts] /\ lastId \in Nat
      /\ ReaderTypeOK /\ worker \in [Workers -> WorkerState] /\ worker[w] \in WorkerState
      /\ WorkerUpToDate(w) /\ Holding(w) /\ InFlight(w)
  BY DEF TypeInv, TypeOK, StoreTypeOK, WorkerLocalsOK, WorkerTypeOK, DataInv, Holding, InFlight
<1>2. UNCHANGED <<snapshots, lastId, jobs>>
  BY DEF ReplaceChunks
<1>3. Exists(i) => /\ snapshots[i] = worker[w].snap
                   /\ jobs[i] = [status |-> "PROCESSING", retry |-> worker[w].retry]
                   /\ chunks'[i] = Content(i)
  BY <1>1 DEF WorkerUpToDate, ReplaceChunks, Content
<1>4. ~Exists(i) => chunks'[i] = chunks[i]
  BY <1>1 DEF ReplaceChunks, DataInv, RowsOK
<1>5. \A j \in SnapshotIds : j # i => Kept(j)
  BY <1>1, <1>2 DEF ReplaceChunks, Kept
<1>6. RowsOK'
  BY <1>2, <1>4, <1>5 DEF DataInv, RowsOK, Kept, Exists
<1>7. CompletedIsSearchable'
  BY <1>2, <1>3, <1>4, <1>5 DEF DataInv, CompletedIsSearchable, Kept, Content, Exists
<1>8. WorkerUpToDate(w)'
  BY <1>1, <1>2, <1>3
  DEF WorkerUpToDate, WorkerGoto, InFlight, Exists, Content, WorkerState
<1>9. ASSUME NEW v \in Workers PROVE WorkerUpToDate(v)'
  BY <1>1, <1>2, <1>5, <1>8, <1>9, OtherWorkersUpToDate
<1>10. ASSUME NEW q \in Readers PROVE ReaderUpToDate(q)'
  BY <1>1, <1>2, <1>3, <1>4, <1>5 DEF DataInv, ReaderUpToDate, Content, Exists, Kept
<1> QED
  BY <1>6, <1>7, <1>9, <1>10 DEF DataInv

LEMMA WorkerData ==
    ASSUME TypeInv, TypeInv', DataInv, Exclusive, NEW w \in Workers, UNCHANGED reader,
           WorkerStep(w) \/ FailWorker(w) \/ FailReport(w)
    PROVE  DataInv'
<1> DEFINE i == worker[w].id
<1>1. /\ worker \in [Workers -> WorkerState] /\ worker[w] \in WorkerState
      /\ WorkerTypeOK /\ WorkerUpToDate(w)
      /\ worker[w].pc # "idle" => i \in SnapshotIds
      /\ jobs \in [SnapshotIds -> Job]
  BY DEF TypeInv, TypeOK, StoreTypeOK, WorkerTypeOK, WorkerLocalsOK, DataInv
<1>2. \A v \in Workers : v # w => worker'[v] = worker[v]
  BY <1>1, OtherWorkersKept
<1>3. ASSUME UNCHANGED storeVars, WorkerUpToDate(w)' PROVE DataInv'
  BY <1>2, <1>3, WorkerReadsData
<1>4. ASSUME UNCHANGED storeVars, Abort(w), worker[w].pc \notin {"idle", "unlock"}
      PROVE  DataInv'
  BY <1>1, <1>3, <1>4, AbortUpToDate
<1>5. CASE TakeEvent(w) \/ ReleaseEmbedLock(w)
  <2>1. worker'[w].pc \in {"idle", "find"} /\ UNCHANGED storeVars
    BY <1>1, <1>5 DEF TakeEvent, ReleaseEmbedLock, EndAttempt, Attempt, IdleWorker
  <2> QED
    BY <1>3, <2>1 DEF WorkerUpToDate, InFlight
<1>6. CASE FindSnapshot(w)
  <2>1. CASE Exists(i) /\ worker' = [worker EXCEPT ![w].pc = "lock", ![w].snap = snapshots[i]]
    <3>1. i <= lastId
      BY <1>1, <1>6, <2>1 DEF FindSnapshot, DataInv, RowsOK
    <3>2. UNCHANGED storeVars
      BY <1>6 DEF FindSnapshot
    <3>3. WorkerUpToDate(w)'
      BY <1>1, <2>1, <3>1, <3>2 DEF WorkerUpToDate, InFlight, Exists, storeVars, WorkerState
    <3> QED
      BY <1>3, <3>2, <3>3
  <2> QED
    BY <1>4, <1>6, <2>1 DEF FindSnapshot
<1>7. CASE AcquireEmbedLock(w)
  <2>1. UNCHANGED storeVars /\ worker' = [worker EXCEPT ![w].pc = "load"]
        /\ worker[w].pc = "lock"
    BY <1>7 DEF AcquireEmbedLock, WorkerGoto
  <2>2. WorkerUpToDate(w)'
    BY <1>1, <2>1 DEF WorkerUpToDate, InFlight, Exists, storeVars, WorkerState
  <2> QED
    BY <1>3, <2>1, <2>2
<1>8. CASE LoadJob(w)
  <2>1. /\ UNCHANGED storeVars /\ worker[w].pc = "load"
        /\ worker' = [worker EXCEPT ![w].pc = "mark", ![w].retry = jobs[i].retry]
    BY <1>8 DEF LoadJob
  <2>2. WorkerUpToDate(w)'
    BY <1>1, <2>1 DEF WorkerUpToDate, InFlight, Exists, storeVars, WorkerState
  <2> QED
    BY <1>3, <2>1, <2>2
<1>9. CASE MarkProcessing(w)
  <2>1. CASE UpsertEmbeddingJob(i, "PROCESSING", worker[w].retry) /\ WorkerGoto(w, "embed")
    <3>1. worker[w].pc = "mark"
      BY <1>9 DEF MarkProcessing
    <3>2. WorkerUpToDate(w)'
      BY <1>1, <2>1, <3>1
      DEF WorkerUpToDate, InFlight, Exists, WorkerGoto, WorkerState, UpsertEmbeddingJob
    <3> QED
      BY <1>2, <2>1, <3>1, <3>2, WorkerUpsertsData DEF Holding
  <2> QED
    BY <1>4, <1>9, <2>1 DEF MarkProcessing
<1>10. CASE EmbedChunks(w)
  <2>1. UNCHANGED storeVars /\ worker' = [worker EXCEPT ![w].pc = "replace"]
        /\ worker[w].pc = "embed"
    BY <1>10 DEF EmbedChunks, WorkerGoto
  <2>2. WorkerUpToDate(w)'
    BY <1>1, <2>1 DEF WorkerUpToDate, InFlight, Exists, storeVars, WorkerState
  <2> QED
    BY <1>3, <2>1, <2>2
<1>11. CASE StoreChunks(w)
  BY <1>2, <1>4, <1>11, StoreChunksData DEF StoreChunks
<1>12. CASE MarkCompleted(w)
  <2>1. CASE UpsertEmbeddingJob(i, "COMPLETED", worker[w].retry)
             /\ worker' = [worker EXCEPT ![w].pc = "unlock", ![w].ok = TRUE]
    <3>1. worker[w].pc = "complete" /\ Exists(i)
      BY <1>12, <2>1 DEF MarkCompleted, UpsertEmbeddingJob
    <3>2. chunks[i] = Content(i)
      BY <1>1, <3>1 DEF WorkerUpToDate
    <3>3. WorkerUpToDate(w)'
      BY <1>1, <2>1, <3>1
      DEF WorkerUpToDate, InFlight, Exists, WorkerState, UpsertEmbeddingJob
    <3> QED
      BY <1>2, <2>1, <3>1, <3>2, <3>3, WorkerUpsertsData DEF Holding
  <2> QED
    BY <1>4, <1>12, <2>1 DEF MarkCompleted
<1>13. CASE MarkFailed(w)
  <2>1. worker[w].pc = "fail" /\ worker' = [worker EXCEPT ![w].pc = "unlock"]
    BY <1>13 DEF MarkFailed, WorkerGoto
  <2>2. CASE UpsertEmbeddingJob(i, "FAILED", worker[w].retry + 1)
    <3>1. WorkerUpToDate(w)'
      BY <1>1, <2>1, <2>2 DEF WorkerUpToDate, InFlight, Exists, WorkerState, UpsertEmbeddingJob
    <3> QED
      BY <1>2, <2>1, <2>2, <3>1, WorkerUpsertsData DEF Holding
  <2>3. CASE UNCHANGED storeVars
    <3>1. WorkerUpToDate(w)'
      BY <1>1, <2>1, <2>3 DEF WorkerUpToDate, InFlight, Exists, WorkerState, storeVars
    <3> QED
      BY <1>3, <2>3, <3>1
  <2> QED
    BY <1>13, <2>2, <2>3 DEF MarkFailed
<1>14. CASE FailWorker(w) \/ FailReport(w)
  BY <1>4, <1>14 DEF FailWorker, FailReport
<1> QED
  BY <1>5, <1>6, <1>7, <1>8, <1>9, <1>10, <1>11, <1>12, <1>13, <1>14 DEF WorkerStep

\* A dead worker relies on nothing any more.
LEMMA CrashInstanceData ==
    ASSUME TypeInv, TypeInv', DataInv, NEW n \in Instances, CrashInstance(n), UNCHANGED reader
    PROVE  DataInv'
<1>1. /\ UNCHANGED storeVars
      /\ \A v \in Workers : worker'[v] = IdleWorker \/ worker'[v] = worker[v]
  BY DEF CrashInstance
<1>2. /\ StoreTypeOK /\ StoreTypeOK' /\ ReaderTypeOK /\ WorkerTypeOK /\ WorkerLocalsOK
      /\ lastId <= lastId' /\ \A i \in SnapshotIds : Kept(i)
  BY <1>1 DEF TypeInv, TypeOK, StoreTypeOK, Kept, storeVars
<1>3. ASSUME NEW v \in Workers PROVE WorkerUpToDate(v)'
  <2>1. CASE worker'[v] = IdleWorker
    BY <2>1 DEF WorkerUpToDate, InFlight, IdleWorker
  <2>2. CASE worker'[v] = worker[v]
    BY <1>2, <1>3, <2>2, WorkerKeptUpToDate DEF DataInv
  <2> QED
    BY <1>1, <2>1, <2>2
<1>4. ASSUME NEW q \in Readers PROVE ReaderUpToDate(q)'
  BY <1>2, <1>4, ReaderKeptUpToDate DEF DataInv
<1> QED
  BY <1>1, <1>3, <1>4, TablesUnchanged DEF DataInv

LEMMA NextData ==
    TypeInv /\ LocksMatchHolders /\ DataInv /\ [Next]_vars => DataInv'
<1> SUFFICES ASSUME TypeInv, LocksMatchHolders, DataInv, [Next]_vars PROVE DataInv'
  OBVIOUS
<1>1. TypeInv' /\ Exclusive
  BY NextTypeInv, LocksExclude
<1>2. CASE RefreshNext /\ UNCHANGED <<worker, reader>>
  BY <1>1, <1>2, RefreshData DEF RefreshNext
<1>3. CASE EmbeddingNext /\ UNCHANGED reader
  BY <1>1, <1>3, WorkerData, CrashInstanceData DEF EmbeddingNext
<1>4. CASE RetrievalNext /\ UNCHANGED <<storeVars, eventVars, locks, refresher, worker, faults>>
  BY <1>1, <1>4, RetrievalData
<1>5. CASE EnvironmentNext /\ UNCHANGED <<refresher, worker, reader>>
  BY <1>1, <1>5, EnvironmentData
<1>6. CASE UNCHANGED vars
  BY <1>1, <1>6, StoreUnchangedData DEF vars, storeVars
<1> QED
  BY <1>2, <1>3, <1>4, <1>5, <1>6 DEF Next

LEMMA DataCorrect == Spec => []DataInv
<1> QED
  BY InitData, NextData, TypeCorrect, LocksCorrect, PTL DEF Spec

\* The job row of a snapshot that is being embedded says so, with the retry count
\* its worker carried over.
THEOREM InFlightVisible == Spec => []InFlightIsVisible
<1>1. DataInv => InFlightIsVisible
  BY DEF DataInv, WorkerUpToDate, InFlightIsVisible
<1> QED
  BY <1>1, DataCorrect, PTL

\* COMPLETED is never seen over missing or partial chunks.
THEOREM CompletedSearchable == Spec => []CompletedIsSearchable
<1>1. DataInv => CompletedIsSearchable
  BY DEF DataInv
<1> QED
  BY <1>1, DataCorrect, PTL

\* The snapshot a chat turn selected keeps all its chunks until they are searched,
\* although no lock is held: nobody but the cascade ever removes one.
THEOREM SelectedSearchable == Spec => []SelectedStaysSearchable
<1>1. DataInv => SelectedStaysSearchable
  BY DEF DataInv, ReaderUpToDate, SelectedStaysSearchable
<1> QED
  BY <1>1, DataCorrect, PTL

-----------------------------------------------------------------------------
\* The baseline of a refresh.

\* What r compares with is the latest hash of its connection.
Current(r) ==
    refresher[r].pc \in {"introspect", "insert"} /\ refresher[r].conn \in connections
        => IsLatestHash(refresher[r].base, refresher[r].conn)

\* A connection whose snapshots a step neither adds to nor changes.
LEMMA LatestHashKept ==
    ASSUME NEW c, NEW h, SnapshotsOf(c)' = SnapshotsOf(c),
           \A i \in SnapshotsOf(c) : snapshots'[i] = snapshots[i],
           IsLatestHash(h, c)
    PROVE  IsLatestHash(h, c)'
BY DEF IsLatestHash, IsLatest

LEMMA CurrentKept ==
    ASSUME NEW r \in Refreshers, Current(r), refresher'[r] = refresher[r],
           connections' \subseteq connections,
           refresher[r].conn \in connections' =>
              /\ SnapshotsOf(refresher[r].conn)' = SnapshotsOf(refresher[r].conn)
              /\ \A i \in SnapshotsOf(refresher[r].conn) : snapshots'[i] = snapshots[i]
    PROVE  Current(r)'
BY LatestHashKept DEF Current

\* The step of anything that neither refreshes nor deletes.
LEMMA CurrentUnchanged ==
    ASSUME BaselineIsCurrent, UNCHANGED <<refresher, snapshots, connections>>
    PROVE  BaselineIsCurrent'
BY DEF BaselineIsCurrent, IsLatestHash, IsLatest, SnapshotsOf, Exists

LEMMA DeleteConnectionBaseline ==
    ASSUME BaselineIsCurrent, NEW c \in Connections, DeleteConnection(c), UNCHANGED refresher
    PROVE  BaselineIsCurrent'
<1> SUFFICES ASSUME NEW r \in Refreshers PROVE Current(r)'
  BY DEF BaselineIsCurrent, Current
<1> DEFINE d == refresher[r].conn
<1>1. Current(r) /\ connections' = connections \ {c}
  BY DEF BaselineIsCurrent, Current, DeleteConnection
<1>2. ASSUME d # c
      PROVE  SnapshotsOf(d)' = SnapshotsOf(d) /\ \A i \in SnapshotsOf(d) : snapshots'[i] = snapshots[i]
  <2>1. \A i \in SnapshotIds :
           snapshots'[i] = IF Exists(i) /\ snapshots[i].conn = c THEN NoSnapshot ELSE snapshots[i]
    BY DEF DeleteConnection, SnapshotsOf
  <2> QED
    BY <1>2, <2>1 DEF SnapshotsOf, Exists
<1> QED
  BY <1>1, <1>2, CurrentKept

LEMMA InsertSnapshotBaseline ==
    ASSUME TypeInv, DataInv, BaselineIsCurrent,
           NEW r \in Refreshers, NEW h \in Hashes, InsertSnapshot(refresher[r].conn, h),
           refresher'[r].pc = "publish", NEW q \in Refreshers, refresher'[q] = refresher[q],
           Exclusive, Refreshing(r), q # r
    PROVE  Current(q)'
<1> DEFINE d == refresher[q].conn
           n == lastId + 1
<1>1. /\ Current(q) /\ UNCHANGED connections /\ lastId \in Nat /\ n \in SnapshotIds
      /\ snapshots' = [snapshots EXCEPT ![n] = [conn |-> refresher[r].conn, hash |-> h]]
      /\ snapshots \in [SnapshotIds -> Snapshot \cup {NoSnapshot}]
      /\ refresher[r].conn \in Connections
  BY StoreAssumption
  DEF BaselineIsCurrent, Current, InsertSnapshot, TypeInv, TypeOK, StoreTypeOK, SnapshotIds,
      RefreshTypeOK, RefreshState
<1>2. ~Exists(n)
  BY <1>1 DEF DataInv, RowsOK
<1>3. CASE Refreshing(q)
  <2>1. d # refresher[r].conn
    BY <1>3 DEF Exclusive
  <2>2. n \notin SnapshotsOf(d) /\ n \notin SnapshotsOf(d)'
    BY <1>1, <1>2, <2>1 DEF SnapshotsOf
  <2>3. \A i \in SnapshotIds : i # n => snapshots'[i] = snapshots[i]
    BY <1>1
  <2>4. SnapshotsOf(d)' = SnapshotsOf(d)
    BY <2>2, <2>3 DEF SnapshotsOf, Exists
  <2>5. \A i \in SnapshotsOf(d) : snapshots'[i] = snapshots[i]
    BY <2>2, <2>3 DEF SnapshotsOf
  <2> QED
    BY <1>1, <2>4, <2>5, CurrentKept
<1>4. CASE ~Refreshing(q)
  BY <1>4 DEF Current, Refreshing
<1> QED
  BY <1>3, <1>4

LEMMA RefreshBaseline ==
    ASSUME TypeInv, DataInv, Exclusive, BaselineIsCurrent, NEW r \in Refreshers,
           \/ \E c \in Connections : StartRefresh(r, c)
           \/ RefreshStep(r)
           \/ FailRefresh(r)
           \/ CrashRefresh(r)
    PROVE  BaselineIsCurrent'
<1>1. /\ refresher \in [Refreshers -> RefreshState] /\ refresher[r] \in RefreshState
      /\ \A q \in Refreshers : Current(q)
  BY DEF TypeInv, TypeOK, RefreshTypeOK, BaselineIsCurrent, Current
<1>2. \A q \in Refreshers : q # r => refresher'[q] = refresher[q]
  BY <1>1 DEF StartRefresh, RefreshStep, AcquireRefreshLock, LoadLatestSnapshot, Introspect,
      StoreNewSnapshot, AnnounceSnapshot, ReleaseRefreshLock, FailRefresh, CrashRefresh,
      Goto, Finish
<1>3. ASSUME UNCHANGED storeVars, Current(r)'
      PROVE  BaselineIsCurrent'
  <2>1. ASSUME NEW q \in Refreshers, q # r PROVE Current(q)'
    <3>1. UNCHANGED <<snapshots, connections>>
      BY <1>3 DEF storeVars
    <3>2. SnapshotsOf(refresher[q].conn)' = SnapshotsOf(refresher[q].conn)
      BY <1>2, <2>1, <3>1 DEF SnapshotsOf, Exists
    <3> QED
      BY <1>1, <1>2, <2>1, <3>1, CurrentKept DEF SnapshotsOf, Exists
  <2> QED
    BY <1>3, <2>1 DEF BaselineIsCurrent, Current
<1>4. ASSUME UNCHANGED storeVars, refresher'[r].pc \notin {"introspect", "insert"}
      PROVE  BaselineIsCurrent'
  BY <1>3, <1>4 DEF Current
<1>5. ASSUME NEW c \in Connections, StartRefresh(r, c)
      PROVE  BaselineIsCurrent'
  BY <1>1, <1>4, <1>5 DEF StartRefresh
<1>6. CASE AcquireRefreshLock(r) \/ AnnounceSnapshot(r) \/ ReleaseRefreshLock(r)
           \/ FailRefresh(r) \/ CrashRefresh(r)
  BY <1>1, <1>4, <1>6
  DEF AcquireRefreshLock, AnnounceSnapshot, ReleaseRefreshLock, FailRefresh, CrashRefresh,
      Goto, Finish, RefreshState
<1>7. CASE LoadLatestSnapshot(r)
  <2>1. UNCHANGED <<storeVars, snapshots, connections>>
    BY <1>7 DEF LoadLatestSnapshot, storeVars
  <2>2. CASE Goto(r, "unlock")
    BY <1>1, <1>4, <2>1, <2>2 DEF Goto, RefreshState
  <2>3. ASSUME NEW h \in Hashes \cup {NoHash}, IsLatestHash(h, refresher[r].conn),
               refresher' = [refresher EXCEPT ![r].pc = "introspect", ![r].base = h]
        PROVE  BaselineIsCurrent'
    <3>1. refresher'[r].base = h /\ refresher'[r].conn = refresher[r].conn
      BY <1>1, <2>3 DEF RefreshState
    <3>2. IsLatestHash(h, refresher[r].conn)'
      BY <2>1, <2>3, <3>1 DEF IsLatestHash, IsLatest, SnapshotsOf, Exists
    <3> QED
      BY <1>3, <2>1, <3>1, <3>2 DEF Current
  <2> QED
    BY <1>7, <2>2, <2>3 DEF LoadLatestSnapshot
<1>8. CASE Introspect(r)
  <2>1. /\ refresher'[r].base = refresher[r].base /\ refresher'[r].conn = refresher[r].conn
        /\ refresher[r].pc = "introspect" /\ UNCHANGED <<storeVars, snapshots, connections>>
    BY <1>1, <1>8 DEF Introspect, RefreshState, storeVars
  <2>2. Current(r)'
    BY <1>1, <2>1 DEF Current, IsLatestHash, IsLatest, SnapshotsOf, Exists
  <2> QED
    BY <1>3, <2>1, <2>2
<1>9. CASE StoreNewSnapshot(r)
  <2>1. CASE Goto(r, "unlock") /\ UNCHANGED storeVars
    BY <1>1, <1>4, <2>1 DEF Goto, RefreshState
  <2>2. CASE InsertSnapshot(refresher[r].conn, refresher[r].hash)
             /\ refresher' = [refresher EXCEPT ![r].pc = "publish", ![r].id = lastId + 1]
    <3>1. refresher'[r].pc = "publish" /\ Refreshing(r) /\ refresher[r].hash \in Hashes
      BY <1>1, <1>9, <2>2
      DEF StoreNewSnapshot, Refreshing, RefreshState, TypeInv, RefreshLocalsOK
    <3>2. \A q \in Refreshers : q # r => Current(q)'
      BY <1>2, <2>2, <3>1, InsertSnapshotBaseline
    <3> QED
      BY <3>1, <3>2 DEF BaselineIsCurrent, Current
  <2> QED
    BY <1>9, <2>1, <2>2 DEF StoreNewSnapshot
<1> QED
  BY <1>5, <1>6, <1>7, <1>8, <1>9 DEF RefreshStep

LEMMA WorkerKeepsSnapshots ==
    ASSUME NEW w \in Workers, WorkerStep(w) \/ FailWorker(w) \/ FailReport(w)
    PROVE  UNCHANGED <<refresher, snapshots, connections, lastId>>
BY DEF WorkerStep, FailWorker, FailReport, TakeEvent, FindSnapshot, AcquireEmbedLock, LoadJob,
       MarkProcessing, EmbedChunks, StoreChunks, MarkCompleted, MarkFailed, ReleaseEmbedLock,
       UpsertEmbeddingJob, ReplaceChunks, storeVars

LEMMA NextBaseline ==
    TypeInv /\ LocksMatchHolders /\ DataInv /\ BaselineIsCurrent /\ [Next]_vars
        => BaselineIsCurrent'
<1> SUFFICES ASSUME TypeInv, LocksMatchHolders, DataInv, BaselineIsCurrent, [Next]_vars
             PROVE  BaselineIsCurrent'
  OBVIOUS
<1>1. CASE RefreshNext /\ UNCHANGED <<worker, reader>>
  BY <1>1, LocksExclude, RefreshBaseline DEF RefreshNext
<1>2. CASE EmbeddingNext /\ UNCHANGED reader
  BY <1>2, WorkerKeepsSnapshots, CurrentUnchanged DEF EmbeddingNext, CrashInstance, storeVars
<1>3. CASE RetrievalNext /\ UNCHANGED <<storeVars, eventVars, locks, refresher, worker, faults>>
  BY <1>3, CurrentUnchanged DEF storeVars
<1>4. CASE EnvironmentNext /\ UNCHANGED <<refresher, worker, reader>>
  BY <1>4, CurrentUnchanged, DeleteConnectionBaseline
  DEF EnvironmentNext, AdminDeletesConnection, RemoteSchemaChanges, AlterRemoteSchema,
      ListenerDisconnects, ListenerReconnects, storeVars
<1>5. CASE UNCHANGED vars
  BY <1>5, CurrentUnchanged DEF vars, storeVars
<1> QED
  BY <1>1, <1>2, <1>3, <1>4, <1>5 DEF Next

\* The hash a refresh compares with stays the latest one until it has inserted,
\* because no other refresh of the connection is between its Lock and its Unlock.
THEOREM BaselineCorrect == Spec => []BaselineIsCurrent
<1>1. Init => BaselineIsCurrent
  BY DEF Init, RefreshInit, BaselineIsCurrent
<1> QED
  BY <1>1, NextBaseline, TypeCorrect, LocksCorrect, DataCorrect, PTL DEF Spec

-----------------------------------------------------------------------------
\* The pipeline implements EmbeddingJob: what each storage operation is there.

LEMMA InsertIsRegister ==
    ASSUME TypeInv, DataInv, NEW c \in Connections, NEW h \in Hashes, InsertSnapshot(c, h)
    PROVE  Jobs!Next
<1> DEFINE n == lastId + 1
           row == [conn |-> c, hash |-> h]
<1>1. /\ n \in SnapshotIds /\ snapshots' = [snapshots EXCEPT ![n] = row]
      /\ snapshots \in [SnapshotIds -> Snapshot \cup {NoSnapshot}]
      /\ UNCHANGED <<jobs, chunks>> /\ ChunksOf[h] \in SUBSET Parts
      /\ \A i \in SnapshotIds : i <= lastId => i # n
  BY StoreAssumption DEF TypeInv, TypeOK, StoreTypeOK, InsertSnapshot, SnapshotIds
<1>2. ~Exists(n) /\ jobs[n].status = "ABSENT"
  BY <1>1 DEF DataInv, RowsOK, NoJob
<1>3. row # NoSnapshot
  BY NoSnapshotAssumption DEF Snapshot
<1>4. \A i \in SnapshotIds :
         /\ Exists(i)' <=> Exists(i) \/ i = n
         /\ Content(i)' = IF i = n THEN ChunksOf[h] ELSE Content(i)
  BY <1>1, <1>2, <1>3 DEF Exists, Content
<1>5. {i \in SnapshotIds : Exists(i)}' = {i \in SnapshotIds : Exists(i)} \cup {n}
  BY <1>1, <1>4
<1>6. [i \in SnapshotIds |-> Content(i)]'
         = [[i \in SnapshotIds |-> Content(i)] EXCEPT ![n] = ChunksOf[h]]
  BY <1>1, <1>4
<1> QED
  BY <1>1, <1>2, <1>5, <1>6 DEF Jobs!Next, Jobs!Register

\* A step that inserts and deletes no snapshot.
LEMMA SnapshotsKept ==
    ASSUME UNCHANGED snapshots
    PROVE  /\ UNCHANGED {i \in SnapshotIds : Exists(i)}
           /\ UNCHANGED [i \in SnapshotIds |-> Content(i)]
BY DEF Exists, Content

LEMMA MarkIsBegin ==
    ASSUME TypeInv, DataInv, NEW w \in Workers, worker[w].pc = "mark",
           UpsertEmbeddingJob(worker[w].id, "PROCESSING", worker[w].retry)
    PROVE  Jobs!Next
<1> DEFINE i == worker[w].id
<1>1. i \in SnapshotIds /\ WorkerUpToDate(w)
  BY DEF TypeInv, WorkerLocalsOK, DataInv
<1>2. /\ Exists(i) /\ jobs \in [SnapshotIds -> Job]
      /\ jobs' = [jobs EXCEPT ![i] = [status |-> "PROCESSING", retry |-> worker[w].retry]]
      /\ UNCHANGED <<snapshots, chunks>>
  BY DEF UpsertEmbeddingJob, TypeInv, TypeOK, StoreTypeOK
<1>3. jobs[i].retry = worker[w].retry
  BY <1>1, <1>2 DEF WorkerUpToDate
<1>4. [j \in SnapshotIds |-> jobs[j].retry]' = [j \in SnapshotIds |-> jobs[j].retry]
  BY <1>1, <1>2, <1>3
<1>5. [j \in SnapshotIds |-> jobs[j].status]'
         = [[j \in SnapshotIds |-> jobs[j].status] EXCEPT ![i] = "PROCESSING"]
  BY <1>1, <1>2
<1> QED
  BY <1>1, <1>2, <1>4, <1>5, SnapshotsKept DEF Jobs!Next, Jobs!Begin

LEMMA StoreIsStore ==
    ASSUME TypeInv, DataInv, NEW w \in Workers, worker[w].pc = "replace",
           Exists(worker[w].id),
           ReplaceChunks(worker[w].id, ChunksOf[worker[w].snap.hash])
    PROVE  Jobs!Next
<1> DEFINE i == worker[w].id
<1>1. i \in SnapshotIds /\ WorkerUpToDate(w) /\ InFlight(w)
  BY DEF TypeInv, WorkerLocalsOK, DataInv, InFlight
<1>2. jobs[i].status = "PROCESSING" /\ snapshots[i] = worker[w].snap
  BY <1>1 DEF WorkerUpToDate
<1>3. /\ chunks' = [chunks EXCEPT ![i] = Content(i)]
      /\ UNCHANGED <<snapshots, jobs>>
  BY <1>2 DEF Content, ReplaceChunks
<1> QED
  BY <1>1, <1>2, <1>3, SnapshotsKept DEF Jobs!Next, Jobs!Store

LEMMA CompletedIsComplete ==
    ASSUME TypeInv, DataInv, NEW w \in Workers, worker[w].pc = "complete",
           UpsertEmbeddingJob(worker[w].id, "COMPLETED", worker[w].retry)
    PROVE  Jobs!Next
<1> DEFINE i == worker[w].id
<1>1. i \in SnapshotIds /\ WorkerUpToDate(w) /\ InFlight(w)
  BY DEF TypeInv, WorkerLocalsOK, DataInv, InFlight
<1>2. /\ Exists(i) /\ jobs \in [SnapshotIds -> Job]
      /\ jobs' = [jobs EXCEPT ![i] = [status |-> "COMPLETED", retry |-> worker[w].retry]]
      /\ UNCHANGED <<snapshots, chunks>>
  BY DEF UpsertEmbeddingJob, TypeInv, TypeOK, StoreTypeOK
<1>3. /\ jobs[i].retry = worker[w].retry /\ jobs[i].status = "PROCESSING"
      /\ chunks[i] = Content(i)
  BY <1>1, <1>2 DEF WorkerUpToDate
<1>4. [j \in SnapshotIds |-> jobs[j].retry]' = [j \in SnapshotIds |-> jobs[j].retry]
  BY <1>1, <1>2, <1>3
<1>5. [j \in SnapshotIds |-> jobs[j].status]'
         = [[j \in SnapshotIds |-> jobs[j].status] EXCEPT ![i] = "COMPLETED"]
  BY <1>1, <1>2
<1> QED
  BY <1>1, <1>2, <1>3, <1>4, <1>5, SnapshotsKept DEF Jobs!Next, Jobs!Complete

LEMMA FailedIsFail ==
    ASSUME TypeInv, DataInv, NEW w \in Workers, worker[w].pc = "fail",
           UpsertEmbeddingJob(worker[w].id, "FAILED", worker[w].retry + 1)
    PROVE  Jobs!Next
<1> DEFINE i == worker[w].id
<1>1. i \in SnapshotIds /\ WorkerUpToDate(w) /\ InFlight(w)
  BY DEF TypeInv, WorkerLocalsOK, DataInv, InFlight
<1>2. /\ Exists(i) /\ jobs \in [SnapshotIds -> Job]
      /\ jobs' = [jobs EXCEPT ![i] = [status |-> "FAILED", retry |-> worker[w].retry + 1]]
      /\ UNCHANGED <<snapshots, chunks>>
  BY DEF UpsertEmbeddingJob, TypeInv, TypeOK, StoreTypeOK
<1>3. jobs[i].retry = worker[w].retry /\ jobs[i].status = "PROCESSING"
  BY <1>1, <1>2 DEF WorkerUpToDate
<1>4. [j \in SnapshotIds |-> jobs[j].retry]'
         = [[j \in SnapshotIds |-> jobs[j].retry] EXCEPT ![i] = @ + 1]
  BY <1>1, <1>2, <1>3
<1>5. [j \in SnapshotIds |-> jobs[j].status]'
         = [[j \in SnapshotIds |-> jobs[j].status] EXCEPT ![i] = "FAILED"]
  BY <1>1, <1>2
<1> QED
  BY <1>1, <1>2, <1>3, <1>4, <1>5, SnapshotsKept DEF Jobs!Next, Jobs!Fail

LEMMA DeleteIsErase ==
    ASSUME TypeInv, NEW c \in Connections, DeleteConnection(c)
    PROVE  Jobs!Next
<1>1. /\ \A i \in SnapshotIds : Exists(i)' <=> Exists(i) /\ i \notin SnapshotsOf(c)
      /\ \A i \in SnapshotIds : Content(i)' = IF i \in SnapshotsOf(c) THEN {} ELSE Content(i)
  <2>1. \A i \in SnapshotIds :
           snapshots'[i] = IF i \in SnapshotsOf(c) THEN NoSnapshot ELSE snapshots[i]
    BY DEF DeleteConnection
  <2> QED
    BY <2>1 DEF Exists, Content
<1>2. \A i \in SnapshotIds : /\ jobs'[i] = IF i \in SnapshotsOf(c) THEN NoJob ELSE jobs[i]
                             /\ chunks'[i] = IF i \in SnapshotsOf(c) THEN {} ELSE chunks[i]
  BY DEF DeleteConnection
<1>3. SnapshotsOf(c) \subseteq {i \in SnapshotIds : Exists(i)}
  BY DEF SnapshotsOf
<1>4. {i \in SnapshotIds : Exists(i)}' = {i \in SnapshotIds : Exists(i)} \ SnapshotsOf(c)
  BY <1>1
<1>5. [i \in SnapshotIds |-> Content(i)]'
         = [i \in SnapshotIds |->
               IF i \in SnapshotsOf(c) THEN {} ELSE [j \in SnapshotIds |-> Content(j)][i]]
  BY <1>1
<1>6. chunks' = [i \in SnapshotIds |-> IF i \in SnapshotsOf(c) THEN {} ELSE chunks[i]]
  BY DEF DeleteConnection
<1>7. [i \in SnapshotIds |-> jobs[i].status]'
         = [i \in SnapshotIds |->
               IF i \in SnapshotsOf(c) THEN "ABSENT" ELSE [j \in SnapshotIds |-> jobs[j].status][i]]
  BY <1>2 DEF NoJob
<1>8. [i \in SnapshotIds |-> jobs[i].retry]'
         = [i \in SnapshotIds |->
               IF i \in SnapshotsOf(c) THEN 0 ELSE [j \in SnapshotIds |-> jobs[j].retry][i]]
  BY <1>2 DEF NoJob
<1> QED
  BY <1>3, <1>4, <1>5, <1>6, <1>7, <1>8 DEF Jobs!Next, Jobs!Erase

LEMMA MappedUnchanged ==
    ASSUME UNCHANGED <<snapshots, jobs, chunks>>
    PROVE  UNCHANGED Jobs!vars
BY SnapshotsKept DEF Jobs!vars

LEMMA WorkerImplements ==
    ASSUME TypeInv, DataInv, NEW w \in Workers, WorkerStep(w) \/ FailWorker(w) \/ FailReport(w)
    PROVE  [Jobs!Next]_Jobs!vars
<1> DEFINE i == worker[w].id
<1>1. ASSUME UNCHANGED storeVars PROVE UNCHANGED Jobs!vars
  BY <1>1, MappedUnchanged DEF storeVars
<1>2. CASE MarkProcessing(w)
  <2>1. CASE UpsertEmbeddingJob(i, "PROCESSING", worker[w].retry)
    BY <1>2, <2>1, MarkIsBegin DEF MarkProcessing
  <2> QED
    BY <1>1, <1>2, <2>1 DEF MarkProcessing
<1>3. CASE StoreChunks(w)
  <2>1. CASE ReplaceChunks(i, ChunksOf[worker[w].snap.hash]) /\ Exists(i)
    BY <1>3, <2>1, StoreIsStore DEF StoreChunks
  <2>2. CASE ReplaceChunks(i, ChunksOf[worker[w].snap.hash]) /\ ~Exists(i)
    <3>1. chunks[i] = {} /\ i \in SnapshotIds /\ chunks \in [SnapshotIds -> SUBSET Parts]
      BY <1>3, <2>2
      DEF StoreChunks, DataInv, RowsOK, TypeInv, TypeOK, StoreTypeOK, WorkerLocalsOK
    <3>2. UNCHANGED <<snapshots, jobs, chunks>>
      BY <2>2, <3>1 DEF ReplaceChunks
    <3> QED
      BY <3>2, MappedUnchanged
  <2> QED
    BY <1>1, <1>3, <2>1, <2>2 DEF StoreChunks
<1>4. CASE MarkCompleted(w)
  <2>1. CASE UpsertEmbeddingJob(i, "COMPLETED", worker[w].retry)
    BY <1>4, <2>1, CompletedIsComplete DEF MarkCompleted
  <2> QED
    BY <1>1, <1>4, <2>1 DEF MarkCompleted
<1>5. CASE MarkFailed(w)
  <2>1. CASE UpsertEmbeddingJob(i, "FAILED", worker[w].retry + 1)
    BY <1>5, <2>1, FailedIsFail DEF MarkFailed
  <2> QED
    BY <1>1, <1>5, <2>1 DEF MarkFailed
<1>6. CASE UNCHANGED storeVars
  BY <1>1, <1>6
<1> QED
  BY <1>2, <1>3, <1>4, <1>5, <1>6
  DEF WorkerStep, FailWorker, FailReport, TakeEvent, FindSnapshot, AcquireEmbedLock, LoadJob,
      EmbedChunks, ReleaseEmbedLock

LEMMA RefreshImplements ==
    ASSUME TypeInv, DataInv, NEW r \in Refreshers,
           \/ \E c \in Connections : StartRefresh(r, c)
           \/ RefreshStep(r)
           \/ FailRefresh(r)
           \/ CrashRefresh(r)
    PROVE  [Jobs!Next]_Jobs!vars
<1>1. ASSUME UNCHANGED storeVars PROVE UNCHANGED Jobs!vars
  BY <1>1, MappedUnchanged DEF storeVars
<1>2. CASE StoreNewSnapshot(r)
  <2>1. CASE InsertSnapshot(refresher[r].conn, refresher[r].hash)
    <3>1. refresher[r].conn \in Connections /\ refresher[r].hash \in Hashes
      BY <1>2
      DEF StoreNewSnapshot, TypeInv, TypeOK, RefreshTypeOK, RefreshState, RefreshLocalsOK
    <3> QED
      BY <2>1, <3>1, InsertIsRegister
  <2> QED
    BY <1>1, <1>2, <2>1 DEF StoreNewSnapshot
<1>3. CASE UNCHANGED storeVars
  BY <1>1, <1>3
<1> QED
  BY <1>2, <1>3
  DEF StartRefresh, RefreshStep, AcquireRefreshLock, LoadLatestSnapshot, Introspect,
      AnnounceSnapshot, ReleaseRefreshLock, FailRefresh, CrashRefresh

LEMMA NextImplements == TypeInv /\ DataInv /\ [Next]_vars => [Jobs!Next]_Jobs!vars
<1> SUFFICES ASSUME TypeInv, DataInv, [Next]_vars PROVE [Jobs!Next]_Jobs!vars
  OBVIOUS
<1>1. ASSUME UNCHANGED <<snapshots, jobs, chunks>> PROVE UNCHANGED Jobs!vars
  BY <1>1, MappedUnchanged
<1>2. CASE RefreshNext
  BY <1>2, RefreshImplements DEF RefreshNext
<1>3. CASE EmbeddingNext
  BY <1>1, <1>3, WorkerImplements DEF EmbeddingNext, CrashInstance, storeVars
<1>4. CASE RetrievalNext /\ UNCHANGED <<storeVars, eventVars, locks, refresher, worker, faults>>
  BY <1>1, <1>4 DEF storeVars
<1>5. CASE EnvironmentNext
  BY <1>1, <1>5, DeleteIsErase
  DEF EnvironmentNext, AdminDeletesConnection, RemoteSchemaChanges, AlterRemoteSchema,
      ListenerDisconnects, ListenerReconnects, storeVars
<1>6. CASE UNCHANGED vars
  BY <1>1, <1>6 DEF vars, storeVars
<1> QED
  BY <1>2, <1>3, <1>4, <1>5, <1>6 DEF Next

LEMMA InitImplements == Init => Jobs!Init
<1> SUFFICES ASSUME Init PROVE Jobs!Init
  OBVIOUS
<1>1. \A i \in SnapshotIds : ~Exists(i) /\ Content(i) = {} /\ jobs[i] = NoJob
  BY DEF Init, StoreInit, Exists, Content
<1>2. chunks = [i \in SnapshotIds |-> {}]
  BY DEF Init, StoreInit
<1> QED
  BY <1>1, <1>2 DEF Jobs!Init, NoJob

\* Refreshes, workers, their locks, retries and crashes implement the job
\* lifecycle: whatever the interleaving, a step of the pipeline changes the
\* tables as one step of that lifecycle or not at all.
THEOREM PipelineImplementsJobs == Spec => ImplementsEmbeddingJob
<1> QED
  BY InitImplements, NextImplements, TypeCorrect, DataCorrect, PTL
  DEF Spec, ImplementsEmbeddingJob, Jobs!Spec

-----------------------------------------------------------------------------
\* Somebody works on every PROCESSING job, as long as nobody dies and the FAILED
\* row of a failure is written.

LEMMA AbortKeepsInFlight ==
    ASSUME WorkerTypeOK, NEW w \in Workers, worker[w].pc \in {"embed", "replace", "complete"},
           Abort(w)
    PROVE  worker'[w].id = worker[w].id /\ InFlight(w)'
<1>1. worker' = [worker EXCEPT ![w].pc = "fail"]
  BY DEF Abort, WorkerGoto
<1> QED
  BY <1>1 DEF WorkerTypeOK, WorkerState, InFlight

LEMMA WorkerProcessing ==
    ASSUME TypeInv, DataInv, NEW w \in Workers, WorkerStep(w) \/ FailWorker(w),
           ProcessingHasWorker
    PROVE  ProcessingHasWorker'
<1> DEFINE i == worker[w].id
<1>1. /\ worker \in [Workers -> WorkerState] /\ worker[w] \in WorkerState /\ WorkerTypeOK
      /\ worker[w].pc # "idle" => i \in SnapshotIds
      /\ jobs \in [SnapshotIds -> Job]
      /\ i \in SnapshotIds /\ ~Exists(i) => jobs[i] = NoJob
  BY DEF TypeInv, TypeOK, StoreTypeOK, WorkerTypeOK, WorkerLocalsOK, DataInv, RowsOK
<1>2. \A v \in Workers : v # w => worker'[v] = worker[v]
  BY <1>1, OtherWorkersKept
<1>3. ASSUME \A j \in SnapshotIds : j # i /\ jobs'[j].status = "PROCESSING" => jobs[j].status = "PROCESSING",
             \/ InFlight(w)' /\ worker'[w].id = i
             \/ ~InFlight(w) /\ jobs' = jobs
             \/ i \in SnapshotIds /\ jobs'[i].status # "PROCESSING"
      PROVE  ProcessingHasWorker'
  <2> SUFFICES ASSUME NEW j \in SnapshotIds, jobs'[j].status = "PROCESSING"
               PROVE  \E v \in Workers : worker'[v].id = j /\ InFlight(v)'
    BY DEF ProcessingHasWorker
  <2>1. CASE j = i /\ InFlight(w)' /\ worker'[w].id = i
    BY <2>1
  <2>2. CASE jobs[j].status = "PROCESSING" /\ (j # i \/ ~InFlight(w))
    <3>1. PICK v \in Workers : worker[v].id = j /\ InFlight(v)
      BY <2>2 DEF ProcessingHasWorker
    <3>2. v # w
      BY <2>2, <3>1
    <3> QED
      BY <1>2, <3>1, <3>2 DEF InFlight
  <2> QED
    BY <1>3, <2>1, <2>2
<1>4. CASE UNCHANGED storeVars /\ worker[w].pc \notin {"embed", "replace", "complete", "fail"}
  BY <1>3, <1>4 DEF storeVars, InFlight
<1>5. CASE UNCHANGED storeVars /\ Abort(w) /\ worker[w].pc \in {"embed", "replace", "complete"}
  BY <1>1, <1>3, <1>5, AbortKeepsInFlight DEF storeVars
<1>6. CASE MarkProcessing(w)
  <2>1. CASE UpsertEmbeddingJob(i, "PROCESSING", worker[w].retry) /\ WorkerGoto(w, "embed")
    <3>1. InFlight(w)' /\ worker'[w].id = i
      BY <1>1, <2>1 DEF WorkerGoto, InFlight, WorkerState
    <3>2. \A j \in SnapshotIds : j # i => jobs'[j] = jobs[j]
      BY <1>1, <2>1 DEF UpsertEmbeddingJob
    <3> QED
      BY <1>3, <3>1, <3>2
  <2> QED
    BY <1>4, <1>6, <2>1 DEF MarkProcessing
<1>7. CASE EmbedChunks(w)
  <2>1. InFlight(w)' /\ worker'[w].id = i /\ jobs' = jobs
    BY <1>1, <1>7 DEF EmbedChunks, WorkerGoto, InFlight, WorkerState, storeVars
  <2> QED
    BY <1>3, <2>1
<1>8. CASE StoreChunks(w)
  <2>1. CASE WorkerGoto(w, "complete")
             /\ ReplaceChunks(i, ChunksOf[worker[w].snap.hash])
    <3>1. InFlight(w)' /\ worker'[w].id = i /\ jobs' = jobs
      BY <1>1, <2>1 DEF ReplaceChunks, WorkerGoto, InFlight, WorkerState
    <3> QED
      BY <1>3, <3>1
  <2> QED
    BY <1>5, <1>8, <2>1 DEF StoreChunks
<1>9. CASE MarkCompleted(w)
  <2>1. CASE UpsertEmbeddingJob(i, "COMPLETED", worker[w].retry)
    <3>1. i \in SnapshotIds
      BY <1>1, <1>9 DEF MarkCompleted
    <3>2. jobs'[i].status = "COMPLETED" /\ \A j \in SnapshotIds : j # i => jobs'[j] = jobs[j]
      BY <1>1, <2>1, <3>1 DEF UpsertEmbeddingJob
    <3> QED
      BY <1>3, <3>1, <3>2
  <2> QED
    BY <1>5, <1>9, <2>1 DEF MarkCompleted
<1>10. CASE MarkFailed(w)
  <2>1. i \in SnapshotIds
    BY <1>1, <1>10 DEF MarkFailed
  <2>2. CASE UpsertEmbeddingJob(i, "FAILED", worker[w].retry + 1)
    <3>1. jobs'[i].status = "FAILED" /\ \A j \in SnapshotIds : j # i => jobs'[j] = jobs[j]
      BY <1>1, <2>1, <2>2 DEF UpsertEmbeddingJob
    <3> QED
      BY <1>3, <2>1, <3>1
  <2>3. CASE ~Exists(i) /\ UNCHANGED storeVars
    <3>1. jobs' = jobs /\ jobs[i].status # "PROCESSING"
      BY <1>1, <2>1, <2>3 DEF NoJob, storeVars
    <3> QED
      BY <1>3, <2>1, <3>1
  <2> QED
    BY <1>10, <2>2, <2>3 DEF MarkFailed
<1>11. CASE FailWorker(w)
  BY <1>4, <1>5, <1>11 DEF FailWorker
<1>12. CASE TakeEvent(w) \/ FindSnapshot(w) \/ AcquireEmbedLock(w) \/ LoadJob(w) \/ ReleaseEmbedLock(w)
  BY <1>4, <1>12 DEF TakeEvent, FindSnapshot, AcquireEmbedLock, LoadJob, ReleaseEmbedLock
<1> QED
  BY <1>6, <1>7, <1>8, <1>9, <1>10, <1>11, <1>12 DEF WorkerStep

LEMMA NextProcessing ==
    ASSUME FaultKinds \cap {"crash", "report"} = {}
    PROVE  TypeInv /\ DataInv /\ ProcessingHasWorker /\ [Next]_vars => ProcessingHasWorker'
<1> SUFFICES ASSUME TypeInv, DataInv, ProcessingHasWorker, [Next]_vars
             PROVE  ProcessingHasWorker'
  OBVIOUS
<1>1. ASSUME UNCHANGED worker,
             \A i \in SnapshotIds : jobs'[i] \in {jobs[i], NoJob}
      PROVE  ProcessingHasWorker'
  BY <1>1 DEF ProcessingHasWorker, InFlight, NoJob
<1>2. CASE RefreshNext /\ UNCHANGED <<worker, reader>>
  BY <1>1, <1>2
  DEF RefreshNext, StartRefresh, RefreshStep, AcquireRefreshLock, LoadLatestSnapshot, Introspect,
      StoreNewSnapshot, AnnounceSnapshot, ReleaseRefreshLock, FailRefresh, CrashRefresh,
      InsertSnapshot, storeVars
<1>3. CASE EmbeddingNext /\ UNCHANGED reader
  BY <1>3, WorkerProcessing DEF EmbeddingNext, FailReport, CrashInstance, Fault
<1>4. CASE RetrievalNext /\ UNCHANGED <<storeVars, eventVars, locks, refresher, worker, faults>>
  BY <1>1, <1>4 DEF storeVars
<1>5. CASE EnvironmentNext /\ UNCHANGED <<refresher, worker, reader>>
  BY <1>1, <1>5
  DEF EnvironmentNext, AdminDeletesConnection, DeleteConnection, RemoteSchemaChanges,
      AlterRemoteSchema, ListenerDisconnects, ListenerReconnects, storeVars
<1>6. CASE UNCHANGED vars
  BY <1>1, <1>6 DEF vars, storeVars
<1> QED
  BY <1>2, <1>3, <1>4, <1>5, <1>6 DEF Next

\* The deferred FAILED row of every path after PROCESSING leaves no job behind
\* that nobody works on; only the death of a process or the loss of that very
\* write can.
THEOREM ProcessingWorkedOn ==
    ASSUME FaultKinds \cap {"crash", "report"} = {}
    PROVE  Spec => []ProcessingHasWorker
<1>1. Init => ProcessingHasWorker
  BY DEF Init, StoreInit, ProcessingHasWorker, NoJob
<1>2. TypeInv /\ DataInv /\ ProcessingHasWorker /\ [Next]_vars => ProcessingHasWorker'
  BY NextProcessing
<1> QED
  BY <1>1, <1>2, TypeCorrect, DataCorrect, PTL DEF Spec
====
