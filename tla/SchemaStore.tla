---- MODULE SchemaStore ----
(***************************************************************************)
(* The tables of the schemas service (services/schemas/internal/storage/db *)
(* and db/migrations) with one operator per storage operation, and the     *)
(* database being introspected, which changes on its own.                  *)
(*                                                                         *)
(* Every storage operation is one statement or one transaction of Postgres *)
(* and is therefore one atomic step here; foreign keys and unique indexes  *)
(* appear as the guards of the operations they can make fail.              *)
(***************************************************************************)
EXTENDS Naturals

CONSTANTS
    Connections,    \* ids of configured database connections
    Hashes,         \* schema contents, identified by their SHA-256
    NoHash,         \* SchemaHash of the zero Snapshot value ("")
    Parts,          \* chunks a schema content can be rendered into
    ChunksOf,       \* ChunksOf[h]: the chunks of content h; {} for a schema
                    \* without tables or views
    MaxSnapshots,   \* bound: snapshots inserted in a behaviour
    NoSnapshot      \* absence of a schema_snapshots row

ASSUME StoreAssumption ==
    /\ NoHash \notin Hashes
    /\ ChunksOf \in [Hashes -> SUBSET Parts]
    /\ MaxSnapshots \in Nat

SnapshotIds == 1 .. MaxSnapshots

\* A schema_snapshots row; the JSON content is determined by its hash.
Snapshot == [conn : Connections, hash : Hashes]

ASSUME NoSnapshotAssumption == NoSnapshot \notin Snapshot

\* A schema_embedding_jobs row; ABSENT stands for no row.
JobStatus == {"ABSENT", "PROCESSING", "COMPLETED", "FAILED"}
Job == [status : JobStatus, retry : Nat]
NoJob == [status |-> "ABSENT", retry |-> 0]

VARIABLES
    remote,         \* remote[c]: current schema of the user's database behind c
    connections,    \* existing rows of connections
    snapshots,      \* snapshots[i]: row of schema_snapshots with id i
    lastId,         \* last value of the schema_snapshots id sequence
    jobs,           \* jobs[i]: schema_embedding_jobs row of snapshot i
    chunks          \* chunks[i]: schema_chunks rows of snapshot i

storeVars == <<remote, connections, snapshots, lastId, jobs, chunks>>

StoreTypeOK ==
    /\ remote \in [Connections -> Hashes]
    /\ connections \in SUBSET Connections
    /\ snapshots \in [SnapshotIds -> Snapshot \cup {NoSnapshot}]
    /\ lastId \in 0 .. MaxSnapshots
    /\ jobs \in [SnapshotIds -> Job]
    /\ chunks \in [SnapshotIds -> SUBSET Parts]

StoreInit ==
    /\ remote \in [Connections -> Hashes]
    /\ connections = Connections
    /\ snapshots = [i \in SnapshotIds |-> NoSnapshot]
    /\ lastId = 0
    /\ jobs = [i \in SnapshotIds |-> NoJob]
    /\ chunks = [i \in SnapshotIds |-> {}]

-----------------------------------------------------------------------------
\* Queries.

Exists(i) == snapshots[i] # NoSnapshot

SnapshotsOf(c) == {i \in SnapshotIds : Exists(i) /\ snapshots[i].conn = c}

\* The chunk rows a complete embedding of snapshot i consists of.
Content(i) == IF Exists(i) THEN ChunksOf[snapshots[i].hash] ELSE {}

\* ORDER BY id DESC LIMIT 1 over a set of snapshot ids.
IsLatest(i, ids) == i \in ids /\ \A j \in ids : j <= i

\* The hash RefreshSchemaSnapshot compares with: that of the newest snapshot
\* of c, or that of the zero value when c has none.
IsLatestHash(h, c) ==
    \/ SnapshotsOf(c) = {} /\ h = NoHash
    \/ \E i \in SnapshotsOf(c) : IsLatest(i, SnapshotsOf(c)) /\ h = snapshots[i].hash

\* Inserting (c, h) satisfies the foreign key to connections and
\* UNIQUE (connection_id, schema_hash).
Insertable(c, h) ==
    /\ c \in connections
    /\ \A i \in SnapshotsOf(c) : snapshots[i].hash # h

-----------------------------------------------------------------------------
\* Storage operations.

InsertSnapshot(c, h) ==
    /\ Insertable(c, h)
    /\ lastId < MaxSnapshots
    /\ lastId' = lastId + 1
    /\ snapshots' = [snapshots EXCEPT ![lastId + 1] = [conn |-> c, hash |-> h]]
    /\ UNCHANGED <<remote, connections, jobs, chunks>>

\* INSERT ... ON CONFLICT (snapshot_id) DO UPDATE; the foreign key requires
\* the snapshot row.
UpsertEmbeddingJob(i, status, retry) ==
    /\ Exists(i)
    /\ jobs' = [jobs EXCEPT ![i] = [status |-> status, retry |-> retry]]
    /\ UNCHANGED <<remote, connections, snapshots, lastId, chunks>>

\* Delete every chunk of the snapshot and insert the new ones, in one
\* transaction. The foreign key is checked by the inserts, so replacing by no
\* chunk at all succeeds for a snapshot that is gone.
ReplaceChunks(i, rows) ==
    /\ Exists(i) \/ rows = {}
    /\ chunks' = [chunks EXCEPT ![i] = rows]
    /\ UNCHANGED <<remote, connections, snapshots, lastId, jobs>>

\* DELETE FROM connections: ON DELETE CASCADE removes its snapshots and, with
\* them, their jobs and chunks.
DeleteConnection(c) ==
    /\ c \in connections
    /\ connections' = connections \ {c}
    /\ snapshots' = [i \in SnapshotIds |->
                        IF i \in SnapshotsOf(c) THEN NoSnapshot ELSE snapshots[i]]
    /\ jobs' = [i \in SnapshotIds |-> IF i \in SnapshotsOf(c) THEN NoJob ELSE jobs[i]]
    /\ chunks' = [i \in SnapshotIds |-> IF i \in SnapshotsOf(c) THEN {} ELSE chunks[i]]
    /\ UNCHANGED <<remote, lastId>>

\* The owner of the database changes its schema.
AlterRemoteSchema(c) ==
    /\ \E h \in Hashes \ {remote[c]} : remote' = [remote EXCEPT ![c] = h]
    /\ UNCHANGED <<connections, snapshots, lastId, jobs, chunks>>
====
