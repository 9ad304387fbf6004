---- MODULE SchemaRetrieval ----
(***************************************************************************)
(* Service.RetrieveRelevantSchemaContext, called by every chat turn: find  *)
(* the newest snapshot whose embedding job is COMPLETED, then search its   *)
(* chunks.  Each query is a statement of its own.                          *)
(***************************************************************************)
EXTENDS SnapshotEmbedding

CONSTANT Readers    \* goroutines serving chat turns

VARIABLE reader     \* local state of each retrieval

\* scan: snapshots listed and not yet looked at; id: the selected snapshot.
ReaderState == [pc   : {"idle", "scan", "search"},
                scan : SUBSET SnapshotIds,
                id   : SnapshotIds \cup {0}]

ReaderTypeOK == reader \in [Readers -> ReaderState]

IdleReader == [pc |-> "idle", scan |-> {}, id |-> 0]

ReaderInit == reader = [q \in Readers |-> IdleReader]

-----------------------------------------------------------------------------

\* ListSnapshots of the connection, newest first (its default limit of 50 is
\* above MaxSnapshots); none at all is ErrSnapshotNotFound.
ListForRetrieval(q, c) ==
    /\ reader[q].pc = "idle"
    /\ SnapshotsOf(c) # {}
    /\ reader' = [reader EXCEPT ![q].pc = "scan", ![q].scan = SnapshotsOf(c)]

\* GetEmbeddingJob of the newest snapshot not yet looked at; running out of
\* snapshots is ErrEmbeddedSnapshotNotReady.
CheckJob(q) ==
    /\ reader[q].pc = "scan"
    /\ \E i \in reader[q].scan :
          /\ IsLatest(i, reader[q].scan)
          /\ \/ /\ jobs[i].status = "COMPLETED"
                /\ reader' = [reader EXCEPT ![q] = [pc |-> "search", scan |-> {}, id |-> i]]
             \/ /\ jobs[i].status # "COMPLETED"
                /\ reader[q].scan # {i}
                /\ reader' = [reader EXCEPT ![q].scan = reader[q].scan \ {i}]
             \/ /\ jobs[i].status # "COMPLETED"
                /\ reader[q].scan = {i}
                /\ reader' = [reader EXCEPT ![q] = IdleReader]

\* Embed the query, SearchChunks on the selected snapshot, return.
SearchChunks(q) ==
    /\ reader[q].pc = "search"
    /\ reader' = [reader EXCEPT ![q] = IdleReader]

RetrievalNext ==
    \E q \in Readers :
        \/ \E c \in Connections : ListForRetrieval(q, c)
        \/ CheckJob(q)
        \/ SearchChunks(q)
====
