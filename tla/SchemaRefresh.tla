---- MODULE SchemaRefresh ----
(***************************************************************************)
(* Service.RefreshSchemaSnapshot, one process per request in flight: take  *)
(* the connection's refresh lock, compare the introspected schema with the *)
(* latest snapshot, insert a new snapshot if it differs and announce it.   *)
(***************************************************************************)
EXTENDS SnapshotEvents, Faults

CONSTANTS
    Refreshers, \* goroutines serving refresh requests
    Workers,    \* goroutines processing snapshot-created events
    Nobody      \* owner of a free lock

Processes == Refreshers \cup Workers

ASSUME ProcessAssumption ==
    /\ Refreshers \cap Workers = {}
    /\ Nobody \notin Processes

VARIABLES
    locks,      \* advisory locks: owner of each key
    refresher   \* local state of each refresh request

\* Key formats "schemas-core:refresh-schema-snapshot:%d" and
\* "schemas-core:embed-snapshot-content:%d".
LockKeys == {"refresh", "embed"} \X Connections
RefreshKey(c) == <<"refresh", c>>
EmbedKey(c) == <<"embed", c>>

Lock == INSTANCE ResourceLock WITH Keys <- LockKeys, Owners <- Processes, owner <- locks

RefreshPC == {"idle", "lock", "load", "introspect", "insert", "publish", "unlock"}

\* base: SchemaHash of the latest snapshot read under the lock;
\* hash: hash of the introspected catalog; id: the inserted snapshot.
RefreshState == [pc   : RefreshPC,
                 conn : Connections,
                 base : Hashes \cup {NoHash},
                 hash : Hashes \cup {NoHash},
                 id   : SnapshotIds \cup {0}]

RefreshTypeOK == refresher \in [Refreshers -> RefreshState]

RefreshInit ==
    refresher \in [Refreshers -> {s \in RefreshState :
        s.pc = "idle" /\ s.base = NoHash /\ s.hash = NoHash /\ s.id = 0}]

-----------------------------------------------------------------------------

Goto(r, pc) == refresher' = [refresher EXCEPT ![r].pc = pc]

\* The request returns; its local values are gone.
Finish(r) ==
    refresher' = [refresher EXCEPT ![r] = [pc |-> "idle", conn |-> refresher[r].conn,
                                           base |-> NoHash, hash |-> NoHash, id |-> 0]]

\* POST /connections/{id}/schema-snapshot/refresh.
StartRefresh(r, c) ==
    /\ refresher[r].pc = "idle"
    /\ refresher' = [refresher EXCEPT ![r] = [pc |-> "lock", conn |-> c,
                                              base |-> NoHash, hash |-> NoHash, id |-> 0]]
    /\ UNCHANGED <<storeVars, eventVars, locks, faults>>

AcquireRefreshLock(r) ==
    /\ refresher[r].pc = "lock"
    /\ Lock!Acquire(r, RefreshKey(refresher[r].conn))
    /\ Goto(r, "load")
    /\ UNCHANGED <<storeVars, eventVars, faults>>

\* GetConnection, then ListSnapshots with Limit 1 ordered by id descending.
\* A connection deleted in between makes the later insert fail either way.
LoadLatestSnapshot(r) ==
    LET c == refresher[r].conn IN
    /\ refresher[r].pc = "load"
    /\ \/ /\ c \in connections
          /\ \E h \in Hashes \cup {NoHash} :
                /\ IsLatestHash(h, c)
                /\ refresher' = [refresher EXCEPT ![r].pc = "introspect", ![r].base = h]
       \/ /\ c \notin connections
          /\ Goto(r, "unlock")
    /\ UNCHANGED <<storeVars, eventVars, locks, faults>>

\* Introspect and hash the catalog; an unchanged hash ends the request.
Introspect(r) ==
    LET h == remote[refresher[r].conn] IN
    /\ refresher[r].pc = "introspect"
    /\ refresher' = [refresher EXCEPT
                        ![r].pc = IF h # refresher[r].base THEN "insert" ELSE "unlock",
                        ![r].hash = h]
    /\ UNCHANGED <<storeVars, eventVars, locks, faults>>

\* InsertSnapshot; a violated foreign key or unique index ends the request
\* with an error.
StoreNewSnapshot(r) ==
    LET c == refresher[r].conn
        h == refresher[r].hash IN
    /\ refresher[r].pc = "insert"
    /\ \/ /\ InsertSnapshot(c, h)
          /\ refresher' = [refresher EXCEPT ![r].pc = "publish", ![r].id = lastId + 1]
       \/ /\ ~Insertable(c, h)
          /\ Goto(r, "unlock")
          /\ UNCHANGED storeVars
    /\ UNCHANGED <<eventVars, locks, faults>>

\* events.SendSnapshotCreated.
AnnounceSnapshot(r) ==
    /\ refresher[r].pc = "publish"
    /\ Publish(refresher[r].id)
    /\ Goto(r, "unlock")
    /\ UNCHANGED <<storeVars, locks, faults>>

\* The deferred Unlock, on success and on every error after the lock.
ReleaseRefreshLock(r) ==
    /\ refresher[r].pc = "unlock"
    /\ Lock!Release(r, RefreshKey(refresher[r].conn))
    /\ Finish(r)
    /\ UNCHANGED <<storeVars, eventVars, faults>>

\* A call returns an error (database, introspection, pg_notify or a cancelled
\* request context): the request gives up, releasing the lock if it has it.
FailRefresh(r) ==
    /\ Fault("refresh")
    /\ \/ refresher[r].pc = "lock" /\ Finish(r)
       \/ /\ refresher[r].pc \in {"load", "introspect", "insert", "publish"}
          /\ Goto(r, "unlock")
    /\ UNCHANGED <<storeVars, eventVars, locks>>

\* The process serving r dies; its database sessions end and free its locks.
CrashRefresh(r) ==
    /\ Fault("crash")
    /\ refresher[r].pc # "idle"
    /\ Lock!EndSessions({r})
    /\ Finish(r)
    /\ UNCHANGED <<storeVars, eventVars>>

RefreshStep(r) ==
    \/ AcquireRefreshLock(r)
    \/ LoadLatestSnapshot(r)
    \/ Introspect(r)
    \/ StoreNewSnapshot(r)
    \/ AnnounceSnapshot(r)
    \/ ReleaseRefreshLock(r)

RefreshNext ==
    \E r \in Refreshers :
        \/ \E c \in Connections : StartRefresh(r, c)
        \/ RefreshStep(r)
        \/ FailRefresh(r)
        \/ CrashRefresh(r)

\* r is between acquiring and releasing the refresh lock.
Refreshing(r) == refresher[r].pc \notin {"idle", "lock"}
====
