---- MODULE SchemaPipeline_proofs ----
(***************************************************************************)
(* Type correctness and mutual exclusion of the schema pipeline, for every *)
(* number of connections, requests, workers, instances, snapshots, retries *)
(* and failures.                                                           *)
(***************************************************************************)
EXTENDS SchemaPipeline, TLAPS

\* The local variables that a later step of the same process relies on.
RefreshLocalsOK ==
    \A r \in Refreshers :
        /\ refresher[r].pc = "insert" => refresher[r].hash \in Hashes
        /\ refresher[r].pc = "publish" => refresher[r].id \in SnapshotIds

WorkerLocalsOK ==
    \A w \in Workers :
        /\ worker[w].pc # "idle" => worker[w].id \in SnapshotIds
        /\ worker[w].pc \notin {"idle", "find"} => worker[w].snap \in Snapshot

TypeInv == TypeOK /\ RefreshLocalsOK /\ WorkerLocalsOK

LEMMA InitTypeInv == Init => TypeInv
<1> SUFFICES ASSUME Init PROVE TypeInv
  OBVIOUS
<1> USE StoreAssumption, FaultsAssumption, EmbeddingAssumption
<1>1. StoreTypeOK
  BY DEF Init, StoreInit, StoreTypeOK, SnapshotIds, NoJob, Job, JobStatus
<1>2. EventsTypeOK
  BY DEF Init, EventsInit, EventsTypeOK
<1>3. FaultsTypeOK
  BY DEF Init, FaultsInit, FaultsTypeOK
<1>4. locks \in [LockKeys -> Processes \cup {Nobody}]
  BY DEF Init, Lock!Init
<1>5. RefreshTypeOK
  BY DEF Init, RefreshInit, RefreshTypeOK
<1>6. WorkerTypeOK
  BY DEF Init, WorkerInit, WorkerTypeOK, IdleWorker, WorkerState, WorkerPC
<1>7. ReaderTypeOK
  BY DEF Init, ReaderInit, ReaderTypeOK, IdleReader, ReaderState
<1>8. RefreshLocalsOK /\ WorkerLocalsOK
  BY DEF Init, RefreshInit, WorkerInit, IdleWorker, RefreshLocalsOK, WorkerLocalsOK
<1> QED
  BY <1>1, <1>2, <1>3, <1>4, <1>5, <1>6, <1>7, <1>8 DEF TypeInv, TypeOK

-----------------------------------------------------------------------------
\* Storage and event operations preserve the types of their variables.

LEMMA InsertSnapshotType ==
    ASSUME StoreTypeOK, NEW c \in Connections, NEW h \in Hashes, InsertSnapshot(c, h)
    PROVE  StoreTypeOK' /\ lastId + 1 \in SnapshotIds
BY StoreAssumption DEF StoreTypeOK, InsertSnapshot, SnapshotIds, Snapshot

LEMMA UpsertEmbeddingJobType ==
    ASSUME StoreTypeOK, NEW i \in SnapshotIds, NEW s \in JobStatus, NEW n \in Nat,
           UpsertEmbeddingJob(i, s, n)
    PROVE  StoreTypeOK'
BY DEF StoreTypeOK, UpsertEmbeddingJob, Job

LEMMA ReplaceChunksType ==
    ASSUME StoreTypeOK, NEW i \in SnapshotIds, NEW rows \in SUBSET Parts,
           ReplaceChunks(i, rows)
    PROVE  StoreTypeOK'
BY DEF StoreTypeOK, ReplaceChunks

LEMMA DeleteConnectionType ==
    ASSUME StoreTypeOK, NEW c \in Connections, DeleteConnection(c)
    PROVE  StoreTypeOK'
<1>1. NoJob \in Job
  BY DEF NoJob, Job, JobStatus
<1> QED
  BY <1>1 DEF StoreTypeOK, DeleteConnection

LEMMA AlterRemoteSchemaType ==
    ASSUME StoreTypeOK, NEW c \in Connections, AlterRemoteSchema(c)
    PROVE  StoreTypeOK'
BY DEF StoreTypeOK, AlterRemoteSchema

LEMMA StoreUnchangedType ==
    ASSUME StoreTypeOK, UNCHANGED storeVars
    PROVE  StoreTypeOK'
BY DEF StoreTypeOK, storeVars

LEMMA PublishType ==
    ASSUME EventsTypeOK, NEW i \in SnapshotIds, Publish(i)
    PROVE  EventsTypeOK'
<1>1. ASSUME NEW n \in Instances
      PROVE  Append(mailbox[n], i) \in Seq(SnapshotIds)
  BY DEF EventsTypeOK
<1> QED
  BY <1>1 DEF EventsTypeOK, Publish

LEMMA ReceiveType ==
    ASSUME EventsTypeOK, NEW n \in Instances, NEW i, Receive(n, i)
    PROVE  EventsTypeOK' /\ i \in SnapshotIds
<1>1. mailbox[n] \in Seq(SnapshotIds) /\ mailbox[n] # <<>>
  BY DEF EventsTypeOK, Receive
<1>2. Head(mailbox[n]) \in SnapshotIds /\ Tail(mailbox[n]) \in Seq(SnapshotIds)
  BY <1>1
<1> QED
  BY <1>2 DEF EventsTypeOK, Receive

LEMMA ListenerType ==
    ASSUME EventsTypeOK, NEW n \in Instances,
           Disconnect(n) \/ Reconnect(n) \/ Restart(n)
    PROVE  EventsTypeOK'
<1>1. <<>> \in Seq(SnapshotIds)
  OBVIOUS
<1> QED
  BY <1>1 DEF EventsTypeOK, Disconnect, Reconnect, Restart

LEMMA FaultType ==
    ASSUME FaultsTypeOK, NEW kind, Fault(kind)
    PROVE  FaultsTypeOK'
BY FaultsAssumption DEF FaultsTypeOK, Fault

LEMMA LockType ==
    ASSUME locks \in [LockKeys -> Processes \cup {Nobody}],
           \/ \E p \in Processes, k \in LockKeys : Lock!Acquire(p, k)
           \/ \E p, k : Lock!Release(p, k)
           \/ \E P : Lock!EndSessions(P)
    PROVE  locks' \in [LockKeys -> Processes \cup {Nobody}]
BY DEF Lock!Acquire, Lock!Release, Lock!EndSessions

-----------------------------------------------------------------------------
\* Refresh requests.

LEMMA FinishType ==
    ASSUME RefreshTypeOK, NEW r \in Refreshers, Finish(r)
    PROVE  RefreshTypeOK'
BY DEF RefreshTypeOK, Finish, RefreshState, RefreshPC

LEMMA GotoType ==
    ASSUME RefreshTypeOK, NEW r \in Refreshers, NEW pc \in RefreshPC, Goto(r, pc)
    PROVE  RefreshTypeOK'
BY DEF RefreshTypeOK, Goto, RefreshState

\* A request that ends or goes to unlock relies on none of its locals.
LEMMA RefreshTypeInv ==
    ASSUME TypeInv, NEW r \in Refreshers, UNCHANGED <<worker, reader>>,
           \/ \E c \in Connections : StartRefresh(r, c)
           \/ RefreshStep(r)
           \/ FailRefresh(r)
           \/ CrashRefresh(r)
    PROVE  TypeInv'
<1>1. ASSUME StoreTypeOK', EventsTypeOK', FaultsTypeOK', RefreshTypeOK', RefreshLocalsOK',
             (locks \in [LockKeys -> Processes \cup {Nobody}])'
      PROVE  TypeInv'
  BY <1>1 DEF TypeInv, TypeOK, WorkerLocalsOK, WorkerTypeOK, ReaderTypeOK
<1>2. /\ StoreTypeOK /\ EventsTypeOK /\ FaultsTypeOK /\ RefreshTypeOK /\ RefreshLocalsOK
      /\ locks \in [LockKeys -> Processes \cup {Nobody}]
      /\ refresher[r] \in RefreshState /\ r \in Processes
      /\ \A c \in Connections : RefreshKey(c) \in LockKeys
  BY DEF TypeInv, TypeOK, RefreshTypeOK, Processes, RefreshKey, LockKeys
<1>3. UNCHANGED storeVars => StoreTypeOK'
  BY <1>2, StoreUnchangedType
<1>4. UNCHANGED eventVars => EventsTypeOK'
  BY <1>2 DEF EventsTypeOK, eventVars
<1>5. UNCHANGED faults => FaultsTypeOK'
  BY <1>2 DEF FaultsTypeOK
<1>6. ASSUME Finish(r) \/ (\E pc \in RefreshPC \ {"insert", "publish"} : Goto(r, pc))
      PROVE  RefreshTypeOK' /\ RefreshLocalsOK'
  <2>1. RefreshTypeOK'
    BY <1>2, <1>6, FinishType, GotoType
  <2>2. RefreshLocalsOK'
    BY <1>2, <1>6 DEF Finish, Goto, RefreshLocalsOK, RefreshTypeOK, RefreshState
  <2> QED
    BY <2>1, <2>2
<1>7. ASSUME NEW c \in Connections, StartRefresh(r, c)
      PROVE  TypeInv'
  <2>1. RefreshTypeOK' /\ RefreshLocalsOK'
    BY <1>2, <1>7 DEF StartRefresh, RefreshTypeOK, RefreshState, RefreshPC, RefreshLocalsOK
  <2> QED
    BY <1>1, <1>2, <1>3, <1>4, <1>5, <1>7, <2>1 DEF StartRefresh
<1>8. CASE AcquireRefreshLock(r)
  <2>1. (locks \in [LockKeys -> Processes \cup {Nobody}])'
    BY <1>2, <1>8, LockType DEF AcquireRefreshLock, RefreshState
  <2> QED
    BY <1>1, <1>3, <1>4, <1>5, <1>6, <1>8, <2>1 DEF AcquireRefreshLock, RefreshPC
<1>9. CASE LoadLatestSnapshot(r)
  <2>1. RefreshTypeOK' /\ RefreshLocalsOK'
    BY <1>2, <1>9 DEF LoadLatestSnapshot, Goto, RefreshTypeOK, RefreshState, RefreshPC, RefreshLocalsOK
  <2> QED
    BY <1>1, <1>2, <1>3, <1>4, <1>5, <1>9, <2>1 DEF LoadLatestSnapshot
<1>10. CASE Introspect(r)
  <2>1. remote[refresher[r].conn] \in Hashes
    BY <1>2 DEF StoreTypeOK, RefreshState
  <2>2. RefreshTypeOK' /\ RefreshLocalsOK'
    BY <1>2, <1>10, <2>1 DEF Introspect, RefreshTypeOK, RefreshState, RefreshPC, RefreshLocalsOK
  <2> QED
    BY <1>1, <1>2, <1>3, <1>4, <1>5, <1>10, <2>2 DEF Introspect
<1>11. CASE StoreNewSnapshot(r)
  <2>1. CASE InsertSnapshot(refresher[r].conn, refresher[r].hash)
             /\ refresher' = [refresher EXCEPT ![r].pc = "publish", ![r].id = lastId + 1]
    <3>1. refresher[r].conn \in Connections /\ refresher[r].hash \in Hashes
      BY <1>2, <1>11 DEF RefreshState, RefreshLocalsOK, StoreNewSnapshot
    <3>2. StoreTypeOK' /\ lastId + 1 \in SnapshotIds
      BY <1>2, <2>1, <3>1, InsertSnapshotType
    <3>3. RefreshTypeOK' /\ RefreshLocalsOK'
      BY <1>2, <2>1, <3>2 DEF RefreshTypeOK, RefreshState, RefreshPC, RefreshLocalsOK
    <3> QED
      BY <1>1, <1>2, <1>4, <1>5, <1>11, <3>2, <3>3 DEF StoreNewSnapshot
  <2>2. CASE Goto(r, "unlock") /\ UNCHANGED storeVars
    BY <1>1, <1>2, <1>3, <1>4, <1>5, <1>6, <1>11, <2>2 DEF StoreNewSnapshot, RefreshPC
  <2> QED
    BY <1>11, <2>1, <2>2 DEF StoreNewSnapshot
<1>12. CASE AnnounceSnapshot(r)
  <2>1. EventsTypeOK'
    BY <1>2, <1>12, PublishType DEF AnnounceSnapshot, RefreshLocalsOK
  <2> QED
    BY <1>1, <1>2, <1>3, <1>5, <1>6, <1>12, <2>1 DEF AnnounceSnapshot, RefreshPC
<1>13. CASE ReleaseRefreshLock(r)
  <2>1. (locks \in [LockKeys -> Processes \cup {Nobody}])'
    BY <1>2, <1>13, LockType DEF ReleaseRefreshLock
  <2> QED
    BY <1>1, <1>3, <1>4, <1>5, <1>6, <1>13, <2>1 DEF ReleaseRefreshLock
<1>14. CASE FailRefresh(r)
  <2>1. FaultsTypeOK'
    BY <1>2, <1>14, FaultType DEF FailRefresh
  <2> QED
    BY <1>1, <1>2, <1>3, <1>4, <1>6, <1>14, <2>1 DEF FailRefresh, RefreshPC
<1>15. CASE CrashRefresh(r)
  <2>1. FaultsTypeOK' /\ (locks \in [LockKeys -> Processes \cup {Nobody}])'
    BY <1>2, <1>15, FaultType, LockType DEF CrashRefresh
  <2> QED
    BY <1>1, <1>3, <1>4, <1>6, <1>15, <2>1 DEF CrashRefresh
<1> QED
  BY <1>7, <1>8, <1>9, <1>10, <1>11, <1>12, <1>13, <1>14, <1>15 DEF RefreshStep

-----------------------------------------------------------------------------
\* Workers.

LEMMA WorkerGotoType ==
    ASSUME WorkerTypeOK, WorkerLocalsOK, NEW w \in Workers, NEW pc \in WorkerPC,
           worker[w].pc \notin {"idle", "find"}, WorkerGoto(w, pc)
    PROVE  WorkerTypeOK' /\ WorkerLocalsOK'
BY DEF WorkerTypeOK, WorkerLocalsOK, WorkerGoto, WorkerState

LEMMA EndAttemptType ==
    ASSUME WorkerTypeOK, WorkerLocalsOK, NEW w \in Workers, NEW ok \in BOOLEAN,
           worker[w].pc # "idle", EndAttempt(w, ok)
    PROVE  WorkerTypeOK' /\ WorkerLocalsOK'
<1>1. worker[w] \in WorkerState /\ worker[w].id \in SnapshotIds
  BY DEF WorkerTypeOK, WorkerLocalsOK
<1>2. worker'[w] = IdleWorker
      \/ /\ worker[w].attempt # MaxRetries
         /\ worker'[w] = Attempt(worker[w].id, worker[w].attempt + 1)
  BY DEF EndAttempt, WorkerTypeOK
<1>3. worker'[w] \in WorkerState
  <2>1. IdleWorker \in WorkerState
    BY EmbeddingAssumption DEF WorkerState, WorkerPC, IdleWorker
  <2>2. CASE worker[w].attempt # MaxRetries
    <3>1. worker[w].attempt + 1 \in 0 .. MaxRetries
      BY <1>1, <2>2, EmbeddingAssumption DEF WorkerState
    <3>2. Attempt(worker[w].id, worker[w].attempt + 1) \in WorkerState
      BY <1>1, <3>1 DEF WorkerState, WorkerPC, Attempt
    <3> QED
      BY <1>2, <2>1, <3>2
  <2> QED
    BY <1>2, <2>1, <2>2
<1>4. /\ worker'[w].pc # "idle" => worker'[w].id \in SnapshotIds
      /\ worker'[w].pc \in {"idle", "find"}
  BY <1>1, <1>2 DEF IdleWorker, Attempt
<1>5. worker' = [worker EXCEPT ![w] = worker'[w]]
  BY DEF EndAttempt, WorkerTypeOK
<1> QED
  BY <1>3, <1>4, <1>5 DEF WorkerTypeOK, WorkerLocalsOK

LEMMA AbortType ==
    ASSUME WorkerTypeOK, WorkerLocalsOK, NEW w \in Workers,
           worker[w].pc \notin {"idle", "unlock"}, Abort(w)
    PROVE  WorkerTypeOK' /\ WorkerLocalsOK'
<1>1. worker[w].pc \in WorkerPC
  BY DEF WorkerTypeOK, WorkerState
<1>2. CASE worker[w].pc \in {"find", "lock"}
  BY <1>2, EndAttemptType DEF Abort
<1>3. CASE worker[w].pc \in {"load", "mark", "fail"}
  BY <1>3, WorkerGotoType DEF Abort, WorkerPC
<1>4. CASE worker[w].pc \in {"embed", "replace", "complete"}
  BY <1>4, WorkerGotoType DEF Abort, WorkerPC
<1> QED
  BY <1>1, <1>2, <1>3, <1>4 DEF WorkerPC

LEMMA WorkerTypeInv ==
    ASSUME TypeInv, NEW w \in Workers, UNCHANGED reader,
           WorkerStep(w) \/ FailWorker(w) \/ FailReport(w)
    PROVE  TypeInv'
<1>1. ASSUME StoreTypeOK', EventsTypeOK', FaultsTypeOK', WorkerTypeOK', WorkerLocalsOK',
             (locks \in [LockKeys -> Processes \cup {Nobody}])', UNCHANGED refresher
      PROVE  TypeInv'
  BY <1>1 DEF TypeInv, TypeOK, RefreshLocalsOK, RefreshTypeOK, ReaderTypeOK
<1>2. /\ StoreTypeOK /\ EventsTypeOK /\ FaultsTypeOK /\ WorkerTypeOK /\ WorkerLocalsOK
      /\ locks \in [LockKeys -> Processes \cup {Nobody}]
      /\ worker[w] \in WorkerState /\ w \in Processes
      /\ \A c \in Connections : EmbedKey(c) \in LockKeys
  BY DEF TypeInv, TypeOK, WorkerTypeOK, Processes, EmbedKey, LockKeys
<1>3. UNCHANGED storeVars => StoreTypeOK'
  BY <1>2, StoreUnchangedType
<1>4. UNCHANGED eventVars => EventsTypeOK'
  BY <1>2 DEF EventsTypeOK, eventVars
<1>5. UNCHANGED faults => FaultsTypeOK'
  BY <1>2 DEF FaultsTypeOK
<1>6. /\ worker[w].pc # "idle" => worker[w].id \in SnapshotIds
      /\ worker[w].pc \notin {"idle", "find"} => worker[w].snap \in Snapshot
  BY <1>2 DEF WorkerLocalsOK
<1>7. \A p : worker[w].pc \notin {"idle", "find"} /\ p \in WorkerPC /\ WorkerGoto(w, p)
                => WorkerTypeOK' /\ WorkerLocalsOK'
  BY <1>2, WorkerGotoType
<1>8. worker[w].pc \notin {"idle", "unlock"} /\ Abort(w) => WorkerTypeOK' /\ WorkerLocalsOK'
  BY <1>2, AbortType
<1>9. CASE TakeEvent(w)
  <2>1. PICK i \in SnapshotIds :
           /\ Receive(InstanceOf[w], i)
           /\ worker' = [worker EXCEPT ![w] = Attempt(i, 0)]
    BY <1>9 DEF TakeEvent
  <2>2. EventsTypeOK'
    BY <1>2, <2>1, ReceiveType, EmbeddingAssumption
  <2>3. WorkerTypeOK' /\ WorkerLocalsOK'
    BY <1>2, <2>1, EmbeddingAssumption
    DEF WorkerTypeOK, WorkerLocalsOK, WorkerState, WorkerPC, Attempt
  <2> QED
    BY <1>1, <1>2, <1>3, <1>5, <1>9, <2>2, <2>3 DEF TakeEvent
<1>10. CASE FindSnapshot(w)
  <2>1. CASE Exists(worker[w].id)
             /\ worker' = [worker EXCEPT ![w].pc = "lock", ![w].snap = snapshots[worker[w].id]]
    <3>1. snapshots[worker[w].id] \in Snapshot
      BY <1>2, <1>6, <1>10, <2>1 DEF FindSnapshot, Exists, StoreTypeOK
    <3> QED
      BY <1>1, <1>2, <1>3, <1>4, <1>5, <1>6, <1>10, <2>1, <3>1
      DEF FindSnapshot, WorkerTypeOK, WorkerLocalsOK, WorkerState, WorkerPC
  <2>2. CASE Abort(w)
    BY <1>1, <1>2, <1>3, <1>4, <1>5, <1>8, <1>10, <2>2 DEF FindSnapshot
  <2> QED
    BY <1>10, <2>1, <2>2 DEF FindSnapshot
<1>11. CASE AcquireEmbedLock(w)
  <2>1. (locks \in [LockKeys -> Processes \cup {Nobody}])'
    BY <1>2, <1>6, <1>11, LockType DEF AcquireEmbedLock, Snapshot
  <2> QED
    BY <1>1, <1>3, <1>4, <1>5, <1>7, <1>11, <2>1 DEF AcquireEmbedLock, WorkerPC
<1>12. CASE LoadJob(w)
  <2>1. jobs[worker[w].id].retry \in Nat
    BY <1>2, <1>6, <1>12 DEF LoadJob, StoreTypeOK, Job
  <2>2. WorkerTypeOK' /\ WorkerLocalsOK'
    BY <1>2, <1>12, <2>1 DEF LoadJob, WorkerTypeOK, WorkerLocalsOK, WorkerState, WorkerPC
  <2> QED
    BY <1>1, <1>2, <1>3, <1>4, <1>5, <1>12, <2>2 DEF LoadJob
<1>13. CASE MarkProcessing(w)
  <2>1. CASE UpsertEmbeddingJob(worker[w].id, "PROCESSING", worker[w].retry)
             /\ WorkerGoto(w, "embed")
    <3>1. StoreTypeOK'
      BY <1>2, <1>6, <1>13, <2>1, UpsertEmbeddingJobType DEF MarkProcessing, WorkerState, JobStatus
    <3> QED
      BY <1>1, <1>2, <1>4, <1>5, <1>7, <1>13, <2>1, <3>1 DEF MarkProcessing, WorkerPC
  <2>2. CASE Abort(w) /\ UNCHANGED storeVars
    BY <1>1, <1>2, <1>3, <1>4, <1>5, <1>8, <1>13, <2>2 DEF MarkProcessing
  <2> QED
    BY <1>13, <2>1, <2>2 DEF MarkProcessing
<1>14. CASE EmbedChunks(w)
  BY <1>1, <1>2, <1>3, <1>4, <1>5, <1>7, <1>14 DEF EmbedChunks, WorkerPC
<1>15. CASE StoreChunks(w)
  <2>1. CASE ReplaceChunks(worker[w].id, ChunksOf[worker[w].snap.hash])
             /\ WorkerGoto(w, "complete")
    <3>1. ChunksOf[worker[w].snap.hash] \in SUBSET Parts
      BY <1>6, <1>15, StoreAssumption DEF StoreChunks, Snapshot
    <3>2. StoreTypeOK'
      BY <1>2, <1>6, <1>15, <2>1, <3>1, ReplaceChunksType DEF StoreChunks
    <3> QED
      BY <1>1, <1>2, <1>4, <1>5, <1>7, <1>15, <2>1, <3>2 DEF StoreChunks, WorkerPC
  <2>2. CASE Abort(w) /\ UNCHANGED storeVars
    BY <1>1, <1>2, <1>3, <1>4, <1>5, <1>8, <1>15, <2>2 DEF StoreChunks
  <2> QED
    BY <1>15, <2>1, <2>2 DEF StoreChunks
<1>16. CASE MarkCompleted(w)
  <2>1. CASE UpsertEmbeddingJob(worker[w].id, "COMPLETED", worker[w].retry)
             /\ worker' = [worker EXCEPT ![w].pc = "unlock", ![w].ok = TRUE]
    <3>1. StoreTypeOK'
      BY <1>2, <1>6, <1>16, <2>1, UpsertEmbeddingJobType DEF MarkCompleted, WorkerState, JobStatus
    <3>2. WorkerTypeOK' /\ WorkerLocalsOK'
      BY <1>2, <1>6, <1>16, <2>1
      DEF MarkCompleted, WorkerTypeOK, WorkerLocalsOK, WorkerState, WorkerPC
    <3> QED
      BY <1>1, <1>2, <1>4, <1>5, <1>16, <3>1, <3>2 DEF MarkCompleted
  <2>2. CASE Abort(w) /\ UNCHANGED storeVars
    BY <1>1, <1>2, <1>3, <1>4, <1>5, <1>8, <1>16, <2>2 DEF MarkCompleted
  <2> QED
    BY <1>16, <2>1, <2>2 DEF MarkCompleted
<1>17. CASE MarkFailed(w)
  <2>1. StoreTypeOK'
    <3>1. worker[w].retry + 1 \in Nat
      BY <1>2 DEF WorkerState
    <3> QED
      BY <1>2, <1>3, <1>6, <1>17, <3>1, UpsertEmbeddingJobType DEF MarkFailed, JobStatus
  <2> QED
    BY <1>1, <1>2, <1>4, <1>5, <1>7, <1>17, <2>1 DEF MarkFailed, WorkerPC
<1>18. CASE ReleaseEmbedLock(w)
  <2>1. (locks \in [LockKeys -> Processes \cup {Nobody}])'
    BY <1>2, <1>18, LockType DEF ReleaseEmbedLock
  <2>2. WorkerTypeOK' /\ WorkerLocalsOK'
    BY <1>2, <1>18, EndAttemptType DEF ReleaseEmbedLock, WorkerState
  <2> QED
    BY <1>1, <1>3, <1>4, <1>5, <1>18, <2>1, <2>2 DEF ReleaseEmbedLock
<1>19. CASE FailWorker(w) \/ FailReport(w)
  <2>1. FaultsTypeOK'
    BY <1>2, <1>19, FaultType DEF FailWorker, FailReport
  <2> QED
    BY <1>1, <1>2, <1>3, <1>4, <1>8, <1>19, <2>1 DEF FailWorker, FailReport
<1> QED
  BY <1>9, <1>10, <1>11, <1>12, <1>13, <1>14, <1>15, <1>16, <1>17, <1>18, <1>19 DEF WorkerStep

LEMMA CrashInstanceTypeInv ==
    ASSUME TypeInv, NEW n \in Instances, UNCHANGED reader, CrashInstance(n)
    PROVE  TypeInv'
<1>1. FaultsTypeOK' /\ EventsTypeOK'
  BY FaultType, ListenerType DEF TypeInv, TypeOK, CrashInstance
<1>2. (locks \in [LockKeys -> Processes \cup {Nobody}])'
  BY LockType DEF TypeInv, TypeOK, CrashInstance
<1>3. StoreTypeOK'
  BY StoreUnchangedType DEF TypeInv, TypeOK, CrashInstance
<1>4. IdleWorker \in WorkerState
  BY EmbeddingAssumption DEF WorkerState, WorkerPC, IdleWorker
<1>5. WorkerTypeOK' /\ WorkerLocalsOK'
  BY <1>4 DEF TypeInv, TypeOK, WorkerTypeOK, WorkerLocalsOK, CrashInstance, IdleWorker
<1> QED
  BY <1>1, <1>2, <1>3, <1>5
  DEF TypeInv, TypeOK, RefreshTypeOK, RefreshLocalsOK, ReaderTypeOK, CrashInstance

-----------------------------------------------------------------------------
\* Retrievals and the environment.

LEMMA RetrievalTypeInv ==
    ASSUME TypeInv, RetrievalNext,
           UNCHANGED <<storeVars, eventVars, locks, refresher, worker, faults>>
    PROVE  TypeInv'
<1>1. ReaderTypeOK'
  <2>1. PICK q \in Readers :
           (\E c \in Connections : ListForRetrieval(q, c)) \/ CheckJob(q) \/ SearchChunks(q)
    BY DEF RetrievalNext
  <2>2. reader \in [Readers -> ReaderState] /\ reader[q] \in ReaderState
    BY DEF TypeInv, TypeOK, ReaderTypeOK
  <2>3. CASE \E c \in Connections : ListForRetrieval(q, c)
    <3>1. PICK c \in Connections :
             reader' = [reader EXCEPT ![q].pc = "scan", ![q].scan = SnapshotsOf(c)]
      BY <2>3 DEF ListForRetrieval
    <3>2. SnapshotsOf(c) \in SUBSET SnapshotIds
      BY DEF SnapshotsOf
    <3>3. [reader[q] EXCEPT !.pc = "scan", !.scan = SnapshotsOf(c)] \in ReaderState
      BY <2>2, <3>2 DEF ReaderState
    <3> QED
      BY <2>2, <3>1, <3>3 DEF ReaderTypeOK
  <2>4. CASE CheckJob(q)
    <3>1. PICK i \in reader[q].scan :
             \/ reader' = [reader EXCEPT ![q] = [pc |-> "search", scan |-> {}, id |-> i]]
             \/ reader' = [reader EXCEPT ![q] = IdleReader]
             \/ reader' = [reader EXCEPT ![q].scan = reader[q].scan \ {i}]
      BY <2>4 DEF CheckJob
    <3>2. i \in SnapshotIds /\ IdleReader \in ReaderState
      BY <2>2 DEF ReaderState, IdleReader
    <3> QED
      BY <2>2, <3>1, <3>2 DEF ReaderTypeOK, ReaderState
  <2>5. CASE SearchChunks(q)
    BY <2>2, <2>5 DEF SearchChunks, ReaderTypeOK, ReaderState, IdleReader
  <2> QED
    BY <2>1, <2>3, <2>4, <2>5
<1> QED
  BY <1>1, StoreUnchangedType
  DEF TypeInv, TypeOK, EventsTypeOK, eventVars, FaultsTypeOK, RefreshTypeOK, RefreshLocalsOK,
      WorkerTypeOK, WorkerLocalsOK

LEMMA EnvironmentTypeInv ==
    ASSUME TypeInv, EnvironmentNext, UNCHANGED <<refresher, worker, reader>>
    PROVE  TypeInv'
<1>1. ASSUME StoreTypeOK', EventsTypeOK', FaultsTypeOK', UNCHANGED locks
      PROVE  TypeInv'
  BY <1>1
  DEF TypeInv, TypeOK, RefreshTypeOK, RefreshLocalsOK, WorkerTypeOK, WorkerLocalsOK, ReaderTypeOK
<1>2. StoreTypeOK /\ EventsTypeOK /\ FaultsTypeOK
  BY DEF TypeInv, TypeOK
<1>3. UNCHANGED eventVars => EventsTypeOK'
  BY <1>2 DEF EventsTypeOK, eventVars
<1>4. UNCHANGED faults => FaultsTypeOK'
  BY <1>2 DEF FaultsTypeOK
<1>5. ASSUME NEW c \in Connections, AdminDeletesConnection(c) \/ RemoteSchemaChanges(c)
      PROVE  TypeInv'
  BY <1>1, <1>2, <1>3, <1>4, <1>5, DeleteConnectionType, AlterRemoteSchemaType
  DEF AdminDeletesConnection, RemoteSchemaChanges
<1>6. ASSUME NEW n \in Instances, ListenerDisconnects(n) \/ ListenerReconnects(n)
      PROVE  TypeInv'
  BY <1>1, <1>2, <1>4, <1>6, StoreUnchangedType, ListenerType, FaultType
  DEF ListenerDisconnects, ListenerReconnects
<1> QED
  BY <1>5, <1>6 DEF EnvironmentNext

LEMMA NextTypeInv == TypeInv /\ [Next]_vars => TypeInv'
<1> SUFFICES ASSUME TypeInv, [Next]_vars PROVE TypeInv'
  OBVIOUS
<1>1. CASE RefreshNext /\ UNCHANGED <<worker, reader>>
  BY <1>1, RefreshTypeInv DEF RefreshNext
<1>2. CASE EmbeddingNext /\ UNCHANGED reader
  BY <1>2, WorkerTypeInv, CrashInstanceTypeInv DEF EmbeddingNext
<1>3. CASE RetrievalNext /\ UNCHANGED <<storeVars, eventVars, locks, refresher, worker, faults>>
  BY <1>3, RetrievalTypeInv
<1>4. CASE EnvironmentNext /\ UNCHANGED <<refresher, worker, reader>>
  BY <1>4, EnvironmentTypeInv
<1>5. CASE UNCHANGED vars
  BY <1>5, StoreUnchangedType
  DEF vars, TypeInv, TypeOK, EventsTypeOK, eventVars, FaultsTypeOK, RefreshTypeOK,
      RefreshLocalsOK, WorkerTypeOK, WorkerLocalsOK, ReaderTypeOK
<1> QED
  BY <1>1, <1>2, <1>3, <1>4, <1>5 DEF Next

\* Every variable keeps to its declared values, and no step reads a local
\* variable its process has not set: the model has no stuck or undefined step.
THEOREM TypeCorrect == Spec => []TypeInv
<1> QED
  BY InitTypeInv, NextTypeInv, PTL DEF Spec

THEOREM TypesOK == Spec => []TypeOK
<1>1. TypeInv => TypeOK
  BY DEF TypeInv
<1> QED
  BY <1>1, TypeCorrect, PTL

-----------------------------------------------------------------------------
(* Mutual exclusion: the advisory lock of a connection belongs exactly to  *)
(* the process that is inside the critical section it protects.            *)

LEMMA KeysDiffer ==
    /\ \A c, d : RefreshKey(c) # EmbedKey(d)
    /\ \A c, d : RefreshKey(c) = RefreshKey(d) => c = d
    /\ \A c, d : EmbedKey(c) = EmbedKey(d) => c = d
    /\ \A c \in Connections : RefreshKey(c) \in LockKeys /\ EmbedKey(c) \in LockKeys
BY DEF RefreshKey, EmbedKey, LockKeys

LEMMA InitLocks == Init => LocksMatchHolders
<1> SUFFICES ASSUME Init PROVE LocksMatchHolders
  OBVIOUS
<1>1. \A k \in LockKeys : locks[k] = Nobody
  BY DEF Init, Lock!Init
<1>2. Nobody \notin Refreshers /\ Nobody \notin Workers
  BY ProcessAssumption DEF Processes
<1>3. (\A r \in Refreshers : ~Refreshing(r)) /\ (\A w \in Workers : ~Holding(w))
  BY DEF Init, RefreshInit, WorkerInit, IdleWorker, Refreshing, Holding
<1> QED
  BY <1>1, <1>2, <1>3, KeysDiffer DEF LocksMatchHolders

\* A step that neither enters nor leaves a critical section.
LEMMA LocksKept ==
    ASSUME LocksMatchHolders, UNCHANGED locks,
           \A r \in Refreshers :
              /\ Refreshing(r)' = Refreshing(r)
              /\ Refreshing(r) => refresher'[r].conn = refresher[r].conn,
           \A w \in Workers :
              /\ Holding(w)' = Holding(w)
              /\ Holding(w) => worker'[w].snap.conn = worker[w].snap.conn
    PROVE  LocksMatchHolders'
BY DEF LocksMatchHolders

\* The steps of one request leave the workers alone, and vice versa.
LEMMA RefreshersKept ==
    ASSUME UNCHANGED refresher, NEW r \in Refreshers
    PROVE  /\ Refreshing(r)' = Refreshing(r)
           /\ refresher'[r].conn = refresher[r].conn
BY DEF Refreshing

LEMMA WorkersKept ==
    ASSUME UNCHANGED worker, NEW w \in Workers
    PROVE  /\ Holding(w)' = Holding(w)
           /\ worker'[w].snap.conn = worker[w].snap.conn
BY DEF Holding

LEMMA RefreshLocks ==
    ASSUME TypeInv, LocksMatchHolders, NEW r \in Refreshers, UNCHANGED worker,
           \/ \E c \in Connections : StartRefresh(r, c)
           \/ RefreshStep(r)
           \/ FailRefresh(r)
           \/ CrashRefresh(r)
    PROVE  LocksMatchHolders'
<1>1. /\ refresher \in [Refreshers -> RefreshState] /\ refresher[r] \in RefreshState
      /\ locks \in [LockKeys -> Processes \cup {Nobody}]
      /\ refresher[r].conn \in Connections
  BY DEF TypeInv, TypeOK, RefreshTypeOK, RefreshState
<1>2. /\ Nobody \notin Refreshers /\ Nobody \notin Workers /\ r \notin Workers
  BY ProcessAssumption DEF Processes
<1>3. \A w \in Workers : /\ Holding(w)' = Holding(w)
                         /\ worker'[w].snap.conn = worker[w].snap.conn
  BY WorkersKept
<1>4. \A q \in Refreshers : q # r => /\ Refreshing(q)' = Refreshing(q)
                                     /\ refresher'[q].conn = refresher[q].conn
  BY <1>1 DEF StartRefresh, RefreshStep, AcquireRefreshLock, LoadLatestSnapshot, Introspect,
      StoreNewSnapshot, AnnounceSnapshot, ReleaseRefreshLock, FailRefresh, CrashRefresh,
      Goto, Finish, Refreshing
<1>5. ASSUME UNCHANGED locks, Refreshing(r)' = Refreshing(r),
             Refreshing(r) => refresher'[r].conn = refresher[r].conn
      PROVE  LocksMatchHolders'
  BY <1>3, <1>4, <1>5, LocksKept
<1>6. ASSUME NEW c \in Connections, StartRefresh(r, c)
      PROVE  LocksMatchHolders'
  BY <1>1, <1>5, <1>6 DEF StartRefresh, Refreshing
<1>7. CASE AcquireRefreshLock(r)
  <2> DEFINE k == RefreshKey(refresher[r].conn)
  <2>1. /\ locks[k] = Nobody /\ k \in LockKeys
        /\ locks' = [locks EXCEPT ![k] = r]
        /\ Refreshing(r)' /\ ~Refreshing(r) /\ refresher'[r].conn = refresher[r].conn
    BY <1>1, <1>7, KeysDiffer
    DEF AcquireRefreshLock, Lock!Acquire, Goto, Refreshing, RefreshState
  <2>2. \A q \in Refreshers, c \in Connections :
           locks'[RefreshKey(c)] = q <=> Refreshing(q)' /\ refresher'[q].conn = c
    BY <1>1, <1>2, <1>4, <2>1, KeysDiffer DEF LocksMatchHolders
  <2>3. \A c \in Connections : locks'[EmbedKey(c)] = locks[EmbedKey(c)]
    BY <1>1, <2>1, KeysDiffer
  <2> QED
    BY <1>3, <2>2, <2>3 DEF LocksMatchHolders
<1>8. CASE LoadLatestSnapshot(r) \/ Introspect(r) \/ AnnounceSnapshot(r)
  BY <1>1, <1>5, <1>8
  DEF LoadLatestSnapshot, Introspect, AnnounceSnapshot, Goto, Refreshing, RefreshState
<1>9. CASE StoreNewSnapshot(r)
  BY <1>1, <1>5, <1>9 DEF StoreNewSnapshot, Goto, Refreshing, RefreshState
<1>10. CASE ReleaseRefreshLock(r)
  <2> DEFINE k == RefreshKey(refresher[r].conn)
  <2>1. /\ locks[k] = r /\ k \in LockKeys
        /\ locks' = [locks EXCEPT ![k] = Nobody]
        /\ ~Refreshing(r)' /\ Refreshing(r)
    BY <1>1, <1>10, KeysDiffer
    DEF ReleaseRefreshLock, Lock!Release, Finish, Refreshing, RefreshState
  <2>2. \A q \in Refreshers, c \in Connections :
           locks'[RefreshKey(c)] = q <=> Refreshing(q)' /\ refresher'[q].conn = c
    BY <1>1, <1>2, <1>4, <2>1, KeysDiffer DEF LocksMatchHolders
  <2>3. \A c \in Connections : locks'[EmbedKey(c)] = locks[EmbedKey(c)]
    BY <1>1, <2>1, KeysDiffer
  <2> QED
    BY <1>3, <2>2, <2>3 DEF LocksMatchHolders
<1>11. CASE FailRefresh(r)
  BY <1>1, <1>5, <1>11 DEF FailRefresh, Goto, Finish, Refreshing, RefreshState
<1>12. CASE CrashRefresh(r)
  <2>1. /\ \A k \in LockKeys : locks'[k] = IF locks[k] = r THEN Nobody ELSE locks[k]
        /\ ~Refreshing(r)'
    BY <1>1, <1>12 DEF CrashRefresh, Lock!EndSessions, Finish, Refreshing
  <2>2. \A q \in Refreshers, c \in Connections :
           locks'[RefreshKey(c)] = q <=> Refreshing(q)' /\ refresher'[q].conn = c
    BY <1>2, <1>4, <2>1, KeysDiffer DEF LocksMatchHolders
  <2>3. \A w \in Workers, c \in Connections :
           locks'[EmbedKey(c)] = w <=> locks[EmbedKey(c)] = w
    BY <1>2, <2>1, KeysDiffer
  <2> QED
    BY <1>3, <2>2, <2>3 DEF LocksMatchHolders
<1> QED
  BY <1>6, <1>7, <1>8, <1>9, <1>10, <1>11, <1>12 DEF RefreshStep

\* Before the lock a failing handler ends outside the critical section; after
\* it, it goes on inside, to the deferred Unlock.
LEMMA AbortKeepsHolding ==
    ASSUME WorkerTypeOK, NEW w \in Workers, worker[w].pc \notin {"idle", "unlock"}, Abort(w)
    PROVE  /\ Holding(w)' = Holding(w)
           /\ Holding(w) => worker'[w].snap.conn = worker[w].snap.conn
<1>1. worker \in [Workers -> WorkerState] /\ worker[w].pc \in WorkerPC
  BY DEF WorkerTypeOK, WorkerState
<1>2. CASE worker[w].pc \in {"find", "lock"}
  <2>1. EndAttempt(w, FALSE)
    BY <1>2 DEF Abort
  <2>2. worker'[w].pc \in {"idle", "find"}
    BY <1>1, <2>1 DEF EndAttempt, IdleWorker, Attempt
  <2> QED
    BY <1>2, <2>2 DEF Holding
<1>3. CASE worker[w].pc \in {"load", "mark", "fail", "embed", "replace", "complete"}
  <2>1. WorkerGoto(w, "unlock") \/ WorkerGoto(w, "fail")
    BY <1>3 DEF Abort
  <2> QED
    BY <1>1, <1>3, <2>1 DEF Holding, WorkerGoto, WorkerState
<1> QED
  BY <1>1, <1>2, <1>3 DEF WorkerPC

LEMMA OtherWorkersKept ==
    ASSUME WorkerTypeOK, NEW w \in Workers, WorkerStep(w) \/ FailWorker(w) \/ FailReport(w),
           NEW v \in Workers, v # w
    PROVE  worker'[v] = worker[v]
<1>1. ASSUME Abort(w), worker[w].pc \notin {"idle", "unlock"}
      PROVE  worker'[v] = worker[v]
  BY <1>1 DEF Abort, EndAttempt, WorkerGoto, WorkerTypeOK, WorkerState, WorkerPC
<1>2. CASE FailWorker(w) \/ FailReport(w)
  BY <1>1, <1>2 DEF FailWorker, FailReport
<1>3. CASE WorkerStep(w)
  BY <1>1, <1>3
  DEF WorkerStep, TakeEvent, FindSnapshot, AcquireEmbedLock, LoadJob, MarkProcessing,
      EmbedChunks, StoreChunks, MarkCompleted, MarkFailed, ReleaseEmbedLock, WorkerGoto,
      EndAttempt, WorkerTypeOK
<1> QED
  BY <1>2, <1>3

LEMMA WorkerLocks ==
    ASSUME TypeInv, LocksMatchHolders, NEW w \in Workers, UNCHANGED refresher,
           WorkerStep(w) \/ FailWorker(w) \/ FailReport(w)
    PROVE  LocksMatchHolders'
<1>1. /\ WorkerTypeOK /\ worker \in [Workers -> WorkerState] /\ worker[w] \in WorkerState
      /\ locks \in [LockKeys -> Processes \cup {Nobody}]
      /\ worker[w].pc \notin {"idle", "find"} => worker[w].snap.conn \in Connections
  BY DEF TypeInv, TypeOK, WorkerTypeOK, WorkerLocalsOK, Snapshot
<1>2. Nobody \notin Refreshers /\ Nobody \notin Workers /\ w \notin Refreshers
  BY ProcessAssumption DEF Processes
<1>3. \A r \in Refreshers : /\ Refreshing(r)' = Refreshing(r)
                            /\ refresher'[r].conn = refresher[r].conn
  BY RefreshersKept
<1>4. \A v \in Workers : v # w => /\ Holding(v)' = Holding(v)
                                  /\ worker'[v].snap.conn = worker[v].snap.conn
  BY <1>1, OtherWorkersKept DEF Holding
<1>5. ASSUME UNCHANGED locks, Holding(w)' = Holding(w),
             Holding(w) => worker'[w].snap.conn = worker[w].snap.conn
      PROVE  LocksMatchHolders'
  BY <1>3, <1>4, <1>5, LocksKept
<1>6. ASSUME Abort(w), worker[w].pc \notin {"idle", "unlock"}, UNCHANGED locks
      PROVE  LocksMatchHolders'
  BY <1>1, <1>5, <1>6, AbortKeepsHolding
<1>7. ASSUME NEW pc \in WorkerPC \ {"idle", "find", "lock"}, WorkerGoto(w, pc),
             worker[w].pc \notin {"idle", "find", "lock"}, UNCHANGED locks
      PROVE  LocksMatchHolders'
  BY <1>1, <1>5, <1>7 DEF WorkerGoto, Holding, WorkerState
<1>8. CASE TakeEvent(w)
  BY <1>1, <1>5, <1>8 DEF TakeEvent, Attempt, Holding
<1>9. CASE FindSnapshot(w)
  <2>1. CASE worker' = [worker EXCEPT ![w].pc = "lock", ![w].snap = snapshots[worker[w].id]]
    BY <1>1, <1>5, <1>9, <2>1 DEF FindSnapshot, Holding, WorkerState
  <2> QED
    BY <1>6, <1>9, <2>1 DEF FindSnapshot
<1>10. CASE AcquireEmbedLock(w)
  <2> DEFINE k == EmbedKey(worker[w].snap.conn)
  <2>1. /\ locks[k] = Nobody /\ k \in LockKeys
        /\ locks' = [locks EXCEPT ![k] = w]
        /\ Holding(w)' /\ ~Holding(w) /\ worker'[w].snap.conn = worker[w].snap.conn
    BY <1>1, <1>10, KeysDiffer
    DEF AcquireEmbedLock, Lock!Acquire, WorkerGoto, Holding, WorkerState
  <2>2. \A v \in Workers, c \in Connections :
           locks'[EmbedKey(c)] = v <=> Holding(v)' /\ worker'[v].snap.conn = c
    BY <1>1, <1>2, <1>4, <2>1, KeysDiffer DEF LocksMatchHolders
  <2>3. \A c \in Connections : locks'[RefreshKey(c)] = locks[RefreshKey(c)]
    BY <1>1, <2>1, KeysDiffer
  <2> QED
    BY <1>3, <2>2, <2>3 DEF LocksMatchHolders
<1>11. CASE LoadJob(w)
  BY <1>1, <1>5, <1>11 DEF LoadJob, Holding, WorkerState
<1>12. CASE MarkProcessing(w)
  BY <1>6, <1>7, <1>12 DEF MarkProcessing, WorkerPC
<1>13. CASE EmbedChunks(w)
  BY <1>7, <1>13 DEF EmbedChunks, WorkerPC
<1>14. CASE StoreChunks(w)
  BY <1>6, <1>7, <1>14 DEF StoreChunks, WorkerPC
<1>15. CASE MarkCompleted(w)
  <2>1. CASE worker' = [worker EXCEPT ![w].pc = "unlock", ![w].ok = TRUE]
    BY <1>1, <1>5, <1>15, <2>1 DEF MarkCompleted, Holding, WorkerState
  <2> QED
    BY <1>6, <1>15, <2>1 DEF MarkCompleted
<1>16. CASE MarkFailed(w)
  BY <1>7, <1>16 DEF MarkFailed, WorkerPC
<1>17. CASE ReleaseEmbedLock(w)
  <2> DEFINE k == EmbedKey(worker[w].snap.conn)
  <2>1. /\ locks[k] = w /\ k \in LockKeys
        /\ locks' = [locks EXCEPT ![k] = Nobody]
        /\ ~Holding(w)' /\ Holding(w)
    BY <1>1, <1>17, KeysDiffer
    DEF ReleaseEmbedLock, Lock!Release, EndAttempt, IdleWorker, Attempt, Holding
  <2>2. \A v \in Workers, c \in Connections :
           locks'[EmbedKey(c)] = v <=> Holding(v)' /\ worker'[v].snap.conn = c
    BY <1>1, <1>2, <1>4, <2>1, KeysDiffer DEF LocksMatchHolders
  <2>3. \A c \in Connections : locks'[RefreshKey(c)] = locks[RefreshKey(c)]
    BY <1>1, <2>1, KeysDiffer
  <2> QED
    BY <1>3, <2>2, <2>3 DEF LocksMatchHolders
<1>18. CASE FailWorker(w) \/ FailReport(w)
  BY <1>6, <1>18 DEF FailWorker, FailReport
<1> QED
  BY <1>8, <1>9, <1>10, <1>11, <1>12, <1>13, <1>14, <1>15, <1>16, <1>17, <1>18
  DEF WorkerStep

LEMMA CrashInstanceLocks ==
    ASSUME TypeInv, LocksMatchHolders, NEW n \in Instances, CrashInstance(n)
    PROVE  LocksMatchHolders'
<1> DEFINE dead == {w \in Workers : InstanceOf[w] = n}
<1>1. Nobody \notin Refreshers /\ Nobody \notin Workers /\ Refreshers \cap dead = {}
  BY ProcessAssumption DEF Processes
<1>2. /\ \A k \in LockKeys : locks'[k] = IF locks[k] \in dead THEN Nobody ELSE locks[k]
      /\ \A w \in Workers : worker'[w] = IF w \in dead THEN IdleWorker ELSE worker[w]
      /\ UNCHANGED refresher
  BY DEF CrashInstance, Lock!EndSessions
<1>3. \A w \in Workers : /\ w \in dead => ~Holding(w)'
                         /\ w \notin dead => Holding(w)' = Holding(w)
  BY <1>2 DEF Holding, IdleWorker
<1>4. \A w \in Workers, c \in Connections :
         locks'[EmbedKey(c)] = w <=> Holding(w)' /\ worker'[w].snap.conn = c
  BY <1>1, <1>2, <1>3, KeysDiffer DEF LocksMatchHolders
<1>5. \A r \in Refreshers, c \in Connections :
         locks'[RefreshKey(c)] = r <=> Refreshing(r)' /\ refresher'[r].conn = c
  BY <1>1, <1>2, KeysDiffer, RefreshersKept DEF LocksMatchHolders
<1> QED
  BY <1>4, <1>5 DEF LocksMatchHolders

LEMMA NextLocks == TypeInv /\ LocksMatchHolders /\ [Next]_vars => LocksMatchHolders'
<1> SUFFICES ASSUME TypeInv, LocksMatchHolders, [Next]_vars
             PROVE  LocksMatchHolders'
  OBVIOUS
<1>1. ASSUME UNCHANGED <<locks, refresher, worker>>
      PROVE  LocksMatchHolders'
  BY <1>1, LocksKept, RefreshersKept, WorkersKept
<1>2. CASE RefreshNext /\ UNCHANGED <<worker, reader>>
  BY <1>2, RefreshLocks DEF RefreshNext
<1>3. CASE EmbeddingNext /\ UNCHANGED reader
  <2>1. ASSUME NEW w \in Workers, WorkerStep(w) \/ FailWorker(w) \/ FailReport(w)
        PROVE  LocksMatchHolders'
    <3>1. UNCHANGED refresher
      BY <2>1
      DEF WorkerStep, FailWorker, FailReport, TakeEvent, FindSnapshot, AcquireEmbedLock, LoadJob,
          MarkProcessing, EmbedChunks, StoreChunks, MarkCompleted, MarkFailed, ReleaseEmbedLock
    <3> QED
      BY <2>1, <3>1, WorkerLocks
  <2> QED
    BY <1>3, <2>1, CrashInstanceLocks DEF EmbeddingNext
<1>4. CASE RetrievalNext /\ UNCHANGED <<storeVars, eventVars, locks, refresher, worker, faults>>
  BY <1>1, <1>4
<1>5. CASE EnvironmentNext /\ UNCHANGED <<refresher, worker, reader>>
  BY <1>1, <1>5
  DEF EnvironmentNext, AdminDeletesConnection, RemoteSchemaChanges, ListenerDisconnects,
      ListenerReconnects
<1>6. CASE UNCHANGED vars
  BY <1>1, <1>6 DEF vars
<1> QED
  BY <1>2, <1>3, <1>4, <1>5, <1>6 DEF Next

\* A key is owned exactly by the process between its Lock and its Unlock, on
\* every path through both handlers.
THEOREM LocksCorrect == Spec => []LocksMatchHolders
<1> QED
  BY InitLocks, NextLocks, TypeCorrect, PTL DEF Spec

\* Two workers are never inside the critical section of one connection, nor
\* are two refresh requests.
Exclusive ==
    /\ \A v, w \in Workers :
          Holding(v) /\ Holding(w) /\ worker[v].snap.conn = worker[w].snap.conn => v = w
    /\ \A q, r \in Refreshers :
          Refreshing(q) /\ Refreshing(r) /\ refresher[q].conn = refresher[r].conn => q = r

LEMMA LocksExclude == TypeInv /\ LocksMatchHolders => Exclusive
<1> SUFFICES ASSUME TypeInv, LocksMatchHolders PROVE Exclusive
  OBVIOUS
<1>1. \A w \in Workers : Holding(w) => worker[w].snap.conn \in Connections
  BY DEF TypeInv, WorkerLocalsOK, Holding, Snapshot
<1>2. \A r \in Refreshers : refresher[r].conn \in Connections
  BY DEF TypeInv, TypeOK, RefreshTypeOK, RefreshState
<1> QED
  BY <1>1, <1>2 DEF LocksMatchHolders, Exclusive

\* Critical sections exclude one another.
THEOREM MutualExclusion == Spec => []Exclusive
<1> QED
  BY LocksExclude, TypeCorrect, LocksCorrect, PTL
====
