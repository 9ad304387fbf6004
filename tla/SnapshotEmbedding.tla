---- MODULE SnapshotEmbedding ----
(***************************************************************************)
(* The subscription that handles snapshot-created events: the workers of   *)
(* pkg/pubsub/postgres (subscription.start and process, with retries) and  *)
(* the handler they run, Service.EmbedSnapshotContent.                     *)
(***************************************************************************)
EXTENDS SchemaRefresh

CONSTANTS
    InstanceOf, \* InstanceOf[w]: the application instance worker w runs on
    MaxRetries  \* EmbeddingMaxRetries: retries after the first attempt

ASSUME EmbeddingAssumption ==
    /\ InstanceOf \in [Workers -> Instances]
    /\ MaxRetries \in Nat

VARIABLE worker \* local state of each worker

WorkerPC == {"idle", "find", "lock", "load", "mark", "embed", "replace", "complete",
             "fail", "unlock"}

\* id: snapshot of the event; snap: its row as read by ListSnapshots; attempt:
\* index of the attempt; retry: RetryCount of the PROCESSING job; ok: the
\* attempt succeeded.
WorkerState == [pc      : WorkerPC,
                id      : SnapshotIds \cup {0},
                snap    : Snapshot \cup {NoSnapshot},
                attempt : 0 .. MaxRetries,
                retry   : Nat,
                ok      : BOOLEAN]

WorkerTypeOK == worker \in [Workers -> WorkerState]

IdleWorker == [pc |-> "idle", id |-> 0, snap |-> NoSnapshot, attempt |-> 0,
               retry |-> 0, ok |-> FALSE]

\* The handler is called for snapshot i, for the a-th time after the first.
Attempt(i, a) == [pc |-> "find", id |-> i, snap |-> NoSnapshot, attempt |-> a,
                  retry |-> 0, ok |-> FALSE]

WorkerInit == worker = [w \in Workers |-> IdleWorker]

-----------------------------------------------------------------------------
\* Control flow of a worker.

WorkerGoto(w, pc) == worker' = [worker EXCEPT ![w].pc = pc]

\* Mutants of EndAttempt: one retry too many, and no retry at all.
EndAttemptLate(w, ok) ==
    worker' = [worker EXCEPT ![w] =
        IF ok \/ worker[w].attempt > MaxRetries
        THEN IdleWorker
        ELSE Attempt(worker[w].id, worker[w].attempt + 1)]

DropMessage(w, ok) == worker' = [worker EXCEPT ![w] = IdleWorker]

\* The handler returned: process() stops on success and after MaxRetries
\* retries, when the message is dropped; otherwise it backs off and calls the
\* handler again.
EndAttempt(w, ok) ==
    worker' = [worker EXCEPT ![w] =
        IF ok \/ worker[w].attempt = MaxRetries
        THEN IdleWorker
        ELSE Attempt(worker[w].id, worker[w].attempt + 1)]

\* Mutants of Abort: an early return above the deferred Unlock, and a FAILED row
\* that is not written.
AbortWithoutUnlock(w) ==
    IF worker[w].pc \in {"find", "lock", "load", "mark"}
    THEN worker' = [worker EXCEPT ![w] = IdleWorker]
    ELSE WorkerGoto(w, IF worker[w].pc = "fail" THEN "unlock" ELSE "fail")

AbortWithoutRecord(w) ==
    IF worker[w].pc \in {"find", "lock"}
    THEN worker' = [worker EXCEPT ![w] = IdleWorker]
    ELSE WorkerGoto(w, "unlock")

\* Where the handler continues when the call made at this point fails: before
\* the lock it just returns; before the PROCESSING row is written it only
\* unlocks; after it, it also records the failure.
Abort(w) ==
    CASE worker[w].pc \in {"find", "lock"}                 -> EndAttempt(w, FALSE)
      [] worker[w].pc \in {"load", "mark", "fail"}         -> WorkerGoto(w, "unlock")
      [] worker[w].pc \in {"embed", "replace", "complete"} -> WorkerGoto(w, "fail")

-----------------------------------------------------------------------------
\* Steps of a worker.

TakeEvent(w) ==
    /\ worker[w].pc = "idle"
    /\ \E i \in SnapshotIds :
          /\ Receive(InstanceOf[w], i)
          /\ worker' = [worker EXCEPT ![w] = Attempt(i, 0)]
    /\ UNCHANGED <<storeVars, locks, refresher, faults>>

\* ListSnapshots by id, before the lock is taken.
FindSnapshot(w) ==
    LET i == worker[w].id IN
    /\ worker[w].pc = "find"
    /\ \/ /\ Exists(i)
          /\ worker' = [worker EXCEPT ![w].pc = "lock", ![w].snap = snapshots[i]]
       \/ /\ ~Exists(i)
          /\ Abort(w)
    /\ UNCHANGED <<storeVars, eventVars, locks, refresher, faults>>

\* Mutant: the handler goes on without the lock.
SkipEmbedLock(w) ==
    /\ worker[w].pc = "lock"
    /\ WorkerGoto(w, "load")
    /\ UNCHANGED <<storeVars, eventVars, locks, refresher, faults>>

AcquireEmbedLock(w) ==
    /\ worker[w].pc = "lock"
    /\ Lock!Acquire(w, EmbedKey(worker[w].snap.conn))
    /\ WorkerGoto(w, "load")
    /\ UNCHANGED <<storeVars, eventVars, refresher, faults>>

\* Mutant of LoadJob: the retry count of an earlier attempt is not carried over.
ForgetRetries(w) ==
    /\ worker[w].pc = "load"
    /\ WorkerGoto(w, "mark")
    /\ UNCHANGED <<storeVars, eventVars, locks, refresher, faults>>

\* GetEmbeddingJob; a missing row counts as zero retries.
LoadJob(w) ==
    /\ worker[w].pc = "load"
    /\ worker' = [worker EXCEPT ![w].pc = "mark", ![w].retry = jobs[worker[w].id].retry]
    /\ UNCHANGED <<storeVars, eventVars, locks, refresher, faults>>

MarkProcessing(w) ==
    LET i == worker[w].id IN
    /\ worker[w].pc = "mark"
    /\ \/ /\ UpsertEmbeddingJob(i, "PROCESSING", worker[w].retry)
          /\ WorkerGoto(w, "embed")
       \/ /\ ~Exists(i)
          /\ Abort(w)
          /\ UNCHANGED storeVars
    /\ UNCHANGED <<eventVars, locks, refresher, faults>>

\* Mutant of EmbedChunks: COMPLETED is written before the chunks are stored.
CompleteEarly(w) ==
    /\ worker[w].pc = "embed"
    /\ WorkerGoto(w, "complete")
    /\ UNCHANGED <<storeVars, eventVars, locks, refresher, faults>>

\* Render the chunks and have the model embed them, batch by batch.
EmbedChunks(w) ==
    /\ worker[w].pc = "embed"
    /\ WorkerGoto(w, "replace")
    /\ UNCHANGED <<storeVars, eventVars, locks, refresher, faults>>

\* Mutant of StoreChunks: the delete and the inserts are two transactions.
StoreChunksInTwoSteps(w) ==
    LET i == worker[w].id IN
    /\ worker[w].pc = "replace"
    /\ \/ /\ chunks[i] # {}
          /\ ReplaceChunks(i, {})
          /\ UNCHANGED worker
       \/ /\ chunks[i] = {}
          /\ ReplaceChunks(i, ChunksOf[worker[w].snap.hash])
          /\ WorkerGoto(w, "complete")
    /\ UNCHANGED <<eventVars, locks, refresher, faults>>

\* ReplaceChunks with the chunks rendered from the row FindSnapshot read.
StoreChunks(w) ==
    LET i == worker[w].id
        rows == ChunksOf[worker[w].snap.hash] IN
    /\ worker[w].pc = "replace"
    /\ \/ /\ ReplaceChunks(i, rows)
          /\ WorkerGoto(w, "complete")
       \/ /\ ~Exists(i) /\ rows # {}
          /\ Abort(w)
          /\ UNCHANGED storeVars
    /\ UNCHANGED <<eventVars, locks, refresher, faults>>

MarkCompleted(w) ==
    LET i == worker[w].id IN
    /\ worker[w].pc = "complete"
    /\ \/ /\ UpsertEmbeddingJob(i, "COMPLETED", worker[w].retry)
          /\ worker' = [worker EXCEPT ![w].pc = "unlock", ![w].ok = TRUE]
       \/ /\ ~Exists(i)
          /\ Abort(w)
          /\ UNCHANGED storeVars
    /\ UNCHANGED <<eventVars, locks, refresher, faults>>

\* The deferred FAILED row, written before the lock is released because the
\* Unlock was deferred first.
MarkFailed(w) ==
    LET i == worker[w].id IN
    /\ worker[w].pc = "fail"
    /\ \/ UpsertEmbeddingJob(i, "FAILED", worker[w].retry + 1)
       \/ ~Exists(i) /\ UNCHANGED storeVars
    /\ WorkerGoto(w, "unlock")
    /\ UNCHANGED <<eventVars, locks, refresher, faults>>

ReleaseEmbedLock(w) ==
    /\ worker[w].pc = "unlock"
    /\ Lock!Release(w, EmbedKey(worker[w].snap.conn))
    /\ EndAttempt(w, worker[w].ok)
    /\ UNCHANGED <<storeVars, eventVars, refresher, faults>>

\* A call the handler makes returns an error: a query, the lock, or the
\* embedding model.
FailWorker(w) ==
    /\ Fault("worker")
    /\ worker[w].pc \notin {"idle", "fail", "unlock"}
    /\ Abort(w)
    /\ UNCHANGED <<storeVars, eventVars, locks, refresher>>

\* The upsert of the FAILED row itself returns an error.
FailReport(w) ==
    /\ Fault("report")
    /\ worker[w].pc = "fail"
    /\ Abort(w)
    /\ UNCHANGED <<storeVars, eventVars, locks, refresher>>

\* The process of instance n dies and restarts: its workers, its queue and its
\* database sessions are gone, and with them the locks they held.
CrashInstance(n) ==
    LET dead == {w \in Workers : InstanceOf[w] = n} IN
    /\ Fault("crash")
    /\ worker' = [w \in Workers |-> IF w \in dead THEN IdleWorker ELSE worker[w]]
    /\ Lock!EndSessions(dead)
    /\ Restart(n)
    /\ UNCHANGED <<storeVars, refresher>>

WorkerStep(w) ==
    \/ TakeEvent(w)
    \/ FindSnapshot(w)
    \/ AcquireEmbedLock(w)
    \/ LoadJob(w)
    \/ MarkProcessing(w)
    \/ EmbedChunks(w)
    \/ StoreChunks(w)
    \/ MarkCompleted(w)
    \/ MarkFailed(w)
    \/ ReleaseEmbedLock(w)

EmbeddingNext ==
    \/ \E w \in Workers : WorkerStep(w) \/ FailWorker(w) \/ FailReport(w)
    \/ \E n \in Instances : CrashInstance(n)

\* w holds the embedding lock of the connection it works for.
Holding(w) == worker[w].pc \notin {"idle", "find", "lock"}

\* w has announced its work in the job row and not yet concluded it.
InFlight(w) == worker[w].pc \in {"embed", "replace", "complete", "fail"}
====
