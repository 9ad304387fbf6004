---- MODULE AdvisoryLock ----
(***************************************************************************)
(* pkg/distlock/postgres: DistributedLocker over Postgres session-level    *)
(* advisory locks.  A call of Lock checks a database session out of the    *)
(* pool of its process and takes the keys one by one in it; Unlock gives   *)
(* them back and returns the session to the pool.                          *)
(*                                                                         *)
(* Keys are numbers: their order is the lexicographic order of resources,  *)
(* and two resources never share an advisory key (64-bit FNV-1a).          *)
(***************************************************************************)
EXTENDS Integers, Sequences, FiniteSets, Faults

CONSTANTS
    Clients,        \* goroutines calling Lock
    Sessions,       \* database sessions
    NoSession,      \* conn of a client that has none
    Pool,           \* Pool[c]: sessions the process of c may open
    Keys,           \* resources
    Requests,       \* arguments of Lock: [keys, wait]
    Nobody,         \* owner of a key no client has acquired
    MaxReentry      \* bound: requests stop once a session has a key this often

ASSUME LockAssumption ==
    /\ Keys \subseteq Int
    /\ Requests \subseteq [keys : Seq(Keys), wait : BOOLEAN]
    /\ Pool \in [Clients -> SUBSET Sessions]
    /\ NoSession \notin Sessions
    /\ Nobody \notin Clients
    /\ MaxReentry \in Nat

VARIABLES
    session,    \* session[s]: not open, in the pool, or checked out
    held,       \* held[s][k]: how often session s has locked key k
    client      \* local state of each caller

vars == <<session, held, client, faults>>

\* keys: the resources argument, normalized; got: how many of them are locked; conn: the session, NoSession once it is lost.  left is a
\* history variable: what the session had locked already when it was checked out.
ClientState == [pc    : {"idle", "connect", "acquire", "holding", "unlock"},
                keys  : Seq(Keys),
                got   : Nat,
                wait  : BOOLEAN,
                conn  : Sessions \cup {NoSession},
                left  : [Keys -> Nat]]

NoLocks == [k \in Keys |-> 0]

IdleClient == [pc |-> "idle", keys |-> <<>>, got |-> 0, wait |-> FALSE,
               conn |-> NoSession, left |-> NoLocks]

\* A busy session belongs to one client.
TypeOK ==
    /\ session \in [Sessions -> {"closed", "idle", "busy"}]
    /\ held \in [Sessions -> [Keys -> Nat]]
    /\ client \in [Clients -> ClientState]
    /\ \A c \in Clients : client[c].got <= Len(client[c].keys)
    /\ \A c \in Clients : client[c].conn # NoSession =>
          /\ session[client[c].conn] = "busy"
          /\ \A d \in Clients : client[d].conn = client[c].conn => d = c
    /\ FaultsTypeOK

Init ==
    /\ session = [s \in Sessions |-> "closed"]
    /\ held = [s \in Sessions |-> NoLocks]
    /\ client = [c \in Clients |-> IdleClient]
    /\ FaultsInit

-----------------------------------------------------------------------------
\* Pure parts.

Elements(s) == {s[i] : i \in DOMAIN s}

\* Mutant of Normalized: the keys keep the order of the argument.
NormalizedUnsorted(rs, ks) == ks = SubSeq(rs, 1, Cardinality(Elements(rs)))

\* ks is normalizeResources(rs): a slice as long as the SET of resources, filled
\* with the first elements of the argument, sorted.
Normalized(rs, ks) ==
    LET n == Cardinality(Elements(rs)) IN
    /\ ks \in [1 .. n -> Keys]
    /\ \A i, j \in 1 .. n : i < j => ks[i] <= ks[j]
    /\ \A k \in Keys : Cardinality({i \in 1 .. n : ks[i] = k})
                         = Cardinality({i \in 1 .. n : rs[i] = k})

\* Key of the next pg_advisory_lock, and of the next pg_advisory_unlock.
NextKey(c) == client[c].keys[client[c].got + 1]
LastKey(c) == client[c].keys[client[c].got]

\* Postgres grants k to session s unless another session has it; a session may
\* lock the same key several times.
Grantable(s, k) == \A t \in Sessions \ {s} : held[t][k] = 0

\* conn.Close(): the session goes back to the pool as it is, locks included.
ReturnToPool(s) ==
    /\ session' = [session EXCEPT ![s] = "idle"]
    /\ UNCHANGED held

\* The session ends; Postgres frees all its locks.
Close(s) ==
    /\ session' = [session EXCEPT ![s] = "closed"]
    /\ held' = [held EXCEPT ![s] = NoLocks]

\* The session of c ends, if it has one.
EndSession(c) ==
    IF client[c].conn = NoSession THEN UNCHANGED <<session, held>> ELSE Close(client[c].conn)

-----------------------------------------------------------------------------
\* Lock.

\* An empty list of resources needs no lock and is not modelled.
Request(c) ==
    /\ client[c].pc = "idle"
    /\ \A s \in Sessions, k \in Keys : held[s][k] < MaxReentry
    /\ \E req \in Requests :
         \E ks \in [1 .. Cardinality(Elements(req.keys)) -> Keys] :
            /\ req.keys # <<>>
            /\ Normalized(req.keys, ks)
            /\ client' = [client EXCEPT ![c] =
                  [pc |-> "connect", keys |-> ks, got |-> 0,
                   wait |-> req.wait, conn |-> NoSession, left |-> NoLocks]]
    /\ UNCHANGED <<session, held, faults>>

\* Mutant of Connect: the pool hands out a session that is in use.
ConnectShared(c) ==
    /\ client[c].pc = "connect"
    /\ \E s \in Pool[c] :
          /\ session' = [session EXCEPT ![s] = "busy"]
          /\ client' = [client EXCEPT ![c].pc = "acquire", ![c].conn = s, ![c].left = held[s]]
    /\ UNCHANGED <<held, faults>>

\* db.Conn: a pooled session, or a new one; other queries of the process may
\* have any pooled session in use at this moment.
Connect(c) ==
    /\ client[c].pc = "connect"
    /\ \E s \in Pool[c] :
          /\ session[s] # "busy"
          /\ session' = [session EXCEPT ![s] = "busy"]
          /\ client' = [client EXCEPT ![c].pc = "acquire", ![c].conn = s, ![c].left = held[s]]
    /\ UNCHANGED <<held, faults>>

\* Mutant of LockKey: the grant looks only at the calling session.
LockKeyBlindly(c) ==
    LET s == client[c].conn IN
    /\ client[c].pc = "acquire"
    /\ s # NoSession
    /\ held' = [held EXCEPT ![s][NextKey(c)] = @ + 1]
    /\ client' = [client EXCEPT
          ![c].pc = IF client[c].got + 1 = Len(client[c].keys) THEN "holding" ELSE "acquire",
          ![c].got = client[c].got + 1]
    /\ UNCHANGED <<session, faults>>

\* pg_advisory_lock, or a pg_try_advisory_lock that succeeds.
LockKey(c) ==
    LET s == client[c].conn IN
    /\ client[c].pc = "acquire"
    /\ s # NoSession
    /\ Grantable(s, NextKey(c))
    /\ held' = [held EXCEPT ![s][NextKey(c)] = @ + 1]
    /\ client' = [client EXCEPT
          ![c].pc = IF client[c].got + 1 = Len(client[c].keys) THEN "holding" ELSE "acquire",
          ![c].got = client[c].got + 1]
    /\ UNCHANGED <<session, faults>>

\* Mutant of TryLockFails: poll until the key is free.
TryLockAgain(c) ==
    LET s == client[c].conn IN
    /\ client[c].pc = "acquire"
    /\ s # NoSession
    /\ ~client[c].wait
    /\ ~Grantable(s, NextKey(c))
    /\ UNCHANGED vars

\* ErrFailedToAcquireLock: the connection is closed with whatever it has locked.
TryLockFails(c) ==
    LET s == client[c].conn IN
    /\ client[c].pc = "acquire"
    /\ s # NoSession
    /\ ~client[c].wait
    /\ ~Grantable(s, NextKey(c))
    /\ ReturnToPool(s)
    /\ client' = [client EXCEPT ![c] = IdleClient]
    /\ UNCHANGED faults

\* The clients of S wait for one another's sessions.
Deadlocked(S) ==
    /\ S # {}
    /\ \A c \in S :
          /\ client[c].pc = "acquire"
          /\ client[c].conn # NoSession
          /\ client[c].wait
          /\ \E d \in S \ {c} :
                client[d].conn # NoSession /\ held[client[d].conn][NextKey(c)] > 0

\* Postgres' deadlock detector fails one of the calls: an error like any other.
BreakDeadlock(c) ==
    /\ \E S \in SUBSET Clients : c \in S /\ Deadlocked(S)
    /\ ReturnToPool(client[c].conn)
    /\ client' = [client EXCEPT ![c] = IdleClient]
    /\ UNCHANGED faults

\* The context of the call ends: lib/pq cancels the query and drops the
\* connection as bad.
CancelLock(c) ==
    /\ Fault("cancel")
    /\ client[c].pc \in {"connect", "acquire"}
    /\ EndSession(c)
    /\ client' = [client EXCEPT ![c] = IdleClient]

-----------------------------------------------------------------------------
\* Unlock.

StartUnlock(c) ==
    /\ client[c].pc = "holding"
    /\ client' = [client EXCEPT ![c].pc = "unlock"]
    /\ UNCHANGED <<session, held, faults>>

\* Mutant of UnlockKey: the loop stops before the last key.
UnlockAllButOne(c) ==
    LET s == client[c].conn IN
    /\ client[c].pc = "unlock"
    /\ s # NoSession
    /\ client[c].got > 0
    /\ held' = IF client[c].got = 1 THEN held ELSE [held EXCEPT ![s][LastKey(c)] = @ - 1]
    /\ client' = [client EXCEPT ![c].got = client[c].got - 1]
    /\ UNCHANGED <<session, faults>>

\* pg_advisory_unlock, in reverse order.
UnlockKey(c) ==
    LET s == client[c].conn IN
    /\ client[c].pc = "unlock"
    /\ s # NoSession
    /\ client[c].got > 0
    /\ held' = [held EXCEPT ![s][LastKey(c)] = IF @ > 0 THEN @ - 1 ELSE 0]
    /\ client' = [client EXCEPT ![c].got = client[c].got - 1]
    /\ UNCHANGED <<session, faults>>

FinishUnlock(c) ==
    /\ client[c].pc = "unlock"
    /\ client[c].conn # NoSession
    /\ client[c].got = 0
    /\ ReturnToPool(client[c].conn)
    /\ client' = [client EXCEPT ![c] = IdleClient]
    /\ UNCHANGED faults

\* UncheckedUnlock, "only in emergencies": it skips the unlock statements and
\* closes the connection.
UncheckedUnlock(c) ==
    /\ Fault("unchecked")
    /\ client[c].pc = "holding"
    /\ IF client[c].conn = NoSession
       THEN UNCHANGED <<session, held>>
       ELSE ReturnToPool(client[c].conn)
    /\ client' = [client EXCEPT ![c] = IdleClient]

\* The session is gone: the next statement on it fails, and the call returns.
NoticeLostSession(c) ==
    /\ client[c].conn = NoSession
    /\ client[c].pc \in {"acquire", "unlock"}
    /\ client' = [client EXCEPT ![c] = IdleClient]
    /\ UNCHANGED <<session, held, faults>>

-----------------------------------------------------------------------------
\* Sessions.

\* The server or the network ends a session in use; its client does not know.
LoseSession(c) ==
    /\ Fault("session")
    /\ client[c].conn # NoSession
    /\ Close(client[c].conn)
    /\ client' = [client EXCEPT ![c].conn = NoSession]

\* The process of c dies in the middle of a call, or holding the lock.
Crash(c) ==
    /\ Fault("crash")
    /\ client[c].pc # "idle"
    /\ EndSession(c)
    /\ client' = [client EXCEPT ![c] = IdleClient]

\* The pool closes an idle session: SetConnMaxLifetime, or too many idle ones.
Expire(s) ==
    /\ session[s] = "idle"
    /\ Close(s)
    /\ UNCHANGED <<client, faults>>

LockStep(c) == Connect(c) \/ LockKey(c) \/ TryLockFails(c) \/ BreakDeadlock(c)

UnlockStep(c) ==
    \/ StartUnlock(c)
    \/ UnlockKey(c)
    \/ FinishUnlock(c)
    \/ NoticeLostSession(c)

Next ==
    \/ \E c \in Clients : Request(c) \/ LockStep(c) \/ UnlockStep(c)
    \/ \E c \in Clients : CancelLock(c) \/ UncheckedUnlock(c) \/ LoseSession(c) \/ Crash(c)
    \/ \E s \in Sessions : Expire(s)

Spec == Init /\ [][Next]_vars

\* Callers keep running and leave their critical sections; database/sql serves
\* those who wait for a connection in order, and Postgres those who wait for a
\* key; an idle session is closed once it is older than the pool's limit.
Fairness ==
    /\ \A c \in Clients :
          /\ WF_vars(LockStep(c))
          /\ SF_vars(Connect(c))
          /\ SF_vars(LockKey(c))
          /\ WF_vars(UnlockStep(c))
    /\ \A s \in Sessions : SF_vars(Expire(s))

FairSpec == Spec /\ Fairness

-----------------------------------------------------------------------------

\* How often the call of c has locked k and not yet unlocked it.
Count(c, k) == Cardinality({i \in 1 .. client[c].got : client[c].keys[i] = k})

\* The keys c has locked, in a session that is alive.
Acquired(c) == IF client[c].conn = NoSession THEN {} ELSE {k \in Keys : Count(c, k) > 0}

\* What a session in the pool still has locked has no owner any more.
Owner == [k \in Keys |-> IF \E c \in Clients : k \in Acquired(c)
                         THEN CHOOSE c \in Clients : k \in Acquired(c)
                         ELSE Nobody]

\* What pkg/distlock promises: at most one owner per key.
Lock == INSTANCE ResourceLock WITH Owners <- Clients, owner <- Owner

\* Every step of the locker acquires a free key, releases one's own, or ends the
\* ownership of a client altogether (a failed or unchecked call, a lost session).
ImplementsResourceLock == Lock!Spec

\* The session of a client has locked what it had when it was checked out and
\* what this call has locked, neither more nor less: Unlock gives everything of
\* its own back, never what a leaked lock has added, and never finds a key "not
\* locked by this session" unless the session was lost.
SessionBalanced ==
    \A c \in Clients : client[c].conn # NoSession =>
        \A k \in Keys : held[client[c].conn][k] = client[c].left[k] + Count(c, k)

\* "Sort resources lexicographically to enforce lock ordering and prevent
\* deadlocks": clients whose sessions were clean never wait for one another,
\* whatever the order and the repetitions of their arguments.
NoDeadlock ==
    \A S \in SUBSET Clients :
        (\A c \in S : client[c].left = NoLocks) => ~Deadlocked(S)

\* Every call of Lock ends, with the lock or without: connections come back to
\* the pool, leaked locks go away with their sessions, deadlocks are broken.
EveryLockReturns ==
    \A c \in Clients : client[c].pc = "connect" ~> client[c].pc \in {"holding", "idle"}
====
