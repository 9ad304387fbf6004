---- MODULE AdvisoryLock_proofs ----
(***************************************************************************)
(* Proofs about AdvisoryLock, for any number of callers, sessions, keys    *)
(* and failures: how often a session has locked a key, why sorted requests *)
(* do not deadlock, and that the locker keeps the promise of ResourceLock. *)
(***************************************************************************)
EXTENDS AdvisoryLock, FiniteSetTheorems, TLAPS

\* Where a call stands: without a session it has locked nothing, it asks only
\* for keys it still lacks, and it asks for them in ascending order.
Progress(c) ==
    LET x == client[c] IN
    /\ x.pc \in {"idle", "connect"} => x.conn = NoSession /\ x.got = 0
    /\ x.pc \in {"connect", "acquire"} => x.got < Len(x.keys)
    /\ \A i, j \in 1 .. Len(x.keys) : i < j => x.keys[i] <= x.keys[j]

\* The exclusive mode of the server: a key is locked by one session.
OneHolder ==
    \A s, t \in Sessions, k \in Keys : held[s][k] > 0 /\ held[t][k] > 0 => s = t

\* At any time finitely many calls are under way.
FinitelyManyCalls == IsFiniteSet({c \in Clients : client[c].pc # "idle"})

\* What is left and what the call itself has locked add up.
Balanced(c) ==
    client[c].conn # NoSession =>
        \A k \in Keys : held[client[c].conn][k] = client[c].left[k] + Count(c, k)

LockInv ==
    /\ TypeOK
    /\ \A c \in Clients : Progress(c) /\ Balanced(c)
    /\ OneHolder
    /\ FinitelyManyCalls

-----------------------------------------------------------------------------
\* Counting keys.

LEMMA IdleClientOK == IdleClient \in ClientState /\ NoLocks \in [Keys -> Nat]
BY DEF IdleClient, ClientState, NoLocks

\* How often k is among the first n elements of f.
Occurrences(f, n, k) == Cardinality({i \in 1 .. n : f[i] = k})

LEMMA CountType ==
    ASSUME NEW n \in Nat, NEW f, NEW k
    PROVE  /\ IsFiniteSet({i \in 1 .. n : f[i] = k})
           /\ Occurrences(f, n, k) \in Nat
           /\ Occurrences(f, n, k) = 0 <=> \A i \in 1 .. n : f[i] # k
<1> DEFINE S == {i \in 1 .. n : f[i] = k}
<1>1. IsFiniteSet(1 .. n)
  BY FS_Interval
<1>2. IsFiniteSet(S)
  BY <1>1, FS_Subset
<1>3. Cardinality(S) \in Nat
  BY <1>2, FS_CardinalityType
<1>4. Cardinality(S) = 0 <=> S = {}
  BY <1>2, FS_EmptySet
<1> QED
  BY <1>2, <1>3, <1>4 DEF Occurrences

LEMMA CountedOccurs ==
    ASSUME NEW n \in Nat, NEW f, NEW k, Occurrences(f, n, k) # 0
    PROVE  \E i \in 1 .. n : f[i] = k
BY CountType

\* One element more counts once for its key and not at all for the others.
LEMMA CountNext ==
    ASSUME NEW n \in Nat, NEW f, NEW k
    PROVE  Occurrences(f, n + 1, k) = Occurrences(f, n, k) + IF f[n + 1] = k THEN 1 ELSE 0
<1> DEFINE S == {i \in 1 .. n : f[i] = k}
           T == {i \in 1 .. n + 1 : f[i] = k}
<1>1. IsFiniteSet(S) /\ Cardinality(S) \in Nat
  BY CountType DEF Occurrences
<1>2. CASE f[n + 1] = k
  <2>1. T = S \cup {n + 1} /\ n + 1 \notin S
    BY <1>2
  <2> QED
    BY <1>1, <1>2, <2>1, FS_AddElement DEF Occurrences
<1>3. CASE f[n + 1] # k
  <2>1. T = S
    BY <1>3
  <2> QED
    BY <1>1, <1>3, <2>1 DEF Occurrences
<1> QED
  BY <1>2, <1>3

\* What a request turns into: as many keys as it names, in ascending order.
LEMMA NormalizedType ==
    ASSUME NEW rs \in Seq(Keys), rs # <<>>,
           NEW ks \in [1 .. Cardinality(Elements(rs)) -> Keys], Normalized(rs, ks)
    PROVE  /\ ks \in Seq(Keys) /\ 0 < Len(ks)
           /\ \A i, j \in 1 .. Len(ks) : i < j => ks[i] <= ks[j]
<1> DEFINE n == Cardinality(Elements(rs))
<1>1. IsFiniteSet(DOMAIN rs) /\ 1 \in DOMAIN rs
  <2>1. Len(rs) \in Nat /\ DOMAIN rs = 1 .. Len(rs) /\ Len(rs) # 0
    OBVIOUS
  <2> QED
    BY <2>1, FS_Interval
<1>2. rs \in Surjection(DOMAIN rs, Elements(rs))
  BY DEF Surjection, Elements
<1>3. IsFiniteSet(Elements(rs))
  BY <1>1, <1>2, FS_Surjection
<1>4. n \in Nat
  BY <1>3, FS_CardinalityType
<1>5. rs[1] \in Elements(rs)
  BY <1>1 DEF Elements
<1>6. n # 0
  BY <1>3, <1>5, FS_EmptySet
<1>7. ks \in Seq(Keys) /\ Len(ks) = n
  BY <1>4
<1> QED
  BY <1>4, <1>6, <1>7 DEF Normalized

-----------------------------------------------------------------------------
\* What a step means for the calls and sessions it does not name.

LEMMA InitLockInv == Init => LockInv
<1> SUFFICES ASSUME Init PROVE LockInv
  OBVIOUS
<1>1. \A c \in Clients : client[c] = IdleClient
  BY DEF Init
<1>2. TypeOK
  BY <1>1, IdleClientOK, FaultsAssumption DEF Init, TypeOK, FaultsInit, FaultsTypeOK, IdleClient
<1>3. OneHolder
  BY DEF Init, OneHolder, NoLocks
<1>4. \A c \in Clients : Progress(c) /\ Balanced(c)
  BY <1>1 DEF Progress, Balanced, IdleClient
<1>5. {c \in Clients : client[c].pc # "idle"} = {}
  BY <1>1 DEF IdleClient
<1> QED
  BY <1>2, <1>3, <1>4, <1>5, FS_EmptySet DEF LockInv, FinitelyManyCalls

\* At most one call begins in a step.
LEMMA CallsStayFinite ==
    ASSUME FinitelyManyCalls, NEW c \in Clients,
           \A d \in Clients : d # c => client'[d] = client[d]
    PROVE  FinitelyManyCalls'
<1> DEFINE A == {d \in Clients : client[d].pc # "idle"}
           B == {d \in Clients : client'[d].pc # "idle"}
<1>1. IsFiniteSet(A \cup {c})
  BY FS_AddElement DEF FinitelyManyCalls
<1>2. B \in SUBSET (A \cup {c})
  OBVIOUS
<1>3. IsFiniteSet(B)
  BY <1>1, <1>2, FS_Subset
<1> QED
  BY <1>3 DEF FinitelyManyCalls

\* A call whose locals and whose session's locks a step leaves alone.
LEMMA CallKept ==
    ASSUME NEW d \in Clients, Progress(d), Balanced(d), client'[d] = client[d],
           client[d].conn # NoSession => held'[client[d].conn] = held[client[d].conn]
    PROVE  Progress(d)' /\ Balanced(d)'
<1>1. \A k : Count(d, k)' = Count(d, k)
  BY DEF Count
<1> QED
  BY <1>1 DEF Progress, Balanced

\* A step that locks nothing.
LEMMA HoldersShrink ==
    ASSUME OneHolder,
           \A t \in Sessions, k \in Keys : held'[t][k] > 0 => held[t][k] > 0
    PROVE  OneHolder'
BY DEF OneHolder

LEMMA LocalFacts ==
    ASSUME LockInv, NEW c \in Clients
    PROVE  /\ session \in [Sessions -> {"closed", "idle", "busy"}]
           /\ held \in [Sessions -> [Keys -> Nat]]
           /\ client \in [Clients -> ClientState] /\ client[c] \in ClientState
           /\ client[c].keys \in Seq(Keys) /\ client[c].got \in Nat
           /\ Len(client[c].keys) \in Nat /\ client[c].got <= Len(client[c].keys)
           /\ client[c].conn # NoSession => client[c].conn \in Sessions
           /\ Progress(c) /\ Balanced(c)
           /\ \A d \in Clients : d # c /\ client[d].conn # NoSession =>
                 client[d].conn \in Sessions /\ client[d].conn # client[c].conn
BY DEF LockInv, TypeOK, ClientState

-----------------------------------------------------------------------------
\* The ways a call ends.

\* The call of c returns; its session, if it still has one, goes back to the
\* pool or ends.
CallEnds(c) ==
    /\ client' = [client EXCEPT ![c] = IdleClient]
    /\ \/ UNCHANGED <<session, held>> /\ client[c].conn = NoSession
       \/ ReturnToPool(client[c].conn) /\ client[c].conn # NoSession
       \/ Close(client[c].conn) /\ client[c].conn # NoSession

LEMMA EndingSteps ==
    ASSUME NEW c \in Clients,
           \/ TryLockFails(c)
           \/ BreakDeadlock(c)
           \/ CancelLock(c)
           \/ FinishUnlock(c)
           \/ UncheckedUnlock(c)
           \/ NoticeLostSession(c)
           \/ Crash(c)
    PROVE  CallEnds(c)
BY DEF CallEnds, TryLockFails, BreakDeadlock, Deadlocked, CancelLock, FinishUnlock,
       UncheckedUnlock, NoticeLostSession, Crash, EndSession

LEMMA CallEndsInv ==
    ASSUME LockInv, NEW c \in Clients, CallEnds(c), FaultsTypeOK'
    PROVE  LockInv'
<1> DEFINE s == client[c].conn
<1>1. /\ session \in [Sessions -> {"closed", "idle", "busy"}]
      /\ held \in [Sessions -> [Keys -> Nat]]
      /\ client \in [Clients -> ClientState]
      /\ s # NoSession => s \in Sessions
      /\ client'[c] = IdleClient
      /\ \A d \in Clients : d # c => client'[d] = client[d]
      /\ \A d \in Clients : d # c /\ client[d].conn # NoSession =>
            client[d].conn \in Sessions /\ client[d].conn # s
  BY LocalFacts DEF CallEnds
<1>2. /\ session' \in [Sessions -> {"closed", "idle", "busy"}]
      /\ held' \in [Sessions -> [Keys -> Nat]]
      /\ \A t \in Sessions : t # s => session'[t] = session[t] /\ held'[t] = held[t]
      /\ \A t \in Sessions : held'[t] = held[t] \/ held'[t] = NoLocks
  <2>1. CASE UNCHANGED <<session, held>>
    BY <1>1, <2>1
  <2>2. CASE s \in Sessions /\ ReturnToPool(s)
    BY <1>1, <2>2 DEF ReturnToPool
  <2>3. CASE s \in Sessions /\ Close(s)
    <3>1. session' = [session EXCEPT ![s] = "closed"] /\ held' = [held EXCEPT ![s] = NoLocks]
      BY <2>3 DEF Close
    <3> QED
      BY <1>1, <2>3, <3>1, IdleClientOK
  <2> QED
    BY <1>1, <2>1, <2>2, <2>3 DEF CallEnds
<1>3. TypeOK'
  <2>1. client' \in [Clients -> ClientState]
    BY <1>1, IdleClientOK DEF CallEnds
  <2>2. \A d \in Clients : client'[d].got <= Len(client'[d].keys)
    BY <1>1 DEF LockInv, TypeOK, IdleClient
  <2>3. ASSUME NEW d \in Clients, client'[d].conn # NoSession
        PROVE  /\ session'[client'[d].conn] = "busy"
               /\ \A e \in Clients : client'[e].conn = client'[d].conn => e = d
    <3>1. d # c /\ client'[d] = client[d]
      BY <1>1, <2>3 DEF IdleClient
    <3>2. /\ session[client[d].conn] = "busy" /\ client[d].conn \in Sessions
          /\ client[d].conn # s
      BY <1>1, <2>3, <3>1 DEF LockInv, TypeOK
    <3>3. \A e \in Clients : client[e].conn = client[d].conn => e = d
      BY <2>3, <3>1 DEF LockInv, TypeOK
    <3>4. session'[client'[d].conn] = "busy"
      BY <1>2, <3>1, <3>2
    <3>5. ASSUME NEW e \in Clients, client'[e].conn = client'[d].conn PROVE e = d
      <4>1. e # c
        BY <1>1, <2>3, <3>5 DEF IdleClient
      <4> QED
        BY <1>1, <3>1, <3>3, <3>5, <4>1
    <3> QED
      BY <3>4, <3>5
  <2> QED
    BY <1>2, <2>1, <2>2, <2>3 DEF TypeOK
<1>4. \A d \in Clients : Progress(d)' /\ Balanced(d)'
  <2>1. Progress(c)' /\ Balanced(c)'
    BY <1>1 DEF Progress, Balanced, IdleClient
  <2>2. ASSUME NEW d \in Clients, d # c PROVE Progress(d)' /\ Balanced(d)'
    BY <1>1, <1>2, <2>2, CallKept DEF LockInv
  <2> QED
    BY <2>1, <2>2
<1>5. OneHolder'
  <2>1. ASSUME NEW u \in Sessions, NEW k \in Keys, held'[u][k] > 0 PROVE held[u][k] > 0
    <3>1. NoLocks[k] = 0
      BY DEF NoLocks
    <3> QED
      BY <1>2, <2>1, <3>1
  <2> QED
    BY <2>1, HoldersShrink DEF LockInv
<1>6. FinitelyManyCalls'
  BY <1>1, CallsStayFinite DEF LockInv
<1> QED
  BY <1>3, <1>4, <1>5, <1>6 DEF LockInv

LEMMA LoseSessionInv ==
    ASSUME LockInv, NEW c \in Clients, LoseSession(c), FaultsTypeOK'
    PROVE  LockInv'
<1> DEFINE s == client[c].conn
<1>1. /\ session \in [Sessions -> {"closed", "idle", "busy"}]
      /\ held \in [Sessions -> [Keys -> Nat]]
      /\ client \in [Clients -> ClientState] /\ client[c] \in ClientState
      /\ s \in Sessions /\ s # NoSession
      /\ client'[c] = [client[c] EXCEPT !.conn = NoSession]
      /\ \A d \in Clients : d # c => client'[d] = client[d]
      /\ \A d \in Clients : d # c /\ client[d].conn # NoSession =>
            client[d].conn \in Sessions /\ client[d].conn # s
  BY LocalFacts DEF LoseSession
<1>2. /\ session' \in [Sessions -> {"closed", "idle", "busy"}]
      /\ held' \in [Sessions -> [Keys -> Nat]]
      /\ \A t \in Sessions : t # s => session'[t] = session[t] /\ held'[t] = held[t]
      /\ \A t \in Sessions : held'[t] = held[t] \/ held'[t] = NoLocks
  BY <1>1, IdleClientOK DEF LoseSession, Close
<1>3. /\ client'[c] \in ClientState /\ client'[c].conn = NoSession
      /\ client'[c].pc = client[c].pc /\ client'[c].got = client[c].got
      /\ client'[c].keys = client[c].keys
  BY <1>1 DEF ClientState
<1>4. TypeOK'
  <2>1. client' \in [Clients -> ClientState]
    BY <1>1, <1>3 DEF LoseSession
  <2>2. \A d \in Clients : client'[d].got <= Len(client'[d].keys)
    BY <1>1, <1>3 DEF LockInv, TypeOK
  <2>3. ASSUME NEW d \in Clients, client'[d].conn # NoSession
        PROVE  /\ session'[client'[d].conn] = "busy"
               /\ \A e \in Clients : client'[e].conn = client'[d].conn => e = d
    <3>1. d # c /\ client'[d] = client[d]
      BY <1>1, <1>3, <2>3
    <3>2. /\ session[client[d].conn] = "busy" /\ client[d].conn \in Sessions
          /\ client[d].conn # s
      BY <1>1, <2>3, <3>1 DEF LockInv, TypeOK
    <3>3. \A e \in Clients : client[e].conn = client[d].conn => e = d
      BY <2>3, <3>1 DEF LockInv, TypeOK
    <3>4. session'[client'[d].conn] = "busy"
      BY <1>2, <3>1, <3>2
    <3>5. ASSUME NEW e \in Clients, client'[e].conn = client'[d].conn PROVE e = d
      <4>1. e # c
        BY <1>3, <2>3, <3>5
      <4> QED
        BY <1>1, <3>1, <3>3, <3>5, <4>1
    <3> QED
      BY <3>4, <3>5
  <2> QED
    BY <1>2, <2>1, <2>2, <2>3 DEF TypeOK
<1>5. \A d \in Clients : Progress(d)' /\ Balanced(d)'
  <2>1. Progress(c)' /\ Balanced(c)'
    BY <1>3 DEF LockInv, Progress, Balanced
  <2>2. ASSUME NEW d \in Clients, d # c PROVE Progress(d)' /\ Balanced(d)'
    BY <1>1, <1>2, <2>2, CallKept DEF LockInv
  <2> QED
    BY <2>1, <2>2
<1>6. OneHolder'
  <2>1. ASSUME NEW u \in Sessions, NEW k \in Keys, held'[u][k] > 0 PROVE held[u][k] > 0
    <3>1. NoLocks[k] = 0
      BY DEF NoLocks
    <3> QED
      BY <1>2, <2>1, <3>1
  <2> QED
    BY <2>1, HoldersShrink DEF LockInv
<1>7. FinitelyManyCalls'
  BY <1>1, CallsStayFinite DEF LockInv
<1> QED
  BY <1>4, <1>5, <1>6, <1>7 DEF LockInv

-----------------------------------------------------------------------------
\* The other steps.

LEMMA RequestInv ==
    ASSUME LockInv, NEW c \in Clients, Request(c), FaultsTypeOK'
    PROVE  LockInv'
<1> PICK req \in Requests : \E ks \in [1 .. Cardinality(Elements(req.keys)) -> Keys] :
         /\ req.keys # <<>>
         /\ Normalized(req.keys, ks)
         /\ client' = [client EXCEPT ![c] =
               [pc |-> "connect", keys |-> ks, got |-> 0,
                wait |-> req.wait, conn |-> NoSession, left |-> NoLocks]]
  BY DEF Request
<1>1. PICK ks \in [1 .. Cardinality(Elements(req.keys)) -> Keys] :
         /\ req.keys # <<>>
         /\ Normalized(req.keys, ks)
         /\ client' = [client EXCEPT ![c] =
               [pc |-> "connect", keys |-> ks, got |-> 0,
                wait |-> req.wait, conn |-> NoSession, left |-> NoLocks]]
  OBVIOUS
<1>2. /\ ks \in Seq(Keys) /\ 0 < Len(ks) /\ req.wait \in BOOLEAN
      /\ \A i, j \in 1 .. Len(ks) : i < j => ks[i] <= ks[j]
  BY <1>1, NormalizedType, LockAssumption
<1>3. /\ UNCHANGED <<session, held>>
      /\ client \in [Clients -> ClientState]
      /\ \A d \in Clients : d # c => client'[d] = client[d]
      /\ client'[c].conn = NoSession /\ client'[c].got = 0
      /\ client'[c].pc = "connect" /\ client'[c].keys = ks
  BY <1>1, LocalFacts DEF Request
<1>4. TypeOK'
  <2>1. client'[c] \in ClientState /\ client'[c].got <= Len(client'[c].keys)
    BY <1>1, <1>2, <1>3, IdleClientOK DEF ClientState
  <2>2. client' \in [Clients -> ClientState]
    BY <1>1, <1>3, <2>1
  <2> QED
    BY <1>3, <2>1, <2>2 DEF LockInv, TypeOK
<1>5. \A d \in Clients : Progress(d)' /\ Balanced(d)'
  <2>1. Progress(c)' /\ Balanced(c)'
    BY <1>2, <1>3 DEF Progress, Balanced
  <2> QED
    BY <1>3, <2>1, CallKept DEF LockInv
<1>6. OneHolder' /\ FinitelyManyCalls'
  BY <1>3, HoldersShrink, CallsStayFinite DEF LockInv
<1> QED
  BY <1>4, <1>5, <1>6 DEF LockInv

LEMMA ConnectInv ==
    ASSUME LockInv, NEW c \in Clients, Connect(c), FaultsTypeOK'
    PROVE  LockInv'
<1>1. PICK s \in Pool[c] :
         /\ session[s] # "busy"
         /\ session' = [session EXCEPT ![s] = "busy"]
         /\ client' = [client EXCEPT ![c].pc = "acquire", ![c].conn = s, ![c].left = held[s]]
  BY DEF Connect
<1>2. /\ s \in Sessions /\ s # NoSession
  BY <1>1, LockAssumption
<1>3. /\ UNCHANGED held /\ held \in [Sessions -> [Keys -> Nat]]
      /\ session \in [Sessions -> {"closed", "idle", "busy"}]
      /\ client \in [Clients -> ClientState] /\ client[c] \in ClientState
      /\ client[c].pc = "connect" /\ Progress(c)
      /\ \A d \in Clients : d # c => client'[d] = client[d]
  BY <1>1, LocalFacts DEF Connect
<1>4. client'[c] = [client[c] EXCEPT !.pc = "acquire", !.conn = s, !.left = held[s]]
  BY <1>1, <1>3
<1>5. /\ client'[c] \in ClientState /\ client'[c].conn = s /\ client'[c].left = held[s]
      /\ client'[c].pc = "acquire" /\ client'[c].keys = client[c].keys
      /\ client'[c].got = client[c].got
  BY <1>2, <1>3, <1>4 DEF ClientState
<1>6. \A d \in Clients : client[d].conn # s
  BY <1>1, <1>2 DEF LockInv, TypeOK
<1>7. TypeOK'
  <2>1. client' \in [Clients -> ClientState]
    BY <1>1, <1>3, <1>5
  <2>2. session' \in [Sessions -> {"closed", "idle", "busy"}]
    BY <1>1, <1>3
  <2>3. \A d \in Clients : client'[d].got <= Len(client'[d].keys)
    BY <1>3, <1>5 DEF LockInv, TypeOK
  <2>4. ASSUME NEW d \in Clients, client'[d].conn # NoSession
        PROVE  /\ session'[client'[d].conn] = "busy"
               /\ \A e \in Clients : client'[e].conn = client'[d].conn => e = d
    <3>1. CASE d = c
      <4>1. session'[s] = "busy"
        BY <1>1, <1>2, <1>3
      <4> QED
        BY <1>3, <1>5, <1>6, <3>1, <4>1
    <3>2. CASE d # c
      <4>1. client[d].conn # s /\ client[d].conn \in Sessions /\ session[client[d].conn] = "busy"
        <5>1. client'[d] = client[d] /\ client[d].conn # NoSession /\ client[d].conn # s
          BY <1>3, <1>6, <2>4, <3>2
        <5>2. client[d].conn \in Sessions
          BY <1>3, <5>1 DEF ClientState
        <5> QED
          BY <5>1, <5>2 DEF LockInv, TypeOK
      <4>2. session'[client'[d].conn] = "busy"
        BY <1>1, <1>3, <3>2, <4>1
      <4>3. client'[d] = client[d]
        BY <1>3, <3>2
      <4>4. ASSUME NEW e \in Clients, client'[e].conn = client'[d].conn
            PROVE  e = d
        <5>1. e # c
          BY <1>5, <4>1, <4>3, <4>4
        <5>2. client'[e] = client[e] /\ client[d].conn # NoSession
          BY <1>3, <2>4, <4>3, <5>1
        <5> QED
          BY <4>3, <4>4, <5>2 DEF LockInv, TypeOK
      <4> QED
        BY <4>2, <4>4
    <3> QED
      BY <3>1, <3>2
  <2> QED
    BY <1>3, <2>1, <2>2, <2>3, <2>4 DEF TypeOK
<1>8. \A d \in Clients : Progress(d)' /\ Balanced(d)'
  <2>1. Progress(c)'
    BY <1>2, <1>3, <1>5 DEF Progress
  <2>2. \A k \in Keys : Count(c, k)' = 0
    <3>1. client'[c].got = 0
      BY <1>3, <1>5 DEF Progress
    <3> QED
      BY <3>1, CountType DEF Count, Occurrences
  <2>3. Balanced(c)'
    BY <1>2, <1>3, <1>5, <2>2 DEF Balanced
  <2> QED
    BY <1>3, <2>1, <2>3, CallKept DEF LockInv
<1>9. OneHolder' /\ FinitelyManyCalls'
  BY <1>3, HoldersShrink, CallsStayFinite DEF LockInv
<1> QED
  BY <1>7, <1>8, <1>9 DEF LockInv

\* Calls that keep their sessions: which session is in use does not change.
LEMMA SameSessionsType ==
    ASSUME TypeOK, UNCHANGED session, held' \in [Sessions -> [Keys -> Nat]],
           client' \in [Clients -> ClientState], FaultsTypeOK',
           \A d \in Clients : client'[d].conn = client[d].conn
                              /\ client'[d].got <= Len(client'[d].keys)
    PROVE  TypeOK'
BY DEF TypeOK

LEMMA StartUnlockInv ==
    ASSUME LockInv, NEW c \in Clients, StartUnlock(c), FaultsTypeOK'
    PROVE  LockInv'
<1>1. /\ UNCHANGED <<session, held>> /\ client[c].pc = "holding"
      /\ client \in [Clients -> ClientState] /\ client[c] \in ClientState
      /\ \A d \in Clients : d # c => client'[d] = client[d]
      /\ client'[c] = [client[c] EXCEPT !.pc = "unlock"]
  BY LocalFacts DEF StartUnlock
<1>2. /\ client'[c] \in ClientState /\ client'[c].conn = client[c].conn
      /\ client'[c].pc = "unlock" /\ client'[c].keys = client[c].keys
      /\ client'[c].got = client[c].got /\ client'[c].left = client[c].left
  BY <1>1 DEF ClientState
<1>3. TypeOK'
  <2>1. client' \in [Clients -> ClientState]
    BY <1>1, <1>2 DEF StartUnlock
  <2> QED
    BY <1>1, <1>2, <2>1, SameSessionsType DEF LockInv, TypeOK
<1>4. \A d \in Clients : Progress(d)' /\ Balanced(d)'
  <2>1. Progress(c)' /\ Balanced(c)'
    BY <1>1, <1>2 DEF LockInv, Progress, Balanced, Count
  <2> QED
    BY <1>1, <2>1, CallKept DEF LockInv
<1>5. OneHolder' /\ FinitelyManyCalls'
  BY <1>1, HoldersShrink, CallsStayFinite DEF LockInv
<1> QED
  BY <1>3, <1>4, <1>5 DEF LockInv

LEMMA ExpireInv ==
    ASSUME LockInv, NEW s \in Sessions, Expire(s), FaultsTypeOK'
    PROVE  LockInv'
<1>1. /\ session[s] = "idle" /\ UNCHANGED client
      /\ session' = [session EXCEPT ![s] = "closed"]
      /\ held' = [held EXCEPT ![s] = NoLocks]
      /\ session \in [Sessions -> {"closed", "idle", "busy"}]
      /\ held \in [Sessions -> [Keys -> Nat]]
  BY DEF Expire, Close, LockInv, TypeOK
<1>2. \A d \in Clients : client[d].conn # NoSession =>
         client[d].conn \in Sessions /\ client[d].conn # s
  BY <1>1, LocalFacts DEF LockInv, TypeOK
<1>3. TypeOK'
  <2>1. /\ session' \in [Sessions -> {"closed", "idle", "busy"}]
        /\ held' \in [Sessions -> [Keys -> Nat]]
        /\ \A t \in Sessions : t # s => session'[t] = session[t]
    BY <1>1, IdleClientOK
  <2> QED
    BY <1>1, <1>2, <2>1 DEF LockInv, TypeOK
<1>4. \A d \in Clients : Progress(d)' /\ Balanced(d)'
  BY <1>1, <1>2, CallKept DEF LockInv
<1>5. OneHolder'
  <2>1. ASSUME NEW u \in Sessions, NEW k \in Keys, held'[u][k] > 0 PROVE held[u][k] > 0
    BY <1>1, <2>1 DEF NoLocks
  <2> QED
    BY <2>1, HoldersShrink DEF LockInv
<1>6. FinitelyManyCalls'
  BY <1>1 DEF LockInv, FinitelyManyCalls
<1> QED
  BY <1>3, <1>4, <1>5, <1>6 DEF LockInv

-----------------------------------------------------------------------------
\* Locking and unlocking one key.

\* A step of c that locks or unlocks one of its keys in its session s: the locks
\* of the session and the count of the call change by the same amounts.
KeyCounted(c, s) ==
    /\ client' \in [Clients -> ClientState]
    /\ client[c].conn = s /\ client'[c].conn = s
    /\ client'[c].keys = client[c].keys /\ client'[c].left = client[c].left
    /\ client'[c].got <= Len(client'[c].keys)
    /\ \A d \in Clients : d # c => client'[d] = client[d]
    /\ UNCHANGED session
    /\ held' \in [Sessions -> [Keys -> Nat]]
    /\ \A t \in Sessions : t # s => held'[t] = held[t]
    /\ \A j \in Keys : held'[s][j] + Count(c, j) = held[s][j] + Count(c, j)'

LEMMA KeyCountedInv ==
    ASSUME LockInv, NEW c \in Clients, NEW s \in Sessions, s # NoSession, KeyCounted(c, s),
           FaultsTypeOK', Progress(c)', OneHolder'
    PROVE  LockInv'
<1>1. /\ client' \in [Clients -> ClientState]
      /\ client[c].conn = s /\ client'[c].conn = s
      /\ client'[c].got <= Len(client'[c].keys)
      /\ client'[c].left = client[c].left
      /\ \A d \in Clients : d # c => client'[d] = client[d]
      /\ UNCHANGED session
      /\ held' \in [Sessions -> [Keys -> Nat]]
      /\ \A t \in Sessions : t # s => held'[t] = held[t]
      /\ \A j \in Keys : held'[s][j] + Count(c, j) = held[s][j] + Count(c, j)'
  BY DEF KeyCounted
<1>2. /\ held \in [Sessions -> [Keys -> Nat]] /\ Balanced(c)
      /\ client[c].left \in [Keys -> Nat] /\ client[c].got \in Nat
      /\ \A d \in Clients : client[d].got <= Len(client[d].keys)
      /\ \A d \in Clients : d # c /\ client[d].conn # NoSession =>
            client[d].conn \in Sessions /\ client[d].conn # s
  BY <1>1, LocalFacts DEF ClientState
<1>3. TypeOK'
  <2>1. \A d \in Clients : client'[d].conn = client[d].conn
                           /\ client'[d].got <= Len(client'[d].keys)
    BY <1>1, <1>2
  <2> QED
    BY <1>1, <2>1, SameSessionsType DEF LockInv
<1>4. Balanced(c)'
  <2>1. ASSUME NEW j \in Keys PROVE held'[s][j] = client'[c].left[j] + Count(c, j)'
    <3>1. Count(c, j) \in Nat
      BY <1>2, CountType DEF Count, Occurrences
    <3>2. Count(c, j)' \in Nat
      <4>1. client'[c].got \in Nat
        BY <1>1 DEF ClientState
      <4> QED
        BY <4>1, CountType DEF Count, Occurrences
    <3>3. held[s][j] = client[c].left[j] + Count(c, j)
      BY <1>1, <1>2, <2>1 DEF Balanced
    <3>4. held'[s][j] \in Nat /\ held[s][j] \in Nat /\ client[c].left[j] \in Nat
      BY <1>1, <1>2, <2>1
    <3>5. held'[s][j] + Count(c, j) = held[s][j] + Count(c, j)'
      BY <1>1, <2>1
    <3>6. client'[c].left[j] = client[c].left[j]
      BY <1>1
    <3>7. PICK a, b : a = Count(c, j) /\ b = Count(c, j)'
      OBVIOUS
    <3>8. held'[s][j] = client[c].left[j] + b
      BY <3>1, <3>2, <3>3, <3>4, <3>5, <3>7
    <3> QED
      BY <3>6, <3>7, <3>8
  <2> QED
    BY <1>1, <2>1 DEF Balanced
<1>5. \A d \in Clients : Progress(d)' /\ Balanced(d)'
  BY <1>1, <1>2, <1>4, CallKept DEF LockInv
<1>6. FinitelyManyCalls'
  BY <1>1, CallsStayFinite DEF LockInv
<1> QED
  BY <1>3, <1>5, <1>6 DEF LockInv

LEMMA LockKeyCounted ==
    ASSUME LockInv, NEW c \in Clients, LockKey(c)
    PROVE  /\ client[c].conn \in Sessions /\ client[c].conn # NoSession
           /\ NextKey(c) \in Keys /\ Grantable(client[c].conn, NextKey(c))
           /\ KeyCounted(c, client[c].conn)
           /\ held' = [held EXCEPT ![client[c].conn][NextKey(c)] = @ + 1]
           /\ \A j \in Keys : Count(c, j)' = Count(c, j) + IF j = NextKey(c) THEN 1 ELSE 0
           /\ Progress(c)'
<1> PICK s, k, n, q, pc : /\ s = client[c].conn /\ k = NextKey(c) /\ n = client[c].got
                          /\ q = client[c].keys
                          /\ pc = IF n + 1 = Len(q) THEN "holding" ELSE "acquire"
  OBVIOUS
<1>1. /\ held \in [Sessions -> [Keys -> Nat]] /\ client \in [Clients -> ClientState]
      /\ client[c] \in ClientState /\ q \in Seq(Keys) /\ n \in Nat
      /\ client[c].pc = "acquire" /\ s \in Sessions /\ s # NoSession /\ Progress(c)
  BY LocalFacts DEF LockKey
<1>2. n < Len(q) /\ Len(q) \in Nat /\ n + 1 \in 1 .. Len(q) /\ k = q[n + 1]
  BY <1>1 DEF Progress, NextKey
<1>3. k \in Keys
  BY <1>1, <1>2
<1>4. /\ held' = [held EXCEPT ![s][k] = @ + 1]
      /\ Grantable(s, k) /\ UNCHANGED session
      /\ client' = [client EXCEPT ![c].pc = pc, ![c].got = n + 1]
  BY DEF LockKey, NextKey, Grantable
<1>5. client'[c] = [client[c] EXCEPT !.pc = pc, !.got = n + 1]
  BY <1>1, <1>4
<1>6. pc \in {"holding", "acquire"} /\ n + 1 \in Nat
  BY <1>1
<1>7. /\ client'[c] \in ClientState /\ client'[c].got = n + 1
      /\ client'[c].keys = q /\ client'[c].conn = s
      /\ client'[c].left = client[c].left /\ client'[c].pc = pc
  BY <1>1, <1>5, <1>6 DEF ClientState
<1>8. client' \in [Clients -> ClientState] /\ \A d \in Clients : d # c => client'[d] = client[d]
  BY <1>1, <1>4, <1>7
<1>9. ASSUME NEW j
      PROVE  /\ Count(c, j) \in Nat
             /\ Count(c, j)' = Count(c, j) + IF q[n + 1] = j THEN 1 ELSE 0
  <2>1. Count(c, j) = Occurrences(q, n, j)
    BY DEF Count, Occurrences
  <2>2. Count(c, j)' = Occurrences(q, n + 1, j)
    BY <1>7 DEF Count, Occurrences
  <2>3. Occurrences(q, n, j) \in Nat
    BY <1>1, CountType
  <2>4. Occurrences(q, n + 1, j) = Occurrences(q, n, j) + IF q[n + 1] = j THEN 1 ELSE 0
    BY <1>1, CountNext
  <2> QED
    BY <2>1, <2>2, <2>3, <2>4
<1>10. \A j \in Keys : Count(c, j) \in Nat
  BY <1>9
<1>11. /\ held' \in [Sessions -> [Keys -> Nat]]
       /\ \A t \in Sessions : t # s => held'[t] = held[t]
       /\ \A j \in Keys : held'[s][j] = IF j = k THEN held[s][j] + 1 ELSE held[s][j]
  BY <1>1, <1>3, <1>4
<1>12. \A j \in Keys : held'[s][j] + Count(c, j) = held[s][j] + Count(c, j)'
  <2> SUFFICES ASSUME NEW j \in Keys
               PROVE  held'[s][j] + Count(c, j) = held[s][j] + Count(c, j)'
    OBVIOUS
  <2>1. held[s][j] \in Nat /\ Count(c, j) \in Nat
    BY <1>1, <1>10
  <2>2. held'[s][j] = IF j = k THEN held[s][j] + 1 ELSE held[s][j]
    BY <1>11
  <2>3. Count(c, j)' = Count(c, j) + IF j = k THEN 1 ELSE 0
    BY <1>2, <1>9
  <2>4. PICK a, b : a = Count(c, j) /\ b = Count(c, j)'
    OBVIOUS
  <2>5. held'[s][j] + a = held[s][j] + b
    BY <2>1, <2>2, <2>3, <2>4
  <2> QED
    BY <2>4, <2>5
<1>13. KeyCounted(c, s)
  <2>1. /\ client[c].conn = s /\ client'[c].conn = s
        /\ client'[c].keys = client[c].keys /\ client'[c].left = client[c].left
        /\ client'[c].got <= Len(client'[c].keys)
    BY <1>1, <1>2, <1>7
  <2> QED
    BY <1>4, <1>8, <1>11, <1>12, <2>1 DEF KeyCounted
<1>14. Progress(c)'
  <2>1. client'[c].pc \in {"connect", "acquire"} => n + 1 < Len(q)
    BY <1>1, <1>2, <1>7
  <2>2. client'[c].pc \notin {"idle", "connect"}
    BY <1>6, <1>7
  <2> QED
    BY <1>1, <1>7, <2>1, <2>2 DEF Progress
<1>15. \A j \in Keys : Count(c, j)' = Count(c, j) + IF j = k THEN 1 ELSE 0
  BY <1>2, <1>9
<1> QED
  BY <1>1, <1>3, <1>4, <1>13, <1>14, <1>15

LEMMA LockKeyInv ==
    ASSUME LockInv, NEW c \in Clients, LockKey(c), FaultsTypeOK'
    PROVE  LockInv'
<1> PICK s, k : s = client[c].conn /\ k = NextKey(c)
  OBVIOUS
<1>1. /\ s \in Sessions /\ s # NoSession /\ k \in Keys
      /\ KeyCounted(c, s) /\ Progress(c)'
      /\ held' = [held EXCEPT ![s][k] = @ + 1]
      /\ \A t \in Sessions \ {s} : held[t][k] = 0
  BY LockKeyCounted DEF Grantable
<1>2. held \in [Sessions -> [Keys -> Nat]]
  BY DEF LockInv, TypeOK
<1>3. OneHolder'
  <2> SUFFICES ASSUME NEW t \in Sessions, NEW u \in Sessions, NEW j \in Keys,
                      held'[t][j] > 0, held'[u][j] > 0, t # u
               PROVE  FALSE
    BY DEF OneHolder
  <2>1. CASE j = k
    <3>1. \A x \in Sessions : x # s => held'[x][k] = 0
      BY <1>1, <1>2
    <3> QED
      BY <2>1, <3>1
  <2>2. CASE j # k
    <3>1. held'[t][j] = held[t][j] /\ held'[u][j] = held[u][j]
      BY <1>1, <1>2, <2>2
    <3> QED
      BY <3>1 DEF LockInv, OneHolder
  <2> QED
    BY <2>1, <2>2
<1> QED
  BY <1>1, <1>3, KeyCountedInv

\* The key UnlockKey gives back is locked, so it counts down.
LEMMA UnlockKeyCounted ==
    ASSUME LockInv, NEW c \in Clients, UnlockKey(c)
    PROVE  /\ client[c].conn \in Sessions /\ client[c].conn # NoSession
           /\ LastKey(c) \in Keys
           /\ KeyCounted(c, client[c].conn)
           /\ \A t \in Sessions, j \in Keys : held'[t][j] <= held[t][j]
           /\ \A j \in Keys : Count(c, j) = Count(c, j)' + IF j = LastKey(c) THEN 1 ELSE 0
           /\ Progress(c)'
<1> PICK s, k, n, q : /\ s = client[c].conn /\ k = LastKey(c) /\ n = client[c].got - 1
                      /\ q = client[c].keys
  OBVIOUS
<1>1. /\ held \in [Sessions -> [Keys -> Nat]] /\ client \in [Clients -> ClientState]
      /\ client[c] \in ClientState /\ q \in Seq(Keys) /\ client[c].got \in Nat
      /\ client[c].pc = "unlock" /\ s \in Sessions /\ s # NoSession
      /\ Progress(c) /\ Balanced(c)
      /\ Len(q) \in Nat /\ client[c].got <= Len(q) /\ client[c].got > 0
      /\ client[c].left \in [Keys -> Nat]
  <2>1. /\ held \in [Sessions -> [Keys -> Nat]] /\ client \in [Clients -> ClientState]
        /\ client[c] \in ClientState /\ client[c].pc = "unlock"
    BY LocalFacts DEF UnlockKey
  <2>2. client[c].got > 0 /\ s # NoSession
    BY DEF UnlockKey
  <2>3. /\ q \in Seq(Keys) /\ client[c].got \in Nat /\ Len(q) \in Nat
        /\ client[c].got <= Len(q) /\ s \in Sessions /\ Progress(c) /\ Balanced(c)
    BY <2>2, LocalFacts
  <2>4. client[c].left \in [Keys -> Nat]
    BY <2>1 DEF ClientState
  <2> QED
    BY <2>1, <2>2, <2>3, <2>4
<1>2. n \in Nat /\ n + 1 = client[c].got /\ n <= Len(q) /\ k = q[n + 1] /\ n + 1 \in 1 .. Len(q)
  BY <1>1 DEF LastKey
<1>3. k \in Keys
  BY <1>1, <1>2
<1>4. /\ held' = [held EXCEPT ![s][k] = IF @ > 0 THEN @ - 1 ELSE 0]
      /\ client' = [client EXCEPT ![c].got = n]
      /\ UNCHANGED session
  BY DEF UnlockKey, LastKey
<1>5. client'[c] = [client[c] EXCEPT !.got = n]
  BY <1>1, <1>4
<1>6. /\ client'[c] \in ClientState /\ client'[c].got = n
      /\ client'[c].keys = q /\ client'[c].conn = s
      /\ client'[c].left = client[c].left /\ client'[c].pc = "unlock"
  BY <1>1, <1>2, <1>5 DEF ClientState
<1>7. client' \in [Clients -> ClientState] /\ \A d \in Clients : d # c => client'[d] = client[d]
  BY <1>1, <1>4, <1>6
<1>8. ASSUME NEW j
      PROVE  /\ Count(c, j)' \in Nat
             /\ Count(c, j) = Count(c, j)' + IF q[n + 1] = j THEN 1 ELSE 0
  <2>1. Count(c, j) = Occurrences(q, n + 1, j)
    BY <1>2 DEF Count, Occurrences
  <2>2. Count(c, j)' = Occurrences(q, n, j)
    BY <1>6 DEF Count, Occurrences
  <2>3. Occurrences(q, n, j) \in Nat
    BY <1>2, CountType
  <2>4. Occurrences(q, n + 1, j) = Occurrences(q, n, j) + IF q[n + 1] = j THEN 1 ELSE 0
    BY <1>2, CountNext
  <2> QED
    BY <2>1, <2>2, <2>3, <2>4
<1>9. \A j \in Keys : Count(c, j)' \in Nat
  BY <1>8
<1>10. held[s][k] > 0
  <2>1. Count(c, k) = Count(c, k)' + 1 /\ Count(c, k)' \in Nat
    BY <1>2, <1>3, <1>8, <1>9
  <2>2. held[s][k] = client[c].left[k] + Count(c, k) /\ client[c].left[k] \in Nat
    BY <1>1, <1>3 DEF Balanced
  <2> QED
    BY <2>1, <2>2
<1>11. /\ held' \in [Sessions -> [Keys -> Nat]]
       /\ \A t \in Sessions : t # s => held'[t] = held[t]
       /\ \A j \in Keys : held'[s][j] = IF j = k THEN held[s][j] - 1 ELSE held[s][j]
  BY <1>1, <1>3, <1>4, <1>10
<1>12. \A j \in Keys : held'[s][j] + Count(c, j) = held[s][j] + Count(c, j)'
  <2> SUFFICES ASSUME NEW j \in Keys
               PROVE  held'[s][j] + Count(c, j) = held[s][j] + Count(c, j)'
    OBVIOUS
  <2>1. held[s][j] \in Nat /\ Count(c, j)' \in Nat
    BY <1>1, <1>9
  <2>2. held'[s][j] = IF j = k THEN held[s][j] - 1 ELSE held[s][j]
    BY <1>11
  <2>3. Count(c, j) = Count(c, j)' + IF j = k THEN 1 ELSE 0
    BY <1>2, <1>8
  <2> QED
    BY <2>1, <2>2, <2>3
<1>13. KeyCounted(c, s)
  BY <1>1, <1>2, <1>4, <1>6, <1>7, <1>11, <1>12 DEF KeyCounted
<1>14. Progress(c)'
  BY <1>1, <1>6 DEF Progress
<1>15. \A t \in Sessions, j \in Keys : held'[t][j] <= held[t][j]
  <2> SUFFICES ASSUME NEW t \in Sessions, NEW j \in Keys PROVE held'[t][j] <= held[t][j]
    OBVIOUS
  <2>1. held[t][j] \in Nat
    BY <1>1
  <2>2. CASE t = s
    BY <1>11, <2>1, <2>2
  <2>3. CASE t # s
    BY <1>11, <2>1, <2>3
  <2> QED
    BY <2>2, <2>3
<1>16. \A j \in Keys : Count(c, j) = Count(c, j)' + IF j = k THEN 1 ELSE 0
  BY <1>2, <1>8
<1> QED
  BY <1>1, <1>3, <1>13, <1>14, <1>15, <1>16

LEMMA UnlockKeyInv ==
    ASSUME LockInv, NEW c \in Clients, UnlockKey(c), FaultsTypeOK'
    PROVE  LockInv'
<1> PICK s : s = client[c].conn
  OBVIOUS
<1>1. /\ s \in Sessions /\ s # NoSession
      /\ KeyCounted(c, s) /\ Progress(c)'
      /\ \A t \in Sessions, j \in Keys : held'[t][j] <= held[t][j]
  BY UnlockKeyCounted
<1>2. /\ held \in [Sessions -> [Keys -> Nat]]
      /\ held' \in [Sessions -> [Keys -> Nat]]
  BY <1>1 DEF LockInv, TypeOK, KeyCounted
<1>3. OneHolder'
  <2>1. ASSUME NEW t \in Sessions, NEW j \in Keys, held'[t][j] > 0 PROVE held[t][j] > 0
    <3>1. held[t][j] \in Nat /\ held'[t][j] \in Nat /\ held'[t][j] <= held[t][j]
      BY <1>1, <1>2
    <3> QED
      BY <2>1, <3>1
  <2> QED
    BY <2>1, HoldersShrink DEF LockInv
<1> QED
  BY <1>1, <1>3, KeyCountedInv

-----------------------------------------------------------------------------
\* The invariant.

LEMMA FaultsBounded ==
    ASSUME FaultsTypeOK, UNCHANGED faults \/ \E kind \in FaultKinds : Fault(kind)
    PROVE  FaultsTypeOK'
BY FaultsAssumption DEF FaultsTypeOK, Fault

LEMMA NextLockInv == LockInv /\ [Next]_vars => LockInv'
<1> SUFFICES ASSUME LockInv, [Next]_vars PROVE LockInv'
  OBVIOUS
<1>1. FaultsTypeOK
  BY DEF LockInv, TypeOK
<1>2. CASE UNCHANGED vars
  BY <1>2 DEF vars, LockInv, TypeOK, FaultsTypeOK, Progress, Balanced, Count, OneHolder,
              FinitelyManyCalls
<1>3. ASSUME NEW c \in Clients, Request(c) PROVE LockInv'
  BY <1>1, <1>3, FaultsBounded, RequestInv DEF Request
<1>4. ASSUME NEW c \in Clients, Connect(c) PROVE LockInv'
  BY <1>1, <1>4, FaultsBounded, ConnectInv DEF Connect
<1>5. ASSUME NEW c \in Clients, LockKey(c) PROVE LockInv'
  BY <1>1, <1>5, FaultsBounded, LockKeyInv DEF LockKey
<1>6. ASSUME NEW c \in Clients, StartUnlock(c) PROVE LockInv'
  BY <1>1, <1>6, FaultsBounded, StartUnlockInv DEF StartUnlock
<1>7. ASSUME NEW c \in Clients, UnlockKey(c) PROVE LockInv'
  BY <1>1, <1>7, FaultsBounded, UnlockKeyInv DEF UnlockKey
<1>8. ASSUME NEW c \in Clients, LoseSession(c) PROVE LockInv'
  <2>1. FaultsTypeOK'
    BY <1>1, <1>8, FaultsBounded DEF LoseSession, Fault
  <2> QED
    BY <1>8, <2>1, LoseSessionInv
<1>9. ASSUME NEW s \in Sessions, Expire(s) PROVE LockInv'
  BY <1>1, <1>9, FaultsBounded, ExpireInv DEF Expire
<1>10. ASSUME NEW c \in Clients,
              \/ TryLockFails(c)
              \/ BreakDeadlock(c)
              \/ CancelLock(c)
              \/ FinishUnlock(c)
              \/ UncheckedUnlock(c)
              \/ NoticeLostSession(c)
              \/ Crash(c)
       PROVE  LockInv'
  <2>1. UNCHANGED faults \/ \E kind \in FaultKinds : Fault(kind)
    BY <1>10 DEF TryLockFails, BreakDeadlock, CancelLock, FinishUnlock, UncheckedUnlock,
                 NoticeLostSession, Crash, Fault
  <2>2. FaultsTypeOK'
    BY <1>1, <2>1, FaultsBounded
  <2>3. CallEnds(c)
    BY <1>10, EndingSteps
  <2> QED
    BY <2>2, <2>3, CallEndsInv
<1> QED
  BY <1>2, <1>3, <1>4, <1>5, <1>6, <1>7, <1>8, <1>9, <1>10 DEF Next, LockStep, UnlockStep

LEMMA LockCorrect == Spec => []LockInv
<1>1. Init => LockInv
  BY InitLockInv
<1>2. LockInv /\ [Next]_vars => LockInv'
  BY NextLockInv
<1> QED
  BY <1>1, <1>2, PTL DEF Spec

\* Every state of the locker is well formed; above all, a session in use belongs
\* to one caller, whatever is cancelled, crashes, or is closed by the pool.
THEOREM LockTypeOK == Spec => []TypeOK
<1>1. LockInv => TypeOK
  BY DEF LockInv
<1> QED
  BY <1>1, LockCorrect, PTL

\* The session of a caller has locked what was left in it when it was checked
\* out and what this call has locked: Unlock of postgres.go returns all of its
\* own and nothing of what a leaked lock has added.
THEOREM SessionsBalanced == Spec => []SessionBalanced
<1>1. LockInv => SessionBalanced
  BY DEF LockInv, Balanced, SessionBalanced
<1> QED
  BY <1>1, LockCorrect, PTL

-----------------------------------------------------------------------------
\* Deadlocks.

\* Some element of a finite set is greatest.
LEMMA GreatestExists ==
    ASSUME NEW S, IsFiniteSet(S), S # {}, NEW f, \A x \in S : f[x] \in Int
    PROVE  \E m \in S : \A x \in S : ~(f[m] < f[x])
<1> DEFINE Above(m) == {x \in S : f[m] < f[x]}
<1>0. \A m \in S : /\ Above(m) \in SUBSET S
                   /\ \A x \in S : x \in Above(m) <=> f[m] < f[x]
  OBVIOUS
<1> HIDE DEF Above
<1> DEFINE T == {Above(m) : m \in S}
<1>1. IsWellFoundedOn(StrictSubsetOrdering(S), FiniteSubsetsOf(S))
  BY FS_StrictSubsetOrderingWellFounded
<1>2. FiniteSubsetsOf(S) = SUBSET S
  BY FS_FiniteSubsetsOfFinite
<1>3. T \subseteq FiniteSubsetsOf(S) /\ T # {}
  BY <1>0, <1>2
<1> HIDE DEF T
<1>4. PICK A \in T : \A B \in T : <<B, A>> \notin StrictSubsetOrdering(S)
  BY <1>1, <1>3, WFMin
<1>5. PICK m \in S : A = Above(m)
  BY <1>4 DEF T
<1>6. ASSUME NEW x \in S, f[m] < f[x] PROVE FALSE
  <2>1. Above(x) \subseteq Above(m)
    BY <1>0, <1>6
  <2>2. x \in Above(m) /\ x \notin Above(x)
    BY <1>0, <1>6
  <2>3. Above(x) \in T
    BY DEF T
  <2>4. <<Above(x), A>> \in StrictSubsetOrdering(S)
    BY <1>0, <1>5, <2>1, <2>2 DEF StrictSubsetOrdering
  <2> QED
    BY <1>4, <2>3, <2>4
<1> QED
  BY <1>6

\* What a caller with a clean session has locked precedes what it waits for.
LEMMA HeldPrecedesWanted ==
    ASSUME LockInv, NEW d \in Clients, client[d].pc = "acquire", client[d].conn # NoSession,
           client[d].left = NoLocks, NEW k \in Keys, held[client[d].conn][k] > 0
    PROVE  k <= NextKey(d) /\ NextKey(d) \in Keys
<1> PICK n, q : n = client[d].got /\ q = client[d].keys
  OBVIOUS
<1>1. /\ q \in Seq(Keys) /\ n \in Nat /\ Len(q) \in Nat /\ n < Len(q)
      /\ \A i, j \in 1 .. Len(q) : i < j => q[i] <= q[j]
  BY LocalFacts DEF Progress
<1>2. Count(d, k) # 0
  <2>1. held[client[d].conn][k] = client[d].left[k] + Count(d, k)
    BY LocalFacts DEF Balanced
  <2>2. client[d].left[k] = 0
    BY DEF NoLocks
  <2> QED
    BY <2>1, <2>2
<1>3. Count(d, k) = Occurrences(q, n, k)
  BY DEF Count, Occurrences
<1>4. PICK i \in 1 .. n : q[i] = k
  BY <1>1, <1>2, <1>3, CountedOccurs
<1>5. n + 1 \in 1 .. Len(q) /\ i \in 1 .. Len(q) /\ i < n + 1
  BY <1>1
<1>6. q[i] <= q[n + 1] /\ q[n + 1] \in Keys
  BY <1>1, <1>5
<1> QED
  BY <1>4, <1>6 DEF NextKey

\* Callers of Lock whose sessions were clean never wait for one another: each
\* would wait for a key smaller than the one the next waits for.
LEMMA SortedDoesNotDeadlock == LockInv => NoDeadlock
<1> SUFFICES ASSUME LockInv, NEW S \in SUBSET Clients,
                    \A c \in S : client[c].left = NoLocks, Deadlocked(S)
             PROVE  FALSE
  BY DEF NoDeadlock
<1>1. /\ S # {}
      /\ \A c \in S : /\ c \in Clients /\ client[c].pc = "acquire"
                      /\ client[c].conn # NoSession
                      /\ \E d \in S \ {c} : held[client[d].conn][NextKey(c)] > 0
  BY DEF Deadlocked
<1>2. IsFiniteSet(S)
  <2>1. S \in SUBSET {c \in Clients : client[c].pc # "idle"}
    BY <1>1
  <2> QED
    BY <2>1, FS_Subset DEF LockInv, FinitelyManyCalls
<1>3. \A c \in S : /\ NextKey(c) \in Keys /\ NextKey(c) \in Int
                   /\ client[c].conn \in Sessions
  <2> SUFFICES ASSUME NEW c \in S
               PROVE  /\ NextKey(c) \in Keys /\ NextKey(c) \in Int
                      /\ client[c].conn \in Sessions
    OBVIOUS
  <2>1. /\ client[c].keys \in Seq(Keys) /\ client[c].got \in Nat
        /\ Len(client[c].keys) \in Nat /\ client[c].got < Len(client[c].keys)
        /\ client[c].conn \in Sessions
    BY <1>1, LocalFacts DEF Progress
  <2>2. client[c].got + 1 \in 1 .. Len(client[c].keys)
    BY <2>1
  <2>3. client[c].keys[client[c].got + 1] \in Keys
    BY <2>1, <2>2
  <2> QED
    BY <2>1, <2>3, LockAssumption DEF NextKey
<1>4. \A c \in S : \E d \in S : NextKey(c) < NextKey(d)
  <2> SUFFICES ASSUME NEW c \in S PROVE \E d \in S : NextKey(c) < NextKey(d)
    OBVIOUS
  <2>1. PICK d \in S \ {c} : held[client[d].conn][NextKey(c)] > 0
    BY <1>1
  <2>2. NextKey(c) <= NextKey(d)
    BY <1>1, <1>3, <2>1, HeldPrecedesWanted
  <2>3. NextKey(c) # NextKey(d)
    <3> SUFFICES ASSUME NextKey(c) = NextKey(d) PROVE FALSE
      OBVIOUS
    <3>1. PICK e \in S \ {d} : held[client[e].conn][NextKey(d)] > 0
      BY <1>1
    <3>2. client[e].conn = client[d].conn
      BY <1>3, <2>1, <3>1 DEF LockInv, OneHolder
    <3> QED
      BY <1>1, <3>1, <3>2, LocalFacts
  <2> QED
    BY <1>3, <2>2, <2>3
<1> DEFINE f == [c \in S |-> NextKey(c)]
<1>5. \A c \in S : f[c] = NextKey(c) /\ f[c] \in Int
  BY <1>3
<1> HIDE DEF f
<1>6. PICK m \in S : \A x \in S : ~(f[m] < f[x])
  BY <1>1, <1>2, <1>5, GreatestExists
<1> QED
  BY <1>4, <1>5, <1>6

\* normalizeResources of postgres.go sorts the resources "to prevent deadlocks",
\* and it does, for any number of callers and any resources, as long as no
\* session was handed out with locks left in it.
THEOREM NoDeadlocks == Spec => []NoDeadlock
<1>1. LockInv => NoDeadlock
  BY SortedDoesNotDeadlock
<1> QED
  BY <1>1, LockCorrect, PTL

-----------------------------------------------------------------------------
\* The promise of ResourceLock.

\* The owner of a key is the caller that has acquired it.
OwnerOK ==
    /\ Owner \in [Keys -> Clients \cup {Nobody}]
    /\ \A k \in Keys : \A c \in Clients : Owner[k] = c <=> k \in Acquired(c)

LEMMA AcquiredIsHeld ==
    ASSUME LockInv, NEW c \in Clients, NEW k \in Acquired(c)
    PROVE  /\ k \in Keys /\ client[c].conn # NoSession /\ client[c].conn \in Sessions
           /\ held[client[c].conn][k] > 0
<1>1. k \in Keys /\ client[c].conn # NoSession /\ Count(c, k) > 0
  BY DEF Acquired
<1>2. /\ client[c].conn \in Sessions /\ client[c].left \in [Keys -> Nat]
      /\ client[c].got \in Nat /\ Balanced(c)
  BY <1>1, LocalFacts DEF ClientState
<1>3. PICK n : n = Count(c, k)
  OBVIOUS
<1>4. n \in Nat
  BY <1>2, <1>3, CountType DEF Count, Occurrences
<1>5. held[client[c].conn][k] = client[c].left[k] + n /\ client[c].left[k] \in Nat
  BY <1>1, <1>2, <1>3 DEF Balanced
<1> QED
  BY <1>1, <1>2, <1>3, <1>4, <1>5

LEMMA OneAcquirer ==
    ASSUME LockInv, NEW c \in Clients, NEW d \in Clients,
           NEW k, k \in Acquired(c), k \in Acquired(d)
    PROVE  c = d
<1>1. /\ k \in Keys /\ client[c].conn # NoSession
      /\ client[c].conn \in Sessions /\ held[client[c].conn][k] > 0
  BY AcquiredIsHeld
<1>2. client[d].conn \in Sessions /\ held[client[d].conn][k] > 0
  BY AcquiredIsHeld
<1>3. client[c].conn = client[d].conn
  BY <1>1, <1>2 DEF LockInv, OneHolder
<1> QED
  BY <1>1, <1>3, LocalFacts

LEMMA OwnerIsAcquirer == LockInv => OwnerOK
<1> SUFFICES ASSUME LockInv PROVE OwnerOK
  OBVIOUS
<1>1. ASSUME NEW k \in Keys
      PROVE  /\ Owner[k] \in Clients \cup {Nobody}
             /\ \A c \in Clients : Owner[k] = c <=> k \in Acquired(c)
  <2>1. CASE \E c \in Clients : k \in Acquired(c)
    <3>1. Owner[k] = CHOOSE c \in Clients : k \in Acquired(c)
      BY <2>1 DEF Owner
    <3>2. Owner[k] \in Clients /\ k \in Acquired(Owner[k])
      BY <2>1, <3>1
    <3> QED
      BY <3>2, OneAcquirer
  <2>2. CASE ~\E c \in Clients : k \in Acquired(c)
    <3>1. Owner[k] = Nobody
      BY <2>2 DEF Owner
    <3> QED
      BY <2>2, <3>1, LockAssumption
  <2> QED
    BY <2>1, <2>2
<1>2. Owner = [k \in Keys |-> Owner[k]]
  BY DEF Owner
<1> QED
  BY <1>1, <1>2 DEF OwnerOK

LEMMA OtherAcquired ==
    ASSUME NEW d \in Clients, client'[d] = client[d]
    PROVE  Acquired(d)' = Acquired(d)
BY DEF Acquired, Count

\* Steps that acquire and release nothing.
LEMMA SameOwners ==
    ASSUME OwnerOK, OwnerOK', \A c \in Clients : Acquired(c)' = Acquired(c)
    PROVE  Owner' = Owner
<1>1. ASSUME NEW k \in Keys PROVE Owner'[k] = Owner[k]
  BY LockAssumption DEF OwnerOK
<1>2. Owner = [k \in Keys |-> Owner[k]] /\ Owner' = [k \in Keys |-> Owner'[k]]
  BY DEF OwnerOK
<1> QED
  BY <1>1, <1>2

\* The end of what one caller owned.
LEMMA OwnerGone ==
    ASSUME OwnerOK, OwnerOK', NEW c \in Clients, Acquired(c)' = {},
           \A d \in Clients : d # c => Acquired(d)' = Acquired(d)
    PROVE  Lock!EndSessions({c})
<1>1. ASSUME NEW k \in Keys
      PROVE  Owner'[k] = IF Owner[k] \in {c} THEN Nobody ELSE Owner[k]
  <2>1. CASE Owner[k] = c
    BY <2>1, LockAssumption DEF OwnerOK
  <2>2. CASE Owner[k] # c
    BY <2>2, LockAssumption DEF OwnerOK
  <2> QED
    BY <2>1, <2>2
<1>2. Owner' = [k \in Keys |-> Owner'[k]]
  BY DEF OwnerOK
<1> QED
  BY <1>1, <1>2 DEF Lock!EndSessions

LEMMA LockKeyAcquires ==
    ASSUME LockInv, OwnerOK, OwnerOK', NEW c \in Clients, LockKey(c)
    PROVE  \/ \E k \in Keys : Lock!Acquire(c, k)
           \/ Owner' = Owner
<1> PICK s, k : s = client[c].conn /\ k = NextKey(c)
  OBVIOUS
<1>1. /\ s \in Sessions /\ s # NoSession /\ k \in Keys
      /\ client'[c].conn = s /\ \A d \in Clients : d # c => client'[d] = client[d]
      /\ \A t \in Sessions \ {s} : held[t][k] = 0
      /\ \A j \in Keys : Count(c, j)' = Count(c, j) + IF j = k THEN 1 ELSE 0
  BY LockKeyCounted DEF Grantable, KeyCounted
<1>2. ASSUME NEW j \in Keys PROVE Count(c, j) \in Nat
  <2>1. PICK n, q : n = client[c].got /\ q = client[c].keys
    OBVIOUS
  <2>2. Count(c, j) = Occurrences(q, n, j)
    BY <2>1 DEF Count, Occurrences
  <2>3. n \in Nat
    BY <2>1, LocalFacts
  <2>4. Occurrences(q, n, j) \in Nat
    BY <2>3, CountType
  <2> QED
    BY <2>2, <2>4
<1>3. Acquired(c)' = Acquired(c) \cup {k}
  <2>1. ASSUME NEW j \in Keys PROVE Count(c, j)' > 0 <=> Count(c, j) > 0 \/ j = k
    <3> PICK a, b : a = Count(c, j) /\ b = Count(c, j)'
      OBVIOUS
    <3>1. b > 0 <=> a > 0 \/ j = k
      BY <1>1, <1>2
    <3> QED
      BY <3>1
  <2> QED
    BY <1>1, <2>1 DEF Acquired
<1>4. \A d \in Clients : d # c => Acquired(d)' = Acquired(d)
  BY <1>1, OtherAcquired
<1>5. CASE k \in Acquired(c)
  <2>1. \A d \in Clients : Acquired(d)' = Acquired(d)
    BY <1>3, <1>4, <1>5
  <2> QED
    BY <2>1, SameOwners
<1>6. CASE k \notin Acquired(c)
  <2>1. \A d \in Clients : k \notin Acquired(d)
    <3> SUFFICES ASSUME NEW d \in Clients, k \in Acquired(d), d # c PROVE FALSE
      BY <1>6
    <3>1. client[d].conn \in Sessions /\ held[client[d].conn][k] > 0
      BY AcquiredIsHeld
    <3>2. client[d].conn # s
      BY <1>1, LocalFacts, AcquiredIsHeld
    <3> QED
      BY <1>1, <3>1, <3>2
  <2>2. Owner[k] = Nobody
    BY <1>1, <2>1 DEF OwnerOK
  <2>3. ASSUME NEW j \in Keys PROVE Owner'[j] = IF j = k THEN c ELSE Owner[j]
    <3>1. CASE j = k
      BY <1>3, <3>1 DEF OwnerOK
    <3>2. CASE j # k
      <4>1. \A d \in Clients : j \in Acquired(d)' <=> j \in Acquired(d)
        BY <1>3, <1>4, <3>2
      <4> QED
        BY <3>2, <4>1, LockAssumption DEF OwnerOK
    <3> QED
      BY <3>1, <3>2
  <2>4. Owner' = [j \in Keys |-> Owner'[j]] /\ Owner = [j \in Keys |-> Owner[j]]
    BY DEF OwnerOK
  <2>5. Owner' = [Owner EXCEPT ![k] = c]
    BY <2>3, <2>4
  <2> QED
    BY <1>1, <2>2, <2>5 DEF Lock!Acquire
<1> QED
  BY <1>5, <1>6

LEMMA UnlockKeyReleases ==
    ASSUME LockInv, OwnerOK, OwnerOK', NEW c \in Clients, UnlockKey(c)
    PROVE  \/ \E k \in Keys : Lock!Release(c, k)
           \/ Owner' = Owner
<1> PICK s, k : s = client[c].conn /\ k = LastKey(c)
  OBVIOUS
<1>1. /\ s \in Sessions /\ s # NoSession /\ k \in Keys
      /\ client'[c].conn = s /\ \A d \in Clients : d # c => client'[d] = client[d]
      /\ client'[c].got \in Nat
      /\ \A j \in Keys : Count(c, j) = Count(c, j)' + IF j = k THEN 1 ELSE 0
  BY UnlockKeyCounted DEF KeyCounted, ClientState
<1>2. ASSUME NEW j \in Keys PROVE Count(c, j)' \in Nat
  <2>1. PICK n, q : n = client'[c].got /\ q = client'[c].keys
    OBVIOUS
  <2>2. Count(c, j)' = Occurrences(q, n, j)
    BY <2>1 DEF Count, Occurrences
  <2>3. n \in Nat
    BY <1>1, <2>1
  <2>4. Occurrences(q, n, j) \in Nat
    BY <2>3, CountType
  <2> QED
    BY <2>2, <2>4
<1>3. /\ k \in Acquired(c)
      /\ \A j \in Keys : j # k => (j \in Acquired(c)' <=> j \in Acquired(c))
  <2>1. ASSUME NEW j \in Keys
        PROVE  /\ j = k => Count(c, j) > 0
               /\ j # k => (Count(c, j)' > 0 <=> Count(c, j) > 0)
    <3> PICK a, b : a = Count(c, j) /\ b = Count(c, j)'
      OBVIOUS
    <3>1. /\ j = k => a > 0
          /\ j # k => (b > 0 <=> a > 0)
      BY <1>1, <1>2
    <3> QED
      BY <3>1
  <2> QED
    BY <1>1, <2>1 DEF Acquired
<1>4. \A d \in Clients : d # c => Acquired(d)' = Acquired(d)
  BY <1>1, OtherAcquired
<1>5. CASE k \in Acquired(c)'
  <2>1. Acquired(c)' = Acquired(c)
    BY <1>3, <1>5 DEF Acquired
  <2>2. \A d \in Clients : Acquired(d)' = Acquired(d)
    BY <1>4, <2>1
  <2> QED
    BY <2>2, SameOwners
<1>6. CASE k \notin Acquired(c)'
  <2>1. Owner[k] = c
    BY <1>1, <1>3 DEF OwnerOK
  <2>2. ASSUME NEW j \in Keys PROVE Owner'[j] = IF j = k THEN Nobody ELSE Owner[j]
    <3>1. CASE j = k
      <4>1. \A d \in Clients : k \notin Acquired(d)'
        BY <1>1, <1>4, <1>6, <2>1 DEF OwnerOK
      <4> QED
        BY <3>1, <4>1 DEF OwnerOK
    <3>2. CASE j # k
      <4>1. \A d \in Clients : j \in Acquired(d)' <=> j \in Acquired(d)
        BY <1>3, <1>4, <3>2
      <4> QED
        BY <3>2, <4>1, LockAssumption DEF OwnerOK
    <3> QED
      BY <3>1, <3>2
  <2>3. Owner' = [j \in Keys |-> Owner'[j]] /\ Owner = [j \in Keys |-> Owner[j]]
    BY DEF OwnerOK
  <2>4. Owner' = [Owner EXCEPT ![k] = Nobody]
    BY <2>2, <2>3
  <2> QED
    BY <1>1, <2>1, <2>4 DEF Lock!Release
<1> QED
  BY <1>5, <1>6

\* Every step of the locker is a step of ResourceLock, or none.
LEMMA NextImplementsLock ==
    ASSUME LockInv, LockInv', OwnerOK, OwnerOK', [Next]_vars
    PROVE  [Lock!Next]_Owner
<1>1. CASE UNCHANGED vars
  <2>1. \A d \in Clients : Acquired(d)' = Acquired(d)
    BY <1>1, OtherAcquired DEF vars
  <2> QED
    BY <2>1, SameOwners
<1>2. ASSUME NEW c \in Clients, client[c].pc \in {"idle", "connect"},
             \/ client'[c].conn = NoSession
             \/ client'[c].pc = "acquire" /\ client'[c].got = 0,
             \A d \in Clients : d # c => client'[d] = client[d]
      PROVE  Owner' = Owner
  <2>1. Acquired(c) = {}
    BY <1>2, LocalFacts DEF Progress, Acquired
  <2>2. Acquired(c)' = {}
    <3>1. CASE client'[c].conn = NoSession
      BY <3>1 DEF Acquired
    <3>2. CASE client'[c].got = 0
      <4>1. \A j \in Keys : ~(Count(c, j)' > 0)
        <5> SUFFICES ASSUME NEW j \in Keys PROVE Count(c, j)' = 0
          OBVIOUS
        <5>1. PICK q : q = client'[c].keys
          OBVIOUS
        <5>2. Count(c, j)' = Occurrences(q, 0, j)
          BY <3>2, <5>1 DEF Count, Occurrences
        <5>3. Occurrences(q, 0, j) = 0
          BY CountedOccurs
        <5> QED
          BY <5>2, <5>3
      <4> QED
        BY <4>1 DEF Acquired
    <3> QED
      BY <1>2, <3>1, <3>2
  <2>3. \A d \in Clients : Acquired(d)' = Acquired(d)
    BY <1>2, <2>1, <2>2, OtherAcquired
  <2> QED
    BY <2>3, SameOwners
<1>3. ASSUME NEW c \in Clients, Request(c) PROVE Owner' = Owner
  <2>1. client \in [Clients -> ClientState]
    BY LocalFacts
  <2>2. /\ client[c].pc = "idle" /\ client'[c].conn = NoSession
        /\ \A d \in Clients : d # c => client'[d] = client[d]
    BY <1>3, <2>1 DEF Request
  <2> QED
    BY <1>2, <2>2
<1>4. ASSUME NEW c \in Clients, Connect(c) PROVE Owner' = Owner
  <2>1. client \in [Clients -> ClientState] /\ client[c] \in ClientState /\ Progress(c)
    BY LocalFacts
  <2>2. /\ client[c].pc = "connect" /\ client'[c].pc = "acquire" /\ client'[c].got = client[c].got
        /\ \A d \in Clients : d # c => client'[d] = client[d]
    BY <1>4, <2>1 DEF Connect, ClientState
  <2> QED
    BY <1>2, <2>1, <2>2 DEF Progress
<1>5. ASSUME NEW c \in Clients, LockKey(c) PROVE [Lock!Next]_Owner
  BY <1>5, LockKeyAcquires DEF Lock!Next
<1>6. ASSUME NEW c \in Clients, UnlockKey(c) PROVE [Lock!Next]_Owner
  BY <1>6, UnlockKeyReleases DEF Lock!Next
<1>7. ASSUME NEW c \in Clients, StartUnlock(c) PROVE Owner' = Owner
  <2>1. client \in [Clients -> ClientState] /\ client[c] \in ClientState
    BY LocalFacts
  <2>2. /\ client'[c].conn = client[c].conn /\ client'[c].got = client[c].got
        /\ client'[c].keys = client[c].keys
        /\ \A d \in Clients : d # c => client'[d] = client[d]
    BY <1>7, <2>1 DEF StartUnlock, ClientState
  <2>3. Acquired(c)' = Acquired(c)
    BY <2>2 DEF Acquired, Count
  <2>4. \A d \in Clients : Acquired(d)' = Acquired(d)
    BY <2>2, <2>3, OtherAcquired
  <2> QED
    BY <2>4, SameOwners
<1>8. ASSUME NEW c \in Clients, client'[c].conn = NoSession,
             \A d \in Clients : d # c => client'[d] = client[d]
      PROVE  [Lock!Next]_Owner
  <2>1. Lock!EndSessions({c})
    BY <1>8, OtherAcquired, OwnerGone DEF Acquired
  <2> QED
    BY <2>1 DEF Lock!Next
<1>9. ASSUME NEW c \in Clients, LoseSession(c) PROVE [Lock!Next]_Owner
  <2>1. client \in [Clients -> ClientState] /\ client[c] \in ClientState
    BY LocalFacts
  <2>2. client'[c].conn = NoSession /\ \A d \in Clients : d # c => client'[d] = client[d]
    BY <1>9, <2>1 DEF LoseSession, ClientState
  <2> QED
    BY <1>8, <2>2
<1>10. ASSUME NEW s \in Sessions, Expire(s) PROVE Owner' = Owner
  <2>1. \A d \in Clients : Acquired(d)' = Acquired(d)
    BY <1>10, OtherAcquired DEF Expire
  <2> QED
    BY <2>1, SameOwners
<1>11. ASSUME NEW c \in Clients,
              \/ TryLockFails(c)
              \/ BreakDeadlock(c)
              \/ CancelLock(c)
              \/ FinishUnlock(c)
              \/ UncheckedUnlock(c)
              \/ NoticeLostSession(c)
              \/ Crash(c)
       PROVE  [Lock!Next]_Owner
  <2>1. CallEnds(c) /\ client \in [Clients -> ClientState]
    BY <1>11, EndingSteps, LocalFacts
  <2>2. client'[c].conn = NoSession /\ \A d \in Clients : d # c => client'[d] = client[d]
    BY <2>1 DEF CallEnds, IdleClient
  <2> QED
    BY <1>8, <2>2
<1> QED
  BY <1>1, <1>3, <1>4, <1>5, <1>6, <1>7, <1>9, <1>10, <1>11 DEF Next, LockStep, UnlockStep

LEMMA InitImplementsLock ==
    ASSUME Init, LockInv, OwnerOK
    PROVE  Lock!Init
<1>1. \A c \in Clients : Acquired(c) = {}
  BY DEF Init, Acquired, IdleClient
<1>2. \A k \in Keys : Owner[k] = Nobody
  BY <1>1 DEF OwnerOK
<1>3. Owner = [k \in Keys |-> Owner[k]]
  BY DEF OwnerOK
<1> QED
  BY <1>2, <1>3 DEF Lock!Init

\* The locker of pkg/distlock/postgres keeps the promise the schema pipeline
\* relies on: a key has one owner at a time, it is acquired only while it is
\* free, and it becomes free only when its owner gives it back or loses its
\* session.
THEOREM LockerImplementsResourceLock == Spec => ImplementsResourceLock
<1>1. LockInv => OwnerOK
  BY OwnerIsAcquirer
<1>2. Init => Lock!Init
  BY InitLockInv, OwnerIsAcquirer, InitImplementsLock
<1>3. LockInv /\ LockInv' /\ OwnerOK /\ OwnerOK' /\ [Next]_vars => [Lock!Next]_Owner
  BY NextImplementsLock
<1> QED
  BY <1>1, <1>2, <1>3, LockCorrect, PTL DEF Spec, ImplementsResourceLock, Lock!Spec
====
