---- MODULE PostgresBus_proofs ----
(***************************************************************************)
(* Proofs about PostgresBus, for any number of subscriptions, workers,     *)
(* publishers, callers of Close, messages and failures: what is quiet      *)
(* after a Close has returned, and in which order messages are handled.    *)
(***************************************************************************)
EXTENDS PostgresBus, FiniteSetTheorems, SequenceTheorems, TLAPS

\* A subscription the bus has accepted and not refused.
Live(s) == sub[s].stage \in {"registered", "running"}

\* A worker between TakeMessage and the end of process().
Busy(w) == worker[w].pc \in {"handle", "backoff"}

\* What a goroutine has in its hands is a message.
WorkerOK(w) ==
    /\ Busy(w) => worker[w].msg \in Messages
    /\ worker[w].pc = "backoff" => worker[w].attempt < MaxRetries

ReceiverOK(s) ==
    /\ receiver[s].pc = "enqueue" => receiver[s].msg \in Messages
    /\ receiver[s].pc # "off" => sub[s].stage = "running"

\* The stages of Close: closeCh is closed in once.Do, which is done when the
\* subscription is removed from the bus and its listener closed.
CloseStages(s) ==
    /\ sub[s].once # "free" => sub[s].closing /\ Live(s)
    /\ sub[s].once = "done" => listener[s].conn = "closed" /\ s \notin bus.subs
    /\ s \in bus.subs => Live(s)
    /\ Live(s) => s \in bus.subs \/ sub[s].closing

\* Where a call of Close stands.
CloserOK(c) ==
    LET x == closer[c] IN
    /\ x.pc \notin {"idle", "next"} => x.at \in Subs /\ Live(x.at)
    /\ \A s \in x.todo : Live(s)
    /\ x.pc \in {"remove", "unlisten"} => sub[x.at].once # "free"
    /\ x.pc = "unlisten" => x.at \notin bus.subs
    /\ x.pc = "wait" => sub[x.at].once = "done"
    /\ x.pc = "idle" => ~x.all
    /\ x.pc = "next" => x.all
    /\ x.all => bus.closed

\* A Bus.Close that will still close s.
WillClose(c, s) ==
    /\ closer[c].all
    /\ s \in closer[c].todo \/ (closer[c].pc = "once" /\ closer[c].at = s)

\* Bus.Close has one caller that does it, and that caller forgets nobody.
BusClosing ==
    /\ \A c, d \in Closers : closer[c].all /\ closer[d].all => c = d
    /\ bus.drained => bus.closed
    /\ bus.closed /\ ~bus.drained =>
          \A s \in Subs : Live(s) /\ ~sub[s].closing => \E c \in Closers : WillClose(c, s)

CloseInv ==
    /\ TypeOK
    /\ \A w \in Workers : WorkerOK(w)
    /\ \A s \in Subs : ReceiverOK(s) /\ CloseStages(s)
    /\ \A c \in Closers : CloserOK(c)
    /\ BusClosing
    /\ ClosedIsQuiet
    /\ DrainedIsQuiet

\* Order of messages; what is Nil in a Notify channel does not count.
Below(A, B) == \A a \in A, b \in B : a < b

Ascending(q) == \A i, j \in DOMAIN q : i < j /\ q[i] # Nil /\ q[j] # Nil => q[i] < q[j]

Finished(s) == ToSet(finished[s])

Handled(s) == {worker[w].msg : w \in {v \in WorkersOf(s) : Busy(v)}}

Queued(s) == ToSet(msgCh[s])

Received(s) == IF receiver[s].pc = "enqueue" THEN {receiver[s].msg} ELSE {}

Notified(s) == ToSet(listener[s].notify) \ {Nil}

Single(s) == Cardinality(WorkersOf(s)) = 1

\* What is further on its way was sent earlier.
OrderOK(s) ==
    /\ Ascending(msgCh[s])
    /\ Ascending(listener[s].notify)
    /\ Below(Finished(s) \cup Handled(s), Queued(s) \cup Received(s) \cup Notified(s))
    /\ Below(Queued(s), Received(s) \cup Notified(s))
    /\ Below(Received(s), Notified(s))
    /\ \A m \in Finished(s) \cup Handled(s) \cup Queued(s) \cup Received(s) \cup Notified(s) :
          m <= sent
    /\ Single(s) => Below(Finished(s), Handled(s)) /\ Ascending(finished[s])

OrderInv == \A s \in Subs : OrderOK(s)

-----------------------------------------------------------------------------
\* Types.

LEMMA InitCloseInv == Init => CloseInv
<1> SUFFICES ASSUME Init PROVE CloseInv
  OBVIOUS
<1> USE DEF Init
<1>1. TypeOK
  BY BusAssumption, FaultsAssumption DEF TypeOK, FaultsInit, FaultsTypeOK, SubState, ListenerState,
     ReceiverState, WorkerState, CloserState, IdleCloser
<1>2. \A w \in Workers : WorkerOK(w)
  BY DEF WorkerOK, Busy
<1>3. \A s \in Subs : ReceiverOK(s) /\ CloseStages(s)
  BY DEF ReceiverOK, CloseStages, Live
<1>4. \A c \in Closers : CloserOK(c)
  BY DEF CloserOK, IdleCloser
<1>5. BusClosing /\ ClosedIsQuiet /\ DrainedIsQuiet
  BY DEF BusClosing, ClosedIsQuiet, DrainedIsQuiet, IdleCloser
<1> QED
  BY <1>1, <1>2, <1>3, <1>4, <1>5 DEF CloseInv

LEMMA FaultsBounded ==
    ASSUME FaultsTypeOK, UNCHANGED faults \/ \E kind \in FaultKinds : Fault(kind)
    PROVE  FaultsTypeOK'
BY FaultsAssumption DEF FaultsTypeOK, Fault

LEMMA FaultsKept == FaultsTypeOK /\ Next => FaultsTypeOK'
<1> SUFFICES ASSUME FaultsTypeOK, Next PROVE FaultsTypeOK'
  OBVIOUS
<1>1. UNCHANGED faults \/ \E kind \in FaultKinds : Fault(kind)
  BY DEF Next, CheckOpen, Publish, PublishElsewhere, Listen, SubscribeStep, Register, Start,
     ReceiverStep, ReceiveNotification, Enqueue, ReceiverExits, Disconnect, Reconnect, Cancel,
     WorkerStep, TakeMessage, HandlerSucceeds, Retry, CutBackoff, WorkerExits, HandlerFails,
     CloseSubscription, CloseBus, CloserStep, NextSubscription, EnterOnce, RemoveSubscription,
     CloseListener, AwaitStopped, GiveUp, Fault
<1> QED
  BY <1>1, FaultsBounded

LEMMA NotifyType ==
    ASSUME TypeOK, Notify
    PROVE  /\ sent' \in 0 .. MaxMessages
           /\ listener' \in [Subs -> ListenerState]
<1>1. sent' \in Messages /\ sent' = sent + 1
  BY BusAssumption DEF TypeOK, Notify, Messages
<1>2. ASSUME NEW s \in Subs PROVE listener'[s] \in ListenerState
  <2>1. listener[s] \in ListenerState
    BY DEF TypeOK
  <2>2. Append(listener[s].notify, sent + 1) \in Seq(Messages \cup {Nil})
    BY <1>1, <2>1 DEF ListenerState
  <2> QED
    BY <2>1, <2>2 DEF Notify, ListenerState
<1> QED
  BY <1>1, <1>2 DEF Notify, Messages

\* Records with some of their fields changed.
LEMMA SubUpdates ==
    ASSUME NEW f \in [Subs -> SubState], NEW s \in Subs
    PROVE  /\ \A stage \in {"none", "listening", "registered", "running", "refused"} :
                 [f EXCEPT ![s].stage = stage] \in [Subs -> SubState]
           /\ [f EXCEPT ![s].cancelled = TRUE] \in [Subs -> SubState]
           /\ [f EXCEPT ![s].once = "taken", ![s].closing = TRUE] \in [Subs -> SubState]
           /\ [f EXCEPT ![s].once = "done"] \in [Subs -> SubState]
<1>1. f[s] \in SubState
  OBVIOUS
<1>2. /\ \A stage \in {"none", "listening", "registered", "running", "refused"} :
            [f[s] EXCEPT !.stage = stage] \in SubState
      /\ [f[s] EXCEPT !.cancelled = TRUE] \in SubState
  BY <1>1 DEF SubState
<1>3. /\ [f[s] EXCEPT !.once = "taken", !.closing = TRUE] \in SubState
      /\ [f[s] EXCEPT !.once = "done"] \in SubState
  BY <1>1 DEF SubState
<1> QED
  BY <1>2, <1>3

LEMMA ListenerUpdates ==
    ASSUME NEW f \in [Subs -> ListenerState], NEW s \in Subs
    PROVE  \A conn \in {"none", "up", "down", "closed"} :
              [f EXCEPT ![s].conn = conn] \in [Subs -> ListenerState]
BY DEF ListenerState

LEMMA CloserUpdates ==
    ASSUME NEW f \in [Closers -> CloserState], NEW c \in Closers
    PROVE  /\ \A pc \in {"idle", "next", "once", "remove", "unlisten", "wait"} :
                 [f EXCEPT ![c].pc = pc] \in [Closers -> CloserState]
           /\ \A s \in Subs :
                 [f EXCEPT ![c].pc = "once", ![c].at = s, ![c].todo = @ \ {s}]
                     \in [Closers -> CloserState]
           /\ \A x \in CloserState : [f EXCEPT ![c] = x] \in [Closers -> CloserState]
<1>1. f[c] \in CloserState
  OBVIOUS
<1>2. ASSUME NEW pc \in {"idle", "next", "once", "remove", "unlisten", "wait"}
      PROVE  [f EXCEPT ![c].pc = pc] \in [Closers -> CloserState]
  <2>1. [f[c] EXCEPT !.pc = pc] \in CloserState
    BY <1>1, <1>2 DEF CloserState
  <2> QED
    BY <2>1
<1>3. ASSUME NEW s \in Subs
      PROVE  [f EXCEPT ![c].pc = "once", ![c].at = s, ![c].todo = @ \ {s}]
                 \in [Closers -> CloserState]
  <2> DEFINE todo == f[c].todo \ {s}
  <2>1. todo \in SUBSET Subs
    BY <1>1 DEF CloserState
  <2> HIDE DEF todo
  <2>2. [f[c] EXCEPT !.pc = "once", !.at = s, !.todo = todo] \in CloserState
    BY <1>1, <1>3, <2>1 DEF CloserState
  <2>3. [f EXCEPT ![c].pc = "once", ![c].at = s, ![c].todo = todo] \in [Closers -> CloserState]
    BY <2>2
  <2> QED
    BY <2>3 DEF todo
<1>4. \A x \in CloserState : [f EXCEPT ![c] = x] \in [Closers -> CloserState]
  OBVIOUS
<1> QED
  BY <1>2, <1>3, <1>4

LEMMA WorkerGotoType ==
    ASSUME TypeOK, NEW w \in Workers, NEW pc \in {"off", "wait", "handle", "backoff", "exit"},
           NEW msg \in Messages \cup {Nil}, NEW attempt \in 0 .. MaxRetries,
           WorkerGoto(w, pc, msg, attempt)
    PROVE  worker' \in [Workers -> WorkerState]
BY DEF TypeOK, WorkerGoto, WorkerState

LEMMA PublishType ==
    ASSUME TypeOK, FaultsTypeOK',
           \/ \E p \in Publishers : CheckOpen(p) \/ Publish(p)
           \/ PublishElsewhere
    PROVE  TypeOK'
<1>1. ASSUME NEW p \in Publishers, CheckOpen(p) PROVE TypeOK'
  BY <1>1 DEF TypeOK, CheckOpen, sendVars, handlerVars, closeVars
<1>2. ASSUME NEW p \in Publishers, Publish(p) PROVE TypeOK'
  BY <1>2, NotifyType DEF TypeOK, Publish, handlerVars, closeVars
<1>3. CASE PublishElsewhere
  BY <1>3, NotifyType DEF TypeOK, PublishElsewhere, handlerVars, closeVars
<1> QED
  BY <1>1, <1>2, <1>3

LEMMA SubscribeType ==
    ASSUME TypeOK, FaultsTypeOK', NEW s \in Subs,
           Listen(s) \/ SubscribeStep(s) \/ Disconnect(s) \/ Reconnect(s) \/ Cancel(s)
    PROVE  TypeOK'
<1> USE DEF TypeOK, sendVars, handlerVars, closeVars
<1>1. CASE Listen(s)
  <2>1. sub' \in [Subs -> SubState] /\ listener' \in [Subs -> ListenerState]
    BY <1>1, SubUpdates, ListenerUpdates DEF Listen
  <2> QED
    BY <1>1, <2>1 DEF Listen
<1>2. CASE Register(s)
  <2>1. sub' \in [Subs -> SubState]
    <3>1. CASE sub' = [sub EXCEPT ![s].stage = "refused"]
      BY <3>1, SubUpdates
    <3>2. CASE sub' = [sub EXCEPT ![s].stage = "registered"]
      BY <3>2, SubUpdates
    <3> QED
      BY <1>2, <3>1, <3>2 DEF Register
  <2>2. listener' \in [Subs -> ListenerState]
    <3>1. <<>> \in Seq(Messages \cup {Nil})
      OBVIOUS
    <3>2. [conn |-> "closed", notify |-> <<>>] \in ListenerState
      BY <3>1 DEF ListenerState
    <3>3. CASE listener' = [listener EXCEPT ![s] = [conn |-> "closed", notify |-> <<>>]]
      BY <3>2, <3>3
    <3>4. CASE UNCHANGED listener
      BY <3>4
    <3> QED
      BY <1>2, <3>3, <3>4 DEF Register
  <2>3. bus' \in [closed : BOOLEAN, subs : SUBSET Subs, drained : BOOLEAN]
    <3>1. CASE bus' = [bus EXCEPT !.subs = @ \cup {s}]
      BY <3>1
    <3>2. CASE UNCHANGED bus
      BY <3>2
    <3> QED
      BY <1>2, <3>1, <3>2 DEF Register
  <2> QED
    BY <1>2, <2>1, <2>2, <2>3 DEF Register
<1>3. CASE Start(s)
  <2>1. sub' \in [Subs -> SubState]
    BY <1>3, SubUpdates DEF Start
  <2>2. receiver' \in [Subs -> ReceiverState]
    <3>1. receiver \in [Subs -> ReceiverState] /\ receiver' = [receiver EXCEPT ![s].pc = "wait"]
      BY <1>3 DEF Start
    <3>2. [receiver[s] EXCEPT !.pc = "wait"] \in ReceiverState
      <4>1. receiver[s] \in ReceiverState
        BY <3>1
      <4> QED
        BY <4>1 DEF ReceiverState
    <3> QED
      BY <3>1, <3>2
  <2>3. worker' \in [Workers -> WorkerState]
    <3>1. \A w \in Workers : [worker[w] EXCEPT !.pc = "wait"] \in WorkerState
      <4> SUFFICES ASSUME NEW w \in Workers PROVE [worker[w] EXCEPT !.pc = "wait"] \in WorkerState
        OBVIOUS
      <4>1. worker[w] \in WorkerState
        OBVIOUS
      <4> QED
        BY <4>1 DEF WorkerState
    <3>2. worker' = [w \in Workers |-> IF SubOf[w] = s THEN [worker[w] EXCEPT !.pc = "wait"]
                                                       ELSE worker[w]]
      BY <1>3 DEF Start
    <3> QED
      BY <3>1, <3>2
  <2> QED
    BY <1>3, <2>1, <2>2, <2>3 DEF Start
<1>4. CASE Disconnect(s)
  <2>1. listener' \in [Subs -> ListenerState]
    BY <1>4, ListenerUpdates DEF Disconnect
  <2> QED
    BY <1>4, <2>1 DEF Disconnect
<1>5. CASE Reconnect(s)
  <2>1. Append(listener[s].notify, Nil) \in Seq(Messages \cup {Nil})
    BY DEF ListenerState
  <2>2. listener' \in [Subs -> ListenerState]
    <3> DEFINE y == [listener[s] EXCEPT !.conn = "up", !.notify = Append(@, Nil)]
    <3>1. listener[s] \in ListenerState
      OBVIOUS
    <3>2. y \in ListenerState
      BY <2>1, <3>1 DEF ListenerState
    <3>3. listener' = [listener EXCEPT ![s] = y]
      BY <1>5 DEF Reconnect
    <3> HIDE DEF y
    <3> QED
      BY <3>2, <3>3
  <2> QED
    BY <1>5, <2>2 DEF Reconnect
<1>6. CASE Cancel(s)
  <2>1. sub' \in [Subs -> SubState]
    BY <1>6, SubUpdates DEF Cancel
  <2> QED
    BY <1>6, <2>1 DEF Cancel
<1> QED
  BY <1>1, <1>2, <1>3, <1>4, <1>5, <1>6 DEF SubscribeStep

LEMMA ReceiverType ==
    ASSUME TypeOK, FaultsTypeOK', NEW s \in Subs, ReceiverOK(s), ReceiverStep(s)
    PROVE  TypeOK'
<1> USE DEF TypeOK, sendVars, handlerVars, closeVars
<1>1. CASE ReceiveNotification(s)
  <2> DEFINE q == listener[s].notify
  <2>1. q \in Seq(Messages \cup {Nil}) /\ q # <<>>
    BY <1>1 DEF ReceiveNotification, ListenerState
  <2>2. Head(q) \in Messages \cup {Nil} /\ Tail(q) \in Seq(Messages \cup {Nil})
    BY <2>1
  <2>3. listener' \in [Subs -> ListenerState]
    BY <1>1, <2>2 DEF ReceiveNotification, ListenerState
  <2>4. receiver' \in [Subs -> ReceiverState]
    BY <1>1, <2>2 DEF ReceiveNotification, ReceiverState
  <2> QED
    BY <1>1, <2>3, <2>4 DEF ReceiveNotification
<1>2. CASE Enqueue(s)
  <2>1. /\ Append(msgCh[s], receiver[s].msg) \in Seq(Messages)
        /\ Len(Append(msgCh[s], receiver[s].msg)) <= Cap
    BY <1>2, BusAssumption DEF Enqueue, ReceiverOK
  <2>2. receiver' \in [Subs -> ReceiverState]
    BY <1>2 DEF Enqueue, ReceiverState
  <2>3. msgCh' \in [Subs -> Seq(Messages)] /\ \A t \in Subs : Len(msgCh'[t]) <= Cap
    BY <1>2, <2>1 DEF Enqueue
  <2> QED
    BY <1>2, <2>2, <2>3 DEF Enqueue
<1>3. CASE ReceiverExits(s)
  BY <1>3 DEF ReceiverExits, ReceiverState
<1> QED
  BY <1>1, <1>2, <1>3 DEF ReceiverStep

LEMMA ConcludeType ==
    ASSUME TypeOK, NEW w \in Workers, worker[w].msg \in Messages, Conclude(w)
    PROVE  /\ worker' \in [Workers -> WorkerState]
           /\ finished' \in [Subs -> Seq(Messages)]
<1>1. SubOf[w] \in Subs /\ 0 \in 0 .. MaxRetries
  BY BusAssumption
<1>2. Append(finished[SubOf[w]], worker[w].msg) \in Seq(Messages)
  BY <1>1 DEF TypeOK
<1> QED
  BY <1>1, <1>2, WorkerGotoType DEF Conclude, TypeOK

LEMMA WorkerType ==
    ASSUME TypeOK, FaultsTypeOK', NEW w \in Workers, WorkerOK(w), WorkerStep(w) \/ HandlerFails(w)
    PROVE  TypeOK'
<1> USE DEF sendVars, handlerVars, closeVars
<1>1. /\ worker[w] \in WorkerState /\ worker[w].attempt \in 0 .. MaxRetries
      /\ SubOf[w] \in Subs /\ 0 \in 0 .. MaxRetries
  BY BusAssumption DEF TypeOK, WorkerState
<1>2. CASE TakeMessage(w)
  <2> DEFINE q == msgCh[SubOf[w]]
  <2>1. q \in Seq(Messages) /\ q # <<>> /\ Len(q) <= Cap
    BY <1>1, <1>2 DEF TakeMessage, TypeOK
  <2>2. Head(q) \in Messages /\ Tail(q) \in Seq(Messages) /\ Len(Tail(q)) <= Cap
    BY <2>1, BusAssumption
  <2>3. worker' \in [Workers -> WorkerState]
    BY <1>1, <1>2, <2>2, WorkerGotoType DEF TakeMessage
  <2>4. msgCh' \in [Subs -> Seq(Messages)] /\ \A t \in Subs : Len(msgCh'[t]) <= Cap
    BY <1>1, <1>2, <2>2 DEF TakeMessage, TypeOK
  <2> QED
    BY <1>2, <2>3, <2>4 DEF TakeMessage, TypeOK
<1>3. CASE HandlerSucceeds(w)
  <2>1. worker' \in [Workers -> WorkerState] /\ finished' \in [Subs -> Seq(Messages)]
    BY <1>3, ConcludeType DEF HandlerSucceeds, WorkerOK, Busy
  <2> QED
    BY <1>3, <2>1 DEF HandlerSucceeds, Conclude, TypeOK
<1>4. CASE Retry(w)
  <2>1. worker[w].msg \in Messages /\ worker[w].attempt + 1 \in 0 .. MaxRetries
    BY <1>1, <1>4, BusAssumption DEF Retry, WorkerOK, Busy
  <2>2. worker' \in [Workers -> WorkerState]
    BY <1>4, <2>1, WorkerGotoType DEF Retry
  <2> QED
    BY <1>4, <2>2 DEF Retry, TypeOK
<1>5. CASE CutBackoff(w)
  <2>1. worker' \in [Workers -> WorkerState]
    BY <1>1, <1>5, WorkerGotoType DEF CutBackoff
  <2> QED
    BY <1>5, <2>1 DEF CutBackoff, TypeOK
<1>6. CASE WorkerExits(w)
  <2>1. worker' \in [Workers -> WorkerState]
    BY <1>1, <1>6, WorkerGotoType DEF WorkerExits
  <2> QED
    BY <1>6, <2>1 DEF WorkerExits, TypeOK
<1>7. CASE HandlerFails(w)
  <2>1. worker[w].msg \in Messages
    BY <1>7 DEF HandlerFails, WorkerOK, Busy
  <2>2. CASE worker[w].attempt < MaxRetries
    <3>1. worker' \in [Workers -> WorkerState]
      BY <1>1, <1>7, <2>1, <2>2, WorkerGotoType DEF HandlerFails
    <3> QED
      BY <1>7, <2>2, <3>1 DEF HandlerFails, TypeOK
  <2>3. CASE ~(worker[w].attempt < MaxRetries)
    <3>1. worker' \in [Workers -> WorkerState] /\ finished' \in [Subs -> Seq(Messages)]
      BY <1>7, <2>1, <2>3, ConcludeType DEF HandlerFails
    <3> QED
      BY <1>7, <2>3, <3>1 DEF HandlerFails, Conclude, TypeOK
  <2> QED
    BY <2>2, <2>3
<1> QED
  BY <1>2, <1>3, <1>4, <1>5, <1>6, <1>7 DEF WorkerStep

LEMMA CloserType ==
    ASSUME TypeOK, FaultsTypeOK', NEW c \in Closers, CloserOK(c),
           CloseSubscription(c) \/ CloseBus(c) \/ CloserStep(c) \/ GiveUp(c)
    PROVE  TypeOK'
<1> USE DEF TypeOK, sendVars, handlerVars, closeVars
<1>1. closer[c] \in CloserState /\ IdleCloser \in CloserState
  BY DEF CloserState, IdleCloser
<1>2. CASE CloseSubscription(c)
  <2>1. closer' \in [Closers -> CloserState]
    <3>1. PICK s \in Subs :
            closer' = [closer EXCEPT
                          ![c] = [pc |-> "once", at |-> s, todo |-> {}, all |-> FALSE]]
      BY <1>2 DEF CloseSubscription
    <3> QED
      BY <3>1, CloserUpdates DEF CloserState
  <2> QED
    BY <1>2, <2>1 DEF CloseSubscription
<1>3. CASE CloseBus(c)
  <2>1. closer' \in [Closers -> CloserState]
    BY <1>3 DEF CloseBus, CloserState
  <2> QED
    BY <1>3, <2>1 DEF CloseBus
<1>4. CASE NextSubscription(c)
  <2>1. closer' \in [Closers -> CloserState]
    <3>1. CASE closer' = [closer EXCEPT ![c] = IdleCloser]
      BY <1>1, <3>1
    <3>2. ASSUME NEW s \in closer[c].todo,
                 closer' = [closer EXCEPT ![c].pc = "once", ![c].at = s, ![c].todo = @ \ {s}]
          PROVE  closer' \in [Closers -> CloserState]
      <4>1. s \in Subs
        BY <1>1 DEF CloserState
      <4> QED
        BY <3>2, <4>1, CloserUpdates
    <3> QED
      BY <1>4, <3>1, <3>2 DEF NextSubscription
  <2> QED
    BY <1>4, <2>1 DEF NextSubscription
<1>5. CASE EnterOnce(c)
  <2>1. closer' \in [Closers -> CloserState]
    <3>1. CASE closer' = [closer EXCEPT ![c].pc = "remove"]
      BY <3>1, CloserUpdates
    <3>2. CASE closer' = [closer EXCEPT ![c].pc = "wait"]
      BY <3>2, CloserUpdates
    <3> QED
      BY <1>5, <3>1, <3>2 DEF EnterOnce
  <2>2. sub' \in [Subs -> SubState]
    <3>1. closer[c].at \in Subs
      BY <1>5 DEF EnterOnce, CloserOK
    <3>2. CASE sub' = [sub EXCEPT ![closer[c].at].once = "taken", ![closer[c].at].closing = TRUE]
      BY <3>1, <3>2, SubUpdates
    <3>3. CASE UNCHANGED sub
      BY <3>3
    <3> QED
      BY <1>5, <3>2, <3>3 DEF EnterOnce
  <2> QED
    BY <1>5, <2>1, <2>2 DEF EnterOnce
<1>6. CASE RemoveSubscription(c)
  <2>1. closer' \in [Closers -> CloserState]
    BY <1>6, CloserUpdates DEF RemoveSubscription
  <2> QED
    BY <1>6, <2>1 DEF RemoveSubscription
<1>7. CASE CloseListener(c)
  <2>1. closer' \in [Closers -> CloserState]
    BY <1>7, CloserUpdates DEF CloseListener
  <2>2. sub' \in [Subs -> SubState]
    <3>1. closer[c].at \in Subs
      BY <1>7 DEF CloseListener, CloserOK
    <3> QED
      BY <1>7, <3>1, SubUpdates DEF CloseListener
  <2>3. listener' \in [Subs -> ListenerState]
    <3>1. closer[c].at \in Subs
      BY <1>7 DEF CloseListener, CloserOK
    <3> QED
      BY <1>7, <3>1, ListenerUpdates DEF CloseListener
  <2> QED
    BY <1>7, <2>1, <2>2, <2>3 DEF CloseListener
<1>8. CASE AwaitStopped(c)
  <2>1. closer' \in [Closers -> CloserState]
    BY <1>1, <1>8 DEF AwaitStopped, ReturnFrom, CloserState
  <2>2. returned' \in SUBSET Subs
    BY <1>8 DEF AwaitStopped, ReturnFrom, CloserOK
  <2> QED
    BY <1>8, <2>1, <2>2 DEF AwaitStopped
<1>9. CASE GiveUp(c)
  <2>1. closer' \in [Closers -> CloserState]
    BY <1>1, <1>9 DEF GiveUp
  <2> QED
    BY <1>9, <2>1 DEF GiveUp
<1> QED
  BY <1>2, <1>3, <1>4, <1>5, <1>6, <1>7, <1>8, <1>9 DEF CloserStep

LEMMA NextType == CloseInv /\ Next => TypeOK'
<1> SUFFICES ASSUME CloseInv, Next PROVE TypeOK'
  OBVIOUS
<1>1. TypeOK /\ FaultsTypeOK'
  BY FaultsKept DEF CloseInv, TypeOK
<1> QED
  BY <1>1, PublishType, SubscribeType, ReceiverType, WorkerType, CloserType DEF CloseInv, Next

-----------------------------------------------------------------------------
\* Goroutines.

LEMMA NextWorkers == CloseInv /\ Next => \A w \in Workers : WorkerOK(w)'
<1> SUFFICES ASSUME CloseInv, Next PROVE \A w \in Workers : WorkerOK(w)'
  OBVIOUS
<1>1. /\ worker \in [Workers -> WorkerState] /\ \A w \in Workers : WorkerOK(w)
      /\ msgCh \in [Subs -> Seq(Messages)]
  BY DEF CloseInv, TypeOK
<1>2. CASE UNCHANGED worker
  BY <1>1, <1>2 DEF WorkerOK, Busy
<1>3. ASSUME NEW s \in Subs, Start(s) PROVE \A w \in Workers : WorkerOK(w)'
  <2>1. \A w \in Workers : worker'[w] = worker[w] \/ worker'[w].pc = "wait"
    BY <1>1, <1>3 DEF Start, WorkerState
  <2> QED
    BY <1>1, <2>1 DEF WorkerOK, Busy
<1>4. ASSUME NEW w \in Workers, WorkerStep(w) \/ HandlerFails(w)
      PROVE  \A v \in Workers : WorkerOK(v)'
  <2>1. \A v \in Workers : v # w => WorkerOK(v)'
    <3>1. \A v \in Workers : v # w => worker'[v] = worker[v]
      BY <1>1, <1>4 DEF WorkerStep, TakeMessage, HandlerSucceeds, Retry, CutBackoff, WorkerExits,
         HandlerFails, Conclude, WorkerGoto
    <3> QED
      BY <1>1, <3>1 DEF WorkerOK, Busy
  <2>2. WorkerOK(w)'
    <3>1. CASE TakeMessage(w)
      <4>1. Head(msgCh[SubOf[w]]) \in Messages
        BY <1>1, <3>1, BusAssumption DEF TakeMessage
      <4> QED
        BY <1>1, <3>1, <4>1 DEF TakeMessage, WorkerGoto, WorkerOK, Busy
    <3>2. CASE HandlerSucceeds(w) \/ CutBackoff(w) \/ WorkerExits(w)
      <4>1. worker'[w].pc \in {"wait", "exit"}
        BY <1>1, <3>2 DEF HandlerSucceeds, CutBackoff, WorkerExits, Conclude, WorkerGoto
      <4> QED
        BY <4>1 DEF WorkerOK, Busy
    <3>3. CASE Retry(w)
      BY <1>1, <3>3 DEF Retry, WorkerGoto, WorkerOK, Busy
    <3>4. CASE HandlerFails(w)
      <4>1. worker[w].msg \in Messages
        BY <1>1, <3>4 DEF HandlerFails, WorkerOK, Busy
      <4>2. CASE worker[w].attempt < MaxRetries
        BY <1>1, <3>4, <4>1, <4>2 DEF HandlerFails, WorkerGoto, WorkerOK, Busy
      <4>3. CASE ~(worker[w].attempt < MaxRetries)
        BY <1>1, <3>4, <4>3 DEF HandlerFails, Conclude, WorkerGoto, WorkerOK, Busy
      <4> QED
        BY <4>2, <4>3
    <3> QED
      BY <1>4, <3>1, <3>2, <3>3, <3>4 DEF WorkerStep
  <2> QED
    BY <2>1, <2>2
<1> QED
  BY <1>2, <1>3, <1>4 DEF Next, CheckOpen, Publish, PublishElsewhere, Listen, SubscribeStep,
     Register, ReceiverStep, ReceiveNotification, Enqueue, ReceiverExits, Disconnect, Reconnect,
     Cancel, CloseSubscription, CloseBus, CloserStep, NextSubscription, EnterOnce,
     RemoveSubscription, CloseListener, AwaitStopped, GiveUp, handlerVars

\* The steps that do not concern the stage of any subscription.
OtherSteps ==
    \/ \E p \in Publishers : CheckOpen(p) \/ Publish(p)
    \/ PublishElsewhere
    \/ \E s \in Subs : ReceiverStep(s) \/ Disconnect(s) \/ Reconnect(s)
    \/ \E w \in Workers : WorkerStep(w) \/ HandlerFails(w)
    \/ \E c \in Closers : CloseSubscription(c) \/ CloseBus(c) \/ NextSubscription(c)
                          \/ RemoveSubscription(c) \/ AwaitStopped(c) \/ GiveUp(c)

LEMMA OtherStepsKeepSub == OtherSteps => UNCHANGED sub
BY DEF OtherSteps, CheckOpen, Publish, PublishElsewhere, ReceiverStep, ReceiveNotification, Enqueue,
   ReceiverExits, Disconnect, Reconnect, WorkerStep, TakeMessage, HandlerSucceeds, Retry,
   CutBackoff, WorkerExits, HandlerFails, CloseSubscription, CloseBus, NextSubscription,
   RemoveSubscription, AwaitStopped, GiveUp

\* A subscription goes forward only: it stays accepted, and closing.
GoesForward(s) ==
    /\ Live(s) => Live(s)'
    /\ sub[s].stage = "running" => sub'[s].stage = "running"
    /\ sub[s].closing => sub'[s].closing
    /\ sub[s].once # "free" => sub'[s].once # "free"
    /\ sub[s].once = "done" => sub'[s].once = "done"

LEMMA SubsGoForward ==
    ASSUME CloseInv, Next, NEW s \in Subs
    PROVE  GoesForward(s)
<1> USE DEF GoesForward, Live
<1>1. sub \in [Subs -> SubState]
  BY DEF CloseInv, TypeOK
<1>2. CASE OtherSteps
  BY <1>2, OtherStepsKeepSub
<1>3. ASSUME NEW t \in Subs, Listen(t) PROVE GoesForward(s)
  BY <1>1, <1>3 DEF Listen, SubState
<1>4. ASSUME NEW t \in Subs, Register(t) PROVE GoesForward(s)
  BY <1>1, <1>4 DEF Register, SubState
<1>5. ASSUME NEW t \in Subs, Start(t) PROVE GoesForward(s)
  BY <1>1, <1>5 DEF Start, SubState
<1>6. ASSUME NEW t \in Subs, Cancel(t) PROVE GoesForward(s)
  BY <1>1, <1>6 DEF Cancel, SubState
<1>7. ASSUME NEW c \in Closers, EnterOnce(c) PROVE GoesForward(s)
  BY <1>1, <1>7 DEF EnterOnce, SubState
<1>8. ASSUME NEW c \in Closers, CloseListener(c) PROVE GoesForward(s)
  BY <1>1, <1>8 DEF CloseListener, SubState
<1> QED
  BY <1>2, <1>3, <1>4, <1>5, <1>6, <1>7, <1>8 DEF Next, OtherSteps, SubscribeStep, CloserStep

\* And so does the bus: it stays closed, and what is accepted is only removed.
LEMMA BusGoesForward ==
    ASSUME CloseInv, Next
    PROVE  /\ bus' \in [closed : BOOLEAN, subs : SUBSET Subs, drained : BOOLEAN]
           /\ bus.closed => bus'.closed
           /\ bus.drained => bus'.drained
           /\ \A s \in Subs : Live(s) /\ s \notin bus.subs => s \notin bus'.subs
<1> DEFINE Goal == /\ bus.closed => bus'.closed
                   /\ bus.drained => bus'.drained
                   /\ \A s \in Subs : Live(s) /\ s \notin bus.subs => s \notin bus'.subs
<1>1. bus \in [closed : BOOLEAN, subs : SUBSET Subs, drained : BOOLEAN]
  BY DEF CloseInv, TypeOK
<1>2. CASE UNCHANGED bus
  BY <1>1, <1>2
<1>3. ASSUME NEW s \in Subs, Register(s) PROVE Goal
  BY <1>1, <1>3 DEF Register, Live
<1>4. ASSUME NEW c \in Closers, CloseBus(c) \/ NextSubscription(c) \/ RemoveSubscription(c)
      PROVE  Goal
  <2>1. \/ bus' = [bus EXCEPT !.closed = TRUE]
        \/ bus' = [bus EXCEPT !.drained = TRUE]
        \/ bus' = [bus EXCEPT !.subs = @ \ {closer[c].at}]
        \/ UNCHANGED bus
    BY <1>4 DEF CloseBus, NextSubscription, RemoveSubscription
  <2> QED
    BY <1>1, <2>1
<1>5. Goal
  BY <1>2, <1>3, <1>4 DEF Next, CheckOpen, Publish, PublishElsewhere, Listen, SubscribeStep,
     Start, ReceiverStep, ReceiveNotification, Enqueue, ReceiverExits, Disconnect, Reconnect,
     Cancel, WorkerStep, TakeMessage, HandlerSucceeds, Retry, CutBackoff, WorkerExits,
     HandlerFails, CloseSubscription, CloserStep, EnterOnce, CloseListener, AwaitStopped, GiveUp
<1>6. TypeOK'
  BY NextType
<1> QED
  BY <1>5, <1>6 DEF TypeOK

LEMMA NextReceivers == CloseInv /\ Next => \A s \in Subs : ReceiverOK(s)'
<1> SUFFICES ASSUME CloseInv, Next, NEW s \in Subs PROVE ReceiverOK(s)'
  OBVIOUS
<1>1. /\ receiver \in [Subs -> ReceiverState] /\ ReceiverOK(s) /\ GoesForward(s)
      /\ sub \in [Subs -> SubState] /\ listener \in [Subs -> ListenerState]
  BY SubsGoForward DEF CloseInv, TypeOK
<1>2. CASE UNCHANGED receiver
  BY <1>1, <1>2 DEF ReceiverOK, GoesForward
<1>3. ASSUME NEW t \in Subs, Start(t) PROVE ReceiverOK(s)'
  <2>1. CASE s = t
    BY <1>1, <1>3, <2>1 DEF Start, ReceiverState, ReceiverOK, SubState
  <2>2. CASE s # t
    BY <1>1, <1>3, <2>2 DEF Start, ReceiverOK
  <2> QED
    BY <2>1, <2>2
<1>4. ASSUME NEW t \in Subs, ReceiverStep(t) PROVE ReceiverOK(s)'
  <2>1. UNCHANGED sub
    BY <1>4 DEF ReceiverStep, ReceiveNotification, Enqueue, ReceiverExits
  <2>2. CASE s # t
    <3>1. receiver'[s] = receiver[s]
      BY <1>1, <1>4, <2>2 DEF ReceiverStep, ReceiveNotification, Enqueue, ReceiverExits
    <3> QED
      BY <1>1, <2>1, <3>1 DEF ReceiverOK
  <2>3. CASE s = t
    <3>1. receiver[s].pc \in {"wait", "enqueue"}
      BY <1>4, <2>3 DEF ReceiverStep, ReceiveNotification, Enqueue, ReceiverExits
    <3>2. CASE ReceiveNotification(s)
      <4>1. Head(listener[s].notify) \in Messages \cup {Nil}
        BY <1>1, <3>2 DEF ReceiveNotification, ListenerState
      <4> QED
        BY <1>1, <2>1, <3>1, <3>2, <4>1 DEF ReceiveNotification, ReceiverOK
    <3>3. CASE Enqueue(s) \/ ReceiverExits(s)
      <4>1. receiver'[s].pc \in {"wait", "exit"}
        BY <1>1, <3>3 DEF Enqueue, ReceiverExits
      <4> QED
        BY <1>1, <2>1, <3>1, <4>1 DEF ReceiverOK
    <3> QED
      BY <1>4, <2>3, <3>2, <3>3 DEF ReceiverStep
  <2> QED
    BY <2>2, <2>3
<1> QED
  BY <1>2, <1>3, <1>4 DEF Next, CheckOpen, Publish, PublishElsewhere, Listen, SubscribeStep,
     Register, Disconnect, Reconnect, Cancel, WorkerStep, TakeMessage, HandlerSucceeds, Retry,
     CutBackoff, WorkerExits, HandlerFails, CloseSubscription, CloseBus, CloserStep,
     NextSubscription, EnterOnce, RemoveSubscription, CloseListener, AwaitStopped, GiveUp

-----------------------------------------------------------------------------
\* Close.

LEMMA NextCloseStages == CloseInv /\ Next => \A s \in Subs : CloseStages(s)'
<1> SUFFICES ASSUME CloseInv, Next, NEW s \in Subs PROVE CloseStages(s)'
  OBVIOUS
<1>1. /\ CloseStages(s) /\ GoesForward(s)
      /\ sub \in [Subs -> SubState] /\ listener \in [Subs -> ListenerState]
      /\ bus \in [closed : BOOLEAN, subs : SUBSET Subs, drained : BOOLEAN]
      /\ \A c \in Closers : CloserOK(c)
  BY SubsGoForward DEF CloseInv, TypeOK
<1>2. ASSUME UNCHANGED sub, bus'.subs = bus.subs,
             listener[s].conn = "closed" => listener'[s].conn = "closed"
      PROVE  CloseStages(s)'
  BY <1>1, <1>2 DEF CloseStages, Live
<1>3. CASE UNCHANGED <<bus, sub>> /\ Notify
  BY <1>1, <1>2, <1>3 DEF Notify, ListenerState
<1>4. ASSUME NEW t \in Subs, Listen(t) PROVE CloseStages(s)'
  <2>1. s # t => sub'[s] = sub[s] /\ listener'[s] = listener[s]
    BY <1>1, <1>4 DEF Listen
  <2>2. s = t => sub'[s].stage = "listening" /\ sub'[s].once = sub[s].once
    BY <1>1, <1>4 DEF Listen, SubState
  <2>3. s = t => ~Live(s)
    BY <1>4 DEF Listen, Live
  <2> QED
    BY <1>1, <1>4, <2>1, <2>2, <2>3 DEF Listen, CloseStages, Live
<1>5. ASSUME NEW t \in Subs, Register(t) PROVE CloseStages(s)'
  <2>1. CASE s # t
    <3>1. sub'[s] = sub[s] /\ listener'[s] = listener[s] /\ (s \in bus'.subs <=> s \in bus.subs)
      BY <1>1, <1>5, <2>1 DEF Register
    <3> QED
      BY <1>1, <3>1 DEF CloseStages, Live
  <2>2. CASE s = t
    <3>1. ~Live(s) /\ sub[s].once = "free" /\ s \notin bus.subs
      BY <1>1, <1>5, <2>2 DEF Register, Live, CloseStages
    <3>2. sub'[s].once = "free"
      BY <1>1, <1>5, <2>2, <3>1 DEF Register, SubState
    <3>3. CASE bus.closed
      <4>1. sub'[s].stage = "refused" /\ UNCHANGED bus
        BY <1>1, <1>5, <2>2, <3>3 DEF Register, SubState
      <4> QED
        BY <3>1, <3>2, <4>1 DEF CloseStages, Live
    <3>4. CASE ~bus.closed
      <4>1. sub'[s].stage = "registered" /\ s \in bus'.subs
        BY <1>1, <1>5, <2>2, <3>4 DEF Register, SubState
      <4> QED
        BY <3>2, <4>1 DEF CloseStages, Live
    <3> QED
      BY <3>3, <3>4
  <2> QED
    BY <2>1, <2>2
<1>6. ASSUME NEW t \in Subs, Start(t) PROVE CloseStages(s)'
  <2>1. /\ UNCHANGED <<bus, listener>>
        /\ sub'[s].once = sub[s].once /\ sub'[s].closing = sub[s].closing
        /\ Live(s)' <=> Live(s)
    BY <1>1, <1>6 DEF Start, SubState, Live
  <2> QED
    BY <1>1, <2>1 DEF CloseStages
<1>7. ASSUME NEW t \in Subs, Cancel(t) PROVE CloseStages(s)'
  <2>1. /\ UNCHANGED <<bus, listener>>
        /\ sub'[s].once = sub[s].once /\ sub'[s].closing = sub[s].closing
        /\ sub'[s].stage = sub[s].stage
    BY <1>1, <1>7 DEF Cancel, SubState
  <2> QED
    BY <1>1, <2>1 DEF CloseStages, Live
<1>8. ASSUME NEW t \in Subs, ReceiverStep(t) \/ Disconnect(t) \/ Reconnect(t)
      PROVE  CloseStages(s)'
  <2>1. UNCHANGED <<bus, sub>>
    BY <1>8 DEF ReceiverStep, ReceiveNotification, Enqueue, ReceiverExits, Disconnect, Reconnect
  <2>2. CASE UNCHANGED listener
    BY <1>2, <2>1, <2>2
  <2>3. CASE ReceiveNotification(t)
    <3>1. listener'[s].conn = listener[s].conn
      BY <1>1, <2>3 DEF ReceiveNotification, ListenerState
    <3> QED
      BY <1>2, <2>1, <3>1
  <2>4. CASE Disconnect(t) \/ Reconnect(t)
    <3>1. listener'[s] = listener[s] \/ (s = t /\ listener[s].conn # "closed")
      BY <1>1, <2>4 DEF Disconnect, Reconnect
    <3> QED
      BY <1>2, <2>1, <3>1
  <2> QED
    BY <1>8, <2>2, <2>3, <2>4 DEF ReceiverStep, Enqueue, ReceiverExits
<1>9. ASSUME NEW c \in Closers, CloseBus(c) \/ NextSubscription(c) PROVE CloseStages(s)'
  <2>1. UNCHANGED <<sub, listener>> /\ bus'.subs = bus.subs
    BY <1>1, <1>9 DEF CloseBus, NextSubscription
  <2> QED
    BY <1>2, <2>1
<1>10. ASSUME NEW c \in Closers, EnterOnce(c) PROVE CloseStages(s)'
  <2>1. UNCHANGED <<bus, listener>>
    BY <1>10 DEF EnterOnce
  <2>2. closer[c].at \in Subs /\ Live(closer[c].at)
    BY <1>1, <1>10 DEF EnterOnce, CloserOK
  <2>3. CASE sub'[s] = sub[s]
    BY <1>1, <2>1, <2>3 DEF CloseStages, Live
  <2>4. CASE sub'[s] # sub[s]
    <3>1. /\ s = closer[c].at
          /\ sub'[s].once = "taken" /\ sub'[s].closing /\ sub'[s].stage = sub[s].stage
      BY <1>1, <1>10, <2>4 DEF EnterOnce, SubState
    <3> QED
      BY <1>1, <2>1, <2>2, <3>1 DEF CloseStages, Live
  <2> QED
    BY <2>3, <2>4
<1>11. ASSUME NEW c \in Closers, RemoveSubscription(c) PROVE CloseStages(s)'
  <2>1. /\ UNCHANGED <<sub, listener>>
        /\ s \in bus'.subs <=> s \in bus.subs /\ s # closer[c].at
    BY <1>1, <1>11 DEF RemoveSubscription
  <2>2. s = closer[c].at => sub[s].closing
    BY <1>1, <1>11 DEF RemoveSubscription, CloserOK, CloseStages
  <2> QED
    BY <1>1, <2>1, <2>2 DEF CloseStages, Live
<1>12. ASSUME NEW c \in Closers, CloseListener(c) PROVE CloseStages(s)'
  <2>1. UNCHANGED bus /\ closer[c].at \in Subs /\ closer[c].at \notin bus.subs
        /\ Live(closer[c].at) /\ sub[closer[c].at].once # "free"
    BY <1>1, <1>12 DEF CloseListener, CloserOK
  <2>2. CASE s # closer[c].at
    <3>1. sub'[s] = sub[s] /\ listener'[s] = listener[s]
      BY <1>1, <1>12, <2>2 DEF CloseListener
    <3> QED
      BY <1>1, <2>1, <3>1 DEF CloseStages, Live
  <2>3. CASE s = closer[c].at
    <3>1. /\ sub'[s].once = "done" /\ sub'[s].stage = sub[s].stage
          /\ sub'[s].closing = sub[s].closing /\ listener'[s].conn = "closed"
      BY <1>1, <1>12, <2>3 DEF CloseListener, SubState, ListenerState
    <3> QED
      BY <1>1, <2>1, <2>3, <3>1 DEF CloseStages, Live
  <2> QED
    BY <2>2, <2>3
<1>13. CASE UNCHANGED <<bus, sub, listener>>
  BY <1>2, <1>13
<1> QED
  BY <1>3, <1>4, <1>5, <1>6, <1>7, <1>8, <1>9, <1>10, <1>11, <1>12, <1>13 DEF Next, CheckOpen,
     Publish, PublishElsewhere, SubscribeStep, WorkerStep, TakeMessage, HandlerSucceeds, Retry,
     CutBackoff, WorkerExits, HandlerFails, CloseSubscription, CloserStep, AwaitStopped, GiveUp

\* A call of Close that a step leaves where it is.
LEMMA CloserKept ==
    ASSUME CloseInv, Next, NEW d \in Closers, closer'[d] = closer[d]
    PROVE  CloserOK(d)'
<1> PICK x : x = closer[d]
  OBVIOUS
<1> USE DEF Live
<1>1. CloserOK(d) /\ closer'[d] = x /\ x.todo \in SUBSET Subs
  BY DEF CloseInv, TypeOK, CloserState
<1>2. /\ bus.closed => bus'.closed
      /\ \A s \in Subs : GoesForward(s) /\ (Live(s) /\ s \notin bus.subs => s \notin bus'.subs)
  BY SubsGoForward, BusGoesForward
<1>3. \A s \in x.todo : Live(s)'
  BY <1>1, <1>2 DEF CloserOK, GoesForward
<1>4. ASSUME x.pc \notin {"idle", "next"}
      PROVE  x.at \in Subs /\ Live(x.at) /\ Live(x.at)'
  BY <1>1, <1>2, <1>4 DEF CloserOK, GoesForward
<1>5. x.pc \in {"remove", "unlisten"} => sub'[x.at].once # "free"
  BY <1>1, <1>2, <1>4 DEF CloserOK, GoesForward
<1>6. x.pc = "unlisten" => x.at \notin bus'.subs
  BY <1>1, <1>2, <1>4 DEF CloserOK
<1>7. x.pc = "wait" => sub'[x.at].once = "done"
  BY <1>1, <1>2, <1>4 DEF CloserOK, GoesForward
<1>8. /\ x.pc = "idle" => ~x.all
      /\ x.pc = "next" => x.all
      /\ x.all => bus'.closed
  BY <1>1, <1>2 DEF CloserOK
<1> QED
  BY <1>1, <1>3, <1>4, <1>5, <1>6, <1>7, <1>8 DEF CloserOK

LEMMA NextClosers == CloseInv /\ Next => \A c \in Closers : CloserOK(c)'
<1> SUFFICES ASSUME CloseInv, Next PROVE \A c \in Closers : CloserOK(c)'
  OBVIOUS
<1>1. /\ closer \in [Closers -> CloserState] /\ sub \in [Subs -> SubState]
      /\ bus \in [closed : BOOLEAN, subs : SUBSET Subs, drained : BOOLEAN]
      /\ \A s \in Subs : CloseStages(s)
      /\ \A c \in Closers : CloserOK(c)
  BY DEF CloseInv, TypeOK
<1>2. CASE UNCHANGED closer
  BY <1>2, CloserKept
<1>3. ASSUME NEW c \in Closers,
             CloseSubscription(c) \/ CloseBus(c) \/ CloserStep(c) \/ GiveUp(c)
      PROVE  \A d \in Closers : CloserOK(d)'
  <2>1. \A d \in Closers : d # c => closer'[d] = closer[d]
    BY <1>1, <1>3 DEF CloseSubscription, CloseBus, CloserStep, GiveUp, NextSubscription, EnterOnce,
       RemoveSubscription, CloseListener, AwaitStopped, ReturnFrom
  <2>2. \A d \in Closers : d # c => CloserOK(d)'
    BY <2>1, CloserKept
  <2>3. \A s \in Subs : Live(s) => Live(s)'
    BY SubsGoForward DEF GoesForward
  <2>4. ASSUME closer'[c] = IdleCloser PROVE CloserOK(c)'
    BY <2>4 DEF IdleCloser, CloserOK
  <2> SUFFICES CloserOK(c)'
    BY <2>2
  <2>5. CASE CloseSubscription(c)
    <3>1. PICK s \in Subs :
            /\ sub[s].stage = "running"
            /\ closer' = [closer EXCEPT
                   ![c] = [pc |-> "once", at |-> s, todo |-> {}, all |-> FALSE]]
      BY <2>5 DEF CloseSubscription
    <3>2. closer'[c] = [pc |-> "once", at |-> s, todo |-> {}, all |-> FALSE]
      BY <1>1, <3>1
    <3>3. Live(s)'
      BY <2>3, <3>1 DEF Live
    <3> QED
      BY <3>2, <3>3 DEF CloserOK, Live
  <2>6. CASE CloseBus(c)
    <3>1. /\ closer'[c] = [pc |-> "next", at |-> NoSub, todo |-> bus.subs, all |-> TRUE]
          /\ bus'.closed
      BY <1>1, <2>6 DEF CloseBus
    <3>2. \A u \in bus.subs : Live(u)'
      BY <1>1, <2>3 DEF CloseStages
    <3> QED
      BY <3>1, <3>2 DEF CloserOK, Live
  <2>7. CASE NextSubscription(c)
    <3>1. CASE closer' = [closer EXCEPT ![c] = IdleCloser]
      BY <1>1, <2>4, <3>1
    <3>2. ASSUME NEW s \in closer[c].todo,
                 closer' = [closer EXCEPT ![c].pc = "once", ![c].at = s, ![c].todo = @ \ {s}],
                 UNCHANGED bus
          PROVE  CloserOK(c)'
      <4>1. /\ closer[c].todo \in SUBSET Subs /\ closer[c].pc = "next"
            /\ closer'[c].pc = "once" /\ closer'[c].at = s
            /\ closer'[c].todo = closer[c].todo \ {s} /\ closer'[c].all = closer[c].all
        <5> DEFINE x == closer[c]
                   y == [x EXCEPT !.pc = "once", !.at = s, !.todo = @ \ {s}]
        <5>1. x \in CloserState /\ closer'[c] = y
          BY <1>1, <3>2
        <5>2. /\ y.pc = "once" /\ y.at = s /\ y.todo = x.todo \ {s} /\ y.all = x.all
              /\ x.todo \in SUBSET Subs
          BY <5>1 DEF CloserState
        <5> HIDE DEF y
        <5> QED
          BY <2>7, <5>1, <5>2 DEF NextSubscription
      <4>2. \A u \in closer[c].todo : u \in Subs /\ Live(u)'
        BY <1>1, <2>3, <4>1 DEF CloserOK
      <4>3. closer[c].all /\ bus'.closed
        BY <1>1, <3>2, <4>1 DEF CloserOK
      <4>4. s \in Subs /\ Live(s)'
        BY <3>2, <4>2
      <4> QED
        BY <4>1, <4>2, <4>3, <4>4 DEF CloserOK, Live
    <3> QED
      BY <2>7, <3>1, <3>2 DEF NextSubscription
  <2> PICK s : s = closer[c].at
    OBVIOUS
  <2>8. ASSUME NEW pc \in {"remove", "unlisten", "wait"}, closer[c].pc \notin {"idle", "next"},
               closer'[c] = [closer[c] EXCEPT !.pc = pc],
               bus.closed => bus'.closed,
               pc \in {"remove", "unlisten"} => sub'[s].once # "free",
               pc = "unlisten" => s \notin bus'.subs,
               pc = "wait" => sub'[s].once = "done"
        PROVE  CloserOK(c)'
    <3>1. /\ closer'[c].pc = pc /\ closer'[c].at = s
          /\ closer'[c].todo = closer[c].todo /\ closer'[c].all = closer[c].all
          /\ closer[c].todo \in SUBSET Subs
      BY <1>1, <2>8 DEF CloserState
    <3>2. s \in Subs /\ Live(s)' /\ \A u \in closer[c].todo : Live(u)'
      BY <1>1, <2>3, <2>8, <3>1 DEF CloserOK
    <3>3. closer[c].all => bus'.closed
      BY <1>1, <2>8 DEF CloserOK
    <3> QED
      BY <2>8, <3>1, <3>2, <3>3 DEF CloserOK, Live
  <2>9. CASE EnterOnce(c)
    <3>1. s \in Subs /\ closer[c].pc = "once" /\ UNCHANGED bus
      BY <1>1, <2>9 DEF EnterOnce, CloserOK
    <3>2. CASE sub[s].once = "free"
      <4>1. closer'[c] = [closer[c] EXCEPT !.pc = "remove"] /\ sub'[s].once = "taken"
        BY <1>1, <2>9, <3>1, <3>2 DEF EnterOnce, SubState
      <4> QED
        BY <2>8, <3>1, <4>1
    <3>3. CASE sub[s].once = "done"
      <4>1. closer'[c] = [closer[c] EXCEPT !.pc = "wait"] /\ sub'[s].once = "done"
        BY <1>1, <2>9, <3>1, <3>3 DEF EnterOnce
      <4> QED
        BY <2>8, <3>1, <4>1
    <3> QED
      BY <2>9, <3>2, <3>3 DEF EnterOnce
  <2>10. CASE RemoveSubscription(c)
    <3>1. /\ closer[c].pc = "remove" /\ closer'[c] = [closer[c] EXCEPT !.pc = "unlisten"]
          /\ UNCHANGED sub /\ s \notin bus'.subs /\ bus'.closed = bus.closed
      BY <1>1, <2>10 DEF RemoveSubscription
    <3>2. sub[s].once # "free"
      BY <1>1, <3>1 DEF CloserOK
    <3> QED
      BY <2>8, <3>1, <3>2
  <2>11. CASE CloseListener(c)
    <3>1. s \in Subs /\ closer[c].pc = "unlisten" /\ UNCHANGED bus
      BY <1>1, <2>11 DEF CloseListener, CloserOK
    <3>2. closer'[c] = [closer[c] EXCEPT !.pc = "wait"] /\ sub'[s].once = "done"
      BY <1>1, <2>11, <3>1 DEF CloseListener, SubState
    <3> QED
      BY <2>8, <3>1, <3>2
  <2>12. CASE AwaitStopped(c)
    <3>1. CASE closer[c].all
      <4>1. /\ closer'[c] = [closer[c] EXCEPT !.pc = "next"]
            /\ UNCHANGED bus
        BY <1>1, <2>12, <3>1 DEF AwaitStopped, ReturnFrom
      <4>2. /\ closer'[c].pc = "next" /\ closer'[c].todo = closer[c].todo
            /\ closer'[c].all /\ closer[c].todo \in SUBSET Subs
        BY <1>1, <3>1, <4>1 DEF CloserState
      <4>3. \A u \in closer[c].todo : Live(u)'
        BY <1>1, <2>3, <4>2 DEF CloserOK
      <4>4. bus'.closed
        BY <1>1, <3>1, <4>1 DEF CloserOK
      <4> QED
        BY <4>2, <4>3, <4>4 DEF CloserOK, Live
    <3>2. CASE ~closer[c].all
      BY <1>1, <2>4, <2>12, <3>2 DEF AwaitStopped, ReturnFrom
    <3> QED
      BY <3>1, <3>2
  <2>13. CASE GiveUp(c)
    BY <1>1, <2>4, <2>13 DEF GiveUp
  <2> QED
    BY <1>3, <2>5, <2>6, <2>7, <2>9, <2>10, <2>11, <2>12, <2>13 DEF CloserStep
<1> QED
  BY <1>2, <1>3 DEF Next, CheckOpen, Publish, PublishElsewhere, Listen, SubscribeStep, Register,
     Start, ReceiverStep, ReceiveNotification, Enqueue, ReceiverExits, Disconnect, Reconnect,
     Cancel, WorkerStep, TakeMessage, HandlerSucceeds, Retry, CutBackoff, WorkerExits,
     HandlerFails, closeVars

\* A closed bus accepts no subscription.
LEMMA ClosedAcceptsNone ==
    ASSUME CloseInv, Next, bus.closed, NEW s \in Subs, Live(s)'
    PROVE  Live(s)
<1>1. sub \in [Subs -> SubState]
  BY DEF CloseInv, TypeOK
<1>2. CASE OtherSteps
  BY <1>2, OtherStepsKeepSub DEF Live
<1>3. ASSUME NEW t \in Subs, Listen(t) \/ SubscribeStep(t) \/ Cancel(t) PROVE Live(s)
  BY <1>1, <1>3 DEF Listen, SubscribeStep, Register, Start, Cancel, SubState, Live
<1>4. ASSUME NEW c \in Closers, EnterOnce(c) \/ CloseListener(c) PROVE Live(s)
  <2>1. sub'[s].stage = sub[s].stage
    BY <1>1, <1>4 DEF EnterOnce, CloseListener, SubState
  <2> QED
    BY <2>1 DEF Live
<1> QED
  BY <1>2, <1>3, <1>4 DEF Next, OtherSteps, SubscribeStep, CloserStep

LEMMA NextBusClosing == CloseInv /\ Next => BusClosing'
<1> SUFFICES ASSUME CloseInv, Next PROVE BusClosing'
  OBVIOUS
<1>1. /\ closer \in [Closers -> CloserState] /\ sub \in [Subs -> SubState]
      /\ bus \in [closed : BOOLEAN, subs : SUBSET Subs, drained : BOOLEAN]
      /\ BusClosing /\ \A s \in Subs : CloseStages(s)
      /\ \A c \in Closers : CloserOK(c)
  BY DEF CloseInv, TypeOK
<1>2. /\ \A s \in Subs : sub[s].closing => sub'[s].closing
      /\ bus.closed => \A s \in Subs : Live(s)' => Live(s)
      /\ bus.closed => bus'.closed
  BY SubsGoForward, ClosedAcceptsNone, BusGoesForward DEF GoesForward
<1>3. CASE UNCHANGED closer /\ bus'.closed = bus.closed /\ bus'.drained = bus.drained
  <2>1. \A c \in Closers, s \in Subs : WillClose(c, s)' <=> WillClose(c, s)
    BY <1>3 DEF WillClose
  <2> QED
    BY <1>1, <1>2, <1>3, <2>1 DEF BusClosing
<1>4. ASSUME NEW c \in Closers, \A d \in Closers : d # c => closer'[d] = closer[d],
             closer'[c].all => closer[c].all,
             bus'.closed = bus.closed, bus'.drained = bus.drained,
             \A s \in Subs : WillClose(c, s) /\ ~sub'[s].closing => WillClose(c, s)'
      PROVE  BusClosing'
  <2>1. \A d \in Closers : closer'[d].all => closer[d].all
    BY <1>4
  <2>2. \A d \in Closers, s \in Subs : d # c => (WillClose(d, s) => WillClose(d, s)')
    BY <1>4 DEF WillClose
  <2>3. ASSUME bus'.closed, ~bus'.drained, NEW s \in Subs, Live(s)', ~sub'[s].closing
        PROVE  \E d \in Closers : WillClose(d, s)'
    <3>1. PICK d \in Closers : WillClose(d, s)
      BY <1>1, <1>2, <1>4, <2>3 DEF BusClosing
    <3> QED
      BY <1>4, <2>2, <2>3, <3>1
  <2> QED
    BY <1>1, <1>4, <2>1, <2>3 DEF BusClosing
<1>5. ASSUME NEW c \in Closers, CloseBus(c) PROVE BusClosing'
  <2>1. /\ ~bus.closed /\ bus'.closed /\ bus'.drained = bus.drained
        /\ closer'[c].todo = bus.subs /\ closer'[c].all
        /\ \A d \in Closers : d # c => closer'[d] = closer[d]
        /\ UNCHANGED sub
    BY <1>1, <1>5 DEF CloseBus
  <2>2. \A d \in Closers : ~closer[d].all
    BY <1>1, <2>1 DEF CloserOK
  <2>3. \A s \in Subs : Live(s)' /\ ~sub'[s].closing => s \in bus.subs
    BY <1>1, <2>1 DEF CloseStages, Live
  <2>4. \A s \in Subs : Live(s)' /\ ~sub'[s].closing => WillClose(c, s)'
    BY <2>1, <2>3 DEF WillClose
  <2> QED
    BY <1>1, <2>1, <2>2, <2>4 DEF BusClosing
<1>6. ASSUME NEW c \in Closers, NextSubscription(c) PROVE BusClosing'
  <2>1. closer[c].pc = "next" /\ UNCHANGED sub
    BY <1>6 DEF NextSubscription
  <2>2. CASE bus' = [bus EXCEPT !.drained = TRUE] /\ closer' = [closer EXCEPT ![c] = IdleCloser]
    <3>1. closer[c].all /\ bus.closed
      BY <1>1, <2>1 DEF CloserOK
    <3>2. bus'.drained /\ bus'.closed
      BY <1>1, <2>2, <3>1
    <3>3. \A d \in Closers : closer'[d].all => closer[d].all
      BY <1>1, <2>2 DEF IdleCloser
    <3> QED
      BY <1>1, <3>2, <3>3 DEF BusClosing
  <2>3. ASSUME NEW s \in closer[c].todo, UNCHANGED bus,
               closer' = [closer EXCEPT ![c].pc = "once", ![c].at = s, ![c].todo = @ \ {s}]
        PROVE  BusClosing'
    <3>1. /\ closer'[c].pc = "once" /\ closer'[c].at = s
          /\ closer'[c].todo = closer[c].todo \ {s} /\ closer'[c].all = closer[c].all
          /\ \A d \in Closers : d # c => closer'[d] = closer[d]
      BY <1>1, <2>3 DEF CloserState
    <3>2. \A u \in Subs : WillClose(c, u) => WillClose(c, u)'
      BY <2>1, <3>1 DEF WillClose
    <3> QED
      BY <1>4, <2>3, <3>1, <3>2
  <2> QED
    BY <1>6, <2>2, <2>3 DEF NextSubscription
<1>7. ASSUME NEW c \in Closers,
             \/ CloseSubscription(c)
             \/ EnterOnce(c)
             \/ RemoveSubscription(c)
             \/ CloseListener(c)
             \/ AwaitStopped(c)
             \/ GiveUp(c)
      PROVE  BusClosing'
  <2>1. /\ \A d \in Closers : d # c => closer'[d] = closer[d]
        /\ bus'.closed = bus.closed /\ bus'.drained = bus.drained
    BY <1>1, <1>7 DEF CloseSubscription, EnterOnce, RemoveSubscription, CloseListener, AwaitStopped,
       ReturnFrom, GiveUp
  <2>2. ASSUME ~closer[c].all, ~closer'[c].all PROVE BusClosing'
    BY <1>4, <2>1, <2>2 DEF WillClose
  <2>3. ASSUME closer[c].pc # "once", closer'[c].todo = closer[c].todo,
               closer'[c].all = closer[c].all
        PROVE  BusClosing'
    BY <1>4, <2>1, <2>3 DEF WillClose
  <2>4. CASE CloseSubscription(c)
    <3>1. ~closer[c].all
      BY <1>1, <2>4 DEF CloseSubscription, CloserOK
    <3>2. ~closer'[c].all
      BY <1>1, <2>4 DEF CloseSubscription
    <3> QED
      BY <2>2, <3>1, <3>2
  <2>5. CASE EnterOnce(c)
    <3> PICK u : u = closer[c].at
      OBVIOUS
    <3>1. u \in Subs /\ closer[c].pc = "once" /\ \A s \in Subs : CloseStages(s)
      BY <1>1, <2>5 DEF EnterOnce, CloserOK
    <3>2. closer'[c].todo = closer[c].todo /\ closer'[c].all = closer[c].all
      BY <1>1, <2>5 DEF EnterOnce, CloserState
    <3>3. sub'[u].closing
      <4>1. CASE sub[u].once = "free"
        BY <1>1, <2>5, <3>1, <4>1 DEF EnterOnce, SubState
      <4>2. CASE sub[u].once = "done"
        BY <1>2, <3>1, <4>2 DEF CloseStages
      <4> QED
        BY <2>5, <4>1, <4>2 DEF EnterOnce
    <3>4. \A s \in Subs : WillClose(c, s) /\ ~sub'[s].closing => WillClose(c, s)'
      BY <3>2, <3>3 DEF WillClose
    <3> QED
      BY <1>4, <2>1, <3>2, <3>4
  <2>6. CASE RemoveSubscription(c) \/ CloseListener(c)
    <3>1. /\ closer[c].pc # "once" /\ closer'[c].todo = closer[c].todo
          /\ closer'[c].all = closer[c].all
      BY <1>1, <2>6 DEF RemoveSubscription, CloseListener, CloserState
    <3> QED
      BY <2>3, <3>1
  <2>7. CASE AwaitStopped(c)
    <3>1. CASE closer[c].all
      <4>1. /\ closer[c].pc # "once" /\ closer'[c].todo = closer[c].todo
            /\ closer'[c].all = closer[c].all
        BY <1>1, <2>7, <3>1 DEF AwaitStopped, ReturnFrom, CloserState
      <4> QED
        BY <2>3, <4>1
    <3>2. CASE ~closer[c].all
      <4>1. ~closer'[c].all
        BY <1>1, <2>7, <3>2 DEF AwaitStopped, ReturnFrom, IdleCloser
      <4> QED
        BY <2>2, <3>2, <4>1
    <3> QED
      BY <3>1, <3>2
  <2>8. CASE GiveUp(c)
    <3>1. ~closer[c].all /\ ~closer'[c].all
      BY <1>1, <2>8 DEF GiveUp, IdleCloser
    <3> QED
      BY <2>2, <3>1
  <2> QED
    BY <1>7, <2>4, <2>5, <2>6, <2>7, <2>8
<1>8. ASSUME NEW s \in Subs, Register(s) PROVE BusClosing'
  BY <1>1, <1>3, <1>8 DEF Register, closeVars
<1> QED
  BY <1>3, <1>5, <1>6, <1>7, <1>8 DEF Next, CheckOpen, Publish, PublishElsewhere, Listen,
     SubscribeStep, Start, ReceiverStep, ReceiveNotification, Enqueue, ReceiverExits, Disconnect,
     Reconnect, Cancel, WorkerStep, TakeMessage, HandlerSucceeds, Retry, CutBackoff, WorkerExits,
     HandlerFails, CloserStep, closeVars

LEMMA NextDrained == CloseInv /\ Next => DrainedIsQuiet'
<1> SUFFICES ASSUME CloseInv, Next, bus'.drained, NEW s \in Subs, Live(s)'
             PROVE  sub'[s].closing
  <2>1. ASSUME CloseInv, Next, NEW s \in Subs
        PROVE  sub'[s].stage \in {"none", "listening", "registered", "running", "refused"}
    BY <2>1, NextType DEF TypeOK, SubState
  <2> QED
    BY <2>1 DEF DrainedIsQuiet, Live
<1>1. /\ closer \in [Closers -> CloserState] /\ sub \in [Subs -> SubState]
      /\ bus \in [closed : BOOLEAN, subs : SUBSET Subs, drained : BOOLEAN]
      /\ BusClosing /\ \A c \in Closers : CloserOK(c)
  BY DEF CloseInv, TypeOK
<1>2. sub[s].closing => sub'[s].closing
  BY SubsGoForward DEF GoesForward
<1>3. CASE bus.drained
  <2>1. Live(s)
    BY <1>1, <1>3, ClosedAcceptsNone DEF BusClosing
  <2>2. sub[s].closing
    BY <1>3, <2>1 DEF CloseInv, DrainedIsQuiet, Live
  <2> QED
    BY <1>2, <2>2
<1>4. ASSUME ~bus.drained, NEW c \in Closers, NextSubscription(c) PROVE sub'[s].closing
  <2>1. closer[c].pc = "next" /\ closer[c].todo = {} /\ UNCHANGED sub
    BY <1>1, <1>4 DEF NextSubscription
  <2>2. closer[c].all /\ bus.closed
    BY <1>1, <2>1 DEF CloserOK
  <2>3. ASSUME ~sub[s].closing PROVE FALSE
    <3>1. Live(s)
      BY <2>1 DEF Live
    <3>2. PICK d \in Closers : WillClose(d, s)
      BY <1>1, <1>4, <2>2, <2>3, <3>1 DEF BusClosing
    <3>3. d = c
      BY <1>1, <2>2, <3>2 DEF BusClosing, WillClose
    <3> QED
      BY <2>1, <3>2, <3>3 DEF WillClose
  <2> QED
    BY <1>2, <2>3
<1>5. ASSUME NEW t \in Subs, Register(t) PROVE bus'.drained = bus.drained
  BY <1>1, <1>5 DEF Register
<1>6. ASSUME NEW c \in Closers, CloseBus(c) \/ RemoveSubscription(c)
      PROVE  bus'.drained = bus.drained
  BY <1>1, <1>6 DEF CloseBus, RemoveSubscription
<1>7. bus'.drained = bus.drained \/ \E c \in Closers : NextSubscription(c)
  BY <1>5, <1>6 DEF Next, CheckOpen, Publish, PublishElsewhere, Listen, SubscribeStep, Start,
     ReceiverStep, ReceiveNotification, Enqueue, ReceiverExits, Disconnect, Reconnect, Cancel,
     WorkerStep, TakeMessage, HandlerSucceeds, Retry, CutBackoff, WorkerExits, HandlerFails,
     CloseSubscription, CloserStep, EnterOnce, CloseListener, AwaitStopped, GiveUp
<1> QED
  BY <1>3, <1>4, <1>7

\* Goroutines that have returned do not run again.
LEMMA StoppedForGood ==
    ASSUME CloseInv, Next, NEW s \in Subs, Stopped(s)
    PROVE  Stopped(s)'
<1>1. /\ receiver \in [Subs -> ReceiverState] /\ worker \in [Workers -> WorkerState]
      /\ receiver[s].pc = "exit" /\ \A w \in WorkersOf(s) : worker[w].pc = "exit"
      /\ sub[s].stage = "running"
  BY DEF CloseInv, TypeOK, Stopped, ReceiverOK
<1>2. receiver'[s] = receiver[s]
  <2>1. CASE UNCHANGED receiver
    BY <2>1
  <2>2. ASSUME NEW t \in Subs, Start(t) \/ ReceiverStep(t) PROVE receiver'[s] = receiver[s]
    <3>1. t # s
      BY <1>1, <2>2 DEF Start, ReceiverStep, ReceiveNotification, Enqueue, ReceiverExits
    <3> QED
      BY <1>1, <2>2, <3>1 DEF Start, ReceiverStep, ReceiveNotification, Enqueue, ReceiverExits
  <2> QED
    BY <2>1, <2>2 DEF Next, CheckOpen, Publish, PublishElsewhere, Listen, SubscribeStep, Register,
       Disconnect, Reconnect, Cancel, WorkerStep, TakeMessage, HandlerSucceeds, Retry, CutBackoff,
       WorkerExits, HandlerFails, CloseSubscription, CloseBus, CloserStep, NextSubscription,
       EnterOnce, RemoveSubscription, CloseListener, AwaitStopped, GiveUp
<1>3. ASSUME NEW w \in WorkersOf(s) PROVE worker'[w] = worker[w]
  <2>0. w \in Workers /\ SubOf[w] = s /\ worker[w].pc = "exit"
    BY <1>1 DEF WorkersOf
  <2>1. CASE UNCHANGED worker
    BY <2>1
  <2>2. ASSUME NEW t \in Subs, Start(t) PROVE worker'[w] = worker[w]
    BY <1>1, <2>0, <2>2 DEF Start
  <2>3. ASSUME NEW v \in Workers, WorkerStep(v) \/ HandlerFails(v) PROVE worker'[w] = worker[w]
    <3>1. v # w
      BY <2>0, <2>3 DEF WorkerStep, TakeMessage, HandlerSucceeds, Retry, CutBackoff, WorkerExits,
         HandlerFails
    <3> QED
      BY <1>1, <2>0, <2>3, <3>1 DEF WorkerStep, TakeMessage, HandlerSucceeds, Retry, CutBackoff,
         WorkerExits, HandlerFails, Conclude, WorkerGoto
  <2> QED
    BY <2>1, <2>2, <2>3 DEF Next, CheckOpen, Publish, PublishElsewhere, Listen, SubscribeStep,
       Register, ReceiverStep, ReceiveNotification, Enqueue, ReceiverExits, Disconnect, Reconnect,
       Cancel, CloseSubscription, CloseBus, CloserStep, NextSubscription, EnterOnce,
       RemoveSubscription, CloseListener, AwaitStopped, GiveUp, handlerVars
<1> QED
  BY <1>1, <1>2, <1>3 DEF Stopped, WorkersOf

\* A listener that has been closed stays closed.
LEMMA ClosedForGood ==
    ASSUME CloseInv, Next, NEW s \in Subs, Live(s), listener[s].conn = "closed"
    PROVE  listener'[s].conn = "closed"
<1>1. listener \in [Subs -> ListenerState]
  BY DEF CloseInv, TypeOK
<1>2. CASE UNCHANGED listener
  BY <1>2
<1>3. CASE Notify
  BY <1>1, <1>3 DEF Notify
<1>4. ASSUME NEW t \in Subs, Listen(t) \/ Register(t) PROVE listener'[s].conn = "closed"
  <2>1. t # s
    BY <1>4 DEF Listen, Register, Live
  <2> QED
    BY <1>1, <1>4, <2>1 DEF Listen, Register
<1>5. ASSUME NEW t \in Subs, Disconnect(t) \/ Reconnect(t) PROVE listener'[s].conn = "closed"
  <2>1. t # s
    BY <1>5 DEF Disconnect, Reconnect
  <2> QED
    BY <1>1, <1>5, <2>1 DEF Disconnect, Reconnect
<1>6. ASSUME NEW t \in Subs, ReceiveNotification(t) PROVE listener'[s].conn = "closed"
  BY <1>1, <1>6 DEF ReceiveNotification, ListenerState
<1>7. ASSUME NEW c \in Closers, CloseListener(c) PROVE listener'[s].conn = "closed"
  BY <1>1, <1>7 DEF CloseListener, ListenerState
<1> QED
  BY <1>2, <1>3, <1>4, <1>5, <1>6, <1>7 DEF Next, CheckOpen, Publish, PublishElsewhere,
     SubscribeStep, Start, ReceiverStep, Enqueue, ReceiverExits, Cancel, WorkerStep, TakeMessage,
     HandlerSucceeds, Retry, CutBackoff, WorkerExits, HandlerFails, CloseSubscription, CloseBus,
     CloserStep, NextSubscription, EnterOnce, RemoveSubscription, AwaitStopped, GiveUp

LEMMA NextClosed == CloseInv /\ Next => ClosedIsQuiet'
<1> SUFFICES ASSUME CloseInv, Next, NEW s \in returned'
             PROVE  Stopped(s)' /\ listener'[s].conn = "closed" /\ s \notin bus'.subs
  BY DEF ClosedIsQuiet
<1>1. ASSUME s \in Subs, Stopped(s), listener[s].conn = "closed", s \notin bus.subs
      PROVE  Stopped(s)' /\ listener'[s].conn = "closed" /\ s \notin bus'.subs
  <2>1. Live(s)
    BY <1>1 DEF CloseInv, ReceiverOK, Stopped, Live
  <2> QED
    BY <1>1, <2>1, StoppedForGood, ClosedForGood, BusGoesForward
<1>2. CASE s \in returned
  BY <1>1, <1>2 DEF CloseInv, ClosedIsQuiet, TypeOK
<1>3. ASSUME NEW c \in Closers, AwaitStopped(c), s = closer[c].at
      PROVE  Stopped(s)' /\ listener'[s].conn = "closed" /\ s \notin bus'.subs
  <2>1. s \in Subs /\ sub[s].once = "done"
    BY <1>3 DEF CloseInv, CloserOK, AwaitStopped
  <2>2. listener[s].conn = "closed" /\ s \notin bus.subs
    BY <2>1 DEF CloseInv, CloseStages
  <2>3. Stopped(s)
    BY <1>3 DEF AwaitStopped
  <2> QED
    BY <1>1, <2>1, <2>2, <2>3
<1>4. s \in returned \/ \E c \in Closers : AwaitStopped(c) /\ s = closer[c].at
  BY DEF Next, CheckOpen, Publish, PublishElsewhere, Listen, SubscribeStep, Register, Start,
     ReceiverStep, ReceiveNotification, Enqueue, ReceiverExits, Disconnect, Reconnect, Cancel,
     WorkerStep, TakeMessage, HandlerSucceeds, Retry, CutBackoff, WorkerExits, HandlerFails,
     CloseSubscription, CloseBus, CloserStep, NextSubscription, EnterOnce, RemoveSubscription,
     CloseListener, AwaitStopped, ReturnFrom, GiveUp, closeVars
<1> QED
  BY <1>2, <1>3, <1>4

LEMMA NextCloseInv == CloseInv /\ [Next]_vars => CloseInv'
<1> SUFFICES ASSUME CloseInv, [Next]_vars PROVE CloseInv'
  OBVIOUS
<1>1. CASE Next
  BY <1>1, NextType, NextWorkers, NextReceivers, NextCloseStages, NextClosers, NextBusClosing,
     NextDrained, NextClosed DEF CloseInv
<1>2. CASE UNCHANGED vars
  BY <1>2 DEF vars, sendVars, handlerVars, closeVars, CloseInv, TypeOK, FaultsTypeOK, WorkerOK,
     Busy, ReceiverOK, CloseStages, Live, CloserOK, BusClosing, WillClose, ClosedIsQuiet, Stopped,
     WorkersOf, DrainedIsQuiet
<1> QED
  BY <1>1, <1>2

LEMMA CloseCorrect == Spec => []CloseInv
<1>1. Init => CloseInv
  BY InitCloseInv
<1>2. CloseInv /\ [Next]_vars => CloseInv'
  BY NextCloseInv
<1> QED
  BY <1>1, <1>2, PTL DEF Spec

\* Every state of the bus is well formed: in particular no channel exceeds its
\* capacity, no handler is called more often than the retries allow, and Close
\* works only on subscriptions that exist.
THEOREM BusTypeOK == Spec => []TypeOK
<1>1. CloseInv => TypeOK
  BY DEF CloseInv
<1> QED
  BY <1>1, CloseCorrect, PTL

\* Once Close of a subscription has returned nil, none of its goroutines runs,
\* then or later, its listener is closed and the bus has forgotten it, however
\* many callers close it, or the bus, at the same time.
THEOREM ClosedSubscriptionIsQuiet == Spec => []ClosedIsQuiet
<1>1. CloseInv => ClosedIsQuiet
  BY DEF CloseInv
<1> QED
  BY <1>1, CloseCorrect, PTL

\* Once Bus.Close has returned, every subscription was refused, or is stopping: a
\* Subscribe that runs at the same time leaves nothing behind.
THEOREM ClosedBusIsQuiet == Spec => []DrainedIsQuiet
<1>1. CloseInv => DrainedIsQuiet
  BY DEF CloseInv
<1> QED
  BY <1>1, CloseCorrect, PTL
-----------------------------------------------------------------------------
\* Sequences of messages.

LEMMA LongerSeq ==
    ASSUME NEW S, NEW T, S \subseteq T, NEW q \in Seq(S)
    PROVE  q \in Seq(T)
OBVIOUS

LEMMA AppendToSet ==
    ASSUME NEW q \in Seq(Nat), NEW m
    PROVE  ToSet(Append(q, m)) = ToSet(q) \cup {m}
<1>1. /\ DOMAIN q = 1 .. Len(q) /\ Len(q) \in Nat
      /\ DOMAIN Append(q, m) = 1 .. Len(q) + 1
      /\ \A i \in 1 .. Len(q) : Append(q, m)[i] = q[i]
      /\ Append(q, m)[Len(q) + 1] = m
  OBVIOUS
<1>2. \A i \in 1 .. Len(q) + 1 : i \in 1 .. Len(q) \/ i = Len(q) + 1
  BY <1>1
<1>3. 1 .. Len(q) \subseteq 1 .. Len(q) + 1 /\ Len(q) + 1 \in 1 .. Len(q) + 1
  BY <1>1
<1> QED
  BY <1>1, <1>2, <1>3, Zenon DEF ToSet

LEMMA TailToSet ==
    ASSUME NEW q \in Seq(Nat), q # <<>>
    PROVE  /\ ToSet(Tail(q)) \subseteq ToSet(q)
           /\ Head(q) \in ToSet(q)
           /\ Tail(q) \in Seq(Nat)
<1>1. /\ DOMAIN q = 1 .. Len(q) /\ Len(q) \in Nat \ {0}
      /\ DOMAIN Tail(q) = 1 .. Len(q) - 1
      /\ \A i \in 1 .. Len(q) - 1 : Tail(q)[i] = q[i + 1] /\ i + 1 \in 1 .. Len(q)
      /\ Head(q) = q[1] /\ 1 \in 1 .. Len(q)
      /\ Tail(q) \in Seq(Nat)
  OBVIOUS
<1> QED
  BY <1>1, Zenon DEF ToSet

LEMMA AscendingAppend ==
    ASSUME NEW q \in Seq(Nat), NEW m \in Nat, Ascending(q),
           m # Nil => Below(ToSet(q) \ {Nil}, {m})
    PROVE  Ascending(Append(q, m))
<1> SUFFICES ASSUME NEW i \in DOMAIN Append(q, m), NEW j \in DOMAIN Append(q, m),
                    i < j, Append(q, m)[i] # Nil, Append(q, m)[j] # Nil
             PROVE  Append(q, m)[i] < Append(q, m)[j]
  BY DEF Ascending
<1>1. /\ DOMAIN q = 1 .. Len(q) /\ Len(q) \in Nat
      /\ i \in 1 .. Len(q) /\ Append(q, m)[i] = q[i]
      /\ j \in 1 .. Len(q) + 1
  OBVIOUS
<1>2. CASE j \in 1 .. Len(q)
  <2>1. Append(q, m)[j] = q[j]
    BY <1>2
  <2> QED
    BY <1>1, <1>2, <2>1 DEF Ascending
<1>3. CASE j = Len(q) + 1
  <2>1. Append(q, m)[j] = m
    BY <1>3
  <2>2. q[i] \in ToSet(q)
    BY <1>1 DEF ToSet
  <2> QED
    BY <1>1, <2>1, <2>2 DEF Below
<1> QED
  BY <1>1, <1>2, <1>3

LEMMA AscendingTail ==
    ASSUME NEW q \in Seq(Nat), q # <<>>, Ascending(q)
    PROVE  /\ Ascending(Tail(q))
           /\ Head(q) # Nil => Below({Head(q)}, ToSet(Tail(q)) \ {Nil})
<1>1. /\ DOMAIN q = 1 .. Len(q) /\ Len(q) \in Nat \ {0}
      /\ DOMAIN Tail(q) = 1 .. Len(q) - 1
      /\ \A i \in 1 .. Len(q) - 1 : Tail(q)[i] = q[i + 1] /\ i + 1 \in 1 .. Len(q)
      /\ Head(q) = q[1] /\ 1 \in 1 .. Len(q)
  OBVIOUS
<1>2. Ascending(Tail(q))
  <2> SUFFICES ASSUME NEW i \in 1 .. Len(q) - 1, NEW j \in 1 .. Len(q) - 1,
                      i < j, q[i + 1] # Nil, q[j + 1] # Nil
               PROVE  q[i + 1] < q[j + 1]
    BY <1>1 DEF Ascending
  <2>1. i + 1 \in DOMAIN q /\ j + 1 \in DOMAIN q /\ i + 1 < j + 1
    BY <1>1
  <2> QED
    BY <2>1 DEF Ascending
<1>3. ASSUME Head(q) # Nil, NEW m \in ToSet(Tail(q)), m # Nil PROVE Head(q) < m
  <2>1. PICK i \in 1 .. Len(q) - 1 : m = q[i + 1]
    BY <1>1, <1>3 DEF ToSet
  <2>2. 1 \in DOMAIN q /\ i + 1 \in DOMAIN q /\ 1 < i + 1
    BY <1>1
  <2> QED
    BY <1>1, <1>3, <2>1, <2>2 DEF Ascending
<1> QED
  BY <1>2, <1>3 DEF Below

-----------------------------------------------------------------------------
\* The ways in which a message moves on.

LEMMA OrderTypes ==
    ASSUME CloseInv, NEW s \in Subs
    PROVE  /\ finished[s] \in Seq(Nat) /\ msgCh[s] \in Seq(Nat) /\ listener[s].notify \in Seq(Nat)
           /\ Finished(s) \subseteq Messages /\ Handled(s) \subseteq Messages
           /\ Queued(s) \subseteq Messages /\ Received(s) \subseteq Messages
           /\ Notified(s) \subseteq Messages
           /\ Messages \subseteq Nat \ {Nil} /\ sent \in Nat
<1>1. /\ finished[s] \in Seq(Messages) /\ msgCh[s] \in Seq(Messages)
      /\ listener[s].notify \in Seq(Messages \cup {Nil})
      /\ sent \in Nat
  BY BusAssumption DEF CloseInv, TypeOK, ListenerState
<1>2. Messages \subseteq Nat \ {Nil} /\ Messages \cup {Nil} \subseteq Nat
  BY BusAssumption DEF Messages, Nil
<1>3. finished[s] \in Seq(Nat) /\ msgCh[s] \in Seq(Nat) /\ listener[s].notify \in Seq(Nat)
  BY <1>1, <1>2, LongerSeq
<1>4. /\ Finished(s) \subseteq Messages /\ Queued(s) \subseteq Messages
      /\ Notified(s) \subseteq Messages
  BY <1>1 DEF Finished, Queued, Notified, ToSet
<1>5. Handled(s) \subseteq Messages
  BY DEF Handled, WorkersOf, CloseInv, WorkerOK
<1>6. Received(s) \subseteq Messages
  BY DEF Received, CloseInv, ReceiverOK
<1> QED
  BY <1>1, <1>2, <1>3, <1>4, <1>5, <1>6

\* A message is lost, or nothing happens to s.
LEMMA NothingMoves ==
    ASSUME CloseInv, NEW s \in Subs, OrderOK(s), sent' \in Nat, sent <= sent',
           Finished(s)' = Finished(s), Ascending(finished[s]) => Ascending(finished'[s]),
           Handled(s)' \subseteq Handled(s),
           Queued(s)' = Queued(s), Ascending(msgCh'[s]),
           Received(s)' \subseteq Received(s),
           Notified(s)' \subseteq Notified(s), Ascending(listener'[s].notify)
    PROVE  OrderOK(s)'
<1>1. /\ Finished(s) \subseteq Nat /\ Handled(s) \subseteq Nat /\ Queued(s) \subseteq Nat
      /\ Received(s) \subseteq Nat /\ Notified(s) \subseteq Nat /\ sent \in Nat
  BY OrderTypes
<1>2. \A m \in Finished(s) \cup Handled(s) \cup Queued(s) \cup Received(s) \cup Notified(s) :
         m <= sent'
  BY <1>1 DEF OrderOK
<1>3. Single(s)' = Single(s)
  BY DEF Single, WorkersOf
<1> QED
  BY <1>2, <1>3, Zenon DEF OrderOK, Below

LEMMA MessageSent ==
    ASSUME CloseInv, NEW s \in Subs, OrderOK(s), sent' = sent + 1,
           UNCHANGED <<msgCh, finished, Handled(s), Received(s)>>,
           listener'[s].notify = Append(listener[s].notify, sent + 1)
    PROVE  OrderOK(s)'
<1> DEFINE q == listener[s].notify
<1>1. /\ Finished(s) \subseteq Nat /\ Handled(s) \subseteq Nat /\ Queued(s) \subseteq Nat
      /\ Received(s) \subseteq Nat /\ Notified(s) \subseteq Nat /\ sent \in Nat
      /\ q \in Seq(Nat) /\ sent + 1 # Nil
  BY OrderTypes DEF Nil
<1>2. Notified(s)' = Notified(s) \cup {sent + 1}
  BY <1>1, AppendToSet DEF Notified
<1>3. Ascending(listener'[s].notify)
  <2>1. Below(ToSet(q) \ {Nil}, {sent + 1})
    BY <1>1 DEF OrderOK, Below, Notified
  <2> QED
    BY <1>1, <2>1, AscendingAppend DEF OrderOK
<1>4. /\ Finished(s)' = Finished(s) /\ Queued(s)' = Queued(s) /\ Single(s)' = Single(s)
  BY DEF Finished, Queued, Single, WorkersOf
<1>5. \A m \in Finished(s) \cup Handled(s) \cup Queued(s) \cup Received(s) \cup Notified(s) :
         m <= sent' /\ m < sent + 1
  BY <1>1 DEF OrderOK
<1>6. \A m \in {sent + 1} : m <= sent'
  BY <1>1
<1> QED
  BY <1>2, <1>3, <1>4, <1>5, <1>6, Zenon DEF OrderOK, Below

\* From one set to the next one behind it.
LEMMA MessageReceived ==
    ASSUME CloseInv, NEW s \in Subs, OrderOK(s), NEW m,
           UNCHANGED <<sent, msgCh, finished, Handled(s)>>,
           m \in Notified(s), Received(s) = {}, Received(s)' = {m},
           Notified(s)' \subseteq Notified(s), Below({m}, Notified(s)'),
           Ascending(listener'[s].notify)
    PROVE  OrderOK(s)'
<1>1. /\ Finished(s)' = Finished(s) /\ Queued(s)' = Queued(s) /\ Single(s)' = Single(s)
  BY DEF Finished, Queued, Single, WorkersOf
<1> QED
  BY <1>1, Zenon DEF OrderOK, Below

LEMMA MessageQueued ==
    ASSUME CloseInv, NEW s \in Subs, OrderOK(s), NEW m,
           UNCHANGED <<sent, listener, finished, Handled(s)>>,
           Received(s) = {m}, Received(s)' = {},
           msgCh'[s] = Append(msgCh[s], m)
    PROVE  OrderOK(s)'
<1>1. msgCh[s] \in Seq(Nat) /\ m \in Nat \ {Nil} /\ Nil \notin Queued(s)
  BY OrderTypes
<1>2. Queued(s)' = Queued(s) \cup {m}
  BY <1>1, AppendToSet DEF Queued
<1>3. Ascending(msgCh'[s])
  <2>1. Below(ToSet(msgCh[s]) \ {Nil}, {m})
    BY DEF OrderOK, Below, Queued
  <2> QED
    BY <1>1, <2>1, AscendingAppend DEF OrderOK
<1>4. /\ Finished(s)' = Finished(s) /\ Notified(s)' = Notified(s) /\ Single(s)' = Single(s)
  BY DEF Finished, Notified, Single, WorkersOf
<1> QED
  BY <1>2, <1>3, <1>4, Zenon DEF OrderOK, Below

LEMMA MessageTaken ==
    ASSUME CloseInv, NEW s \in Subs, OrderOK(s), msgCh[s] # <<>>,
           UNCHANGED <<sent, listener, finished, Received(s)>>,
           Handled(s)' \subseteq Handled(s) \cup {Head(msgCh[s])},
           Single(s) => Handled(s) = {},
           msgCh'[s] = Tail(msgCh[s])
    PROVE  OrderOK(s)'
<1> DEFINE m == Head(msgCh[s])
<1>1. msgCh[s] \in Seq(Nat) /\ Nil \notin Queued(s)
  BY OrderTypes
<1>2. /\ Queued(s)' \subseteq Queued(s)
      /\ m \in Queued(s)
      /\ Below({m}, Queued(s)')
      /\ Ascending(msgCh'[s])
      /\ Handled(s)' \subseteq Handled(s) \cup {m}
  <2>1. /\ ToSet(msgCh'[s]) \subseteq ToSet(msgCh[s])
        /\ m \in ToSet(msgCh[s])
        /\ Ascending(msgCh'[s])
        /\ m # Nil => Below({m}, ToSet(msgCh'[s]) \ {Nil})
    BY <1>1, TailToSet, AscendingTail DEF OrderOK
  <2> QED
    BY <1>1, <2>1, Zenon DEF Queued, Below
<1>3. /\ Finished(s)' = Finished(s) /\ Notified(s)' = Notified(s) /\ Single(s)' = Single(s)
  BY DEF Finished, Notified, Single, WorkersOf
<1> HIDE DEF m
<1>4. Below(Handled(s)' \cup Queued(s)', Received(s) \cup Notified(s))
  BY <1>2, Zenon DEF OrderOK, Below
<1>5. Below(Handled(s)', Queued(s)')
  BY <1>2, Zenon DEF OrderOK, Below
<1>6. Single(s) => Below(Finished(s), Handled(s)')
  BY <1>2, Zenon DEF OrderOK, Below
<1> QED
  BY <1>2, <1>3, <1>4, <1>5, <1>6, Zenon DEF OrderOK, Below

LEMMA MessageConcluded ==
    ASSUME CloseInv, NEW s \in Subs, OrderOK(s), NEW m \in Handled(s),
           UNCHANGED <<sent, listener, msgCh, Received(s)>>,
           Handled(s)' \subseteq Handled(s),
           Single(s) => Handled(s)' = {},
           finished'[s] = Append(finished[s], m)
    PROVE  OrderOK(s)'
<1>1. finished[s] \in Seq(Nat) /\ m \in Nat \ {Nil} /\ Nil \notin Finished(s)
  BY OrderTypes
<1>2. Finished(s)' = Finished(s) \cup {m}
  BY <1>1, AppendToSet DEF Finished
<1>3. Single(s) => Ascending(finished'[s])
  <2>1. Single(s) => Below(ToSet(finished[s]) \ {Nil}, {m})
    BY DEF OrderOK, Below, Finished
  <2> QED
    BY <1>1, <2>1, AscendingAppend DEF OrderOK
<1>4. /\ Queued(s)' = Queued(s) /\ Notified(s)' = Notified(s) /\ Single(s)' = Single(s)
  BY DEF Queued, Notified, Single, WorkersOf
<1> QED
  BY <1>2, <1>3, <1>4, Zenon DEF OrderOK, Below

-----------------------------------------------------------------------------
\* Every step moves at most one message of a subscription.

\* Handled by workers that stay as they are.
LEMMA OtherWorkers ==
    ASSUME NEW s \in Subs, UNCHANGED worker
    PROVE  Handled(s)' = Handled(s)
BY DEF Handled, WorkersOf, Busy

LEMMA OneWorker ==
    ASSUME NEW s \in Subs, NEW w \in WorkersOf(s), Single(s)
    PROVE  WorkersOf(s) = {w}
<1>1. IsFiniteSet(WorkersOf(s))
  BY BusAssumption, FS_Subset DEF WorkersOf
<1>2. PICK v : WorkersOf(s) = {v}
  BY <1>1, FS_Singleton DEF Single
<1> QED
  BY <1>2

\* Publishing.
LEMMA NotifyOrder ==
    ASSUME CloseInv, NEW s \in Subs, OrderOK(s), Notify,
           UNCHANGED <<receiver, msgCh, worker, finished>>
    PROVE  OrderOK(s)'
<1>1. /\ Handled(s)' = Handled(s) /\ Received(s)' = Received(s)
      /\ Finished(s)' = Finished(s) /\ Queued(s)' = Queued(s)
  BY OtherWorkers DEF Received, Finished, Queued
<1>2. /\ listener \in [Subs -> ListenerState] /\ sent \in Nat /\ sent' = sent + 1
      /\ Ascending(msgCh'[s]) /\ Ascending(listener[s].notify)
  BY BusAssumption DEF CloseInv, TypeOK, Notify, OrderOK
<1>3. CASE listener[s].conn = "up"
  <2>1. listener'[s].notify = Append(listener[s].notify, sent + 1)
    BY <1>2, <1>3 DEF Notify, ListenerState
  <2> QED
    BY <1>1, <1>2, <2>1, MessageSent
<1>4. CASE listener[s].conn # "up"
  <2>1. listener'[s] = listener[s]
    BY <1>4 DEF Notify
  <2>2. Notified(s)' = Notified(s) /\ Ascending(listener'[s].notify)
    BY <1>2, <2>1 DEF Notified
  <2> QED
    BY <1>1, <1>2, <2>2, NothingMoves
<1> QED
  BY <1>3, <1>4

\* What happens to another subscription, and what does not touch a message.
LEMMA QuietOrder ==
    ASSUME CloseInv, NEW s \in Subs, OrderOK(s),
           UNCHANGED sent, msgCh'[s] = msgCh[s], finished'[s] = finished[s],
           Handled(s)' \subseteq Handled(s),
           receiver'[s] = receiver[s] \/ receiver'[s].pc # "enqueue",
           \/ listener'[s].notify = listener[s].notify
           \/ listener'[s].notify = <<>>
           \/ listener'[s].notify = Append(listener[s].notify, Nil)
    PROVE  OrderOK(s)'
<1>1. /\ listener[s].notify \in Seq(Nat) /\ sent \in Nat
      /\ Ascending(msgCh[s]) /\ Ascending(listener[s].notify)
  BY OrderTypes DEF OrderOK
<1>2. /\ Finished(s)' = Finished(s) /\ Queued(s)' = Queued(s)
      /\ Received(s)' \subseteq Received(s)
  BY DEF Received, Finished, Queued
<1>3. Notified(s)' \subseteq Notified(s) /\ Ascending(listener'[s].notify)
  <2>1. CASE listener'[s].notify = listener[s].notify
    BY <1>1, <2>1 DEF Notified
  <2>2. CASE listener'[s].notify = <<>>
    BY <2>2 DEF Notified, ToSet, Ascending
  <2>3. CASE listener'[s].notify = Append(listener[s].notify, Nil)
    <3>1. ToSet(listener'[s].notify) = ToSet(listener[s].notify) \cup {Nil}
      BY <1>1, <2>3, AppendToSet
    <3>2. Ascending(Append(listener[s].notify, Nil))
      BY <1>1, AscendingAppend DEF Nil
    <3> QED
      BY <2>3, <3>1, <3>2 DEF Notified
  <2> QED
    BY <2>1, <2>2, <2>3
<1>4. /\ Ascending(finished[s]) => Ascending(finished'[s])
      /\ Ascending(msgCh'[s])
      /\ sent' \in Nat /\ sent <= sent'
  BY <1>1
<1> QED
  BY <1>2, <1>3, <1>4, NothingMoves

\* The receiving goroutine of s.
LEMMA ReceiverOrder ==
    ASSUME CloseInv, NEW s \in Subs, OrderOK(s), ReceiverStep(s)
    PROVE  OrderOK(s)'
<1>1. /\ receiver \in [Subs -> ReceiverState] /\ listener \in [Subs -> ListenerState]
      /\ msgCh \in [Subs -> Seq(Messages)]
      /\ listener[s].notify \in Seq(Nat)
      /\ Ascending(listener[s].notify)
  BY OrderTypes DEF CloseInv, TypeOK, OrderOK
<1>2. Handled(s)' = Handled(s)
  BY OtherWorkers DEF ReceiverStep, ReceiveNotification, Enqueue, ReceiverExits, handlerVars
<1>3. CASE ReceiveNotification(s)
  <2> DEFINE q == listener[s].notify
             m == Head(q)
  <2>1. /\ q # <<>> /\ listener'[s].notify = Tail(q)
        /\ UNCHANGED <<sent, msgCh, finished>>
        /\ receiver[s].pc = "wait"
    BY <1>1, <1>3 DEF ReceiveNotification, ListenerState, sendVars, handlerVars
  <2>2. /\ Notified(s)' \subseteq Notified(s)
        /\ Ascending(listener'[s].notify)
        /\ m # Nil => m \in Notified(s) /\ Below({m}, Notified(s)')
    BY <1>1, <2>1, TailToSet, AscendingTail DEF Notified
  <2>3. CASE m = Nil
    <3>1. Received(s)' = {}
      BY <1>1, <1>3, <2>3 DEF ReceiveNotification, Received
    <3>2. /\ Finished(s)' = Finished(s) /\ Queued(s)' = Queued(s)
          /\ Ascending(finished[s]) => Ascending(finished'[s])
          /\ Ascending(msgCh'[s])
          /\ sent' \in Nat /\ sent <= sent'
      BY <2>1, OrderTypes DEF Finished, Queued, OrderOK
    <3> QED
      BY <1>2, <2>2, <3>1, <3>2, NothingMoves
  <2>4. CASE m # Nil
    <3>1. Received(s) = {} /\ Received(s)' = {m}
      BY <1>1, <1>3, <2>1, <2>4 DEF ReceiveNotification, Received
    <3> QED
      BY <1>2, <2>1, <2>2, <2>4, <3>1, MessageReceived
  <2> QED
    BY <2>3, <2>4
<1>4. CASE Enqueue(s)
  <2>1. /\ Received(s) = {receiver[s].msg} /\ Received(s)' = {}
        /\ UNCHANGED <<sent, listener, finished>>
        /\ msgCh'[s] = Append(msgCh[s], receiver[s].msg)
    BY <1>1, <1>4 DEF Enqueue, Received, sendVars, handlerVars
  <2> QED
    BY <1>2, <2>1, MessageQueued
<1>5. CASE ReceiverExits(s)
  <2>1. /\ UNCHANGED <<sent, listener, finished, msgCh>>
        /\ receiver'[s].pc # "enqueue"
    BY <1>1, <1>5 DEF ReceiverExits, sendVars, handlerVars
  <2> QED
    BY <1>2, <2>1, QuietOrder
<1> QED
  BY <1>3, <1>4, <1>5 DEF ReceiverStep

\* What a worker of s may do to the messages its subscription handles.
LEMMA HandledByOne ==
    ASSUME CloseInv, NEW s \in Subs, NEW w \in WorkersOf(s), NEW pc, NEW msg, NEW attempt,
           WorkerGoto(w, pc, msg, attempt)
    PROVE  /\ Handled(s)' \subseteq Handled(s) \cup {msg}
           /\ pc \notin {"handle", "backoff"} => Handled(s)' \subseteq Handled(s)
           /\ pc \notin {"handle", "backoff"} /\ Single(s) => Handled(s)' = {}
           /\ worker[w].pc \notin {"handle", "backoff"} /\ Single(s) => Handled(s) = {}
           /\ worker[w].pc \in {"handle", "backoff"} => worker[w].msg \in Handled(s)
<1>1. /\ worker \in [Workers -> WorkerState] /\ w \in Workers /\ WorkersOf(s) \subseteq Workers
      /\ worker'[w].pc = pc /\ worker'[w].msg = msg
      /\ \A v \in Workers : v # w => worker'[v] = worker[v]
      /\ WorkersOf(s)' = WorkersOf(s)
  BY DEF CloseInv, TypeOK, WorkersOf, WorkerGoto
<1>2. Single(s) => WorkersOf(s) = {w}
  BY OneWorker
<1>3. \A v \in WorkersOf(s) : v # w => (Busy(v)' <=> Busy(v)) /\ worker'[v].msg = worker[v].msg
  BY <1>1 DEF Busy
<1>4. Busy(w)' <=> pc \in {"handle", "backoff"}
  BY <1>1 DEF Busy
<1> QED
  BY <1>1, <1>2, <1>3, <1>4 DEF Handled, Busy

\* The workers of s.
LEMMA WorkerOrder ==
    ASSUME CloseInv, NEW s \in Subs, OrderOK(s), NEW w \in WorkersOf(s),
           WorkerStep(w) \/ HandlerFails(w)
    PROVE  OrderOK(s)'
<1>1. /\ worker \in [Workers -> WorkerState] /\ w \in Workers /\ SubOf[w] = s
      /\ msgCh \in [Subs -> Seq(Messages)] /\ finished \in [Subs -> Seq(Messages)]
  BY DEF CloseInv, TypeOK, WorkersOf
<1>2. UNCHANGED <<sent, listener, receiver>> /\ Received(s)' = Received(s)
  BY DEF WorkerStep, TakeMessage, HandlerSucceeds, Retry, CutBackoff, WorkerExits, HandlerFails,
     sendVars, Received
<1>3. CASE TakeMessage(w)
  <2>1. /\ msgCh[s] # <<>> /\ msgCh'[s] = Tail(msgCh[s]) /\ UNCHANGED finished
        /\ WorkerGoto(w, "handle", Head(msgCh[s]), 0) /\ worker[w].pc = "wait"
    BY <1>1, <1>3 DEF TakeMessage
  <2>2. /\ Handled(s)' \subseteq Handled(s) \cup {Head(msgCh[s])}
        /\ Single(s) => Handled(s) = {}
    BY <2>1, HandledByOne
  <2> QED
    BY <1>2, <2>1, <2>2, MessageTaken
<1>4. ASSUME worker[w].pc = "handle", Conclude(w) PROVE OrderOK(s)'
  <2>1. /\ UNCHANGED msgCh /\ finished'[s] = Append(finished[s], worker[w].msg)
        /\ WorkerGoto(w, "wait", Nil, 0)
    BY <1>1, <1>4 DEF Conclude
  <2>2. /\ worker[w].msg \in Handled(s)
        /\ Handled(s)' \subseteq Handled(s)
        /\ Single(s) => Handled(s)' = {}
    BY <1>4, <2>1, HandledByOne
  <2> QED
    BY <1>2, <2>1, <2>2, MessageConcluded
<1>5. ASSUME UNCHANGED <<msgCh, finished>>, NEW pc, NEW msg, NEW attempt,
             WorkerGoto(w, pc, msg, attempt),
             pc \in {"handle", "backoff"} => msg \in Handled(s)
      PROVE  OrderOK(s)'
  <2>1. Handled(s)' \subseteq Handled(s)
    <3>1. /\ Handled(s)' \subseteq Handled(s) \cup {msg}
          /\ pc \notin {"handle", "backoff"} => Handled(s)' \subseteq Handled(s)
      BY <1>5, HandledByOne
    <3> QED
      BY <1>5, <3>1
  <2> QED
    BY <1>2, <1>5, <2>1, QuietOrder
<1>6. worker[w].pc \in {"handle", "backoff"} => worker[w].msg \in Handled(s)
  BY DEF Handled, Busy
<1>7. CASE Retry(w)
  BY <1>5, <1>6, <1>7 DEF Retry
<1>8. CASE CutBackoff(w)
  BY <1>5, <1>8 DEF CutBackoff
<1>9. CASE WorkerExits(w)
  BY <1>5, <1>9 DEF WorkerExits
<1>10. CASE HandlerFails(w)
  <2>1. CASE worker[w].attempt < MaxRetries
    BY <1>5, <1>6, <1>10, <2>1 DEF HandlerFails
  <2>2. CASE ~(worker[w].attempt < MaxRetries)
    BY <1>4, <1>10, <2>2 DEF HandlerFails
  <2> QED
    BY <2>1, <2>2
<1> QED
  BY <1>3, <1>4, <1>7, <1>8, <1>9, <1>10 DEF WorkerStep, HandlerSucceeds

LEMMA InitOrder == Init => OrderInv
<1> SUFFICES ASSUME Init, NEW s \in Subs PROVE OrderOK(s)
  BY DEF OrderInv
<1>1. /\ Finished(s) = {} /\ Handled(s) = {} /\ Queued(s) = {} /\ Received(s) = {}
      /\ Notified(s) = {}
  BY DEF Init, Finished, Handled, Queued, Received, Notified, ToSet, WorkersOf, Busy
<1>2. /\ Ascending(msgCh[s]) /\ Ascending(listener[s].notify) /\ Ascending(finished[s])
  BY DEF Init, Ascending
<1> QED
  BY <1>1, <1>2 DEF OrderOK, Below

LEMMA NextOrder == CloseInv /\ OrderInv /\ [Next]_vars => OrderInv'
<1> SUFFICES ASSUME CloseInv, OrderInv, [Next]_vars, NEW s \in Subs PROVE OrderOK(s)'
  BY DEF OrderInv
<1>1. /\ listener \in [Subs -> ListenerState] /\ receiver \in [Subs -> ReceiverState]
      /\ worker \in [Workers -> WorkerState]
      /\ msgCh \in [Subs -> Seq(Messages)] /\ finished \in [Subs -> Seq(Messages)]
      /\ OrderOK(s)
  BY DEF CloseInv, TypeOK, OrderInv
<1>2. CASE UNCHANGED <<sent, listener, receiver, msgCh, worker, finished>>
  <2>1. Handled(s)' = Handled(s)
    BY <1>2, OtherWorkers
  <2> QED
    BY <1>1, <1>2, <2>1, QuietOrder
<1>3. CASE Notify /\ UNCHANGED <<receiver, msgCh, worker, finished>>
  BY <1>1, <1>3, NotifyOrder
<1>4. ASSUME NEW t \in Subs, Start(t) PROVE OrderOK(s)'
  <2>1. \A w \in Workers : worker'[w] = worker[w] \/ worker'[w].pc = "wait"
    BY <1>1, <1>4 DEF Start, WorkerState
  <2>2. Handled(s)' \subseteq Handled(s)
    BY <2>1 DEF Handled, WorkersOf, Busy
  <2>3. receiver'[s] = receiver[s] \/ receiver'[s].pc # "enqueue"
    BY <1>1, <1>4 DEF Start, ReceiverState
  <2>4. UNCHANGED <<sent, listener, msgCh, finished>>
    BY <1>4 DEF Start, sendVars
  <2> QED
    BY <1>1, <2>2, <2>3, <2>4, QuietOrder
<1>5. ASSUME UNCHANGED <<sent, receiver, msgCh, worker, finished>>,
             \/ listener'[s].notify = listener[s].notify
             \/ listener'[s].notify = <<>>
             \/ listener'[s].notify = Append(listener[s].notify, Nil)
      PROVE  OrderOK(s)'
  <2>1. Handled(s)' = Handled(s)
    BY <1>5, OtherWorkers
  <2> QED
    BY <1>1, <1>5, <2>1, QuietOrder
<1>6. ASSUME NEW t \in Subs, Listen(t) \/ Register(t) \/ Disconnect(t) \/ Reconnect(t)
      PROVE  OrderOK(s)'
  <2>1. UNCHANGED <<sent, receiver, msgCh, worker, finished>>
    BY <1>6 DEF Listen, Register, Disconnect, Reconnect, sendVars, handlerVars
  <2>2. \/ listener'[s].notify = listener[s].notify
        \/ listener'[s].notify = <<>>
        \/ listener'[s].notify = Append(listener[s].notify, Nil)
    <3>1. ASSUME NEW conn, listener' = [listener EXCEPT ![t].conn = conn]
          PROVE  listener'[s].notify = listener[s].notify
      BY <1>1, <3>1 DEF ListenerState
    <3>2. ASSUME \/ UNCHANGED listener
                 \/ listener' = [listener EXCEPT ![t] = [conn |-> "closed", notify |-> <<>>]]
          PROVE  listener'[s].notify = listener[s].notify \/ listener'[s].notify = <<>>
      <4>1. CASE UNCHANGED listener
        BY <4>1
      <4>2. CASE listener' = [listener EXCEPT ![t] = [conn |-> "closed", notify |-> <<>>]]
        <5>1. [conn |-> "closed", notify |-> <<>>].notify = <<>>
          OBVIOUS
        <5>2. \/ listener'[s] = listener[s]
              \/ listener'[s] = [conn |-> "closed", notify |-> <<>>]
          BY <1>1, <4>2, Zenon
        <5> QED
          BY <5>1, <5>2, Zenon
      <4> QED
        BY <3>2, <4>1, <4>2
    <3>3. CASE Reconnect(t)
      BY <1>1, <3>3 DEF Reconnect, ListenerState
    <3> QED
      BY <1>6, <3>1, <3>2, <3>3 DEF Listen, Register, Disconnect
  <2> QED
    BY <1>5, <2>1, <2>2
<1>7. ASSUME NEW c \in Closers, CloseListener(c) PROVE OrderOK(s)'
  <2>1. UNCHANGED <<sent, receiver, msgCh, worker, finished>>
    BY <1>7 DEF CloseListener, sendVars, handlerVars
  <2>2. listener'[s].notify = listener[s].notify
    BY <1>1, <1>7 DEF CloseListener, ListenerState
  <2> QED
    BY <1>5, <2>1, <2>2
<1>8. ASSUME NEW t \in Subs, ReceiverStep(t) PROVE OrderOK(s)'
  <2>1. CASE t = s
    BY <1>1, <1>8, <2>1, ReceiverOrder
  <2>2. CASE t # s
    <3>1. /\ UNCHANGED <<sent, worker, finished>> /\ msgCh'[s] = msgCh[s]
          /\ receiver'[s] = receiver[s] /\ listener'[s] = listener[s]
      BY <1>1, <1>8, <2>2 DEF ReceiverStep, ReceiveNotification, Enqueue, ReceiverExits, sendVars,
         handlerVars
    <3>2. Handled(s)' = Handled(s)
      BY <3>1, OtherWorkers
    <3> QED
      BY <1>1, <3>1, <3>2, QuietOrder
  <2> QED
    BY <2>1, <2>2
<1>9. ASSUME NEW w \in Workers, WorkerStep(w) \/ HandlerFails(w) PROVE OrderOK(s)'
  <2>1. CASE SubOf[w] = s
    BY <1>1, <1>9, <2>1, WorkerOrder DEF WorkersOf
  <2>2. CASE SubOf[w] # s
    <3>1. /\ UNCHANGED <<sent, receiver, listener>> /\ msgCh'[s] = msgCh[s]
          /\ finished'[s] = finished[s] /\ \A v \in WorkersOf(s) : worker'[v] = worker[v]
      BY <1>1, <1>9, <2>2 DEF WorkerStep, TakeMessage, HandlerSucceeds, Retry, CutBackoff,
         WorkerExits, HandlerFails, Conclude, WorkerGoto, WorkersOf, sendVars
    <3>2. Handled(s)' = Handled(s)
      BY <3>1 DEF Handled, WorkersOf, Busy
    <3> QED
      BY <1>1, <3>1, <3>2, QuietOrder
  <2> QED
    BY <2>1, <2>2
<1> QED
  BY <1>2, <1>3, <1>4, <1>6, <1>7, <1>8, <1>9 DEF Next, CheckOpen, Publish, PublishElsewhere,
     SubscribeStep, Cancel, CloseSubscription, CloseBus, CloserStep, NextSubscription, EnterOnce,
     RemoveSubscription, AwaitStopped, GiveUp, sendVars, handlerVars, vars

\* A subscription with one worker concludes messages in the order in which they
\* were sent, each of them once, whatever is lost, retried or given up.  Behind
\* it: what is further on its way through Notify channel, receiver, msgCh and
\* worker was sent earlier.
THEOREM MessagesInOrder == Spec => []ConcludedInOrder
<1>1. Init => CloseInv /\ OrderInv
  BY InitCloseInv, InitOrder
<1>2. CloseInv /\ OrderInv /\ [Next]_vars => (CloseInv /\ OrderInv)'
  BY NextCloseInv, NextOrder
<1>3. CloseInv /\ OrderInv => ConcludedInOrder
  <2> SUFFICES ASSUME CloseInv, OrderInv, NEW s \in Subs, Single(s),
                      NEW i \in DOMAIN finished[s], NEW j \in DOMAIN finished[s], i < j
               PROVE  finished[s][i] < finished[s][j]
    BY DEF ConcludedInOrder, Single
  <2>1. finished[s][i] # Nil /\ finished[s][j] # Nil
    BY OrderTypes DEF Finished, ToSet
  <2>2. Ascending(finished[s])
    BY DEF OrderInv, OrderOK
  <2> QED
    BY <2>1, <2>2 DEF Ascending
<1> QED
  BY <1>1, <1>2, <1>3, PTL DEF Spec

-----------------------------------------------------------------------------
\* What MessagesIn does.

\* p lists the filled positions of q, the first n of them.
Lists(p, n, q) ==
    /\ p \in [1 .. n -> Filled(q)]
    /\ \A i, j \in 1 .. n : i < j => p[i] < p[j]
    /\ \A i \in Filled(q) : \E k \in 1 .. n : p[k] = i

LEMMA FilledFinite ==
    ASSUME NEW q \in Seq(Nat)
    PROVE  /\ Filled(q) \subseteq 1 .. Len(q) /\ Len(q) \in Nat
           /\ IsFiniteSet(Filled(q)) /\ Cardinality(Filled(q)) \in Nat
<1>1. Filled(q) \in SUBSET (1 .. Len(q)) /\ Len(q) \in Nat
  BY DEF Filled
<1>2. IsFiniteSet(1 .. Len(q))
  BY <1>1, FS_Interval
<1> QED
  BY <1>1, <1>2, FS_Subset, FS_CardinalityType

\* Positions in order have ranks in order.
LEMMA RankGrows ==
    ASSUME NEW q \in Seq(Nat), NEW i \in Filled(q), NEW j \in Filled(q), i < j
    PROVE  Rank(q, i) < Rank(q, j)
<1> DEFINE A == {k \in Filled(q) : k <= i}
           B == {k \in Filled(q) : k <= j}
<1>1. /\ IsFiniteSet(B) /\ A \in SUBSET B /\ j \in B /\ j \notin A
  <2>1. Filled(q) \subseteq Int /\ IsFiniteSet(Filled(q))
    BY FilledFinite
  <2>2. IsFiniteSet(B)
    BY <2>1, FS_Subset
  <2> QED
    BY <2>1, <2>2
<1>2. Cardinality(A) <= Cardinality(B) /\ Cardinality(A) # Cardinality(B)
  BY <1>1, FS_Subset
<1>3. Cardinality(A) \in Nat /\ Cardinality(B) \in Nat
  BY <1>1, FS_Subset, FS_CardinalityType
<1> QED
  BY <1>2, <1>3 DEF Rank

LEMMA RankType ==
    ASSUME NEW q \in Seq(Nat), NEW i \in Filled(q)
    PROVE  Rank(q, i) \in 1 .. Cardinality(Filled(q))
<1> DEFINE n == Cardinality(Filled(q))
           A == {j \in Filled(q) : j <= i}
<1>1. Filled(q) \subseteq Int /\ IsFiniteSet(Filled(q)) /\ n \in Nat
  BY FilledFinite
<1>2. A \in SUBSET Filled(q) /\ i \in A
  BY <1>1
<1>3. IsFiniteSet(A) /\ Cardinality(A) <= n
  BY <1>1, <1>2, FS_Subset
<1>4. Cardinality(A) \in Nat /\ Cardinality(A) # 0
  BY <1>2, <1>3, FS_CardinalityType, FS_EmptySet
<1> QED
  BY <1>1, <1>3, <1>4 DEF Rank

\* Every rank up to the number of filled positions is that of one of them.
LEMMA RankReached ==
    ASSUME NEW q \in Seq(Nat), NEW k \in 1 .. Cardinality(Filled(q))
    PROVE  \E i \in Filled(q) : Rank(q, i) = k
<1> DEFINE n == Cardinality(Filled(q))
           f == [i \in Filled(q) |-> Rank(q, i)]
<1>1. /\ Filled(q) \subseteq Int /\ IsFiniteSet(Filled(q)) /\ n \in Nat
      /\ IsFiniteSet(1 .. n) /\ Cardinality(1 .. n) = n
  <2>1. Filled(q) \subseteq 1 .. Len(q) /\ IsFiniteSet(Filled(q)) /\ n \in Nat
    BY FilledFinite
  <2>2. Filled(q) \subseteq Int
    BY <2>1
  <2> HIDE DEF n
  <2>3. 1 \in Int /\ n \in Int
    BY <2>1
  <2>4. IsFiniteSet(1 .. n) /\ Cardinality(1 .. n) = IF 1 > n THEN 0 ELSE n - 1 + 1
    BY <2>3, FS_Interval
  <2> QED
    BY <2>1, <2>2, <2>4
<1>2. \A i \in Filled(q) : Rank(q, i) \in 1 .. n
  BY RankType
<1>3. f \in Injection(Filled(q), 1 .. n)
  <2>1. f \in [Filled(q) -> 1 .. n]
    BY <1>2
  <2>2. \A i, j \in Filled(q) : f[i] = f[j] => i = j
    <3> SUFFICES ASSUME NEW i \in Filled(q), NEW j \in Filled(q), i # j, Rank(q, i) = Rank(q, j)
                 PROVE  FALSE
      OBVIOUS
    <3>1. i < j \/ j < i
      BY <1>1
    <3>2. Rank(q, i) < Rank(q, j) \/ Rank(q, j) < Rank(q, i)
      BY <3>1, RankGrows
    <3> QED
      BY <1>1, <1>2, <3>2
  <2> QED
    BY <2>1, <2>2 DEF Injection, IsInjective
<1>4. f \in Surjection(Filled(q), 1 .. n)
  BY <1>1, <1>3, FS_Injection
<1> QED
  BY <1>4 DEF Surjection

LEMMA ListExists ==
    ASSUME NEW q \in Seq(Nat)
    PROVE  \E p : Lists(p, Cardinality(Filled(q)), q)
<1> DEFINE n == Cardinality(Filled(q))
           p == [k \in 1 .. n |-> CHOOSE i \in Filled(q) : Rank(q, i) = k]
<1>1. \A k \in 1 .. n : p[k] \in Filled(q) /\ Rank(q, p[k]) = k
  BY RankReached
<1>2. Filled(q) \subseteq Int /\ n \in Nat
  BY FilledFinite
<1> HIDE DEF p
<1>3. p \in [1 .. n -> Filled(q)]
  BY <1>1 DEF p
<1>4. ASSUME NEW i \in 1 .. n, NEW j \in 1 .. n, i < j PROVE p[i] < p[j]
  <2>1. \/ p[i] < p[j] \/ p[i] = p[j] \/ p[j] < p[i]
    BY <1>1, <1>2
  <2> QED
    BY <1>1, <1>2, <1>4, <2>1, RankGrows
<1>5. ASSUME NEW i \in Filled(q) PROVE \E k \in 1 .. n : p[k] = i
  <2>1. Rank(q, i) \in 1 .. n
    BY RankType
  <2>2. p[Rank(q, i)] \in Filled(q) /\ Rank(q, p[Rank(q, i)]) = Rank(q, i)
    BY <1>1, <2>1
  <2>3. p[Rank(q, i)] = i
    BY <1>2, <2>1, <2>2, RankGrows
  <2> QED
    BY <2>1, <2>3
<1> QED
  BY <1>3, <1>4, <1>5 DEF Lists

LEMMA ListUnique ==
    ASSUME NEW q \in Seq(Nat), NEW n \in Nat, NEW p, Lists(p, n, q)
    PROVE  MessagesIn(q) = [k \in 1 .. n |-> q[p[k]]]
<1>1. /\ p \in [1 .. n -> Filled(q)] /\ Filled(q) \subseteq Int
      /\ \A i, j \in 1 .. n : i < j => p[i] < p[j]
      /\ \A i \in Filled(q) : \E k \in 1 .. n : p[k] = i
  BY FilledFinite DEF Lists
<1>2. \A i, j \in 1 .. n : p[i] = p[j] => i = j
  <2> SUFFICES ASSUME NEW i \in 1 .. n, NEW j \in 1 .. n, i < j PROVE p[i] # p[j]
    OBVIOUS
  <2>1. p[i] < p[j] /\ p[i] \in Int /\ p[j] \in Int
    BY <1>1
  <2> QED
    BY <2>1
<1>3. \A i, j \in 1 .. n : p[i] <= p[j] => i <= j
  <2> SUFFICES ASSUME NEW i \in 1 .. n, NEW j \in 1 .. n, j < i PROVE ~(p[i] <= p[j])
    OBVIOUS
  <2>1. p[j] < p[i] /\ p[i] \in Int /\ p[j] \in Int
    BY <1>1
  <2> QED
    BY <2>1
<1>4. Cardinality(Filled(q)) = n
  <2>1. IsFiniteSet(1 .. n) /\ Cardinality(1 .. n) = n
    BY FS_Interval
  <2>2. p \in Bijection(1 .. n, Filled(q))
    BY <1>1, <1>2 DEF Bijection, Injection, Surjection, IsInjective
  <2>3. ExistsBijection(1 .. n, Filled(q))
    BY <2>2 DEF ExistsBijection
  <2> QED
    BY <2>1, <2>3, FS_Bijection
<1>5. ASSUME NEW k \in 1 .. n PROVE Rank(q, p[k]) = k
  <2> DEFINE A == {j \in Filled(q) : j <= p[k]}
             f == [i \in 1 .. k |-> p[i]]
  <2>1. IsFiniteSet(1 .. k) /\ Cardinality(1 .. k) = k /\ 1 .. k \subseteq 1 .. n
    BY FS_Interval
  <2>2. \A i \in 1 .. k : p[i] \in A
    <3> SUFFICES ASSUME NEW i \in 1 .. k PROVE p[i] \in Filled(q) /\ p[i] <= p[k]
      OBVIOUS
    <3>1. p[i] \in Filled(q) /\ p[k] \in Filled(q)
      BY <1>1, <2>1
    <3>2. i = k \/ p[i] < p[k]
      BY <1>1, <2>1
    <3> QED
      BY <1>1, <3>1, <3>2
  <2>3. \A j \in A : \E i \in 1 .. k : p[i] = j
    <3> SUFFICES ASSUME NEW j \in A PROVE \E i \in 1 .. k : p[i] = j
      OBVIOUS
    <3>1. PICK i \in 1 .. n : p[i] = j
      BY <1>1
    <3>2. i <= k
      BY <1>3, <3>1
    <3> QED
      BY <3>1, <3>2
  <2>4. f \in Bijection(1 .. k, A)
    <3>1. f \in [1 .. k -> A]
      BY <2>2
    <3>2. \A i, j \in 1 .. k : f[i] = f[j] => i = j
      BY <1>2, <2>1
    <3>3. \A j \in A : \E i \in 1 .. k : f[i] = j
      BY <2>3
    <3> HIDE DEF f, A
    <3> QED
      BY <3>1, <3>2, <3>3 DEF Bijection, Injection, Surjection, IsInjective
  <2>5. ExistsBijection(1 .. k, A)
    BY <2>4 DEF ExistsBijection
  <2>6. Cardinality(A) = k
    BY <2>1, <2>5, FS_Bijection
  <2> QED
    BY <2>6 DEF Rank
<1>6. ASSUME NEW k \in 1 .. n PROVE (CHOOSE i \in Filled(q) : Rank(q, i) = k) = p[k]
  <2> DEFINE c == CHOOSE i \in Filled(q) : Rank(q, i) = k
  <2>1. p[k] \in Filled(q) /\ Rank(q, p[k]) = k
    BY <1>1, <1>5
  <2>2. c \in Filled(q) /\ Rank(q, c) = k
    BY <2>1
  <2> HIDE DEF c
  <2>3. c = p[k] \/ c < p[k] \/ p[k] < c
    BY <1>1, <2>1, <2>2
  <2>4. c = p[k]
    BY <2>1, <2>2, <2>3, RankGrows
  <2> QED
    BY <2>4 DEF c
<1> DEFINE c(k) == CHOOSE i \in Filled(q) : Rank(q, i) = k
<1>7. MessagesIn(q) = [k \in 1 .. n |-> q[c(k)]]
  BY <1>4 DEF MessagesIn
<1>8. \A k \in 1 .. n : c(k) = p[k]
  BY <1>6
<1> HIDE DEF c
<1> QED
  BY <1>7, <1>8

LEMMA MessagesListed ==
    ASSUME NEW q \in Seq(Nat)
    PROVE  \E n \in Nat : \E p : /\ Lists(p, n, q)
                                 /\ MessagesIn(q) = [k \in 1 .. n |-> q[p[k]]]
<1> DEFINE n == Cardinality(Filled(q))
<1>1. PICK p : Lists(p, n, q)
  BY ListExists
<1>2. n \in Nat
  BY FilledFinite
<1> HIDE DEF n
<1>3. MessagesIn(q) = [k \in 1 .. n |-> q[p[k]]]
  BY <1>1, <1>2, ListUnique
<1> QED
  BY <1>1, <1>2, <1>3

LEMMA ListType ==
    ASSUME NEW q \in Seq(Nat), NEW n \in Nat, NEW p, Lists(p, n, q)
    PROVE  /\ p \in [1 .. n -> 1 .. Len(q)] /\ Len(q) \in Nat
           /\ \A k \in 1 .. n : p[k] \in Filled(q) /\ q[p[k]] \in Nat
<1>1. p \in [1 .. n -> Filled(q)] /\ Filled(q) \subseteq 1 .. Len(q) /\ Len(q) \in Nat
  BY FilledFinite DEF Lists
<1>2. \A i \in 1 .. Len(q) : q[i] \in Nat
  OBVIOUS
<1> QED
  BY <1>1, <1>2

LEMMA MessagesInType ==
    ASSUME NEW q \in Seq(Nat)
    PROVE  MessagesIn(q) \in Seq(Nat)
<1>0. PICK n \in Nat : \E p : /\ Lists(p, n, q)
                              /\ MessagesIn(q) = [k \in 1 .. n |-> q[p[k]]]
  BY MessagesListed
<1>1. PICK p : /\ Lists(p, n, q)
               /\ MessagesIn(q) = [k \in 1 .. n |-> q[p[k]]]
  BY <1>0
<1>2. \A k \in 1 .. n : q[p[k]] \in Nat
  BY <1>1, ListType
<1> QED
  BY <1>1, <1>2

LEMMA MessagesInAppend ==
    ASSUME NEW q \in Seq(Nat), NEW m \in Nat
    PROVE  MessagesIn(Append(q, m)) =
              IF m = Nil THEN MessagesIn(q) ELSE Append(MessagesIn(q), m)
<1> DEFINE r == Append(q, m)
<1>0. PICK n \in Nat : \E p : /\ Lists(p, n, q)
                              /\ MessagesIn(q) = [k \in 1 .. n |-> q[p[k]]]
  BY MessagesListed
<1>1. PICK p : /\ Lists(p, n, q)
               /\ MessagesIn(q) = [k \in 1 .. n |-> q[p[k]]]
  BY <1>0
<1>2. /\ p \in [1 .. n -> Filled(q)]
      /\ \A i, j \in 1 .. n : i < j => p[i] < p[j]
      /\ \A i \in Filled(q) : \E k \in 1 .. n : p[k] = i
  BY <1>1 DEF Lists
<1>3. /\ r \in Seq(Nat) /\ Len(q) \in Nat /\ DOMAIN q = 1 .. Len(q)
      /\ DOMAIN r = 1 .. Len(q) + 1 /\ r[Len(q) + 1] = m
      /\ \A i \in 1 .. Len(q) : r[i] = q[i]
  OBVIOUS
<1>4. p \in [1 .. n -> 1 .. Len(q)] /\ \A k \in 1 .. n : q[p[k]] \in Nat
  BY <1>1, ListType
<1> HIDE DEF r
<1>5. Filled(r) = IF m = Nil THEN Filled(q) ELSE Filled(q) \cup {Len(q) + 1}
  BY <1>3 DEF Filled
<1>6. CASE m = Nil
  <2>1. Lists(p, n, r)
    BY <1>2, <1>5, <1>6 DEF Lists
  <2>2. MessagesIn(r) = [k \in 1 .. n |-> r[p[k]]]
    BY <1>3, <2>1, ListUnique
  <2>3. \A k \in 1 .. n : r[p[k]] = q[p[k]]
    BY <1>3, <1>4
  <2> QED
    BY <1>1, <1>6, <2>2, <2>3 DEF r
<1>7. CASE m # Nil
  <2> DEFINE u == [k \in 1 .. n + 1 |-> IF k = n + 1 THEN Len(q) + 1 ELSE p[k]]
  <2>1. Lists(u, n + 1, r)
    <3>1. u \in [1 .. n + 1 -> Filled(r)]
      BY <1>2, <1>5, <1>7
    <3>2. \A i, j \in 1 .. n + 1 : i < j => u[i] < u[j]
      <4> SUFFICES ASSUME NEW i \in 1 .. n + 1, NEW j \in 1 .. n + 1, i < j PROVE u[i] < u[j]
        OBVIOUS
      <4>1. i \in 1 .. n /\ u[i] = p[i] /\ p[i] \in 1 .. Len(q)
        BY <1>4
      <4>2. CASE j = n + 1
        BY <1>3, <4>1, <4>2
      <4>3. CASE j # n + 1
        BY <1>2, <4>1, <4>3
      <4> QED
        BY <4>2, <4>3
    <3>3. \A i \in Filled(r) : \E k \in 1 .. n + 1 : u[k] = i
      <4> SUFFICES ASSUME NEW i \in Filled(r) PROVE \E k \in 1 .. n + 1 : u[k] = i
        OBVIOUS
      <4>1. CASE i = Len(q) + 1
        <5>1. n + 1 \in 1 .. n + 1 /\ u[n + 1] = i
          BY <4>1
        <5> QED
          BY <5>1
      <4>2. CASE i \in Filled(q)
        <5>1. PICK k \in 1 .. n : p[k] = i
          BY <1>2, <4>2
        <5>2. k \in 1 .. n + 1 /\ u[k] = i
          BY <5>1
        <5> QED
          BY <5>2
      <4> QED
        BY <1>5, <1>7, <4>1, <4>2
    <3> HIDE DEF u
    <3> QED
      BY <3>1, <3>2, <3>3 DEF Lists
  <2>2. \A k \in 1 .. n + 1 : r[u[k]] = IF k = n + 1 THEN m ELSE q[p[k]]
    <3> SUFFICES ASSUME NEW k \in 1 .. n + 1
                 PROVE  r[u[k]] = IF k = n + 1 THEN m ELSE q[p[k]]
      OBVIOUS
    <3>1. CASE k = n + 1
      <4>1. u[k] = Len(q) + 1
        BY <3>1
      <4> QED
        BY <1>3, <3>1, <4>1
    <3>2. CASE k # n + 1
      <4>1. k \in 1 .. n /\ u[k] = p[k]
        BY <3>2
      <4>2. p[k] \in 1 .. Len(q)
        BY <1>4, <4>1
      <4> QED
        BY <1>3, <3>2, <4>1, <4>2
    <3> QED
      BY <3>1, <3>2
  <2> HIDE DEF u
  <2>3. n + 1 \in Nat
    OBVIOUS
  <2>4. MessagesIn(r) = [k \in 1 .. n + 1 |-> r[u[k]]]
    BY <1>3, <2>1, <2>3, ListUnique
  <2> DEFINE v(k) == q[p[k]]
  <2>5. MessagesIn(q) = [k \in 1 .. n |-> v(k)] /\ \A k \in 1 .. n : v(k) \in Nat
    BY <1>1, <1>4
  <2>6. MessagesIn(r) = [k \in 1 .. n + 1 |-> IF k = n + 1 THEN m ELSE v(k)]
    BY <2>2, <2>4
  <2> HIDE DEF v
  <2>7. Append(MessagesIn(q), m) = [k \in 1 .. n + 1 |-> IF k = n + 1 THEN m ELSE v(k)]
    BY <2>5
  <2> QED
    BY <1>7, <2>6, <2>7 DEF r
<1> QED
  BY <1>6, <1>7

\* The filled positions of a sequence without its head.
LEMMA ListTail ==
    ASSUME NEW q \in Seq(Nat), q # <<>>, NEW i \in Nat
    PROVE  i \in Filled(Tail(q)) <=> i >= 1 /\ i + 1 \in Filled(q)
<1>1. /\ DOMAIN Tail(q) = 1 .. Len(q) - 1 /\ DOMAIN q = 1 .. Len(q) /\ Len(q) \in Nat
      /\ \A j \in 1 .. Len(q) - 1 : Tail(q)[j] = q[j + 1]
  OBVIOUS
<1> QED
  BY <1>1 DEF Filled

LEMMA MessagesInTail ==
    ASSUME NEW q \in Seq(Nat), q # <<>>
    PROVE  MessagesIn(q) = IF Head(q) = Nil THEN MessagesIn(Tail(q))
                           ELSE <<Head(q)>> \o MessagesIn(Tail(q))
<1> DEFINE r == Tail(q)
<1>0. PICK n \in Nat : \E p : /\ Lists(p, n, q)
                              /\ MessagesIn(q) = [k \in 1 .. n |-> q[p[k]]]
  BY MessagesListed
<1>1. PICK p : /\ Lists(p, n, q)
               /\ MessagesIn(q) = [k \in 1 .. n |-> q[p[k]]]
  BY <1>0
<1>2. /\ p \in [1 .. n -> Filled(q)]
      /\ \A i, j \in 1 .. n : i < j => p[i] < p[j]
      /\ \A i \in Filled(q) : \E k \in 1 .. n : p[k] = i
  BY <1>1 DEF Lists
<1>3. /\ r \in Seq(Nat) /\ Len(q) \in Nat /\ DOMAIN q = 1 .. Len(q) /\ Head(q) = q[1]
      /\ Len(q) >= 1 /\ DOMAIN r = 1 .. Len(q) - 1
      /\ \A i \in 1 .. Len(q) - 1 : r[i] = q[i + 1]
  OBVIOUS
<1>4. p \in [1 .. n -> 1 .. Len(q)] /\ \A k \in 1 .. n : p[k] \in Filled(q) /\ q[p[k]] \in Nat
  BY <1>1, ListType
<1>5. \A i \in Nat : i \in Filled(r) <=> i >= 1 /\ i + 1 \in Filled(q)
  BY ListTail
<1> HIDE DEF r
<1>6. \A i \in Filled(r) : i \in Nat
  BY <1>3 DEF Filled
<1>7. CASE q[1] = Nil
  <2> DEFINE u == [k \in 1 .. n |-> p[k] - 1]
  <2>1. \A k \in 1 .. n : p[k] # 1
    BY <1>4, <1>7 DEF Filled
  <2>2. \A k \in 1 .. n : u[k] \in Nat /\ u[k] >= 1 /\ u[k] + 1 = p[k]
    BY <1>4, <2>1
  <2>3. u \in [1 .. n -> Filled(r)]
    BY <1>4, <1>5, <2>2
  <2>4. \A i, j \in 1 .. n : i < j => u[i] < u[j]
    <3> SUFFICES ASSUME NEW i \in 1 .. n, NEW j \in 1 .. n, i < j PROVE u[i] < u[j]
      OBVIOUS
    <3>1. p[i] < p[j]
      BY <1>2
    <3> QED
      BY <1>4, <3>1
  <2>5. \A i \in Filled(r) : \E k \in 1 .. n : u[k] = i
    <3> SUFFICES ASSUME NEW i \in Filled(r) PROVE \E k \in 1 .. n : u[k] = i
      OBVIOUS
    <3>1. i \in Nat /\ i + 1 \in Filled(q)
      BY <1>5, <1>6
    <3>2. PICK k \in 1 .. n : p[k] = i + 1
      BY <1>2, <3>1
    <3> QED
      BY <3>1, <3>2
  <2> HIDE DEF u
  <2>6. Lists(u, n, r)
    BY <2>3, <2>4, <2>5 DEF Lists
  <2>7. MessagesIn(r) = [k \in 1 .. n |-> r[u[k]]]
    BY <1>3, <2>6, ListUnique
  <2>8. \A k \in 1 .. n : r[u[k]] = q[p[k]]
    <3> SUFFICES ASSUME NEW k \in 1 .. n PROVE r[u[k]] = q[p[k]]
      OBVIOUS
    <3>1. u[k] \in Nat /\ u[k] >= 1 /\ u[k] + 1 = p[k] /\ p[k] \in 1 .. Len(q)
      BY <1>4, <2>2
    <3>2. u[k] \in 1 .. Len(q) - 1
      BY <1>3, <3>1
    <3>3. r[u[k]] = q[u[k] + 1]
      BY <1>3, <3>2
    <3> QED
      BY <3>1, <3>3
  <2> QED
    BY <1>1, <1>3, <1>7, <2>7, <2>8 DEF r
<1>8. CASE q[1] # Nil
  <2> DEFINE u == [k \in 1 .. n - 1 |-> p[k + 1] - 1]
  <2>1. 1 \in Filled(q)
    BY <1>3, <1>8 DEF Filled
  <2>2. n >= 1 /\ p[1] = 1
    <3>1. PICK k \in 1 .. n : p[k] = 1
      BY <1>2, <2>1
    <3>2. 1 \in 1 .. n /\ p[1] \in 1 .. Len(q)
      BY <1>4
    <3>3. k = 1
      <4> SUFFICES ASSUME 1 < k PROVE FALSE
        OBVIOUS
      <4>1. p[1] < p[k]
        BY <1>2, <3>2
      <4> QED
        BY <3>1, <3>2, <4>1
    <3> QED
      BY <3>1, <3>2, <3>3
  <2>3. \A k \in 1 .. n - 1 : k + 1 \in 1 .. n /\ p[k + 1] \in 1 .. Len(q) /\ p[k + 1] > 1
    <3> SUFFICES ASSUME NEW k \in 1 .. n - 1
                 PROVE  k + 1 \in 1 .. n /\ p[k + 1] \in 1 .. Len(q) /\ p[k + 1] > 1
      OBVIOUS
    <3>1. k + 1 \in 1 .. n /\ 1 \in 1 .. n /\ 1 < k + 1
      OBVIOUS
    <3>2. p[1] < p[k + 1]
      BY <1>2, <3>1
    <3> QED
      BY <1>4, <2>2, <3>1, <3>2
  <2>4. \A k \in 1 .. n - 1 : u[k] \in 1 .. Len(q) - 1 /\ u[k] + 1 = p[k + 1]
    BY <1>3, <2>3
  <2>5. u \in [1 .. n - 1 -> Filled(r)]
    <3>1. ASSUME NEW k \in 1 .. n - 1 PROVE u[k] \in Filled(r)
      <4>1. u[k] \in Nat /\ u[k] >= 1 /\ u[k] + 1 = p[k + 1] /\ p[k + 1] \in Filled(q)
        BY <1>3, <1>4, <2>3, <2>4
      <4> QED
        BY <1>5, <4>1
    <3> QED
      BY <3>1
  <2>6. \A i, j \in 1 .. n - 1 : i < j => u[i] < u[j]
    <3> SUFFICES ASSUME NEW i \in 1 .. n - 1, NEW j \in 1 .. n - 1, i < j PROVE u[i] < u[j]
      OBVIOUS
    <3>1. p[i + 1] < p[j + 1]
      BY <1>2, <2>3
    <3> QED
      BY <2>3, <3>1
  <2>7. \A i \in Filled(r) : \E k \in 1 .. n - 1 : u[k] = i
    <3> SUFFICES ASSUME NEW i \in Filled(r) PROVE \E k \in 1 .. n - 1 : u[k] = i
      OBVIOUS
    <3>1. i \in Nat /\ i >= 1 /\ i + 1 \in Filled(q)
      BY <1>5, <1>6
    <3>2. PICK k \in 1 .. n : p[k] = i + 1
      BY <1>2, <3>1
    <3>3. k # 1
      BY <2>2, <3>1, <3>2
    <3>4. k - 1 \in 1 .. n - 1 /\ (k - 1) + 1 = k
      BY <3>3
    <3>5. u[k - 1] = p[k] - 1
      BY <3>4
    <3>6. k - 1 \in 1 .. n - 1 /\ u[k - 1] = i
      BY <3>1, <3>2, <3>4, <3>5
    <3> QED
      BY <3>6
  <2> HIDE DEF u
  <2>8. Lists(u, n - 1, r)
    BY <2>5, <2>6, <2>7 DEF Lists
  <2>9. n - 1 \in Nat
    BY <2>2
  <2>10. MessagesIn(r) = [k \in 1 .. n - 1 |-> r[u[k]]]
    BY <1>3, <2>8, <2>9, ListUnique
  <2> DEFINE v(k) == q[p[k]]
  <2>11. \A k \in 1 .. n - 1 : r[u[k]] = v(k + 1)
    <3> SUFFICES ASSUME NEW k \in 1 .. n - 1 PROVE r[u[k]] = q[p[k + 1]]
      OBVIOUS
    <3>1. u[k] \in 1 .. Len(q) - 1 /\ u[k] + 1 = p[k + 1]
      BY <2>4
    <3> QED
      BY <1>3, <3>1
  <2>12. MessagesIn(q) = [k \in 1 .. n |-> v(k)] /\ \A k \in 1 .. n : v(k) \in Nat
    BY <1>1, <1>4
  <2>13. v(1) = q[1]
    BY <2>2
  <2> HIDE DEF v
  <2>14. MessagesIn(r) = [k \in 1 .. n - 1 |-> v(k + 1)]
    BY <2>10, <2>11
  <2>15. <<v(1)>> \o MessagesIn(r) = [k \in 1 .. n |-> v(k)]
    <3> DEFINE w == [k \in 1 .. n - 1 |-> v(k + 1)]
               x == [k \in 1 .. n |-> v(k)]
    <3>1. \A k \in 1 .. n - 1 : v(k + 1) \in Nat
      BY <2>3, <2>12
    <3>2. w \in Seq(Nat) /\ Len(w) = n - 1 /\ \A k \in 1 .. n - 1 : w[k] = v(k + 1)
      BY <2>9, <3>1
    <3>3. /\ x \in Seq(Nat) /\ Len(x) = n /\ DOMAIN x = 1 .. n
          /\ \A k \in 1 .. n : x[k] = v(k)
      BY <2>12
    <3> HIDE DEF w, x
    <3>4. v(1) \in Nat
      BY <2>2, <2>12
    <3>5. /\ <<v(1)>> \o w \in Seq(Nat) /\ Len(<<v(1)>> \o w) = n
          /\ \A k \in 1 .. n : (<<v(1)>> \o w)[k] = v(k)
      <4>1. <<v(1)>> \in Seq(Nat) /\ Len(<<v(1)>>) = 1 /\ <<v(1)>>[1] = v(1)
        BY <3>4
      <4>2. <<v(1)>> \o w \in Seq(Nat) /\ Len(<<v(1)>> \o w) = n
        BY <2>2, <3>2, <4>1
      <4>3. ASSUME NEW k \in 1 .. n PROVE (<<v(1)>> \o w)[k] = v(k)
        <5>1. CASE k = 1
          BY <3>2, <4>1, <5>1
        <5>2. CASE k # 1
          <6>1. k - 1 \in 1 .. n - 1 /\ (k - 1) + 1 = k
            BY <5>2
          <6>2. w[k - 1] = v(k)
            BY <3>2, <6>1
          <6> QED
            BY <3>2, <4>1, <5>2, <6>1, <6>2
        <5> QED
          BY <5>1, <5>2
      <4> QED
        BY <4>2, <4>3
    <3>6. <<v(1)>> \o w = x
      <4> DEFINE y == <<v(1)>> \o w
      <4>1. y \in Seq(Nat) /\ Len(y) = n /\ \A k \in 1 .. n : y[k] = v(k)
        BY <3>5
      <4> HIDE DEF y
      <4>2. x \in Seq(Nat) /\ Len(x) = Len(y) /\ \A k \in 1 .. Len(x) : x[k] = y[k]
        BY <3>3, <4>1
      <4>3. x = y
        BY <4>1, <4>2, SeqEqual
      <4> QED
        BY <4>3 DEF y
    <3>7. MessagesIn(r) = w
      BY <2>14 DEF w
    <3> QED
      BY <3>6, <3>7 DEF x
  <2> QED
    BY <1>3, <1>8, <2>12, <2>13, <2>15 DEF r
<1> QED
  BY <1>7, <1>8

-----------------------------------------------------------------------------
\* The bus implements the topic: what a step does to the mailboxes and to who
\* listens decides which step of the topic it is.

LEMMA TopicKept ==
    ASSUME \A t \in Subs : InTransit(t)' = InTransit(t), Listening' = Listening
    PROVE  [TopicNext]_(Topic!eventVars)
BY DEF Topic!eventVars

LEMMA TopicPublish ==
    ASSUME sent + 1 \in Messages, Listening' = Listening,
           \A t \in Subs : InTransit(t)' = IF t \in Listening
                                           THEN Append(InTransit(t), sent + 1) ELSE InTransit(t)
    PROVE  [TopicNext]_(Topic!eventVars)
<1>1. Topic!Publish(sent + 1)
  BY DEF Topic!Publish
<1> QED
  BY <1>1 DEF TopicNext

LEMMA TopicReceive ==
    ASSUME NEW s \in Subs, InTransit(s) # <<>>, Head(InTransit(s)) \in Messages,
           InTransit(s)' = Tail(InTransit(s)), Listening' = Listening,
           \A t \in Subs \ {s} : InTransit(t)' = InTransit(t)
    PROVE  [TopicNext]_(Topic!eventVars)
<1>1. Topic!Receive(s, Head(InTransit(s)))
  BY DEF Topic!Receive
<1> QED
  BY <1>1 DEF TopicNext

LEMMA TopicDisconnect ==
    ASSUME NEW s \in Subs, \A t \in Subs : InTransit(t)' = InTransit(t),
           Listening' = Listening \ {s}
    PROVE  [TopicNext]_(Topic!eventVars)
<1>1. CASE s \in Listening
  <2>1. Topic!Disconnect(s)
    BY <1>1 DEF Topic!Disconnect
  <2> QED
    BY <2>1 DEF TopicNext
<1>2. CASE s \notin Listening
  BY <1>2, TopicKept
<1> QED
  BY <1>1, <1>2

LEMMA TopicReconnect ==
    ASSUME NEW s \in Subs, \A t \in Subs : InTransit(t)' = InTransit(t),
           Listening' = Listening \cup {s} \/ Listening' = Listening
    PROVE  [TopicNext]_(Topic!eventVars)
<1>1. CASE s \notin Listening /\ Listening' = Listening \cup {s}
  <2>1. Topic!Reconnect(s)
    BY <1>1 DEF Topic!Reconnect
  <2> QED
    BY <2>1 DEF TopicNext
<1>2. CASE Listening' = Listening
  BY <1>2, TopicKept
<1> QED
  BY <1>1, <1>2

LEMMA TopicStop ==
    ASSUME NEW s \in Subs, Listening' = Listening \ {s},
           NEW k \in 0 .. Len(InTransit(s)), InTransit(s)' = SubSeq(InTransit(s), 1, k),
           \A t \in Subs \ {s} : InTransit(t)' = InTransit(t)
    PROVE  [TopicNext]_(Topic!eventVars)
<1>1. Topic!Stop(s)
  BY DEF Topic!Stop
<1> QED
  BY <1>1 DEF TopicNext

\* Sequences of numbers.
LEMMA Appended ==
    ASSUME NEW a \in Seq(Nat), NEW m \in Nat
    PROVE  <<m>> \in Seq(Nat) /\ Append(a, m) \in Seq(Nat) /\ Append(a, m) = a \o <<m>>
OBVIOUS

LEMMA Concatenated ==
    ASSUME NEW a \in Seq(Nat), NEW b \in Seq(Nat), NEW c \in Seq(Nat)
    PROVE  a \o b \in Seq(Nat) /\ (a \o b) \o c = a \o (b \o c)
<1>1. a \o b \in Seq(Nat)
  OBVIOUS
<1>2. (a \o b) \o c = a \o (b \o c)
  OBVIOUS
<1> QED
  BY <1>1, <1>2

\* Named, since the provers apply it better so than as an equation.
Associates(a, b, c) == (a \o b) \o c = a \o (b \o c)

LEMMA Association == \A a, b, c \in Seq(Nat) : Associates(a, b, c)
BY Concatenated DEF Associates

LEMMA NothingAdded ==
    ASSUME NEW a \in Seq(Nat)
    PROVE  a \o <<>> = a
OBVIOUS

LEMMA FirstPart ==
    ASSUME NEW a \in Seq(Nat), NEW b \in Seq(Nat)
    PROVE  /\ Len(a) \in 0 .. Len(a \o b) /\ SubSeq(a \o b, 1, Len(a)) = a
           /\ 0 \in 0 .. Len(a) /\ SubSeq(a, 1, 0) = <<>>
           /\ Len(a) \in 0 .. Len(a) /\ SubSeq(a, 1, Len(a)) = a
           /\ a # <<>> => /\ a \o b # <<>> /\ Head(a \o b) = Head(a)
                          /\ Tail(a \o b) = Tail(a) \o b
<1>1. Len(a) \in 0 .. Len(a \o b) /\ 0 \in 0 .. Len(a) /\ Len(a) \in 0 .. Len(a)
  OBVIOUS
<1>2. SubSeq(a \o b, 1, Len(a)) = a
  OBVIOUS
<1>3. SubSeq(a, 1, 0) = <<>> /\ SubSeq(a, 1, Len(a)) = a
  OBVIOUS
<1>4. a # <<>> => a \o b # <<>> /\ Head(a \o b) = Head(a)
  OBVIOUS
<1>5. a # <<>> => Tail(a \o b) = Tail(a) \o b
  OBVIOUS
<1> QED
  BY <1>1, <1>2, <1>3, <1>4, <1>5

LEMMA MessagesInEmpty == MessagesIn(<<>>) = <<>>
<1>1. Filled(<<>>) = {}
  BY DEF Filled
<1>2. Cardinality(Filled(<<>>)) = 0
  BY <1>1, FS_EmptySet
<1> QED
  BY <1>2 DEF MessagesIn

\* A worker runs only once Subscribe has started the subscription.
WorkersStarted == \A w \in Workers : worker[w].pc # "off" => sub[SubOf[w]].stage = "running"

LEMMA InitStarted == Init => WorkersStarted
BY DEF Init, WorkersStarted

LEMMA NextStarted == CloseInv /\ WorkersStarted /\ [Next]_vars => WorkersStarted'
<1> SUFFICES ASSUME CloseInv, WorkersStarted, [Next]_vars, NEW w \in Workers, worker'[w].pc # "off"
             PROVE  sub'[SubOf[w]].stage = "running"
  BY DEF WorkersStarted
<1>1. /\ worker \in [Workers -> WorkerState] /\ sub \in [Subs -> SubState] /\ SubOf[w] \in Subs
  BY BusAssumption DEF CloseInv, TypeOK
<1>2. CASE UNCHANGED vars
  BY <1>2 DEF vars, handlerVars, WorkersStarted
<1>3. CASE Next /\ worker[w].pc # "off"
  BY <1>1, <1>3, SubsGoForward DEF WorkersStarted, GoesForward
<1>4. CASE Next /\ worker[w].pc = "off"
  <2>1. worker'[w] # worker[w]
    BY <1>4
  <2>2. \E s \in Subs : Start(s)
    <3>1. ASSUME NEW v \in Workers, WorkerStep(v) \/ HandlerFails(v)
          PROVE  worker'[w].pc = worker[w].pc
      <4>1. v # w
        BY <1>4, <3>1 DEF WorkerStep, TakeMessage, HandlerSucceeds, Retry, CutBackoff, WorkerExits,
           HandlerFails
      <4> QED
        BY <1>1, <3>1, <4>1 DEF WorkerStep, TakeMessage, HandlerSucceeds, Retry, CutBackoff,
           WorkerExits, HandlerFails, Conclude, WorkerGoto
    <3> QED
      BY <1>4, <2>1, <3>1 DEF Next, CheckOpen, Publish, PublishElsewhere, Listen, SubscribeStep,
         Register, ReceiverStep, ReceiveNotification, Enqueue, ReceiverExits, Disconnect, Reconnect,
         Cancel, CloseSubscription, CloseBus, CloserStep, NextSubscription, EnterOnce,
         RemoveSubscription, CloseListener, AwaitStopped, GiveUp, handlerVars
  <2>3. PICK s \in Subs : Start(s)
    BY <2>2
  <2>4. SubOf[w] = s
    BY <1>1, <2>1, <2>3 DEF Start
  <2> QED
    BY <1>1, <2>3, <2>4 DEF Start
<1> QED
  BY <1>2, <1>3, <1>4

\* Somebody still reads msgCh; what the receiver holds.
Alive(s) == \E w \in WorkersOf(s) : worker[w].pc # "exit"

Hands(s) == IF receiver[s].pc = "enqueue" THEN <<receiver[s].msg>> ELSE <<>>

LEMMA MailTypes ==
    ASSUME CloseInv, NEW s \in Subs
    PROVE  /\ msgCh[s] \in Seq(Nat) /\ Hands(s) \in Seq(Nat) /\ listener[s].notify \in Seq(Nat)
           /\ MessagesIn(listener[s].notify) \in Seq(Nat)
           /\ msgCh[s] \o Hands(s) \in Seq(Nat) /\ InTransit(s) \in Seq(Nat)
<1>1. /\ msgCh[s] \in Seq(Nat) /\ listener[s].notify \in Seq(Nat)
      /\ MessagesIn(listener[s].notify) \in Seq(Nat)
  BY OrderTypes, MessagesInType
<1>2. Hands(s) \in Seq(Nat)
  <2>1. receiver[s].pc = "enqueue" => receiver[s].msg \in Messages
    BY DEF CloseInv, ReceiverOK
  <2>2. Messages \subseteq Nat
    BY OrderTypes
  <2>3. receiver[s].pc = "enqueue" => <<receiver[s].msg>> \in Seq(Nat)
    BY <2>1, <2>2
  <2>4. <<>> \in Seq(Nat)
    OBVIOUS
  <2> QED
    BY <2>3, <2>4 DEF Hands
<1>3. msgCh[s] \o Hands(s) \in Seq(Nat) /\ <<>> \in Seq(Nat)
  BY <1>1, <1>2
<1>4. (msgCh[s] \o Hands(s)) \o MessagesIn(listener[s].notify) \in Seq(Nat)
  BY <1>1, <1>3
<1>5. InTransit(s) \in {<<>>, msgCh[s], (msgCh[s] \o Hands(s)) \o MessagesIn(listener[s].notify)}
  BY DEF InTransit, Hands
<1> QED
  BY <1>1, <1>2, <1>3, <1>4, <1>5

LEMMA AliveKept ==
    ASSUME NEW s \in Subs,
           \A w \in WorkersOf(s) : worker'[w].pc = "exit" <=> worker[w].pc = "exit"
    PROVE  Alive(s)' = Alive(s)
<1>1. WorkersOf(s)' = WorkersOf(s)
  BY DEF WorkersOf
<1> QED
  BY <1>1 DEF Alive

LEMMA MailKept ==
    ASSUME NEW s \in Subs, Alive(s)' = Alive(s), msgCh'[s] = msgCh[s], receiver'[s] = receiver[s],
           MessagesIn(listener'[s].notify) = MessagesIn(listener[s].notify)
    PROVE  InTransit(s)' = InTransit(s)
<1>1. /\ Alive(s) <=> ~(\A w \in WorkersOf(s) : worker[w].pc = "exit")
      /\ Alive(s)' <=> ~(\A w \in WorkersOf(s)' : worker'[w].pc = "exit")
  BY DEF Alive
<1> QED
  BY <1>1 DEF InTransit

LEMMA ListeningIs ==
    ASSUME NEW s \in Subs
    PROVE  /\ s \in Listening <=> listener[s].conn = "up" /\ receiver[s].pc # "exit" /\ Alive(s)
           /\ s \in Listening' <=> /\ listener'[s].conn = "up" /\ receiver'[s].pc # "exit"
                                   /\ Alive(s)'
BY DEF Listening, Alive

LEMMA ListeningKept ==
    ASSUME \A t \in Subs : /\ Alive(t)' = Alive(t)
                           /\ receiver'[t].pc = "exit" <=> receiver[t].pc = "exit"
                           /\ listener'[t].conn = listener[t].conn
    PROVE  Listening' = Listening
<1>1. Listening \subseteq Subs /\ Listening' \subseteq Subs
  BY DEF Listening
<1>2. \A t \in Subs : t \in Listening' <=> t \in Listening
  BY ListeningIs
<1> QED
  BY <1>1, <1>2

\* The subscription of s alone stops to listen, or may have.
LEMMA ListensNoMore ==
    ASSUME NEW s \in Subs,
           \/ listener'[s].conn # "up" \/ receiver'[s].pc = "exit" \/ ~Alive(s)',
           \A t \in Subs \ {s} : /\ Alive(t)' = Alive(t)
                                 /\ receiver'[t] = receiver[t] /\ listener'[t] = listener[t]
    PROVE  Listening' = Listening \ {s}
<1>1. Listening \subseteq Subs /\ Listening' \subseteq Subs
  BY DEF Listening
<1>2. \A t \in Subs \ {s} : t \in Listening' <=> t \in Listening
  BY ListeningIs
<1>3. s \notin Listening'
  BY ListeningIs
<1> QED
  BY <1>1, <1>2, <1>3

\* A step that changes connections only.
LEMMA ConnectionStep ==
    ASSUME NEW s \in Subs, UNCHANGED <<receiver, msgCh, worker>>,
           MessagesIn(listener'[s].notify) = MessagesIn(listener[s].notify),
           \A t \in Subs \ {s} : listener'[t] = listener[t]
    PROVE  [TopicNext]_(Topic!eventVars)
<1>1. \A t \in Subs : Alive(t)' = Alive(t)
  BY AliveKept
<1>2. \A t \in Subs : InTransit(t)' = InTransit(t)
  BY <1>1, MailKept
<1>3. CASE listener'[s].conn = "up" /\ listener[s].conn # "up"
  <2>1. Listening \subseteq Subs /\ Listening' \subseteq Subs
    BY DEF Listening
  <2>2. \A t \in Subs \ {s} : t \in Listening' <=> t \in Listening
    BY <1>1, ListeningIs
  <2>3. s \notin Listening
    BY <1>3, ListeningIs
  <2>4. Listening' = Listening \cup {s} \/ Listening' = Listening
    BY <2>1, <2>2, <2>3
  <2> QED
    BY <1>2, <2>4, TopicReconnect
<1>4. CASE listener'[s].conn = "up" /\ listener[s].conn = "up"
  <2>1. Listening' = Listening
    BY <1>1, <1>4, ListeningKept
  <2> QED
    BY <1>2, <2>1, TopicKept
<1>5. CASE listener'[s].conn # "up"
  <2>1. Listening' = Listening \ {s}
    BY <1>1, <1>5, ListensNoMore
  <2> QED
    BY <1>2, <2>1, TopicDisconnect
<1> QED
  BY <1>3, <1>4, <1>5

\* What is in transit while a worker and the receiver run.
LEMMA TransitOpen ==
    ASSUME NEW s \in Subs
    PROVE  /\ Alive(s) /\ receiver[s].pc # "exit" =>
                 InTransit(s) = (msgCh[s] \o Hands(s)) \o MessagesIn(listener[s].notify)
           /\ Alive(s) /\ receiver[s].pc = "exit" => InTransit(s) = msgCh[s]
           /\ ~Alive(s) => InTransit(s) = <<>>
<1>1. Alive(s) <=> ~(\A w \in WorkersOf(s) : worker[w].pc = "exit")
  BY DEF Alive
<1> QED
  BY <1>1 DEF InTransit, Hands

LEMMA TransitOpenNext ==
    ASSUME NEW s \in Subs
    PROVE  /\ Alive(s)' /\ receiver'[s].pc # "exit" =>
                 InTransit(s)' = (msgCh'[s] \o Hands(s)') \o MessagesIn(listener'[s].notify)
           /\ Alive(s)' /\ receiver'[s].pc = "exit" => InTransit(s)' = msgCh'[s]
           /\ ~Alive(s)' => InTransit(s)' = <<>>
<1>1. Alive(s)' <=> ~(\A w \in WorkersOf(s)' : worker'[w].pc = "exit")
  BY DEF Alive
<1> QED
  BY <1>1 DEF InTransit, Hands

LEMMA NotifyStep ==
    ASSUME CloseInv, Notify, UNCHANGED <<receiver, msgCh, worker>>
    PROVE  [TopicNext]_(Topic!eventVars)
<1>1. /\ listener \in [Subs -> ListenerState]
      /\ sent \in Nat /\ sent + 1 \in Messages /\ sent + 1 \in Nat /\ sent + 1 # Nil
  BY BusAssumption DEF CloseInv, TypeOK, Notify, Messages, Nil
<1>2. \A t \in Subs :
         /\ listener'[t].conn = listener[t].conn
         /\ listener'[t].notify = IF listener[t].conn = "up"
                                  THEN Append(listener[t].notify, sent + 1)
                                  ELSE listener[t].notify
  BY <1>1 DEF Notify, ListenerState
<1>3. \A t \in Subs : Alive(t)' = Alive(t)
  BY AliveKept
<1>4. Listening' = Listening
  BY <1>2, <1>3, ListeningKept
<1>5. ASSUME NEW t \in Subs
      PROVE  InTransit(t)' = IF t \in Listening
                             THEN Append(InTransit(t), sent + 1) ELSE InTransit(t)
  <2> DEFINE a == msgCh[t] \o Hands(t)
             b == MessagesIn(listener[t].notify)
  <2>1. a \in Seq(Nat) /\ b \in Seq(Nat)
    BY MailTypes
  <2>2. CASE listener[t].conn # "up"
    <3>1. InTransit(t)' = InTransit(t)
      BY <1>2, <1>3, <2>2, MailKept
    <3> QED
      BY <2>2, <3>1, ListeningIs
  <2>3. CASE ~Alive(t) \/ receiver[t].pc = "exit"
    <3>1. InTransit(t)' = InTransit(t)
      BY <1>3, <2>3, TransitOpen, TransitOpenNext
    <3> QED
      BY <2>3, <3>1, ListeningIs
  <2>4. CASE listener[t].conn = "up" /\ Alive(t) /\ receiver[t].pc # "exit"
    <3>1. MessagesIn(listener'[t].notify) = Append(b, sent + 1)
      BY <1>1, <1>2, <2>4, MailTypes, MessagesInAppend
    <3>2. msgCh'[t] \o Hands(t)' = a
      BY DEF Hands
    <3>3. InTransit(t)' = a \o Append(b, sent + 1)
      BY <1>3, <2>4, <3>1, <3>2, TransitOpenNext
    <3>4. InTransit(t) = a \o b
      BY <2>4, TransitOpen
    <3> HIDE DEF a, b
    <3>5. a \o Append(b, sent + 1) = Append(a \o b, sent + 1)
      BY <1>1, <2>1
    <3> QED
      BY <2>4, <3>3, <3>4, <3>5, ListeningIs
  <2> QED
    BY <2>2, <2>3, <2>4
<1> QED
  BY <1>1, <1>4, <1>5, TopicPublish

\* Subscribe is refused: its listener is closed, and what came is dropped.
LEMMA RefusedStep ==
    ASSUME CloseInv, NEW s \in Subs, UNCHANGED <<receiver, msgCh, worker>>,
           listener' = [listener EXCEPT ![s] = [conn |-> "closed", notify |-> <<>>]]
    PROVE  [TopicNext]_(Topic!eventVars)
<1>1. listener \in [Subs -> ListenerState]
  BY DEF CloseInv, TypeOK
<1>2. /\ listener'[s].conn = "closed" /\ listener'[s].notify = <<>>
      /\ \A t \in Subs \ {s} : listener'[t] = listener[t]
  BY <1>1
<1>3. \A t \in Subs : Alive(t)' = Alive(t)
  BY AliveKept
<1>4. Listening' = Listening \ {s}
  BY <1>2, <1>3, ListensNoMore
<1>5. \A t \in Subs \ {s} : InTransit(t)' = InTransit(t)
  BY <1>2, <1>3, MailKept
<1>6. PICK k \in 0 .. Len(InTransit(s)) : InTransit(s)' = SubSeq(InTransit(s), 1, k)
  <2> DEFINE a == msgCh[s] \o Hands(s)
             b == MessagesIn(listener[s].notify)
  <2>1. a \in Seq(Nat) /\ b \in Seq(Nat) /\ InTransit(s) \in Seq(Nat)
    BY MailTypes
  <2>2. CASE ~Alive(s) \/ receiver[s].pc = "exit"
    <3>1. InTransit(s)' = InTransit(s)
      BY <1>3, <2>2, TransitOpen, TransitOpenNext
    <3> QED
      BY <2>1, <3>1, FirstPart
  <2>3. CASE Alive(s) /\ receiver[s].pc # "exit"
    <3>1. msgCh'[s] \o Hands(s)' = a
      BY DEF Hands
    <3>2. InTransit(s)' = a \o <<>> /\ InTransit(s) = a \o b
      BY <1>2, <1>3, <2>3, <3>1, TransitOpen, TransitOpenNext, MessagesInEmpty
    <3> HIDE DEF a, b
    <3>3. InTransit(s)' = a
      BY <2>1, <3>2, NothingAdded
    <3>4. Len(a) \in 0 .. Len(a \o b) /\ SubSeq(a \o b, 1, Len(a)) = a
      BY <2>1, FirstPart
    <3> QED
      BY <3>2, <3>3, <3>4
  <2> QED
    BY <2>2, <2>3
<1> QED
  BY <1>4, <1>5, <1>6, TopicStop

LEMMA StartStep ==
    ASSUME CloseInv, WorkersStarted, NEW s \in Subs, Start(s)
    PROVE  [TopicNext]_(Topic!eventVars)
<1>1. /\ worker \in [Workers -> WorkerState] /\ receiver \in [Subs -> ReceiverState]
      /\ ReceiverOK(s)
  BY DEF CloseInv, TypeOK
<1>2. \A w \in WorkersOf(s) : worker[w].pc = "off"
  BY DEF WorkersStarted, WorkersOf, Start
<1>3. receiver[s].pc = "off" /\ receiver'[s].pc = "wait"
  BY <1>1 DEF ReceiverOK, Start, ReceiverState
<1>4. \A w \in Workers : worker'[w].pc = "exit" <=> worker[w].pc = "exit"
  <2>1. \A w \in Workers : /\ SubOf[w] = s => worker'[w].pc = "wait"
                           /\ SubOf[w] # s => worker'[w] = worker[w]
    BY <1>1 DEF Start, WorkerState
  <2> QED
    BY <1>2, <2>1 DEF WorkersOf
<1>5. \A t \in Subs : Alive(t)' = Alive(t)
  BY <1>4, AliveKept DEF WorkersOf
<1>6. UNCHANGED <<listener, msgCh>> /\ \A t \in Subs \ {s} : receiver'[t] = receiver[t]
  BY <1>1 DEF Start
<1>7. Listening' = Listening
  BY <1>3, <1>5, <1>6, ListeningKept
<1>8. \A t \in Subs \ {s} : InTransit(t)' = InTransit(t)
  BY <1>5, <1>6, MailKept
<1>9. InTransit(s)' = InTransit(s)
  <2>1. Hands(s)' = Hands(s)
    BY <1>3 DEF Hands
  <2> QED
    BY <1>3, <1>5, <1>6, <2>1, TransitOpen, TransitOpenNext
<1> QED
  BY <1>7, <1>8, <1>9, TopicKept

\* The receiver moves the oldest message on, which nobody outside notices.
LEMMA ReceiveStep ==
    ASSUME CloseInv, NEW s \in Subs, ReceiveNotification(s) \/ Enqueue(s)
    PROVE  [TopicNext]_(Topic!eventVars)
<1>1. /\ receiver \in [Subs -> ReceiverState] /\ listener \in [Subs -> ListenerState]
      /\ msgCh \in [Subs -> Seq(Messages)]
  BY DEF CloseInv, TypeOK
<1>2. UNCHANGED worker
  BY DEF ReceiveNotification, Enqueue, handlerVars
<1>3. \A t \in Subs : Alive(t)' = Alive(t)
  BY <1>2, AliveKept
<1>4. \A t \in Subs \ {s} : /\ receiver'[t] = receiver[t] /\ listener'[t] = listener[t]
                            /\ msgCh'[t] = msgCh[t]
  BY <1>1 DEF ReceiveNotification, Enqueue
<1>5. \A t \in Subs \ {s} : InTransit(t)' = InTransit(t)
  BY <1>3, <1>4, MailKept
<1>6. receiver[s].pc # "exit" /\ receiver'[s].pc # "exit" /\ listener'[s].conn = listener[s].conn
  BY <1>1 DEF ReceiveNotification, Enqueue, ReceiverState, ListenerState
<1>7. Listening' = Listening
  BY <1>3, <1>4, <1>6, ListeningKept
<1> DEFINE a == msgCh[s]
           q == listener[s].notify
<1>8. a \in Seq(Nat) /\ q \in Seq(Nat) /\ Hands(s) \in Seq(Nat) /\ MessagesIn(q) \in Seq(Nat)
  BY MailTypes
<1>9. (msgCh'[s] \o Hands(s)') \o MessagesIn(listener'[s].notify)
         = (msgCh[s] \o Hands(s)) \o MessagesIn(listener[s].notify)
  <2>1. CASE ReceiveNotification(s)
    <3> DEFINE m == Head(q)
               b == MessagesIn(Tail(q))
    <3>1. /\ q # <<>> /\ msgCh'[s] = a /\ Hands(s) = <<>>
          /\ listener'[s].notify = Tail(q)
          /\ Hands(s)' = IF m = Nil THEN <<>> ELSE <<m>>
      BY <1>1, <2>1 DEF ReceiveNotification, ReceiverState, ListenerState, Hands
    <3>2. m \in Nat /\ Tail(q) \in Seq(Nat)
      BY <1>8, <3>1
    <3>3. b \in Seq(Nat)
      BY <3>2, MessagesInType
    <3>4. MessagesIn(q) = IF m = Nil THEN b ELSE <<m>> \o b
      BY <1>8, <3>1, MessagesInTail
    <3> HIDE DEF a, q, m, b
    <3>5. a \o <<>> = a /\ (a \o <<m>>) \o b = a \o (<<m>> \o b)
      <4> DEFINE e == <<m>>
      <4>1. e \in Seq(Nat)
        BY <3>2
      <4> HIDE DEF e
      <4>2. (a \o e) \o b = a \o (e \o b)
        <5>1. Associates(a, e, b)
          BY <1>8, <3>3, <4>1, Association
        <5> QED
          BY <5>1, Zenon DEF Associates
      <4>3. a \o <<>> = a
        BY <1>8, NothingAdded
      <4> QED
        BY <4>2, <4>3 DEF e
    <3>6. (a \o Hands(s)') \o b = (a \o <<>>) \o MessagesIn(q)
      BY <3>1, <3>4, <3>5
    <3> QED
      BY <3>1, <3>6 DEF a, b, q
  <2>2. CASE Enqueue(s)
    <3> DEFINE m == receiver[s].msg
               b == MessagesIn(q)
    <3>1. /\ msgCh'[s] = Append(a, m) /\ Hands(s) = <<m>> /\ Hands(s)' = <<>>
          /\ listener'[s].notify = q
      BY <1>1, <2>2 DEF Enqueue, Hands
    <3>2. m \in Nat
      BY <2>2, OrderTypes DEF Enqueue, CloseInv, ReceiverOK
    <3> HIDE DEF a, q, m
    <3>3. Append(a, m) \in Seq(Nat) /\ Append(a, m) = a \o <<m>>
      BY <1>8, <3>2, Appended
    <3>4. Append(a, m) \o <<>> = a \o <<m>>
      BY <3>3, NothingAdded
    <3>5. (Append(a, m) \o <<>>) \o b = (a \o <<m>>) \o b
      BY <3>4
    <3> QED
      BY <3>1, <3>5 DEF a, q
  <2> QED
    BY <2>1, <2>2
<1>10. InTransit(s)' = InTransit(s)
  BY <1>3, <1>6, <1>9, TransitOpen, TransitOpenNext
<1> QED
  BY <1>5, <1>7, <1>10, TopicKept

\* What the receiver and the listener still had is lost.
LEMMA ReceiverExitsStep ==
    ASSUME CloseInv, NEW s \in Subs, ReceiverExits(s)
    PROVE  [TopicNext]_(Topic!eventVars)
<1>1. /\ receiver \in [Subs -> ReceiverState] /\ UNCHANGED <<worker, listener, msgCh>>
      /\ receiver[s].pc # "exit"
  BY DEF CloseInv, TypeOK, ReceiverExits, handlerVars
<1>2. receiver'[s].pc = "exit" /\ \A t \in Subs \ {s} : receiver'[t] = receiver[t]
  BY <1>1 DEF ReceiverExits
<1>3. \A t \in Subs : Alive(t)' = Alive(t)
  BY <1>1, AliveKept
<1>4. Listening' = Listening \ {s}
  BY <1>1, <1>2, <1>3, ListensNoMore
<1>5. \A t \in Subs \ {s} : InTransit(t)' = InTransit(t)
  BY <1>1, <1>2, <1>3, MailKept
<1>6. PICK k \in 0 .. Len(InTransit(s)) : InTransit(s)' = SubSeq(InTransit(s), 1, k)
  <2> DEFINE a == msgCh[s]
             b == Hands(s) \o MessagesIn(listener[s].notify)
  <2>1. /\ a \in Seq(Nat) /\ b \in Seq(Nat)
        /\ (a \o Hands(s)) \o MessagesIn(listener[s].notify) = a \o b
    <3>1. a \in Seq(Nat) /\ Hands(s) \in Seq(Nat) /\ MessagesIn(listener[s].notify) \in Seq(Nat)
      BY MailTypes
    <3> HIDE DEF a
    <3>2. Associates(a, Hands(s), MessagesIn(listener[s].notify))
      BY <3>1, Association
    <3>3. Hands(s) \o MessagesIn(listener[s].notify) \in Seq(Nat)
      BY <3>1
    <3> QED
      BY <3>1, <3>2, <3>3, Zenon DEF Associates
  <2>2. CASE ~Alive(s)
    <3>1. InTransit(s) = <<>> /\ InTransit(s)' = <<>>
      BY <1>3, <2>2, TransitOpen, TransitOpenNext
    <3>2. 0 \in 0 .. Len(<<>>) /\ SubSeq(<<>>, 1, 0) = <<>>
      OBVIOUS
    <3> QED
      BY <3>1, <3>2
  <2>3. CASE Alive(s)
    <3>1. InTransit(s) = a \o b /\ InTransit(s)' = a
      BY <1>1, <1>2, <1>3, <2>1, <2>3, TransitOpen, TransitOpenNext
    <3> HIDE DEF a, b
    <3>2. Len(a) \in 0 .. Len(a \o b) /\ SubSeq(a \o b, 1, Len(a)) = a
      BY <2>1, FirstPart
    <3> QED
      BY <3>1, <3>2
  <2> QED
    BY <2>2, <2>3
<1> QED
  BY <1>4, <1>5, <1>6, TopicStop

\* The oldest message in msgCh is the oldest in transit.
LEMMA TakeStep ==
    ASSUME CloseInv, NEW w \in Workers, TakeMessage(w)
    PROVE  [TopicNext]_(Topic!eventVars)
<1> DEFINE s == SubOf[w]
<1>1. /\ s \in Subs /\ worker \in [Workers -> WorkerState] /\ msgCh \in [Subs -> Seq(Messages)]
      /\ UNCHANGED <<receiver, listener>>
  BY BusAssumption DEF CloseInv, TypeOK, TakeMessage
<1>2. /\ msgCh[s] # <<>> /\ msgCh'[s] = Tail(msgCh[s]) /\ Head(msgCh[s]) \in Messages
      /\ \A t \in Subs \ {s} : msgCh'[t] = msgCh[t]
  BY <1>1 DEF TakeMessage
<1>3. /\ w \in WorkersOf(s) /\ worker[w].pc # "exit"
      /\ \A v \in Workers : worker'[v].pc = "exit" <=> worker[v].pc = "exit"
  BY <1>1 DEF TakeMessage, WorkerGoto, WorkersOf
<1> HIDE DEF s
<1>4. Alive(s) /\ \A t \in Subs : Alive(t)' = Alive(t)
  BY <1>3, AliveKept DEF Alive, WorkersOf
<1>5. Listening' = Listening
  BY <1>1, <1>4, ListeningKept
<1>6. \A t \in Subs \ {s} : InTransit(t)' = InTransit(t)
  BY <1>1, <1>2, <1>4, MailKept
<1>7. /\ InTransit(s) # <<>> /\ Head(InTransit(s)) \in Messages
      /\ InTransit(s)' = Tail(InTransit(s))
  <2> DEFINE a == msgCh[s]
             b == Hands(s) \o MessagesIn(listener[s].notify)
  <2>1. CASE receiver[s].pc = "exit"
    BY <1>1, <1>2, <1>4, <2>1, TransitOpen, TransitOpenNext
  <2>2. CASE receiver[s].pc # "exit"
    <3>1. /\ a \in Seq(Nat) /\ Hands(s) \in Seq(Nat)
          /\ MessagesIn(listener[s].notify) \in Seq(Nat) /\ b \in Seq(Nat) /\ Tail(a) \in Seq(Nat)
      BY <1>1, <1>2, MailTypes
    <3>2. Hands(s)' = Hands(s)
      BY <1>1 DEF Hands
    <3>3. /\ InTransit(s) = (a \o Hands(s)) \o MessagesIn(listener[s].notify)
          /\ InTransit(s)' = (Tail(a) \o Hands(s)) \o MessagesIn(listener[s].notify)
      BY <1>1, <1>2, <1>4, <2>2, <3>2, TransitOpen, TransitOpenNext
    <3> HIDE DEF a
    <3>4. InTransit(s) = a \o b /\ InTransit(s)' = Tail(a) \o b
      <4>1. /\ Associates(a, Hands(s), MessagesIn(listener[s].notify))
            /\ Associates(Tail(a), Hands(s), MessagesIn(listener[s].notify))
        BY <3>1, Association
      <4> QED
        BY <3>3, <4>1, Zenon DEF Associates
    <3>5. a # <<>> /\ Head(a) \in Messages
      BY <1>2 DEF a
    <3> HIDE DEF b
    <3>6. a \o b # <<>> /\ Head(a \o b) = Head(a) /\ Tail(a \o b) = Tail(a) \o b
      BY <3>1, <3>5, FirstPart
    <3> QED
      BY <3>4, <3>5, <3>6
  <2> QED
    BY <2>1, <2>2
<1> QED
  BY <1>1, <1>5, <1>6, <1>7, TopicReceive

\* Handling a message is nothing to the topic.
LEMMA HandlingStep ==
    ASSUME CloseInv, NEW w \in Workers,
           HandlerSucceeds(w) \/ HandlerFails(w) \/ Retry(w) \/ CutBackoff(w)
    PROVE  [TopicNext]_(Topic!eventVars)
<1>1. /\ worker \in [Workers -> WorkerState] /\ UNCHANGED <<receiver, listener, msgCh>>
  BY DEF CloseInv, TypeOK, HandlerSucceeds, HandlerFails, Retry, CutBackoff, Conclude
<1>2. \A v \in Workers : worker'[v].pc = "exit" <=> worker[v].pc = "exit"
  <2>1. /\ \A v \in Workers \ {w} : worker'[v] = worker[v]
        /\ worker[w].pc # "exit" /\ worker'[w].pc # "exit"
    BY <1>1 DEF HandlerSucceeds, HandlerFails, Retry, CutBackoff, Conclude, WorkerGoto
  <2> QED
    BY <2>1
<1>3. \A t \in Subs : Alive(t)' = Alive(t)
  BY <1>2, AliveKept DEF WorkersOf
<1>4. Listening' = Listening /\ \A t \in Subs : InTransit(t)' = InTransit(t)
  BY <1>1, <1>3, ListeningKept, MailKept
<1> QED
  BY <1>4, TopicKept

\* With the last worker goes what is still in msgCh.
LEMMA WorkerExitsStep ==
    ASSUME CloseInv, NEW w \in Workers, WorkerExits(w)
    PROVE  [TopicNext]_(Topic!eventVars)
<1> DEFINE s == SubOf[w]
<1>1. /\ s \in Subs /\ worker \in [Workers -> WorkerState]
      /\ UNCHANGED <<receiver, listener, msgCh>>
  BY BusAssumption DEF CloseInv, TypeOK, WorkerExits
<1>2. /\ w \in WorkersOf(s) /\ worker[w].pc # "exit"
      /\ \A v \in Workers \ {w} : worker'[v] = worker[v]
  BY <1>1 DEF WorkerExits, WorkerGoto, WorkersOf
<1>3. \A t \in Subs \ {s} : Alive(t)' = Alive(t)
  BY <1>2, AliveKept DEF WorkersOf
<1> HIDE DEF s
<1>4. \A t \in Subs \ {s} : InTransit(t)' = InTransit(t)
  BY <1>1, <1>3, MailKept
<1>5. Alive(s)
  BY <1>2 DEF Alive
<1>6. CASE Alive(s)'
  <2>1. \A t \in Subs : Alive(t)' = Alive(t)
    BY <1>3, <1>5, <1>6 DEF Alive
  <2>2. Listening' = Listening /\ \A t \in Subs : InTransit(t)' = InTransit(t)
    BY <1>1, <2>1, ListeningKept, MailKept
  <2> QED
    BY <2>2, TopicKept
<1>7. CASE ~Alive(s)'
  <2>1. Listening' = Listening \ {s}
    BY <1>1, <1>3, <1>7, ListensNoMore
  <2>2. InTransit(s)' = <<>>
    BY <1>1, <1>7, TransitOpenNext
  <2>3. 0 \in 0 .. Len(InTransit(s)) /\ SubSeq(InTransit(s), 1, 0) = <<>>
    BY <1>1, MailTypes, FirstPart
  <2> QED
    BY <1>1, <1>4, <2>1, <2>2, <2>3, TopicStop
<1> QED
  BY <1>6, <1>7

\* Steps that touch neither a queue nor a connection.
LEMMA UnrelatedStep ==
    ASSUME UNCHANGED <<receiver, listener, msgCh, worker>>
    PROVE  [TopicNext]_(Topic!eventVars)
<1>1. \A t \in Subs : Alive(t)' = Alive(t)
  BY AliveKept
<1>2. Listening' = Listening /\ \A t \in Subs : InTransit(t)' = InTransit(t)
  BY <1>1, ListeningKept, MailKept
<1> QED
  BY <1>2, TopicKept

LEMMA ConnectionSteps ==
    ASSUME CloseInv, NEW s \in Subs, Listen(s) \/ Disconnect(s) \/ Reconnect(s)
    PROVE  [TopicNext]_(Topic!eventVars)
<1>1. listener \in [Subs -> ListenerState] /\ UNCHANGED <<receiver, msgCh, worker>>
  BY DEF CloseInv, TypeOK, Listen, Disconnect, Reconnect, handlerVars
<1>2. \A t \in Subs \ {s} : listener'[t] = listener[t]
  BY <1>1 DEF Listen, Disconnect, Reconnect
<1>3. \/ listener'[s].notify = listener[s].notify
      \/ listener'[s].notify = Append(listener[s].notify, Nil)
  BY <1>1 DEF Listen, Disconnect, Reconnect, ListenerState
<1>4. listener[s].notify \in Seq(Nat) /\ Nil \in Nat
  BY OrderTypes DEF Nil
<1>5. MessagesIn(listener'[s].notify) = MessagesIn(listener[s].notify)
  BY <1>3, <1>4, MessagesInAppend
<1> QED
  BY <1>1, <1>2, <1>5, ConnectionStep

LEMMA CloseListenerStep ==
    ASSUME CloseInv, NEW c \in Closers, CloseListener(c)
    PROVE  [TopicNext]_(Topic!eventVars)
<1> DEFINE s == closer[c].at
<1>1. listener \in [Subs -> ListenerState] /\ UNCHANGED <<receiver, msgCh, worker>>
  BY DEF CloseInv, TypeOK, CloseListener, handlerVars
<1>2. s \in Subs
  BY DEF CloseInv, CloserOK, CloseListener
<1>3. listener' = [listener EXCEPT ![s].conn = "closed"]
  BY DEF CloseListener
<1> HIDE DEF s
<1>4. /\ \A t \in Subs \ {s} : listener'[t] = listener[t]
      /\ listener'[s].notify = listener[s].notify
  BY <1>1, <1>2, <1>3 DEF ListenerState
<1> QED
  BY <1>1, <1>2, <1>4, ConnectionStep

LEMMA RegisterStep ==
    ASSUME CloseInv, NEW s \in Subs, Register(s)
    PROVE  [TopicNext]_(Topic!eventVars)
<1>1. UNCHANGED <<receiver, msgCh, worker>>
  BY DEF Register, handlerVars
<1>2. CASE bus.closed
  <2>1. listener' = [listener EXCEPT ![s] = [conn |-> "closed", notify |-> <<>>]]
    BY <1>2 DEF Register
  <2> QED
    BY <1>1, <2>1, RefusedStep
<1>3. CASE ~bus.closed
  <2>1. UNCHANGED listener
    BY <1>3 DEF Register
  <2> QED
    BY <1>1, <2>1, UnrelatedStep
<1> QED
  BY <1>2, <1>3

LEMMA StepImplements ==
    ASSUME CloseInv, WorkersStarted, [Next]_vars
    PROVE  [TopicNext]_(Topic!eventVars)
<1> DEFINE Quiet == UNCHANGED <<receiver, listener, msgCh, worker>>
<1>1. CASE UNCHANGED vars
  BY <1>1, UnrelatedStep DEF vars, handlerVars
<1>2. ASSUME NEW p \in Publishers, CheckOpen(p) PROVE Quiet
  BY <1>2 DEF CheckOpen, handlerVars
<1>3. ASSUME NEW p \in Publishers, Publish(p) PROVE Notify /\ UNCHANGED <<receiver, msgCh, worker>>
  BY <1>3 DEF Publish, handlerVars
<1>4. PublishElsewhere => Notify /\ UNCHANGED <<receiver, msgCh, worker>>
  BY DEF PublishElsewhere, handlerVars
<1>5. ASSUME NEW s \in Subs, Cancel(s) PROVE Quiet
  BY <1>5 DEF Cancel, handlerVars
<1>6. ASSUME NEW c \in Closers,
             \/ CloseSubscription(c) \/ CloseBus(c) \/ GiveUp(c) \/ NextSubscription(c)
             \/ EnterOnce(c) \/ RemoveSubscription(c) \/ AwaitStopped(c)
      PROVE  Quiet
  BY <1>6 DEF CloseSubscription, CloseBus, GiveUp, NextSubscription, EnterOnce, RemoveSubscription,
     AwaitStopped, handlerVars
<1> HIDE DEF Quiet
<1>7. CASE Quiet
  BY <1>7, UnrelatedStep DEF Quiet
<1>8. CASE Notify /\ UNCHANGED <<receiver, msgCh, worker>>
  BY <1>8, NotifyStep
<1>9. CASE \E s \in Subs : Listen(s) \/ Disconnect(s) \/ Reconnect(s)
  BY <1>9, ConnectionSteps
<1>10. CASE \E s \in Subs : Register(s)
  BY <1>10, RegisterStep
<1>11. CASE \E s \in Subs : Start(s)
  BY <1>11, StartStep
<1>12. CASE \E s \in Subs : ReceiveNotification(s) \/ Enqueue(s)
  BY <1>12, ReceiveStep
<1>13. CASE \E s \in Subs : ReceiverExits(s)
  BY <1>13, ReceiverExitsStep
<1>14. CASE \E w \in Workers : TakeMessage(w)
  BY <1>14, TakeStep
<1>15. CASE \E w \in Workers : HandlerSucceeds(w) \/ HandlerFails(w) \/ Retry(w) \/ CutBackoff(w)
  BY <1>15, HandlingStep
<1>16. CASE \E w \in Workers : WorkerExits(w)
  BY <1>16, WorkerExitsStep
<1>17. CASE \E c \in Closers : CloseListener(c)
  BY <1>17, CloseListenerStep
<1>18. CASE Next
  <2>1. CASE \/ \E p \in Publishers : CheckOpen(p) \/ Publish(p)
             \/ PublishElsewhere
    BY <1>2, <1>3, <1>4, <1>7, <1>8, <2>1
  <2>2. CASE \E s \in Subs : \/ Listen(s) \/ SubscribeStep(s) \/ ReceiverStep(s)
                             \/ Disconnect(s) \/ Reconnect(s) \/ Cancel(s)
    BY <1>5, <1>7, <1>9, <1>10, <1>11, <1>12, <1>13, <2>2 DEF SubscribeStep, ReceiverStep
  <2>3. CASE \E w \in Workers : WorkerStep(w) \/ HandlerFails(w)
    BY <1>14, <1>15, <1>16, <2>3 DEF WorkerStep
  <2>4. CASE \E c \in Closers : CloseSubscription(c) \/ CloseBus(c) \/ CloserStep(c) \/ GiveUp(c)
    BY <1>6, <1>7, <1>17, <2>4 DEF CloserStep
  <2> QED
    BY <1>18, <2>1, <2>2, <2>3, <2>4 DEF Next
<1> QED
  BY <1>1, <1>18

\* The goroutines, channels and connections of the bus together behave as the
\* queue per subscription that the model of the schema pipeline takes them for:
\* every step publishes to all who listen, hands out the oldest message once,
\* connects or disconnects losing nothing received, stops, or is invisible.
THEOREM BusImplementsTopic == Spec => ImplementsTopic
<1>1. Init => CloseInv /\ WorkersStarted
  BY InitCloseInv, InitStarted
<1>2. CloseInv /\ WorkersStarted /\ [Next]_vars => (CloseInv /\ WorkersStarted)'
  BY NextCloseInv, NextStarted
<1>3. CloseInv /\ WorkersStarted /\ [Next]_vars => [TopicNext]_(Topic!eventVars)
  BY StepImplements
<1> QED
  BY <1>1, <1>2, <1>3, PTL DEF Spec, ImplementsTopic
====
