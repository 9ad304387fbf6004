---- MODULE PostgresBus ----
(***************************************************************************)
(* pkg/pubsub/postgres: the Bus of one process, its subscriptions to one   *)
(* topic with their goroutines (one receiving from the pq.Listener, some   *)
(* handling messages), and concurrent calls of Publish, Subscribe and of   *)
(* both Close operations.                                                  *)
(*                                                                         *)
(* Messages are numbered in the order Postgres sends them.  Encoding a     *)
(* message and refusing one that is too large are left out.                *)
(***************************************************************************)
EXTENDS Integers, Sequences, FiniteSets, SequencesExt, Faults

CONSTANTS
    Subs,           \* calls of Subscribe
    Workers,        \* goroutines running the handler (Concurrency)
    SubOf,          \* SubOf[w]: the subscription of worker w
    Publishers,     \* goroutines of this process calling Publish
    Closers,        \* goroutines calling Close
    Cap,            \* slots of msgCh, 256 in the code
    NotifySlots,    \* notifications that fit in the channels of pq.Listener (external)
    MaxRetries,     \* retries after a failing handler
    MaxMessages,    \* bound: messages sent in a behaviour
    NoSub           \* no subscription

ASSUME BusAssumption ==
    /\ SubOf \in [Workers -> Subs]
    /\ \A s \in Subs : \E w \in Workers : SubOf[w] = s
    /\ IsFiniteSet(Workers)
    /\ Cap \in Nat \ {0}
    /\ NotifySlots \in Nat
    /\ MaxRetries \in Nat
    /\ MaxMessages \in Nat
    /\ NoSub \notin Subs

VARIABLES
    bus,        \* closed flag, registered subscriptions; history: Close has returned
    sent,       \* number of messages sent
    publisher,  \* local state of each call of Publish
    sub,        \* stage of Subscribe, closeCh, context, sync.Once
    listener,   \* each pq.Listener: its connection, and what it has not delivered
    receiver,   \* goroutine reading the Notify channel
    msgCh,      \* msgCh[s]: messages waiting for a worker
    worker,     \* goroutines running the handler
    closer,     \* local state of each call of Close
    finished,   \* history: messages handled or given up, in that order
    returned    \* history: subscriptions a Close of which has returned nil

sendVars == <<sent, publisher>>
handlerVars == <<worker, finished>>
closeVars == <<closer, returned>>
vars == <<bus, sendVars, sub, listener, receiver, msgCh, handlerVars, closeVars, faults>>

Messages == 1 .. MaxMessages

\* What pq.Listener sends after it has reconnected.
Nil == 0

SubState == [stage     : {"none", "listening", "registered", "running", "refused"},
             closing   : BOOLEAN,
             cancelled : BOOLEAN,
             once      : {"free", "taken", "done"}]

\* notify: everything Postgres has sent that is not received from Notify yet.  What
\* exceeds NotifySlots is still on the connection, behind a goroutine of lib/pq that
\* is blocked on a full channel.
ListenerState == [conn : {"none", "up", "down", "closed"}, notify : Seq(Messages \cup {Nil})]

ReceiverState == [pc : {"off", "wait", "enqueue", "exit"}, msg : Messages \cup {Nil}]

WorkerState == [pc      : {"off", "wait", "handle", "backoff", "exit"},
                msg     : Messages \cup {Nil},
                attempt : 0 .. MaxRetries]

\* at: the subscription being closed; todo: those still to be closed; all: the
\* call is Bus.Close.
CloserState == [pc   : {"idle", "next", "once", "remove", "unlisten", "wait"},
                at   : Subs \cup {NoSub},
                todo : SUBSET Subs,
                all  : BOOLEAN]

IdleCloser == [pc |-> "idle", at |-> NoSub, todo |-> {}, all |-> FALSE]

TypeOK ==
    /\ bus \in [closed : BOOLEAN, subs : SUBSET Subs, drained : BOOLEAN]
    /\ sent \in 0 .. MaxMessages
    /\ publisher \in [Publishers -> {"idle", "notify"}]
    /\ sub \in [Subs -> SubState]
    /\ listener \in [Subs -> ListenerState]
    /\ receiver \in [Subs -> ReceiverState]
    /\ msgCh \in [Subs -> Seq(Messages)]
    /\ \A s \in Subs : Len(msgCh[s]) <= Cap
    /\ worker \in [Workers -> WorkerState]
    /\ closer \in [Closers -> CloserState]
    /\ finished \in [Subs -> Seq(Messages)]
    /\ returned \in SUBSET Subs
    /\ FaultsTypeOK

Init ==
    /\ bus = [closed |-> FALSE, subs |-> {}, drained |-> FALSE]
    /\ sent = 0
    /\ publisher = [p \in Publishers |-> "idle"]
    /\ sub = [s \in Subs |-> [stage |-> "none", closing |-> FALSE, cancelled |-> FALSE,
                              once |-> "free"]]
    /\ listener = [s \in Subs |-> [conn |-> "none", notify |-> <<>>]]
    /\ receiver = [s \in Subs |-> [pc |-> "off", msg |-> Nil]]
    /\ msgCh = [s \in Subs |-> <<>>]
    /\ worker = [w \in Workers |-> [pc |-> "off", msg |-> Nil, attempt |-> 0]]
    /\ closer = [c \in Closers |-> IdleCloser]
    /\ finished = [s \in Subs |-> <<>>]
    /\ returned = {}
    /\ FaultsInit

WorkersOf(s) == {w \in Workers : SubOf[w] = s}

\* closeCh is closed or the context of Subscribe is done.
Stopping(s) == sub[s].closing \/ sub[s].cancelled

\* closedCh is closed: every goroutine of the subscription has returned.
Stopped(s) ==
    /\ receiver[s].pc = "exit"
    /\ \A w \in WorkersOf(s) : worker[w].pc = "exit"

-----------------------------------------------------------------------------
\* Publish.

\* pg_notify: one more message for every connection that listens.
Notify ==
    /\ sent < MaxMessages
    /\ sent' = sent + 1
    /\ listener' = [s \in Subs |->
          IF listener[s].conn = "up"
          THEN [listener[s] EXCEPT !.notify = Append(@, sent + 1)]
          ELSE listener[s]]

\* A closed bus refuses; one that is closed after this check does not.
CheckOpen(p) ==
    /\ publisher[p] = "idle"
    /\ ~bus.closed
    /\ publisher' = [publisher EXCEPT ![p] = "notify"]
    /\ UNCHANGED <<bus, sent, sub, listener, receiver, msgCh, handlerVars, closeVars, faults>>

Publish(p) ==
    /\ publisher[p] = "notify"
    /\ Notify
    /\ publisher' = [publisher EXCEPT ![p] = "idle"]
    /\ UNCHANGED <<bus, sub, receiver, msgCh, handlerVars, closeVars, faults>>

\* Another process publishes.
PublishElsewhere ==
    /\ Notify
    /\ UNCHANGED <<bus, publisher, sub, receiver, msgCh, handlerVars, closeVars, faults>>

-----------------------------------------------------------------------------
\* Subscribe.

Listen(s) ==
    /\ sub[s].stage = "none"
    /\ sub' = [sub EXCEPT ![s].stage = "listening"]
    /\ listener' = [listener EXCEPT ![s].conn = "up"]
    /\ UNCHANGED <<bus, sendVars, receiver, msgCh, handlerVars, closeVars, faults>>

\* Mutant of Register: whether the bus is closed is not looked at again.
RegisterUnchecked(s) ==
    /\ sub[s].stage = "listening"
    /\ sub' = [sub EXCEPT ![s].stage = "registered"]
    /\ bus' = [bus EXCEPT !.subs = @ \cup {s}]
    /\ UNCHANGED <<sendVars, listener, receiver, msgCh, handlerVars, closeVars, faults>>

\* UnlistenAll returns: the answer comes over the connection behind the
\* notifications sent before, so those must fit in the channels.
UnlistenAnswered(s) == Len(listener[s].notify) <= NotifySlots

\* The flag is read under the mutex of the bus; a refusal takes the listener down.
Register(s) ==
    /\ sub[s].stage = "listening"
    /\ IF bus.closed
       THEN /\ UnlistenAnswered(s)
            /\ sub' = [sub EXCEPT ![s].stage = "refused"]
            /\ listener' = [listener EXCEPT ![s] = [conn |-> "closed", notify |-> <<>>]]
            /\ UNCHANGED bus
       ELSE /\ sub' = [sub EXCEPT ![s].stage = "registered"]
            /\ bus' = [bus EXCEPT !.subs = @ \cup {s}]
            /\ UNCHANGED listener
    /\ UNCHANGED <<sendVars, receiver, msgCh, handlerVars, closeVars, faults>>

\* start(): the goroutines run, and Subscribe returns.
Start(s) ==
    /\ sub[s].stage = "registered"
    /\ sub' = [sub EXCEPT ![s].stage = "running"]
    /\ receiver' = [receiver EXCEPT ![s].pc = "wait"]
    /\ worker' = [w \in Workers |-> IF SubOf[w] = s THEN [worker[w] EXCEPT !.pc = "wait"]
                                                    ELSE worker[w]]
    /\ UNCHANGED <<bus, sendVars, listener, msgCh, closeVars, finished, faults>>

-----------------------------------------------------------------------------
\* The receiving goroutine, and pq.Listener.

Disconnect(s) ==
    /\ Fault("listener")
    /\ listener[s].conn = "up"
    /\ listener' = [listener EXCEPT ![s].conn = "down"]
    /\ UNCHANGED <<bus, sendVars, sub, receiver, msgCh, handlerVars, closeVars>>

Reconnect(s) ==
    /\ listener[s].conn = "down"
    /\ listener' = [listener EXCEPT ![s].conn = "up", ![s].notify = Append(@, Nil)]
    /\ UNCHANGED <<bus, sendVars, sub, receiver, msgCh, handlerVars, closeVars, faults>>

\* Mutant of ReceiveNotification: nil is taken for the end of the channel.
StopAtNil(s) ==
    LET msg == Head(listener[s].notify) IN
    /\ receiver[s].pc = "wait"
    /\ listener[s].notify # <<>>
    /\ listener' = [listener EXCEPT ![s].notify = Tail(@)]
    /\ receiver' = [receiver EXCEPT ![s] =
          IF msg = Nil THEN [pc |-> "exit", msg |-> Nil] ELSE [pc |-> "enqueue", msg |-> msg]]
    /\ UNCHANGED <<bus, sendVars, sub, msgCh, handlerVars, closeVars, faults>>

ReceiveNotification(s) ==
    LET msg == Head(listener[s].notify) IN
    /\ receiver[s].pc = "wait"
    /\ listener[s].notify # <<>>
    /\ listener' = [listener EXCEPT ![s].notify = Tail(@)]
    /\ receiver' = [receiver EXCEPT ![s] =
          IF msg = Nil THEN [pc |-> "wait", msg |-> Nil] ELSE [pc |-> "enqueue", msg |-> msg]]
    /\ UNCHANGED <<bus, sendVars, sub, msgCh, handlerVars, closeVars, faults>>

\* Mutant of Enqueue: the channel has no limit.
EnqueueUnbounded(s) ==
    /\ receiver[s].pc = "enqueue"
    /\ msgCh' = [msgCh EXCEPT ![s] = Append(@, receiver[s].msg)]
    /\ receiver' = [receiver EXCEPT ![s] = [pc |-> "wait", msg |-> Nil]]
    /\ UNCHANGED <<bus, sendVars, sub, listener, handlerVars, closeVars, faults>>

\* select may also choose this when the subscription is stopping.
Enqueue(s) ==
    /\ receiver[s].pc = "enqueue"
    /\ Len(msgCh[s]) < Cap
    /\ msgCh' = [msgCh EXCEPT ![s] = Append(@, receiver[s].msg)]
    /\ receiver' = [receiver EXCEPT ![s] = [pc |-> "wait", msg |-> Nil]]
    /\ UNCHANGED <<bus, sendVars, sub, listener, handlerVars, closeVars, faults>>

\* Mutant of ReceiverExits: sending to msgCh does not look at closeCh.
ReceiverExitsIdle(s) ==
    /\ receiver[s].pc = "wait"
    /\ Stopping(s)
    /\ receiver' = [receiver EXCEPT ![s] = [pc |-> "exit", msg |-> Nil]]
    /\ UNCHANGED <<bus, sendVars, sub, listener, msgCh, handlerVars, closeVars, faults>>

ReceiverExits(s) ==
    /\ receiver[s].pc \in {"wait", "enqueue"}
    /\ Stopping(s)
    /\ receiver' = [receiver EXCEPT ![s] = [pc |-> "exit", msg |-> Nil]]
    /\ UNCHANGED <<bus, sendVars, sub, listener, msgCh, handlerVars, closeVars, faults>>

-----------------------------------------------------------------------------
\* The handling goroutines.

WorkerGoto(w, pc, msg, attempt) ==
    worker' = [worker EXCEPT ![w] = [pc |-> pc, msg |-> msg, attempt |-> attempt]]

\* Mutant of TakeMessage: the message is looked at but not taken.
PeekMessage(w) ==
    LET s == SubOf[w] IN
    /\ worker[w].pc = "wait"
    /\ msgCh[s] # <<>>
    /\ WorkerGoto(w, "handle", Head(msgCh[s]), 0)
    /\ UNCHANGED <<bus, sendVars, sub, listener, receiver, msgCh, closeVars, finished, faults>>

\* select may also choose this when the subscription is stopping.
TakeMessage(w) ==
    LET s == SubOf[w] IN
    /\ worker[w].pc = "wait"
    /\ msgCh[s] # <<>>
    /\ msgCh' = [msgCh EXCEPT ![s] = Tail(@)]
    /\ WorkerGoto(w, "handle", Head(msgCh[s]), 0)
    /\ UNCHANGED <<bus, sendVars, sub, listener, receiver, closeVars, finished, faults>>

\* process() returns: the handler succeeded, or there are no attempts left.
Conclude(w) ==
    /\ WorkerGoto(w, "wait", Nil, 0)
    /\ finished' = [finished EXCEPT ![SubOf[w]] = Append(@, worker[w].msg)]
    /\ UNCHANGED msgCh

HandlerSucceeds(w) ==
    /\ worker[w].pc = "handle"
    /\ Conclude(w)
    /\ UNCHANGED <<bus, sendVars, sub, listener, receiver, closeVars, faults>>

\* Mutant of HandlerFails: a failed message goes to the end of the channel.
RetryLater(w) ==
    LET s == SubOf[w] IN
    /\ Fault("handler")
    /\ worker[w].pc = "handle"
    /\ IF Len(msgCh[s]) < Cap
       THEN /\ msgCh' = [msgCh EXCEPT ![s] = Append(@, worker[w].msg)]
            /\ WorkerGoto(w, "wait", Nil, 0)
            /\ UNCHANGED finished
       ELSE Conclude(w)
    /\ UNCHANGED <<bus, sendVars, sub, listener, receiver, closeVars>>

HandlerFails(w) ==
    /\ Fault("handler")
    /\ worker[w].pc = "handle"
    /\ IF worker[w].attempt < MaxRetries
       THEN /\ WorkerGoto(w, "backoff", worker[w].msg, worker[w].attempt)
            /\ UNCHANGED <<finished, msgCh>>
       ELSE Conclude(w)
    /\ UNCHANGED <<bus, sendVars, sub, listener, receiver, closeVars>>

Retry(w) ==
    /\ worker[w].pc = "backoff"
    /\ WorkerGoto(w, "handle", worker[w].msg, worker[w].attempt + 1)
    /\ UNCHANGED <<bus, sendVars, sub, listener, receiver, msgCh, closeVars, finished, faults>>

\* Stopping ends the backoff, and the message is dropped.
CutBackoff(w) ==
    /\ worker[w].pc = "backoff"
    /\ Stopping(SubOf[w])
    /\ WorkerGoto(w, "wait", Nil, 0)
    /\ UNCHANGED <<bus, sendVars, sub, listener, receiver, msgCh, closeVars, finished, faults>>

WorkerExits(w) ==
    /\ worker[w].pc = "wait"
    /\ Stopping(SubOf[w])
    /\ WorkerGoto(w, "exit", Nil, 0)
    /\ UNCHANGED <<bus, sendVars, sub, listener, receiver, msgCh, closeVars, finished, faults>>

\* The context given to Subscribe is cancelled.
Cancel(s) ==
    /\ Fault("cancel")
    /\ sub[s].stage # "none"
    /\ ~sub[s].cancelled
    /\ sub' = [sub EXCEPT ![s].cancelled = TRUE]
    /\ UNCHANGED <<bus, sendVars, listener, receiver, msgCh, handlerVars, closeVars>>

-----------------------------------------------------------------------------
\* Close of a subscription, and of the bus.

\* subscription.Close by somebody Subscribe has returned it to.
CloseSubscription(c) ==
    /\ closer[c].pc = "idle"
    /\ \E s \in Subs :
          /\ sub[s].stage = "running"
          /\ s \notin returned
          /\ closer' = [closer EXCEPT ![c] = [pc |-> "once", at |-> s, todo |-> {}, all |-> FALSE]]
    /\ UNCHANGED <<bus, sendVars, sub, listener, receiver, msgCh, handlerVars, returned, faults>>

\* Bus.Close.  A second call returns at once, waiting for nothing.
CloseBus(c) ==
    /\ closer[c].pc = "idle"
    /\ ~bus.closed
    /\ bus' = [bus EXCEPT !.closed = TRUE]
    /\ closer' = [closer EXCEPT
          ![c] = [pc |-> "next", at |-> NoSub, todo |-> bus.subs, all |-> TRUE]]
    /\ UNCHANGED <<sendVars, sub, listener, receiver, msgCh, handlerVars, returned, faults>>

\* The loop of Bus.Close.
NextSubscription(c) ==
    /\ closer[c].pc = "next"
    /\ \/ /\ closer[c].todo = {}
          /\ bus' = [bus EXCEPT !.drained = TRUE]
          /\ closer' = [closer EXCEPT ![c] = IdleCloser]
       \/ /\ \E s \in closer[c].todo :
                closer' = [closer EXCEPT ![c].pc = "once", ![c].at = s, ![c].todo = @ \ {s}]
          /\ UNCHANGED bus
    /\ UNCHANGED <<sendVars, sub, listener, receiver, msgCh, handlerVars, returned, faults>>

\* once.Do: the first caller closes closeCh, the others wait until it is done.
EnterOnce(c) ==
    LET s == closer[c].at IN
    /\ closer[c].pc = "once"
    /\ \/ /\ sub[s].once = "free"
          /\ sub' = [sub EXCEPT ![s].once = "taken", ![s].closing = TRUE]
          /\ closer' = [closer EXCEPT ![c].pc = "remove"]
       \/ /\ sub[s].once = "done"
          /\ closer' = [closer EXCEPT ![c].pc = "wait"]
          /\ UNCHANGED sub
    /\ UNCHANGED <<bus, sendVars, listener, receiver, msgCh, handlerVars, returned, faults>>

RemoveSubscription(c) ==
    /\ closer[c].pc = "remove"
    /\ bus' = [bus EXCEPT !.subs = @ \ {closer[c].at}]
    /\ closer' = [closer EXCEPT ![c].pc = "unlisten"]
    /\ UNCHANGED <<sendVars, sub, listener, receiver, msgCh, handlerVars, returned, faults>>

\* UnlistenAll and Close of the listener, inside once.Do.  The receiver may have
\* returned already; then nobody makes room in the channels.
CloseListener(c) ==
    LET s == closer[c].at IN
    /\ closer[c].pc = "unlisten"
    /\ UnlistenAnswered(s)
    /\ listener' = [listener EXCEPT ![s].conn = "closed"]
    /\ sub' = [sub EXCEPT ![s].once = "done"]
    /\ closer' = [closer EXCEPT ![c].pc = "wait"]
    /\ UNCHANGED <<bus, sendVars, receiver, msgCh, handlerVars, returned, faults>>

\* This subscription is closed.
ReturnFrom(c) ==
    /\ returned' = returned \cup {closer[c].at}
    /\ closer' = [closer EXCEPT ![c] =
          IF closer[c].all THEN [closer[c] EXCEPT !.pc = "next"] ELSE IdleCloser]

\* Mutant of AwaitStopped: only the receiver is waited for.
AwaitReceiver(c) ==
    /\ closer[c].pc = "wait"
    /\ receiver[closer[c].at].pc = "exit"
    /\ ReturnFrom(c)
    /\ UNCHANGED <<bus, sendVars, sub, listener, receiver, msgCh, handlerVars, faults>>

AwaitStopped(c) ==
    /\ closer[c].pc = "wait"
    /\ Stopped(closer[c].at)
    /\ ReturnFrom(c)
    /\ UNCHANGED <<bus, sendVars, sub, listener, receiver, msgCh, handlerVars, faults>>

\* The context given to subscription.Close ends first: it returns an error.
GiveUp(c) ==
    /\ Fault("deadline")
    /\ closer[c].pc = "wait"
    /\ ~closer[c].all
    /\ closer' = [closer EXCEPT ![c] = IdleCloser]
    /\ UNCHANGED <<bus, sendVars, sub, listener, receiver, msgCh, handlerVars, returned>>

-----------------------------------------------------------------------------

SubscribeStep(s) == Register(s) \/ Start(s)

ReceiverStep(s) == ReceiveNotification(s) \/ Enqueue(s) \/ ReceiverExits(s)

WorkerStep(w) ==
    \/ TakeMessage(w)
    \/ HandlerSucceeds(w)
    \/ Retry(w)
    \/ CutBackoff(w)
    \/ WorkerExits(w)

CloserStep(c) ==
    \/ NextSubscription(c)
    \/ EnterOnce(c)
    \/ RemoveSubscription(c)
    \/ CloseListener(c)
    \/ AwaitStopped(c)

Next ==
    \/ \E p \in Publishers : CheckOpen(p) \/ Publish(p)
    \/ PublishElsewhere
    \/ \E s \in Subs : Listen(s) \/ SubscribeStep(s) \/ ReceiverStep(s)
    \/ \E s \in Subs : Disconnect(s) \/ Reconnect(s) \/ Cancel(s)
    \/ \E w \in Workers : WorkerStep(w) \/ HandlerFails(w)
    \/ \E c \in Closers : CloseSubscription(c) \/ CloseBus(c) \/ CloserStep(c) \/ GiveUp(c)

Spec == Init /\ [][Next]_vars

\* Goroutines keep running, handlers return, pq.Listener reconnects.
Fairness ==
    /\ \A s \in Subs :
          /\ WF_vars(SubscribeStep(s))
          /\ WF_vars(ReceiverStep(s))
          /\ WF_vars(Reconnect(s))
    /\ \A w \in Workers : WF_vars(WorkerStep(w))
    /\ \A c \in Closers : WF_vars(CloserStep(c))

FairSpec == Spec /\ Fairness

-----------------------------------------------------------------------------

\* A subscription with one worker concludes messages in the order they were sent,
\* each of them once, whatever fails, is retried, or is lost on the way.
ConcludedInOrder ==
    \A s \in Subs : Cardinality(WorkersOf(s)) = 1 =>
        \A i, j \in DOMAIN finished[s] : i < j => finished[s][i] < finished[s][j]

\* Once Close of a subscription has returned nil, no handler of it runs, then or
\* later, and its listener has disconnected: the caller may tear down what the
\* handler uses.
ClosedIsQuiet ==
    \A s \in returned : Stopped(s) /\ listener[s].conn = "closed" /\ s \notin bus.subs

\* Once Bus.Close has returned, nothing runs that it did not stop: a Subscribe
\* that was under way is refused, and a subscription that still has goroutines is
\* being closed by somebody else, who had removed it from the bus already.
DrainedIsQuiet ==
    bus.drained => \A s \in Subs :
        sub[s].stage \in {"none", "listening", "refused"} \/ sub[s].closing

\* What q holds besides Nil, in the order of q: SelectSeq(q, LAMBDA m : m # Nil),
\* by position, where proofs can follow it.
Filled(q) == {i \in DOMAIN q : q[i] # Nil}

Rank(q, i) == Cardinality({j \in Filled(q) : j <= i})

MessagesIn(q) ==
    [k \in 1 .. Cardinality(Filled(q)) |-> q[CHOOSE i \in Filled(q) : Rank(q, i) = k]]

\* Messages on their way to the workers of s.  What the Notify channel holds
\* counts as long as somebody reads it.
InTransit(s) ==
    IF \A w \in WorkersOf(s) : worker[w].pc = "exit" THEN <<>>
    ELSE IF receiver[s].pc = "exit" THEN msgCh[s]
    ELSE msgCh[s]
         \o (IF receiver[s].pc = "enqueue" THEN <<receiver[s].msg>> ELSE <<>>)
         \o MessagesIn(listener[s].notify)

Listening ==
    {s \in Subs : /\ listener[s].conn = "up"
                  /\ receiver[s].pc # "exit"
                  /\ \E w \in WorkersOf(s) : worker[w].pc # "exit"}

Topic == INSTANCE EventTopic WITH
    Instances <- Subs,
    mailbox   <- [s \in Subs |-> InTransit(s)],
    listening <- Listening

TopicNext ==
    \/ \E m \in Messages : Topic!Publish(m)
    \/ \E s \in Subs, m \in Messages : Topic!Receive(s, m)
    \/ \E s \in Subs : Topic!Disconnect(s) \/ Topic!Reconnect(s) \/ Topic!Stop(s)

\* Channels, goroutines and the listener together are the queue per subscription
\* that the model of the schema pipeline takes the bus to be: at every step they
\* publish to all who listen, hand out the oldest message once, connect or
\* disconnect losing nothing already received, or stop.
ImplementsTopic == [][TopicNext]_(Topic!eventVars)

\* A message that was sent to a subscription is handled or given up, unless the
\* subscription is stopped, or the closed bus refuses it.
EveryMessageIsConcluded ==
    \A s \in Subs, m \in Messages :
        m \in ToSet(InTransit(s)) ~> (\/ m \in ToSet(finished[s])
                                       \/ Stopping(s)
                                       \/ (bus.closed /\ s \notin bus.subs))

\* More waits at the listener than lib/pq has room for, and nobody will fetch it.
Backlogged(s) == receiver[s].pc = "exit" /\ ~UnlistenAnswered(s)

\* Close returns once the running handlers have, whatever msgCh holds and whoever
\* else is closing, unless a listener is backlogged: closeCh is closed before
\* UnlistenAll, so the receiver may stop, and UnlistenAll, in once.Do and without a
\* deadline, waits behind the notifications.  Nothing else makes Close hang.
CloseReturns ==
    \A c \in Closers :
        closer[c].pc # "idle" ~> closer[c].pc = "idle" \/ \E s \in Subs : Backlogged(s)
====
