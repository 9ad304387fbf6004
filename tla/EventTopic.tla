---- MODULE EventTopic ----
(***************************************************************************)
(* What a topic of pkg/pubsub on Postgres gives its subscriptions: a       *)
(* message reaches everyone who listens when it is sent, each of whom      *)
(* hands it out once and in order.  Nothing is stored: who is down or      *)
(* reconnecting never sees it, and a subscription that stops may lose what *)
(* it has not handed out.                                                  *)
(***************************************************************************)
EXTENDS Naturals, Sequences

CONSTANT Instances  \* the subscriptions, one in each application instance

VARIABLES
    mailbox,    \* mailbox[n]: messages queued for the workers of n
    listening   \* instances whose listener connection is established

eventVars == <<mailbox, listening>>

EventsInit ==
    /\ mailbox = [n \in Instances |-> <<>>]
    /\ listening = Instances

-----------------------------------------------------------------------------

\* SELECT pg_notify(channel, payload), decoded and enqueued by each listener.
Publish(i) ==
    /\ mailbox' = [n \in Instances |->
                      IF n \in listening THEN Append(mailbox[n], i) ELSE mailbox[n]]
    /\ UNCHANGED listening

\* A worker goroutine of instance n receives from msgCh.
Receive(n, i) ==
    /\ mailbox[n] # <<>>
    /\ i = Head(mailbox[n])
    /\ mailbox' = [mailbox EXCEPT ![n] = Tail(@)]
    /\ UNCHANGED listening

\* The listener's connection breaks; pq.Listener reconnects, and nobody asks what
\* was missed.
Disconnect(n) ==
    /\ n \in listening
    /\ listening' = listening \ {n}
    /\ UNCHANGED mailbox

Reconnect(n) ==
    /\ n \notin listening
    /\ listening' = listening \cup {n}
    /\ UNCHANGED mailbox

\* The process of instance n dies and is started again: its queue is lost and
\* SubscribeSnapshotEmbedding listens anew.
Restart(n) ==
    /\ mailbox' = [mailbox EXCEPT ![n] = <<>>]
    /\ listening' = listening \cup {n}

\* The subscription is closed or its context ends: it listens no more, and drops
\* some of the messages it has received last.
Stop(n) ==
    /\ listening' = listening \ {n}
    /\ \E k \in 0 .. Len(mailbox[n]) :
          mailbox' = [mailbox EXCEPT ![n] = SubSeq(@, 1, k)]
====
