---- MODULE SnapshotEvents ----
(***************************************************************************)
(* The snapshot-created topic: its messages are snapshot ids, and every    *)
(* application instance has one subscription.                              *)
(***************************************************************************)
EXTENDS SchemaStore, EventTopic

EventsTypeOK ==
    /\ mailbox \in [Instances -> Seq(SnapshotIds)]
    /\ listening \in SUBSET Instances
====
