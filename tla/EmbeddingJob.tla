---- MODULE EmbeddingJob ----
(***************************************************************************)
(* What the embedding of snapshots promises to the rest of the system: a   *)
(* per-snapshot job whose row tells the truth about the chunk rows.        *)
(*   - work is announced before anything is written;                       *)
(*   - the chunk rows change in one step, to the complete set;             *)
(*   - COMPLETED is reached only over a complete set;                      *)
(*   - a failure is counted, and the count is never lost;                  *)
(*   - everything disappears together with the snapshot.                   *)
(* It says nothing of workers, locks, messages or retries.                 *)
(***************************************************************************)
EXTENDS Naturals

CONSTANTS
    Ids,    \* snapshot ids
    Rows    \* chunk rows a snapshot may consist of

VARIABLES
    registered, \* snapshots that exist
    content,    \* content[i]: complete chunk set of snapshot i
    stored,     \* stored[i]: chunk rows in the database
    status,     \* status[i]: status column of its job, "ABSENT" for no row
    failures    \* failures[i]: retry_count column of its job

vars == <<registered, content, stored, status, failures>>

Init ==
    /\ registered = {}
    /\ content = [i \in Ids |-> {}]
    /\ stored = [i \in Ids |-> {}]
    /\ status = [i \in Ids |-> "ABSENT"]
    /\ failures = [i \in Ids |-> 0]

Register(i) ==
    /\ i \notin registered
    /\ status[i] = "ABSENT"
    /\ registered' = registered \cup {i}
    /\ \E P \in SUBSET Rows : content' = [content EXCEPT ![i] = P]
    /\ UNCHANGED <<stored, status, failures>>

\* A run starts; also when an earlier one ended, or died and left PROCESSING.
Begin(i) ==
    /\ i \in registered
    /\ status' = [status EXCEPT ![i] = "PROCESSING"]
    /\ UNCHANGED <<registered, content, stored, failures>>

Store(i) ==
    /\ i \in registered
    /\ status[i] = "PROCESSING"
    /\ stored' = [stored EXCEPT ![i] = content[i]]
    /\ UNCHANGED <<registered, content, status, failures>>

Complete(i) ==
    /\ i \in registered
    /\ status[i] = "PROCESSING"
    /\ stored[i] = content[i]
    /\ status' = [status EXCEPT ![i] = "COMPLETED"]
    /\ UNCHANGED <<registered, content, stored, failures>>

Fail(i) ==
    /\ i \in registered
    /\ status[i] = "PROCESSING"
    /\ status' = [status EXCEPT ![i] = "FAILED"]
    /\ failures' = [failures EXCEPT ![i] = @ + 1]
    /\ UNCHANGED <<registered, content, stored>>

\* Snapshots are deleted only in a batch, by the cascade of their connection.
Erase(S) ==
    /\ S \subseteq registered
    /\ registered' = registered \ S
    /\ content' = [i \in Ids |-> IF i \in S THEN {} ELSE content[i]]
    /\ stored' = [i \in Ids |-> IF i \in S THEN {} ELSE stored[i]]
    /\ status' = [i \in Ids |-> IF i \in S THEN "ABSENT" ELSE status[i]]
    /\ failures' = [i \in Ids |-> IF i \in S THEN 0 ELSE failures[i]]

Next ==
    \/ \E i \in Ids : Register(i) \/ Begin(i) \/ Store(i) \/ Complete(i) \/ Fail(i)
    \/ \E S \in SUBSET Ids : Erase(S)

Spec == Init /\ [][Next]_vars
====
