---- MODULE Faults ----
(***************************************************************************)
(* The failures the environment may inject.  A run chooses which kinds may *)
(* happen and how many in total; an action that needs one spends it.       *)
(***************************************************************************)
EXTENDS Naturals

CONSTANTS
    FaultKinds, \* kinds of failure enabled in this instance
    MaxFaults   \* bound: failures in a behaviour

ASSUME FaultsAssumption == MaxFaults \in Nat

VARIABLE faults \* failures so far

FaultsTypeOK == faults \in 0 .. MaxFaults

FaultsInit == faults = 0

Fault(kind) ==
    /\ kind \in FaultKinds
    /\ faults < MaxFaults
    /\ faults' = faults + 1
====
