------------------------------- MODULE Faults -------------------------------
(***************************************************************************)
(* A bounded number of failures, shared by the modules of one process.     *)
(***************************************************************************)
EXTENDS Integers

CONSTANT MaxFaults      \* bound on failed queries, failed tasks and restarts

ASSUME FaultAssumption == MaxFaults \in Nat

VARIABLE faults

Fault == faults < MaxFaults /\ faults' = faults + 1
=============================================================================
