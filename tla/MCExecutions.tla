---------------------------- MODULE MCExecutions ----------------------------
(* Small instances of Executions for TLC.                                   *)
EXTENDS Executions, TLC

Only(f) == f @@ [k \in RequestKinds |-> 0]

BudgetAll  == Only([halt |-> 1, stop |-> 1, kill |-> 1])
BudgetLive == [k \in RequestKinds |-> 1]

Symmetry == Permutations(Worker) \cup Permutations(Execution)
=============================================================================
