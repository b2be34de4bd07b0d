---------------------------- MODULE MCWorkerPool ----------------------------
(* Small instances of WorkerPool for TLC.                                   *)
EXTENDS WorkerPoolClaims, WorkerPoolLife, TLC

Only(f) == f @@ [k \in RequestKinds |-> 0]

(* The requests issued in each of the runs.                                 *)
BudgetStart    == Only([workers |-> 1, stop |-> 1, expire |-> 1, put |-> 1])
BudgetFaults   == Only([message |-> 1, delete |-> 1])
BudgetLive     == Only([message |-> 1, update |-> 1, stop |-> 1, force |-> 1])

BudgetUpdate   == Only([message |-> 1, update |-> 1])

Symmetry == Permutations(Worker) \cup Permutations(Client) \cup Permutations(Spawner)
=============================================================================
