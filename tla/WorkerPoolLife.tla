--------------------------- MODULE WorkerPoolLife ---------------------------
(* WorkerPool implements WorkerLife.                                        *)
EXTENDS WorkerPool

InHand(w) == Putting(w) # {} \/ Queued(w) # {} \/ HandledBy(w) # {}

phase == [w \in Worker |-> IF main[w] = "exited" THEN "exited"
                           ELSE IF Alive(w) THEN "running"
                           ELSE IF InHand(w) THEN "pending"
                           ELSE IF w \in issued THEN "dropped"
                           ELSE "new"]

Life == INSTANCE WorkerLife WITH listed <- Owned

(* Every step of the pool is a step of the life of one worker, or changes   *)
(* nothing that WorkerLife speaks of: in particular no interleaving of two  *)
(* spawners, a retry and the channel thread starts a worker twice, or lets  *)
(* a process exit while its record is still offered.                        *)
ImplementsLife == Life!Spec
=============================================================================
