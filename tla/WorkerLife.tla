----------------------------- MODULE WorkerLife -----------------------------
(* What the worker pool promises about the life of one worker id, whoever   *)
(* requests, starts and stops it: a record is written once, the process is  *)
(* started at most once and only while the request is in somebody's hands,  *)
(* a request that was dropped is never started, a record that was removed   *)
(* does not come back, and a process exits only after its record is gone -  *)
(* so a record in the store never outlives the process it stands for.       *)
CONSTANT Worker

VARIABLES
    phase,   \* how far each worker id has come
    listed   \* the workers with a record of the actor in the workers store

Phases == {"new", "pending", "running", "dropped", "exited"}

TypeOK == phase \in [Worker -> Phases] /\ listed \subseteq Worker

Init == phase = [w \in Worker |-> "new"] /\ listed = {}

Move(w, from, to) ==
    /\ phase[w] = from
    /\ phase' = [phase EXCEPT ![w] = to]

Request(w) == Move(w, "new", "pending") /\ listed' = listed \cup {w}
Start(w)   == Move(w, "pending", "running") /\ UNCHANGED listed
Drop(w)    == Move(w, "pending", "dropped") /\ listed' \in {listed, listed \ {w}}
Delist(w)  == listed' = listed \ {w} /\ UNCHANGED phase
Exit(w)    == Move(w, "running", "exited") /\ w \notin listed /\ UNCHANGED listed

Next == \E w \in Worker :
            Request(w) \/ Start(w) \/ Drop(w) \/ Delist(w) \/ Exit(w)

Spec == Init /\ [][Next]_<<phase, listed>>

=============================================================================
