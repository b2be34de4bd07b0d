--------------------------- MODULE ExecutionLife ---------------------------
(* What the executions of an actor promise to whoever sent the messages and *)
(* to whoever subscribed to the actor's events: the message of an execution *)
(* waits in the inbox, is in the hands of one worker, or is consumed; it    *)
(* may come back to the inbox any number of times before it is consumed,    *)
(* and never after; and the completion of an execution is announced at most *)
(* once, after its message was consumed.                                    *)
CONSTANT Execution

VARIABLES
    phase,     \* where the message of each execution is
    announced  \* the executions whose EXECUTION_COMPLETE event was published

Phases == {"new", "waiting", "taken", "consumed"}

TypeOK == phase \in [Execution -> Phases] /\ announced \subseteq Execution

Init == phase = [x \in Execution |-> "new"] /\ announced = {}

Move(x, from, to) ==
    /\ phase[x] = from
    /\ phase' = [phase EXCEPT ![x] = to]
    /\ UNCHANGED announced

Send(x)    == Move(x, "new", "waiting")
Take(x)    == Move(x, "waiting", "taken")
Return(x)  == Move(x, "taken", "waiting")
Consume(x) == Move(x, "taken", "consumed")

(* The inbox is emptied with all that waits in it.                          *)
Purge ==
    /\ phase' = [x \in Execution |-> IF phase[x] = "waiting" THEN "consumed" ELSE phase[x]]
    /\ UNCHANGED announced

Announce(x) ==
    /\ phase[x] = "consumed" /\ x \notin announced
    /\ announced' = announced \cup {x}
    /\ UNCHANGED phase

Next ==
    \/ Purge
    \/ \E x \in Execution :
         Send(x) \/ Take(x) \/ Return(x) \/ Consume(x) \/ Announce(x)

Spec == Init /\ [][Next]_<<phase, announced>>
=============================================================================
