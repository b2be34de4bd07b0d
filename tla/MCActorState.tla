---------------------------- MODULE MCActorState ----------------------------
(* Small instances of ActorState, and of the links it rests on, for TLC.    *)
EXTENDS ActorState, TLC

CONSTANTS a1

AskedOfOne ==
    [a \in Actor |-> {Default} \cup
        IF a = a1 THEN {[stateful |-> TRUE, capped |-> c] : c \in BOOLEAN} ELSE {}]
Symmetry == Permutations(Actor \ {a1}) \cup Permutations(Handler)
=============================================================================
