------------------------------ MODULE MCEvents ------------------------------
(* Small instances of Events, and of the links it rests on, for TLC.        *)
EXTENDS Events, TLC

CONSTANTS a1

HookedActor  == {a1}
BoundAll     == [k \in EventKinds |-> 1]
=============================================================================
