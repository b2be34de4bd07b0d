------------------------------ MODULE MCNonces ------------------------------
(* A nonce with two uses shown by five requests, one of which needs a       *)
(* higher level, and an unlimited nonce shown by two.                       *)
EXTENDS Nonces, TLC

CONSTANTS n1, n2, r1, r2, r3, r4, r5, r6, r7

MCLimit  == n1 :> 2 @@ n2 :> Unlimited
MCLevel  == n1 :> 1 @@ n2 :> 2
MCAsks   == [r \in Request |-> IF r \in {r6, r7} THEN n2 ELSE n1]
MCDemand == [r \in Request |-> IF r \in {r5, r7} THEN 2 ELSE 1]

Symmetry == Permutations({r1, r2, r3, r4})
=============================================================================
