------------------------------- MODULE Nonces -------------------------------
(* The nonces of one actor or one alias: the document of its key in         *)
(* nonce_store, the handlers that add and remove nonces, and the requests   *)
(* that authenticate with one (auth.check_nonce, Nonce.check_and_redeem_    *)
(* nonce).  Each action is one access to the document; requests interleave  *)
(* between them.  A nonce id is generated by the handler that creates it,   *)
(* so what the nonce is created with is a function of its id, and what a    *)
(* request asks for a function of the request.                              *)
EXTENDS Integers, FiniteSets

CONSTANTS
    Nonce,    \* ids that get_uuid() may generate
    Request,  \* requests with the query parameter x-nonce
    Limit,    \* max_uses of each nonce
    Level,    \* level of each nonce
    Asks,     \* the nonce that a request carries
    Demand    \* required_level(request)

Unlimited == -1

NonceAssumption ==
    /\ IsFiniteSet(Request)
    /\ Limit \in [Nonce -> {Unlimited} \cup (Nat \ {0})]
    /\ Level \in [Nonce -> Nat]
    /\ Asks \in [Request -> Nonce]
    /\ Demand \in [Request -> Nat]

ASSUME NonceAssumption

VARIABLES
    issued,     \* the ids generated so far
    nonces,     \* the fields of the document
    current,    \* current_uses of each
    remaining,  \* remaining_uses of each
    req         \* where each request is in check_nonce()

vars == <<issued, nonces, current, remaining, req>>

Pc == {"look", "unlimited", "limited", "owner", "granted", "denied", "lost"}

TypeOK == /\ issued \subseteq Nonce
          /\ nonces \subseteq issued
          /\ current \in [Nonce -> Nat]
          /\ remaining \in [Nonce -> {Unlimited} \cup Nat]
          /\ req \in [Request -> Pc]

Init == /\ issued = {} /\ nonces = {}
        /\ current = [n \in Nonce |-> 0]
        /\ remaining = [n \in Nonce |-> 0]
        /\ req = [r \in Request |-> "look"]

Goto(r, pc) == req' = [req EXCEPT ![r] = pc]

(* A new nonce has an id of its own, no uses and all of them left.          *)
Fresh(n) ==
    /\ n \notin issued
    /\ issued' = issued \cup {n}
    /\ current' = [current EXCEPT ![n] = 0]
    /\ remaining' = [remaining EXCEPT ![n] = Limit[n]]

(* POST nonces.  The write creates the document if it is not there; nobody  *)
(* looks whether the actor still is.                                        *)
AddNonce(n) ==
    /\ Fresh(n)
    /\ nonces' = nonces \cup {n}
    /\ UNCHANGED req

(* DELETE of a nonce, and of the actor with all its nonces.                 *)
DeleteNonce(n) == /\ n \in nonces
                  /\ nonces' = nonces \ {n}
                  /\ UNCHANGED <<issued, current, remaining, req>>

DeleteActor == /\ nonces # {}
               /\ nonces' = {}
               /\ UNCHANGED <<issued, current, remaining, req>>

(* The nonce must exist and its level must be sufficient.                   *)
Look(r) ==
    /\ req[r] = "look"
    /\ Goto(r, IF Asks[r] \in nonces /\ Level[Asks[r]] >= Demand[r]
               THEN "unlimited" ELSE "denied")
    /\ UNCHANGED <<issued, nonces, current, remaining>>

(* Mutants of the filters below: none at all, "$gte" for "$gt" (the last    *)
(* use makes the nonce unlimited), "$gt 1" (the last use is refused).       *)
MatchesAnything(n) == n \in nonces
MatchesZero(n)     == n \in nonces /\ remaining[n] >= 0
MatchesTwo(n)      == n \in nonces /\ remaining[n] > 1

(* The update of the document if remaining_uses is -1 ...                   *)
MatchesUnlimited(n) == n \in nonces /\ remaining[n] = Unlimited

RedeemUnlimited(r) ==
    /\ req[r] = "unlimited"
    /\ LET n == Asks[r]
       IN  IF MatchesUnlimited(n)
           THEN current' = [current EXCEPT ![n] = @ + 1] /\ Goto(r, "owner")
           ELSE UNCHANGED current /\ Goto(r, "limited")
    /\ UNCHANGED <<issued, nonces, remaining>>

(* ... and the update if remaining_uses is positive.                        *)
MatchesLimited(n) == n \in nonces /\ remaining[n] > 0

RedeemLimited(r) ==
    /\ req[r] = "limited"
    /\ LET n == Asks[r]
       IN  IF MatchesLimited(n)
           THEN /\ current' = [current EXCEPT ![n] = @ + 1]
                /\ remaining' = [remaining EXCEPT ![n] = @ - 1]
                /\ Goto(r, "owner")
           ELSE UNCHANGED <<current, remaining>> /\ Goto(r, "denied")
    /\ UNCHANGED <<issued, nonces>>

(* The nonce is read again for the identity and the roles of its owner; if  *)
(* it was removed meanwhile, the request fails although it was counted.     *)
ReadOwner(r) ==
    /\ req[r] = "owner"
    /\ Goto(r, IF Asks[r] \in nonces THEN "granted" ELSE "lost")
    /\ UNCHANGED <<issued, nonces, current, remaining>>

Redeem(r) == Look(r) \/ RedeemUnlimited(r) \/ RedeemLimited(r) \/ ReadOwner(r)

Next == \/ DeleteActor
        \/ \E n \in Nonce : AddNonce(n) \/ DeleteNonce(n)
        \/ \E r \in Request : Redeem(r)

Spec == Init /\ [][Next]_vars

-----------------------------------------------------------------------------
(* The requests that used a nonce.                                          *)
Counted == {r \in Request : req[r] \in {"owner", "granted", "lost"}}
Uses(n) == {r \in Counted : Asks[r] = n}

(* No interleaving of requests redeems a nonce more often than max_uses     *)
(* allows (models.py, check_and_redeem_nonce), also after it was removed,   *)
(* and none turns a limited nonce into an unlimited one: remaining_uses     *)
(* counts down towards the very value that means "unlimited".               *)
UsesBounded ==
    \A n \in Nonce : Limit[n] # Unlimited => Cardinality(Uses(n)) <= Limit[n]

(* The counters in the document say what happened: current_uses is the      *)
(* number of requests that were let through, and with remaining_uses it     *)
(* adds up to max_uses (both are shown to the owner of the nonce).          *)
Accounted ==
    \A n \in nonces :
        /\ current[n] = Cardinality(Uses(n))
        /\ IF Limit[n] = Unlimited THEN remaining[n] = Unlimited
           ELSE remaining[n] = Limit[n] - current[n]

(* What NonceBudget sees of a state.                                        *)
NonceState == [n \in Nonce |-> IF n \in nonces THEN "valid"
                               ELSE IF n \in issued THEN "revoked" ELSE "new"]
Answer == [r \in Request |-> IF req[r] = "granted" THEN "granted"
                             ELSE IF req[r] \in {"denied", "lost"} THEN "denied"
                             ELSE "pending"]

UseCount == [n \in Nonce |-> Cardinality(Uses(n))]

Budget == INSTANCE NonceBudget WITH
    state <- NonceState, uses <- UseCount, used <- Counted, answer <- Answer

(* The four accesses together do what "atomically, check for the existence  *)
(* of a nonce and redeem it" promises (models.py:1188): seen from outside   *)
(* every request either takes one use of a valid nonce or is denied because *)
(* at that moment the nonce is gone, too weak or used up.                   *)
ImplementsBudget == Budget!Spec

=============================================================================
