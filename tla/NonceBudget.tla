----------------------------- MODULE NonceBudget ----------------------------
(* What a nonce promises, with its redemption as one atomic step: it is     *)
(* valid from its creation until it is revoked, a request uses it at most   *)
(* once, it is used no more often than its limit, and a request is turned   *)
(* away only for a reason.                                                  *)
EXTENDS Integers

CONSTANTS
    Nonce, Request,
    Limit,    \* how often each nonce may be used; -1 is no limit
    Level,    \* the permission level that each nonce gives
    Asks,     \* the nonce that each request shows
    Demand    \* the permission level that each request needs

VARIABLES
    state,    \* of each nonce
    uses,     \* how often it was used
    used,     \* the requests that used their nonce
    answer    \* what each request was told

Exhausted(n) == Limit[n] # -1 /\ uses[n] >= Limit[n]

Init == /\ state = [n \in Nonce |-> "new"]
        /\ uses = [n \in Nonce |-> 0]
        /\ used = {}
        /\ answer = [r \in Request |-> "pending"]

Issue(n) == /\ state[n] = "new"
            /\ state' = [state EXCEPT ![n] = "valid"]
            /\ UNCHANGED <<uses, used, answer>>

Revoke(S) == /\ \A n \in S : state[n] = "valid"
             /\ state' = [n \in Nonce |-> IF n \in S THEN "revoked" ELSE state[n]]
             /\ UNCHANGED <<uses, used, answer>>

Use(r) == /\ answer[r] = "pending" /\ r \notin used
          /\ state[Asks[r]] = "valid"
          /\ Demand[r] <= Level[Asks[r]]
          /\ ~Exhausted(Asks[r])
          /\ uses' = [uses EXCEPT ![Asks[r]] = @ + 1]
          /\ used' = used \cup {r}
          /\ UNCHANGED <<state, answer>>

Tell(r, what) == /\ answer[r] = "pending"
                 /\ answer' = [answer EXCEPT ![r] = what]
                 /\ UNCHANGED <<state, uses, used>>

Grant(r) == r \in used /\ state[Asks[r]] = "valid" /\ Tell(r, "granted")

Deny(r) == /\ \/ state[Asks[r]] # "valid"
              \/ r \notin used /\ Demand[r] > Level[Asks[r]]
              \/ r \notin used /\ Exhausted(Asks[r])
           /\ Tell(r, "denied")

Next == \/ \E n \in Nonce : Issue(n)
        \/ \E S \in SUBSET Nonce : Revoke(S)
        \/ \E r \in Request : Use(r) \/ Grant(r) \/ Deny(r)

Spec == Init /\ [][Next]_<<state, uses, used, answer>>
=============================================================================
