---------------------------- MODULE NoncesProofs ----------------------------
(* Theorems about Nonces, for every set of nonces and requests and every    *)
(* limit.                                                                   *)
EXTENDS Nonces, FiniteSetTheorems, TLAPS

(* A request past the first look shows a nonce that was created and gives   *)
(* the level it needs ...                                                   *)
Known == \A r \in Request :
            req[r] \notin {"look", "denied"} =>
                Asks[r] \in issued /\ Demand[r] <= Level[Asks[r]]

(* ... and a request for an unlimited nonce that got to the second update   *)
(* got there because the nonce is gone; ids are not used again.             *)
Missed == \A r \in Request :
            req[r] = "limited" /\ Limit[Asks[r]] = Unlimited => Asks[r] \notin nonces

IInv == TypeOK /\ Known /\ Missed /\ Accounted /\ UsesBounded

LEMMA UsesFinite ==
    ASSUME NEW n \in Nonce
    PROVE  IsFiniteSet(Uses(n)) /\ Cardinality(Uses(n)) \in Nat
<1>1. Uses(n) \subseteq Request  BY DEF Uses, Counted
<1> QED  BY <1>1, NonceAssumption, FS_Subset, FS_CardinalityType DEF NonceAssumption

(* What the counts see of a step of one request.                            *)
LEMMA CountedOnce ==
    ASSUME TypeOK, NEW r \in Request, Goto(r, "owner"), req[r] \notin {"owner", "granted", "lost"}
    PROVE  /\ Counted' = Counted \cup {r}
           /\ r \notin Counted
           /\ Cardinality(Uses(Asks[r])') = Cardinality(Uses(Asks[r])) + 1
           /\ \A n \in Nonce \ {Asks[r]} : Uses(n)' = Uses(n)
<1>1. /\ req'[r] = "owner"
      /\ \A q \in Request \ {r} : req'[q] = req[q]
  BY DEF Goto, TypeOK
<1>2. Counted' = Counted \cup {r} /\ r \notin Counted
  BY <1>1 DEF Counted
<1>3. Uses(Asks[r])' = Uses(Asks[r]) \cup {r} /\ r \notin Uses(Asks[r])
  BY <1>2 DEF Uses
<1>4. Cardinality(Uses(Asks[r]) \cup {r}) = Cardinality(Uses(Asks[r])) + 1
  BY <1>3, UsesFinite, FS_AddElement, NonceAssumption DEF NonceAssumption
<1>5. \A n \in Nonce \ {Asks[r]} : Uses(n)' = Uses(n)
  BY <1>2 DEF Uses
<1> QED  BY <1>2, <1>3, <1>4, <1>5

LEMMA CountedSame ==
    ASSUME TypeOK, NEW r \in Request, NEW pc, Goto(r, pc),
           pc \in {"owner", "granted", "lost"} <=> req[r] \in {"owner", "granted", "lost"}
    PROVE  /\ Counted' = Counted /\ UseCount' = UseCount
           /\ \A n \in Nonce : Uses(n)' = Uses(n)
<1>1. /\ req'[r] = pc
      /\ \A q \in Request \ {r} : req'[q] = req[q]
  BY DEF Goto, TypeOK
<1>2. Counted' = Counted
  BY <1>1 DEF Counted
<1> QED  BY <1>2 DEF Uses, UseCount

-----------------------------------------------------------------------------
(* The invariant.                                                           *)

LEMMA InitInv == Init => IInv
<1> SUFFICES ASSUME Init PROVE IInv
  OBVIOUS
<1>1. TypeOK /\ Known /\ Missed /\ Accounted
  BY NonceAssumption DEF Init, TypeOK, Known, Missed, Accounted, Pc, NonceAssumption
<1>2. \A n \in Nonce : Uses(n) = {}
  BY DEF Init, Uses, Counted
<1>3. UsesBounded
  BY <1>2, FS_EmptySet, NonceAssumption DEF UsesBounded, NonceAssumption
<1> QED  BY <1>1, <1>3 DEF IInv

LEMMA AddNonceInv ==
    ASSUME IInv, NEW n \in Nonce, AddNonce(n)
    PROVE  IInv'
<1>1. TypeOK' /\ Known' /\ Missed'
  BY NonceAssumption DEF IInv, AddNonce, Fresh, TypeOK, Known, Missed, NonceAssumption
<1>2. \A m \in Nonce : Uses(m)' = Uses(m)
  BY DEF AddNonce, Fresh, Uses, Counted
<1>3. Uses(n) = {}
  BY DEF IInv, AddNonce, Fresh, Known, Uses, Counted
<1>4. Accounted'
  <2> SUFFICES ASSUME NEW m \in nonces'
               PROVE  /\ current'[m] = Cardinality(Uses(m)')
                      /\ IF Limit[m] = Unlimited THEN remaining'[m] = Unlimited
                         ELSE remaining'[m] = Limit[m] - current'[m]
    BY DEF Accounted
  <2>1. CASE m = n
    <3>1. current'[m] = 0 /\ remaining'[m] = Limit[m] /\ Uses(m)' = {}
      BY <1>2, <1>3, <2>1 DEF IInv, AddNonce, Fresh, TypeOK
    <3> QED  BY <3>1, <2>1, FS_EmptySet, NonceAssumption DEF NonceAssumption, Unlimited
  <2>2. CASE m # n
    <3>1. /\ m \in nonces /\ m \in Nonce
          /\ current'[m] = current[m] /\ remaining'[m] = remaining[m]
      BY <2>2 DEF IInv, AddNonce, Fresh, TypeOK
    <3> QED  BY <3>1, <1>2 DEF IInv, Accounted
  <2> QED  BY <2>1, <2>2
<1>5. UsesBounded'
  BY <1>2 DEF IInv, UsesBounded
<1> QED  BY <1>1, <1>4, <1>5 DEF IInv

LEMMA RemoveInv ==
    ASSUME IInv, nonces' \subseteq nonces, UNCHANGED <<issued, current, remaining, req>>
    PROVE  IInv'
<1>1. TypeOK' /\ Known' /\ Missed'
  BY DEF IInv, TypeOK, Known, Missed
<1>2. \A m \in Nonce : Uses(m)' = Uses(m)
  BY DEF Uses, Counted
<1> QED  BY <1>1, <1>2 DEF IInv, Accounted, UsesBounded, TypeOK

LEMMA GotoInv ==
    ASSUME IInv, NEW r \in Request, NEW pc \in Pc, Goto(r, pc),
           UNCHANGED <<issued, nonces, current, remaining>>,
           pc \in {"owner", "granted", "lost"} <=> req[r] \in {"owner", "granted", "lost"},
           pc \notin {"look", "denied"} => Asks[r] \in issued /\ Demand[r] <= Level[Asks[r]],
           pc = "limited" /\ Limit[Asks[r]] = Unlimited => Asks[r] \notin nonces
    PROVE  IInv'
<1>1. /\ req'[r] = pc
      /\ \A q \in Request \ {r} : req'[q] = req[q]
  BY DEF Goto, IInv, TypeOK
<1>2. TypeOK'
  BY DEF IInv, TypeOK, Goto
<1>3. Known' /\ Missed'
  BY <1>1 DEF IInv, Known, Missed
<1>4. \A n \in Nonce : Uses(n)' = Uses(n)
  BY CountedSame DEF IInv
<1>5. Accounted' /\ UsesBounded'
  BY <1>4 DEF IInv, Accounted, UsesBounded, TypeOK
<1> QED  BY <1>2, <1>3, <1>5 DEF IInv

(* remaining_uses of a limited nonce does not reach the value that means    *)
(* "unlimited".                                                             *)
LEMMA NeverUnlimited ==
    ASSUME IInv, NEW n \in Nonce, MatchesUnlimited(n)
    PROVE  Limit[n] = Unlimited
<1>1. remaining[n] = Unlimited /\ current[n] = Cardinality(Uses(n)) /\ n \in nonces
  BY DEF MatchesUnlimited, IInv, Accounted
<1>2. Limit[n] # Unlimited => remaining[n] = Limit[n] - current[n]
  BY DEF MatchesUnlimited, IInv, Accounted
<1>3. Limit[n] # Unlimited => Limit[n] \in Nat /\ Cardinality(Uses(n)) <= Limit[n]
  BY NonceAssumption DEF NonceAssumption, IInv, UsesBounded
<1> QED  BY <1>1, <1>2, <1>3, UsesFinite DEF Unlimited

LEMMA RedeemUnlimitedInv ==
    ASSUME IInv, NEW r \in Request, RedeemUnlimited(r)
    PROVE  IInv'
<1> DEFINE n == Asks[r]
<1>0. n \in Nonce /\ req[r] = "unlimited"
  BY NonceAssumption DEF NonceAssumption, RedeemUnlimited
<1>1. CASE ~MatchesUnlimited(n)
  <2>1. Goto(r, "limited") /\ UNCHANGED <<issued, nonces, current, remaining>>
    BY <1>1 DEF RedeemUnlimited
  <2>2. n \in issued /\ Demand[r] <= Level[n]
    BY <1>0 DEF IInv, Known
  <2>3. Limit[n] = Unlimited => n \notin nonces
    BY <1>0, <1>1 DEF MatchesUnlimited, IInv, Accounted
  <2> QED  BY <1>0, <2>1, <2>2, <2>3, GotoInv DEF Pc
<1>2. CASE MatchesUnlimited(n)
  <2>1. /\ current' = [current EXCEPT ![n] = @ + 1] /\ Goto(r, "owner")
        /\ UNCHANGED <<issued, nonces, remaining>>
    BY <1>2 DEF RedeemUnlimited
  <2>2. /\ req'[r] = "owner"
        /\ \A q \in Request \ {r} : req'[q] = req[q]
    BY <2>1 DEF Goto, IInv, TypeOK
  <2>3. TypeOK'
    BY <1>0, <2>1 DEF IInv, TypeOK, Goto, Pc
  <2>4. Known' /\ Missed'
    BY <1>0, <2>1, <2>2 DEF IInv, Known, Missed
  <2>5. /\ Cardinality(Uses(n)') = Cardinality(Uses(n)) + 1
        /\ \A m \in Nonce \ {n} : Uses(m)' = Uses(m)
    BY <1>0, <2>1, CountedOnce DEF IInv
  <2>6. Limit[n] = Unlimited
    BY <1>0, <1>2, NeverUnlimited
  <2>7. UsesBounded'
    BY <2>5, <2>6 DEF IInv, UsesBounded
  <2>8. Accounted'
    <3> SUFFICES ASSUME NEW m \in nonces
                 PROVE  /\ current'[m] = Cardinality(Uses(m)')
                        /\ IF Limit[m] = Unlimited THEN remaining[m] = Unlimited
                           ELSE remaining[m] = Limit[m] - current'[m]
      BY <2>1 DEF Accounted
    <3>1. CASE m = n
      BY <3>1, <1>0, <2>1, <2>5, <2>6 DEF IInv, Accounted, TypeOK
    <3>2. CASE m # n
      <4>1. m \in Nonce /\ current'[m] = current[m]
        BY <3>2, <2>1 DEF IInv, TypeOK
      <4> QED  BY <4>1, <3>2, <2>5 DEF IInv, Accounted
    <3> QED  BY <3>1, <3>2
  <2> QED  BY <2>3, <2>4, <2>7, <2>8 DEF IInv
<1> QED  BY <1>1, <1>2

LEMMA RedeemLimitedInv ==
    ASSUME IInv, NEW r \in Request, RedeemLimited(r)
    PROVE  IInv'
<1> DEFINE n == Asks[r]
<1>0. n \in Nonce /\ req[r] = "limited"
  BY NonceAssumption DEF NonceAssumption, RedeemLimited
<1>1. CASE ~MatchesLimited(n)
  <2>1. Goto(r, "denied") /\ UNCHANGED <<issued, nonces, current, remaining>>
    BY <1>1 DEF RedeemLimited
  <2> QED  BY <1>0, <2>1, GotoInv DEF Pc
<1>2. CASE MatchesLimited(n)
  <2>1. /\ current' = [current EXCEPT ![n] = @ + 1]
        /\ remaining' = [remaining EXCEPT ![n] = @ - 1]
        /\ Goto(r, "owner")
        /\ UNCHANGED <<issued, nonces>>
        /\ n \in nonces /\ remaining[n] > 0
    BY <1>2 DEF RedeemLimited, MatchesLimited
  <2>2. /\ req'[r] = "owner"
        /\ \A q \in Request \ {r} : req'[q] = req[q]
    BY <2>1 DEF Goto, IInv, TypeOK
  <2>3. TypeOK'
    <3>1. remaining[n] - 1 \in {Unlimited} \cup Nat
      BY <1>0, <2>1 DEF IInv, TypeOK, Unlimited
    <3> QED  BY <1>0, <2>1, <3>1 DEF IInv, TypeOK, Goto, Pc
  <2>4. Known' /\ Missed'
    BY <1>0, <2>1, <2>2 DEF IInv, Known, Missed
  <2>5. /\ Cardinality(Uses(n)') = Cardinality(Uses(n)) + 1
        /\ \A m \in Nonce \ {n} : Uses(m)' = Uses(m)
    BY <1>0, <2>1, CountedOnce DEF IInv
  <2>6. /\ Limit[n] # Unlimited
        /\ current[n] = Cardinality(Uses(n))
        /\ remaining[n] = Limit[n] - current[n]
    BY <2>1 DEF IInv, Accounted, Unlimited
  <2>7. Cardinality(Uses(n)') <= Limit[n]
    <3>1. Limit[n] \in Nat
      BY <1>0, <2>6, NonceAssumption DEF NonceAssumption
    <3> QED  BY <2>1, <2>5, <2>6, <3>1, <1>0, UsesFinite
  <2>8. UsesBounded'
    BY <2>5, <2>7 DEF IInv, UsesBounded
  <2>9. Accounted'
    <3> SUFFICES ASSUME NEW m \in nonces
                 PROVE  /\ current'[m] = Cardinality(Uses(m)')
                        /\ IF Limit[m] = Unlimited THEN remaining'[m] = Unlimited
                           ELSE remaining'[m] = Limit[m] - current'[m]
      BY <2>1 DEF Accounted
    <3>1. CASE m = n
      <4>1. current'[n] = current[n] + 1 /\ remaining'[n] = remaining[n] - 1
        BY <1>0, <2>1 DEF IInv, TypeOK
      <4>2. Limit[n] \in Nat /\ current[n] \in Nat
        BY <1>0, <2>6, NonceAssumption DEF NonceAssumption, IInv, TypeOK
      <4> QED  BY <3>1, <4>1, <4>2, <2>5, <2>6
    <3>2. CASE m # n
      <4>1. m \in Nonce /\ current'[m] = current[m] /\ remaining'[m] = remaining[m]
        BY <3>2, <2>1 DEF IInv, TypeOK
      <4> QED  BY <4>1, <3>2, <2>5 DEF IInv, Accounted
    <3> QED  BY <3>1, <3>2
  <2> QED  BY <2>3, <2>4, <2>8, <2>9 DEF IInv
<1> QED  BY <1>1, <1>2

LEMMA NextInv == IInv /\ [Next]_vars => IInv'
<1> SUFFICES ASSUME IInv, [Next]_vars PROVE IInv'
  OBVIOUS
<1>1. CASE DeleteActor
  BY <1>1, RemoveInv DEF DeleteActor
<1>2. ASSUME NEW n \in Nonce, AddNonce(n) PROVE IInv'
  BY <1>2, AddNonceInv
<1>3. ASSUME NEW n \in Nonce, DeleteNonce(n) PROVE IInv'
  BY <1>3, RemoveInv DEF DeleteNonce
<1>4. ASSUME NEW r \in Request, Look(r) PROVE IInv'
  <2>1. Asks[r] \in nonces => Asks[r] \in issued
    BY DEF IInv, TypeOK
  <2>2. PICK pc \in {"unlimited", "denied"} :
           Goto(r, pc) /\ (pc = "unlimited" => Asks[r] \in nonces /\ Level[Asks[r]] >= Demand[r])
    BY <1>4 DEF Look
  <2>3. req[r] = "look" /\ UNCHANGED <<issued, nonces, current, remaining>>
    BY <1>4 DEF Look
  <2>4. Level[Asks[r]] >= Demand[r] => Demand[r] <= Level[Asks[r]]
    BY NonceAssumption DEF NonceAssumption
  <2> QED  BY <2>1, <2>2, <2>3, <2>4, GotoInv DEF Pc
<1>5. ASSUME NEW r \in Request, RedeemUnlimited(r) PROVE IInv'
  BY <1>5, RedeemUnlimitedInv
<1>6. ASSUME NEW r \in Request, RedeemLimited(r) PROVE IInv'
  BY <1>6, RedeemLimitedInv
<1>7. ASSUME NEW r \in Request, ReadOwner(r) PROVE IInv'
  <2>1. PICK pc \in {"granted", "lost"} : Goto(r, pc)
    BY <1>7 DEF ReadOwner
  <2>2. req[r] = "owner" /\ UNCHANGED <<issued, nonces, current, remaining>>
    BY <1>7 DEF ReadOwner
  <2>3. Asks[r] \in issued /\ Demand[r] <= Level[Asks[r]]
    BY <2>2 DEF IInv, Known
  <2> QED  BY <2>1, <2>2, <2>3, GotoInv DEF Pc
<1>8. CASE UNCHANGED vars
  BY <1>8, RemoveInv DEF vars
<1> QED  BY <1>1, <1>2, <1>3, <1>4, <1>5, <1>6, <1>7, <1>8 DEF Next, Redeem

LEMMA Invariance == Spec => []IInv
  BY InitInv, NextInv, PTL DEF Spec

(* Types, for every instance.                                               *)
THEOREM NonceTypes == Spec => []TypeOK
<1>1. IInv => TypeOK  BY DEF IInv
<1> QED  BY <1>1, Invariance, PTL

(* Whatever requests, creations and removals interleave, and whatever the   *)
(* limits are, no nonce is redeemed more often than its limit.              *)
THEOREM NeverOverused == Spec => []UsesBounded
<1>1. IInv => UsesBounded  BY DEF IInv
<1> QED  BY <1>1, Invariance, PTL

(* The counters of a nonce always say how often it was redeemed.            *)
THEOREM CountersAgree == Spec => []Accounted
<1>1. IInv => Accounted  BY DEF IInv
<1> QED  BY <1>1, Invariance, PTL

-----------------------------------------------------------------------------
(* The refinement.                                                          *)

LEMMA SeenGoto ==
    ASSUME TypeOK, NEW r \in Request, NEW pc, Goto(r, pc),
           UNCHANGED <<issued, nonces>>
    PROVE  /\ NonceState' = NonceState
           /\ pc \in {"unlimited", "limited", "owner"} /\ req[r] \in {"look", "unlimited", "limited"}
                => Answer' = Answer
           /\ pc = "granted" => Answer' = [Answer EXCEPT ![r] = "granted"]
           /\ pc \in {"denied", "lost"} => Answer' = [Answer EXCEPT ![r] = "denied"]
<1>1. /\ req'[r] = pc
      /\ \A q \in Request \ {r} : req'[q] = req[q]
  BY DEF Goto, TypeOK
<1> QED  BY <1>1 DEF NonceState, Answer

LEMMA RefineInit == Init => Budget!Init
<1>1. Init => Counted = {} /\ \A n \in Nonce : Uses(n) = {}
  BY DEF Init, Counted, Uses
<1> QED  BY <1>1, FS_EmptySet DEF Init, Budget!Init, NonceState, Answer, UseCount

LEMMA RefineRemove ==
    ASSUME IInv, NEW S \in SUBSET nonces, nonces' = nonces \ S,
           UNCHANGED <<issued, req>>
    PROVE  Budget!Revoke(S) /\ S \in SUBSET Nonce
<1>1. S \in SUBSET Nonce /\ nonces \subseteq issued
  BY DEF IInv, TypeOK
<1>2. \A n \in S : NonceState[n] = "valid"
  BY <1>1 DEF NonceState
<1>3. NonceState' = [n \in Nonce |-> IF n \in S THEN "revoked" ELSE NonceState[n]]
  BY <1>1 DEF NonceState
<1>4. UNCHANGED <<UseCount, Counted, Answer>>
  BY DEF UseCount, Uses, Counted, Answer
<1> QED  BY <1>1, <1>2, <1>3, <1>4 DEF Budget!Revoke

LEMMA RefineAdd ==
    ASSUME IInv, NEW n \in Nonce, AddNonce(n)
    PROVE  Budget!Issue(n)
<1>1. NonceState[n] = "new"
  BY DEF NonceState, AddNonce, Fresh, IInv, TypeOK
<1>2. NonceState' = [NonceState EXCEPT ![n] = "valid"]
  BY DEF NonceState, AddNonce, Fresh, IInv, TypeOK
<1>3. UNCHANGED <<UseCount, Counted, Answer>>
  BY DEF UseCount, Uses, Counted, Answer, AddNonce, Fresh
<1> QED  BY <1>1, <1>2, <1>3 DEF Budget!Issue

(* A request that is counted takes one use of a valid nonce.                *)
LEMMA RefineUse ==
    ASSUME IInv, NEW r \in Request, Goto(r, "owner"), UNCHANGED <<issued, nonces>>,
           req[r] \in {"unlimited", "limited"},
           Asks[r] \in nonces, ~Budget!Exhausted(Asks[r])
    PROVE  Budget!Use(r)
<1>1. Asks[r] \in Nonce
  BY NonceAssumption DEF NonceAssumption
<1>2. NonceState[Asks[r]] = "valid" /\ Answer[r] = "pending"
  BY <1>1 DEF NonceState, Answer
<1>3. /\ Counted' = Counted \cup {r} /\ r \notin Counted
      /\ UseCount' = [UseCount EXCEPT ![Asks[r]] = @ + 1]
  BY <1>1, CountedOnce DEF IInv, UseCount
<1>4. UNCHANGED <<NonceState, Answer>>
  BY SeenGoto DEF IInv
<1>5. Demand[r] <= Level[Asks[r]]
  BY DEF IInv, Known
<1> QED  BY <1>2, <1>3, <1>4, <1>5 DEF Budget!Use


(* A step between two accesses is no step of the abstract specification.    *)
LEMMA RefineStutter ==
    ASSUME IInv, NEW r \in Request, NEW pc \in {"unlimited", "limited"}, Goto(r, pc),
           req[r] \in {"look", "unlimited"}, UNCHANGED <<issued, nonces>>
    PROVE  UNCHANGED <<NonceState, UseCount, Counted, Answer>>
<1>1. UNCHANGED <<NonceState, Answer>>
  BY SeenGoto DEF IInv
<1> QED  BY <1>1, CountedSame DEF IInv

LEMMA RefineLook ==
    ASSUME IInv, NEW r \in Request, Look(r)
    PROVE  Budget!Deny(r) \/ UNCHANGED <<NonceState, UseCount, Counted, Answer>>
<1> DEFINE n == Asks[r]
<1>0. n \in Nonce /\ req[r] = "look" /\ UNCHANGED <<issued, nonces>>
  BY NonceAssumption DEF NonceAssumption, Look
<1>1. CASE n \in nonces /\ Level[n] >= Demand[r]
  BY <1>0, <1>1, RefineStutter DEF Look
<1>2. CASE ~(n \in nonces /\ Level[n] >= Demand[r])
  <2>1. Goto(r, "denied")
    BY <1>2 DEF Look
  <2>2. NonceState' = NonceState /\ Answer' = [Answer EXCEPT ![r] = "denied"]
    BY <1>0, <2>1, SeenGoto DEF IInv
  <2>3. Counted' = Counted /\ UseCount' = UseCount
    BY <1>0, <2>1, CountedSame DEF IInv
  <2>4. Answer[r] = "pending" /\ r \notin Counted
    BY <1>0 DEF Answer, Counted
  <2>5. n \notin nonces => NonceState[n] # "valid"
    BY <1>0 DEF NonceState
  <2>6. ~(Level[n] >= Demand[r]) => Demand[r] > Level[n]
    BY NonceAssumption DEF NonceAssumption
  <2> QED  BY <1>2, <2>2, <2>3, <2>4, <2>5, <2>6 DEF Budget!Deny, Budget!Tell
<1> QED  BY <1>1, <1>2

LEMMA RefineUnlimited ==
    ASSUME IInv, NEW r \in Request, RedeemUnlimited(r)
    PROVE  Budget!Use(r) \/ UNCHANGED <<NonceState, UseCount, Counted, Answer>>
<1> DEFINE n == Asks[r]
<1>0. n \in Nonce /\ req[r] = "unlimited" /\ UNCHANGED <<issued, nonces>>
  BY NonceAssumption DEF NonceAssumption, RedeemUnlimited
<1>1. CASE ~MatchesUnlimited(n)
  BY <1>0, <1>1, RefineStutter DEF RedeemUnlimited
<1>2. CASE MatchesUnlimited(n)
  <2>1. Limit[n] = Unlimited
    BY <1>0, <1>2, NeverUnlimited
  <2>2. ~Budget!Exhausted(n)
    BY <2>1 DEF Budget!Exhausted, Unlimited
  <2> QED  BY <1>0, <1>2, <2>2, RefineUse DEF RedeemUnlimited, MatchesUnlimited
<1> QED  BY <1>1, <1>2

LEMMA RefineLimited ==
    ASSUME IInv, NEW r \in Request, RedeemLimited(r)
    PROVE  Budget!Use(r) \/ Budget!Deny(r)
<1> DEFINE n == Asks[r]
<1>0. n \in Nonce /\ req[r] = "limited" /\ UNCHANGED <<issued, nonces>>
  BY NonceAssumption DEF NonceAssumption, RedeemLimited
<1>1. n \in nonces => /\ Limit[n] \in Nat
                      /\ Limit[n] # Unlimited
                      /\ remaining[n] = Limit[n] - Cardinality(Uses(n))
  <2>1. n \in nonces => Limit[n] # Unlimited
    BY <1>0 DEF IInv, Missed
  <2> QED  BY <2>1, <1>0, NonceAssumption DEF NonceAssumption, IInv, Accounted
<1>2. UseCount[n] = Cardinality(Uses(n))
  BY <1>0 DEF UseCount
<1>3. CASE MatchesLimited(n)
  <2>1. Cardinality(Uses(n)) \in Nat
    BY <1>0, UsesFinite
  <2>2. ~(Cardinality(Uses(n)) >= Limit[n])
    BY <1>1, <1>3, <2>1 DEF MatchesLimited
  <2>3. ~Budget!Exhausted(n)
    BY <1>2, <2>2 DEF Budget!Exhausted
  <2> QED  BY <1>0, <1>3, <2>3, RefineUse DEF RedeemLimited, MatchesLimited
<1>4. CASE ~MatchesLimited(n)
  <2>1. Goto(r, "denied")
    BY <1>4 DEF RedeemLimited
  <2>2. NonceState' = NonceState /\ Answer' = [Answer EXCEPT ![r] = "denied"]
    BY <1>0, <2>1, SeenGoto DEF IInv
  <2>3. Counted' = Counted /\ UseCount' = UseCount
    BY <1>0, <2>1, CountedSame DEF IInv
  <2>4. Answer[r] = "pending" /\ r \notin Counted
    BY <1>0 DEF Answer, Counted
  <2>5. n \notin nonces => NonceState[n] # "valid"
    BY <1>0 DEF NonceState
  <2>6. n \in nonces => Cardinality(Uses(n)) >= Limit[n]
    BY <1>0, <1>1, <1>4, UsesFinite DEF MatchesLimited
  <2>7. n \in nonces => Budget!Exhausted(n)
    BY <1>1, <1>2, <2>6 DEF Budget!Exhausted, Unlimited
  <2> QED  BY <2>2, <2>3, <2>4, <2>5, <2>7 DEF Budget!Deny, Budget!Tell
<1> QED  BY <1>3, <1>4

LEMMA RefineOwner ==
    ASSUME IInv, NEW r \in Request, ReadOwner(r)
    PROVE  Budget!Grant(r) \/ Budget!Deny(r)
<1> DEFINE n == Asks[r]
<1>0. n \in Nonce /\ req[r] = "owner" /\ UNCHANGED <<issued, nonces>>
  BY NonceAssumption DEF NonceAssumption, ReadOwner
<1>1. Answer[r] = "pending" /\ r \in Counted
  BY <1>0 DEF Answer, Counted
<1>2. NonceState[n] = "valid" <=> n \in nonces
  BY <1>0 DEF NonceState
<1>3. PICK pc \in {"granted", "lost"} : Goto(r, pc) /\ (pc = "granted" <=> n \in nonces)
  BY DEF ReadOwner
<1>4. UNCHANGED <<NonceState, UseCount, Counted>>
  BY <1>0, <1>3, SeenGoto, CountedSame DEF IInv
<1>5. CASE pc = "granted"
  <2>1. Answer' = [Answer EXCEPT ![r] = "granted"]
    BY <1>0, <1>3, <1>5, SeenGoto DEF IInv
  <2> QED  BY <1>1, <1>2, <1>3, <1>4, <1>5, <2>1 DEF Budget!Grant, Budget!Tell
<1>6. CASE pc = "lost"
  <2>1. Answer' = [Answer EXCEPT ![r] = "denied"]
    BY <1>0, <1>3, <1>6, SeenGoto DEF IInv
  <2> QED  BY <1>1, <1>2, <1>3, <1>4, <1>6, <2>1 DEF Budget!Deny, Budget!Tell
<1> QED  BY <1>5, <1>6

LEMMA RefineNext ==
    IInv /\ [Next]_vars => [Budget!Next]_<<NonceState, UseCount, Counted, Answer>>
<1> SUFFICES ASSUME IInv, [Next]_vars
             PROVE  Budget!Next \/ UNCHANGED <<NonceState, UseCount, Counted, Answer>>
  OBVIOUS
<1>1. CASE DeleteActor
  <2>1. nonces' = nonces \ nonces
    BY <1>1 DEF DeleteActor
  <2> QED  BY <1>1, <2>1, RefineRemove DEF DeleteActor, Budget!Next
<1>2. ASSUME NEW n \in Nonce, AddNonce(n) PROVE Budget!Next
  BY <1>2, RefineAdd DEF Budget!Next
<1>3. ASSUME NEW n \in Nonce, DeleteNonce(n) PROVE Budget!Next
  <2>1. {n} \in SUBSET nonces
    BY <1>3 DEF DeleteNonce
  <2> QED  BY <1>3, <2>1, RefineRemove DEF DeleteNonce, Budget!Next
<1>4. ASSUME NEW r \in Request, Redeem(r)
      PROVE  Budget!Next \/ UNCHANGED <<NonceState, UseCount, Counted, Answer>>
  BY <1>4, RefineLook, RefineUnlimited, RefineLimited, RefineOwner DEF Redeem, Budget!Next
<1>5. CASE UNCHANGED vars
  BY <1>5 DEF vars, NonceState, UseCount, Uses, Counted, Answer
<1> QED  BY <1>1, <1>2, <1>3, <1>4, <1>5 DEF Next

(* check_nonce() with its four accesses implements atomic redemption, for   *)
(* every number of requests, nonces, limits and levels.                     *)
THEOREM AtomicRedemption == Spec => ImplementsBudget
<1>1. Init => Budget!Init
  BY RefineInit
<1>2. IInv /\ [Next]_vars => [Budget!Next]_<<NonceState, UseCount, Counted, Answer>>
  BY RefineNext
<1> QED  BY <1>1, <1>2, Invariance, PTL DEF Spec, ImplementsBudget, Budget!Spec
=============================================================================
