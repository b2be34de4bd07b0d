--------------------------- MODULE ReportsProofs ---------------------------
(* Proofs about reports, for every set of actors and executions, whatever   *)
(* they cost and however often reports are made: the report on executions   *)
(* adds up, lists are cut short only by deletions, the counter covers what  *)
(* is reported, and searches ask for what their arguments spell.            *)
EXTENDS Reports, FiniteSetTheorems, TLAPS

-----------------------------------------------------------------------------
(* A family of subsets of a finite set has one that contains no other one.  *)
LEMMA MinimalSubset ==
    ASSUME NEW S, IsFiniteSet(S), NEW F, F \subseteq SUBSET S, F # {}
    PROVE  \E T \in F : \A U \in F : U \subseteq T => U = T
<1>1. FiniteSubsetsOf(S) = SUBSET S
  BY FS_FiniteSubsetsOfFinite
<1>2. IsWellFoundedOn(StrictSubsetOrdering(S), SUBSET S)
  BY <1>1, FS_StrictSubsetOrderingWellFounded
<1>3. PICK T \in F : \A U \in F : ~(<<U, T>> \in StrictSubsetOrdering(S))
  BY <1>2, WFMin
<1>4. ASSUME NEW U \in F, U \subseteq T PROVE U = T
  BY <1>3, <1>4 DEF StrictSubsetOrdering
<1> QED BY <1>4

-----------------------------------------------------------------------------
(* Sums.  A sum of numbers is how many units there are in all of them.      *)
Units(f, S) == UNION {{x} \X (1 .. f[x]) : x \in S}
Total(f, S) == Cardinality(Units(f, S))

Numbers(f, S) == IsFiniteSet(S) /\ \A x \in S : f[x] \in Nat

LEMMA InUnits ==
    \A f, S, u : u \in Units(f, S) <=> \E x \in S : \E i \in 1 .. f[x] : u = <<x, i>>
BY DEF Units

LEMMA TotalOfNone == \A f : Total(f, {}) = 0
BY FS_EmptySet DEF Total, Units

LEMMA RowSize ==
    ASSUME NEW x, NEW n \in Nat
    PROVE  IsFiniteSet({x} \X (1 .. n)) /\ Cardinality({x} \X (1 .. n)) = n
<1>1. 1 \in Int /\ n \in Int
  OBVIOUS
<1>2. IsFiniteSet(1 .. n) /\ Cardinality(1 .. n) = IF 1 > n THEN 0 ELSE n - 1 + 1
  BY <1>1, FS_Interval, Zenon
<1>3. IsFiniteSet({x}) /\ Cardinality({x}) = 1
  BY FS_Singleton
<1>4. IsFiniteSet({x} \X (1 .. n)) /\ Cardinality({x} \X (1 .. n)) = 1 * Cardinality(1 .. n)
  <2>1. \A S, T : IsFiniteSet(S) /\ IsFiniteSet(T) =>
           /\ IsFiniteSet(S \X T)
           /\ Cardinality(S \X T) = Cardinality(S) * Cardinality(T)
    BY FS_Product, Zenon
  <2> DEFINE I == 1 .. n
  <2>2. IsFiniteSet(I) /\ IsFiniteSet({x}) /\ Cardinality({x}) = 1
    BY <1>2, <1>3
  <2> HIDE DEF I
  <2>3. IsFiniteSet({x} \X I) /\ Cardinality({x} \X I) = Cardinality({x}) * Cardinality(I)
    BY <2>1, <2>2, Zenon
  <2> QED BY <2>2, <2>3 DEF I
<1> QED BY <1>2, <1>4

LEMMA UnitsFinite ==
    ASSUME NEW S, NEW f, Numbers(f, S)
    PROVE  IsFiniteSet(Units(f, S)) /\ Total(f, S) \in Nat
<1> DEFINE Row(x) == {x} \X (1 .. f[x])
           Rows == {Row(x) : x \in S}
<1>1. ASSUME NEW x \in S PROVE IsFiniteSet(Row(x))
  BY RowSize DEF Numbers
<1>2. IsFiniteSet(Rows)
  <2> DEFINE row == [x \in S |-> Row(x)]
  <2>1. row \in Surjection(S, Rows)
    BY DEF Surjection
  <2> HIDE DEF row, Rows
  <2> QED BY <2>1, FS_Surjection DEF Numbers
<1>3. IsFiniteSet(UNION Rows)
  <2> HIDE DEF Row
  <2>1. \A T \in Rows : IsFiniteSet(T)
    BY <1>1
  <2> HIDE DEF Rows
  <2> QED BY <1>2, <2>1, FS_UNION
<1>4. Units(f, S) = UNION Rows
  BY DEF Units
<1> QED BY <1>3, <1>4, FS_CardinalityType DEF Total

(* A number more.                                                           *)
LEMMA TotalAdd ==
    ASSUME NEW S, NEW f, Numbers(f, S), NEW x, x \notin S, f[x] \in Nat
    PROVE  Numbers(f, S \cup {x}) /\ Total(f, S \cup {x}) = Total(f, S) + f[x]
<1> DEFINE R == {x} \X (1 .. f[x])
<1>1. Units(f, S \cup {x}) = Units(f, S) \cup R
  BY DEF Units
<1>2. Units(f, S) \cap R = {}
  BY InUnits
<1>3. IsFiniteSet(R) /\ Cardinality(R) = f[x]
  BY RowSize
<1>4. Cardinality(Units(f, S) \cup R) = Cardinality(Units(f, S)) + Cardinality(R) - 0
  BY <1>2, <1>3, UnitsFinite, FS_Union, FS_EmptySet
<1>5. Numbers(f, S \cup {x})
  BY FS_AddElement DEF Numbers
<1>6. Cardinality(Units(f, S)) \in Nat
  BY UnitsFinite DEF Total
<1>7. Cardinality(Units(f, S) \cup R) = Cardinality(Units(f, S)) + f[x]
  BY <1>3, <1>4, <1>6, Z3
<1>8. Total(f, S \cup {x}) = Cardinality(Units(f, S) \cup R)
  BY <1>1 DEF Total
<1> QED BY <1>5, <1>7, <1>8 DEF Total

LEMMA TotalSame ==
    ASSUME NEW S, NEW f, NEW g, \A x \in S : f[x] = g[x]
    PROVE  Total(f, S) = Total(g, S)
BY DEF Total, Units

(* Whatever adds up the numbers one by one ends with the total: of the sets *)
(* for which it does not, one would be smallest.                            *)
LEMMA FoldIsTotal ==
    ASSUME NEW S, NEW f, Numbers(f, S), NEW W, W[{}] = 0,
           \A s \in SUBSET S : s # {} =>
              \E x \in s : W[s \ {x}] \in Nat => W[s] = f[x] + W[s \ {x}]
    PROVE  W[S] = Total(f, S)
<1> DEFINE F == {s \in SUBSET S : W[s] # Total(f, s)}
<1>1. SUFFICES ASSUME F # {} PROVE FALSE
  OBVIOUS
<1>2. PICK T \in F : \A U \in F : U \subseteq T => U = T
  <2>1. F \subseteq SUBSET S
    OBVIOUS
  <2> HIDE DEF F
  <2> QED BY <1>1, <2>1, MinimalSubset DEF Numbers
<1>3. T \in SUBSET S /\ T # {}
  BY TotalOfNone
<1>4. PICK x \in T : W[T \ {x}] \in Nat => W[T] = f[x] + W[T \ {x}]
  BY <1>3
<1> DEFINE R == T \ {x}
<1>5. Numbers(f, R) /\ f[x] \in Nat /\ x \notin R /\ R \cup {x} = T
  BY <1>3, FS_Subset DEF Numbers
<1>6. W[R] = Total(f, R) /\ W[R] \in Nat
  <2>1. W[R] = Total(f, R)
    BY <1>2, <1>3
  <2> QED BY <2>1, <1>5, UnitsFinite
<1>7. Total(f, T) = Total(f, R) + f[x]
  BY <1>5, TotalAdd
<1>8. W[T] = f[x] + Total(f, R) /\ Total(f, R) \in Nat
  BY <1>4, <1>6
<1> QED BY <1>5, <1>7, <1>8

Pick(s) == CHOOSE x \in s : TRUE

(* The sums that the properties are stated with.                            *)
LEMMA CostSumIsTotal ==
    ASSUME NEW S, Numbers(report.cost, S)
    PROVE  CostSum(S) = Total(report.cost, S)
<1> DEFINE f == report.cost
           Body(W) == [s \in SUBSET S |-> IF s = {} THEN 0
                                          ELSE f[Pick(s)] + W[s \ {Pick(s)}]]
           W == CHOOSE W : W = Body(W)
<1>1. CostSum(S) = W[S]
  BY DEF CostSum, MapThenSumSet, MapThenFoldSet, Pick
<1>2. W = Body(W)
  <2> DEFINE V == [s \in SUBSET S |-> Total(f, s)]
  <2>1. ASSUME NEW s \in SUBSET S, s # {}
        PROVE  Total(f, s) = f[Pick(s)] + Total(f, s \ {Pick(s)})
    <3>1. Pick(s) \in s
      BY <2>1 DEF Pick
    <3> DEFINE x == Pick(s)
               R == s \ {x}
    <3>2. Numbers(f, R) /\ f[x] \in Nat /\ x \notin R /\ R \cup {x} = s
      BY <3>1, FS_Subset DEF Numbers
    <3>3. Total(f, s) = Total(f, R) + f[x] /\ Total(f, R) \in Nat
      BY <3>2, TotalAdd, UnitsFinite
    <3> QED BY <3>2, <3>3
  <2>2. V = Body(V)
    BY <2>1, TotalOfNone
  <2> QED BY <2>2
<1> HIDE DEF W
<1>3. W[{}] = 0
  BY <1>2
<1>4. ASSUME NEW s \in SUBSET S, s # {}
      PROVE  Pick(s) \in s /\ W[s] = f[Pick(s)] + W[s \ {Pick(s)}]
  <2>1. Body(W)[s] = f[Pick(s)] + W[s \ {Pick(s)}]
    BY <1>4
  <2> HIDE DEF Body
  <2> QED BY <1>2, <1>4, <2>1 DEF Pick
<1>5. \A s \in SUBSET S : s # {} =>
         \E x \in s : W[s \ {x}] \in Nat => W[s] = f[x] + W[s \ {x}]
  BY <1>4
<1> QED BY <1>1, <1>3, <1>5, FoldIsTotal

Counts(field) == [a \in DOMAIN report.stats |-> report.stats[a][field]]

LEMMA SumOfIsTotal ==
    ASSUME NEW field, Numbers(Counts(field), DOMAIN report.stats)
    PROVE  SumOf(field) = Total(Counts(field), DOMAIN report.stats)
<1> DEFINE f == Counts(field)
           S == DOMAIN report.stats
           Body(W) == [s \in SUBSET S |-> IF s = {} THEN 0
                                          ELSE W[s \ {Pick(s)}] + report.stats[Pick(s)][field]]
           W == CHOOSE W : W = Body(W)
<1>1. SumOf(field) = W[S]
  BY DEF SumOf, FoldFunction, FoldFunctionOnSet, MapThenFoldSet, Pick
<1> HIDE DEF f
<1>2. W = Body(W)
  <2> DEFINE V == [s \in SUBSET S |-> Total(f, s)]
  <2>1. ASSUME NEW s \in SUBSET S, s # {}
        PROVE  Total(f, s) = Total(f, s \ {Pick(s)}) + report.stats[Pick(s)][field]
    <3>1. Pick(s) \in s
      BY <2>1 DEF Pick
    <3> DEFINE x == Pick(s)
               R == s \ {x}
    <3>2. Numbers(f, R) /\ f[x] \in Nat /\ x \notin R /\ R \cup {x} = s
      BY <3>1, FS_Subset DEF Numbers, f
    <3>3. Total(f, s) = Total(f, R) + f[x] /\ Total(f, R) \in Nat
      BY <3>2, TotalAdd, UnitsFinite
    <3>4. f[x] = report.stats[x][field]
      BY <3>1 DEF f, Counts
    <3> QED BY <3>2, <3>3, <3>4
  <2>2. V = Body(V)
    BY <2>1, TotalOfNone
  <2> QED BY <2>2
<1> HIDE DEF W
<1>3. W[{}] = 0
  BY <1>2
<1>4. ASSUME NEW s \in SUBSET S, s # {}
      PROVE  Pick(s) \in s /\ W[s] = W[s \ {Pick(s)}] + f[Pick(s)]
  <2>1. Body(W)[s] = W[s \ {Pick(s)}] + report.stats[Pick(s)][field]
    BY <1>4
  <2>2. Pick(s) \in s
    BY <1>4 DEF Pick
  <2>3. f[Pick(s)] = report.stats[Pick(s)][field]
    BY <2>2 DEF f, Counts
  <2> HIDE DEF Body
  <2> QED BY <1>2, <2>1, <2>2, <2>3
<1>5. \A s \in SUBSET S : s # {} =>
         \E x \in s : W[s \ {x}] \in Nat => W[s] = f[x] + W[s \ {x}]
  <2>1. \A x \in S : f[x] \in Nat
    BY DEF Numbers, f
  <2>2. ASSUME NEW s \in SUBSET S, s # {}, W[s \ {Pick(s)}] \in Nat
        PROVE  W[s] = f[Pick(s)] + W[s \ {Pick(s)}]
    <3>1. f[Pick(s)] \in Nat /\ W[s] = W[s \ {Pick(s)}] + f[Pick(s)]
      BY <1>4, <2>1, <2>2
    <3> QED BY <2>2, <3>1
  <2> QED BY <1>4, <2>2
<1> QED BY <1>1, <1>3, <1>5, FoldIsTotal DEF f

-----------------------------------------------------------------------------
(* The invariant.                                                           *)

ExecRecord == [pc : {"none", "adding", "saved", "complete", "final"},
               actor : Actor \cup {NoActor}, cost : Nat]
ExecFields == {"kind", "pc", "todo", "cost", "stats", "gone", "with", "all", "allCost",
               "existing", "existingCost", "actorsAll", "actorsExisting"}
WalkFields == {"kind", "pc", "all", "todo", "stats", "crossed", "actor", "at", "sum"}
Walks == {"actors", "summary", "mine"}

(* The counter and those that have not come to it are all that were posted. *)
RegistryFits ==
    /\ posted \subseteq Actor /\ IsFiniteSet(posted)
    /\ actors \subseteq posted /\ putting \subseteq posted /\ uncounted \subseteq posted
    /\ actorTotal \in Nat
    /\ Cardinality(posted) = actorTotal + Cardinality(uncounted)

ExecsFit ==
    /\ execs \in [Execution -> ExecRecord]
    /\ IsFiniteSet(Saved)
    /\ \A e \in Execution : execs[e].pc # "none" => execs[e].actor \in posted

Mine(a) == {e \in Visited : execs[e].actor = a}

(* The report on executions adds up, and knows the actor of each execution  *)
(* that it has visited.                                                     *)
ExecutionsFit ==
    /\ DOMAIN report = ExecFields
    /\ DOMAIN report.cost \subseteq Saved /\ report.todo \subseteq DOMAIN report.cost
    /\ \A e \in DOMAIN report.cost : report.cost[e] \in Nat
    /\ report.gone \subseteq posted /\ DOMAIN report.stats \subseteq posted
    /\ DOMAIN report.stats \cap report.gone = {}
    /\ \A e \in Visited : Known(execs[e].actor)
    /\ report.all = Cardinality(Visited) /\ report.allCost = Total(report.cost, Visited)
    /\ report.existing = Total(Counts("executions"), DOMAIN report.stats)
    /\ report.existingCost = Total(Counts("cost"), DOMAIN report.stats)
    /\ report.with = Cardinality(DOMAIN report.stats \cup report.gone)
    /\ \A a \in DOMAIN report.stats :
          report.stats[a] = [executions |-> Cardinality(Mine(a)),
                             cost |-> Total(report.cost, Mine(a))]

(* What a summary tells is no more than there is, and its list, which is    *)
(* never counted after the executions, no more than those.                  *)
Sound(list, executions, a) ==
    /\ list \in Nat /\ executions \in Nat
    /\ list <= executions /\ executions <= Cardinality(SavedOf(a))

(* Nobody that is still to be visited is gone, unless that was noticed.     *)
WalkFits ==
    /\ DOMAIN report = WalkFields
    /\ report.pc \in {"walk", "done"}
    /\ report.todo \subseteq report.all
    /\ DOMAIN report.stats = report.all \ report.todo
    /\ report.pc = "done" => report.todo = {} \/ report.crossed
    /\ report.crossed \in BOOLEAN
    /\ report.pc = "walk" /\ ~report.crossed =>
          report.todo \subseteq IF report.kind = "mine" THEN permitted ELSE actors
    /\ report.at \in 0 .. 3
    /\ report.at > 1 => /\ report.sum.list \in Nat
                        /\ report.sum.list <= Cardinality(SavedOf(report.actor))
    /\ report.at > 2 => Sound(report.sum.list, report.sum.executions, report.actor)
    /\ \A a \in DOMAIN report.stats :
          Sound(report.stats[a].list, report.stats[a].executions, a)

UtilizationFits ==
    /\ DOMAIN report = {"kind", "pc", "current", "total"}
    /\ report.current \in Nat /\ report.current <= Cardinality(posted)

ReportFits ==
    /\ report.kind = "executions" => ExecutionsFit
    /\ report.kind \in Walks => WalkFits
    /\ report.kind = "utilization" => UtilizationFits

IInv == RegistryFits /\ ExecsFit /\ ReportFits

-----------------------------------------------------------------------------
LEMMA SavedFinite ==
    ASSUME ExecsFit, NEW a
    PROVE  IsFiniteSet(SavedOf(a)) /\ Cardinality(SavedOf(a)) \in Nat
<1>1. SavedOf(a) \subseteq Saved
  BY DEF SavedOf
<1> QED BY <1>1, FS_Subset, FS_CardinalityType DEF ExecsFit

(* Nothing in a report but NoReport stands for anything.                    *)
LEMMA NothingFits == ASSUME report' = NoReport PROVE ReportFits'
BY DEF NoReport, ReportFits, Walks

LEMMA InitFits == Init => IInv
<1> SUFFICES ASSUME Init PROVE IInv
  OBVIOUS
<1>1. Saved = {}
  BY DEF Init, Saved, NoExec
<1>2. ExecsFit
  BY <1>1, FS_EmptySet DEF Init, ExecsFit, NoExec, ExecRecord
<1>3. RegistryFits
  BY FS_EmptySet DEF Init, RegistryFits
<1>4. ReportFits
  BY DEF Init, NoReport, ReportFits, Walks
<1> QED BY <1>2, <1>3, <1>4 DEF IInv

-----------------------------------------------------------------------------
(* Handlers and workers: executions and ids only come.                      *)

Grown == /\ posted \subseteq posted' /\ Saved \subseteq Saved'
         /\ \A e \in Saved : execs'[e].actor = execs[e].actor

LEMMA MoreSaved ==
    ASSUME IInv, ExecsFit', Grown, NEW a
    PROVE  Cardinality(SavedOf(a)) <= Cardinality(SavedOf(a)')
<1>1. SavedOf(a) \subseteq SavedOf(a)'
  BY DEF SavedOf, Grown
<1>2. IsFiniteSet(SavedOf(a)')
  <2>1. SavedOf(a)' \subseteq Saved' /\ IsFiniteSet(Saved')
    BY DEF SavedOf, ExecsFit
  <2> QED BY <2>1, FS_Subset
<1> QED BY <1>1, <1>2, FS_Subset

LEMMA StaysSound ==
    ASSUME IInv, ExecsFit', Grown, NEW list, NEW executions, NEW a, Sound(list, executions, a)
    PROVE  Sound(list, executions, a)'
<1>1. Cardinality(SavedOf(a)) <= Cardinality(SavedOf(a)')
  BY MoreSaved
<1>2. Cardinality(SavedOf(a)) \in Nat
  BY SavedFinite DEF IInv
<1>3. Cardinality(SavedOf(a)') \in Nat
  <2>1. SavedOf(a)' \subseteq Saved' /\ IsFiniteSet(Saved')
    BY DEF SavedOf, ExecsFit
  <2> QED BY <2>1, FS_Subset, FS_CardinalityType
<1> QED BY <1>1, <1>2, <1>3 DEF Sound

(* A report that is not touched stays what it is while more is posted and   *)
(* saved, ...                                                               *)
LEMMA ExecutionsStay ==
    ASSUME IInv, RegistryFits', ExecsFit', Grown, report' = report,
           report.kind = "executions"
    PROVE  ExecutionsFit'
<1>1. ExecutionsFit
  BY DEF IInv, ReportFits
<1>2. /\ Visited' = Visited /\ Visited \subseteq Saved
      /\ \A a : Known(a)' <=> Known(a)
      /\ \A f : Counts(f)' = Counts(f)
  BY <1>1 DEF Visited, Known, Counts, ExecutionsFit
<1>3. \A e \in Visited : execs'[e].actor = execs[e].actor
  BY <1>2 DEF Grown
<1>4. \A a : Mine(a)' = Mine(a)
  BY <1>2, <1>3 DEF Mine
<1>5. (\A e \in Visited : Known(execs[e].actor))'
  BY <1>1, <1>2, <1>3 DEF ExecutionsFit, Known
<1>6. \A f, S : Total(f, S)' = Total(f, S)
  OBVIOUS
<1> QED BY <1>1, <1>2, <1>4, <1>5, <1>6 DEF ExecutionsFit, Grown

(* ... and so does a walk none of whose actors is deleted.                  *)
LEMMA WalkStays ==
    ASSUME IInv, ExecsFit', Grown, report' = report, report.kind \in Walks,
           \/ actors \subseteq actors' /\ permitted \subseteq permitted'
           \/ \E a : /\ actors \ {a} \subseteq actors' /\ permitted \ {a} \subseteq permitted'
                     /\ ~(report.pc = "walk" /\ a \in report.todo)
    PROVE  WalkFits'
<1>1. WalkFits
  BY DEF IInv, ReportFits
<1>2. \A a \in DOMAIN report.stats :
         Sound(report.stats[a].list, report.stats[a].executions, a)'
  BY <1>1, StaysSound DEF WalkFits
<1>3. report.at > 2 => Sound(report.sum.list, report.sum.executions, report.actor)'
  BY <1>1, StaysSound DEF WalkFits
<1>4. report.at > 1 => /\ report.sum.list \in Nat
                       /\ report.sum.list <= Cardinality(SavedOf(report.actor)')
  <2> SUFFICES ASSUME report.at > 1 PROVE Sound(report.sum.list, report.sum.list, report.actor)'
    BY DEF Sound
  <2>1. Sound(report.sum.list, report.sum.list, report.actor)
    BY <1>1 DEF WalkFits, Sound
  <2> QED BY <2>1, StaysSound
<1>5. report.pc = "walk" /\ ~report.crossed =>
          report.todo \subseteq IF report.kind = "mine" THEN permitted' ELSE actors'
  BY <1>1 DEF WalkFits
<1> QED BY <1>1, <1>2, <1>3, <1>4, <1>5 DEF WalkFits

LEMMA UtilizationStays ==
    ASSUME IInv, RegistryFits', Grown, report' = report, report.kind = "utilization"
    PROVE  UtilizationFits'
<1>1. UtilizationFits
  BY DEF IInv, ReportFits
<1>2. /\ Cardinality(posted) <= Cardinality(posted')
      /\ Cardinality(posted) \in Nat /\ Cardinality(posted') \in Nat
  BY FS_Subset, FS_CardinalityType DEF IInv, RegistryFits, Grown
<1> QED BY <1>1, <1>2 DEF UtilizationFits

LEMMA PostActorFits ==
    ASSUME IInv, NEW a \in Actor, PostActor(a)
    PROVE  IInv'
<1>1. /\ a \notin posted /\ a \notin uncounted
      /\ posted' = posted \cup {a} /\ actors' = actors \cup {a}
      /\ uncounted' = uncounted \cup {a}
      /\ UNCHANGED <<actorTotal, permitted, putting, execs, report>>
  BY DEF PostActor, Generated, IInv, RegistryFits
<1>2. RegistryFits'
  <2>1. IsFiniteSet(uncounted)
    BY FS_Subset DEF IInv, RegistryFits
  <2>2. /\ IsFiniteSet(posted') /\ Cardinality(posted') = Cardinality(posted) + 1
        /\ Cardinality(uncounted') = Cardinality(uncounted) + 1
        /\ Cardinality(posted) \in Nat /\ Cardinality(uncounted) \in Nat
    BY <1>1, <2>1, FS_AddElement, FS_CardinalityType DEF IInv, RegistryFits
  <2> QED BY <1>1, <2>2 DEF IInv, RegistryFits
<1>3. Saved' = Saved
  BY <1>1 DEF Saved
<1>4. ExecsFit' /\ Grown
  BY <1>1, <1>3 DEF IInv, ExecsFit, Grown
<1> QED BY <1>1, <1>2, <1>4, ExecutionsStay, WalkStays, UtilizationStays DEF IInv, ReportFits

LEMMA RegistryStepFits ==
    ASSUME IInv, NEW a \in Actor, CountActor(a) \/ PutActor(a) \/ SaveActor(a)
    PROVE  IInv'
<1>1. /\ UNCHANGED <<posted, execs, report>>
      /\ actors \subseteq actors' /\ permitted \subseteq permitted'
  BY DEF CountActor, PutActor, SaveActor
<1>2. RegistryFits'
  <2>1. IsFiniteSet(uncounted) /\ Cardinality(uncounted) \in Nat
    BY FS_Subset, FS_CardinalityType DEF IInv, RegistryFits
  <2>2. CASE CountActor(a)
    <3>1. /\ a \in uncounted /\ uncounted' = uncounted \ {a} /\ actorTotal' = actorTotal + 1
          /\ UNCHANGED <<actors, posted, putting>>
      BY <2>2 DEF CountActor
    <3>2. Cardinality(uncounted') = Cardinality(uncounted) - 1
      BY <2>1, <3>1, FS_RemoveElement
    <3> QED BY <2>1, <3>1, <3>2 DEF IInv, RegistryFits
  <2>3. CASE PutActor(a)
    BY <2>3 DEF PutActor, IInv, RegistryFits
  <2>4. CASE SaveActor(a)
    BY <2>4 DEF SaveActor, IInv, RegistryFits
  <2> QED BY <2>2, <2>3, <2>4
<1>3. Saved' = Saved
  BY <1>1 DEF Saved
<1>4. ExecsFit' /\ Grown
  BY <1>1, <1>3 DEF IInv, ExecsFit, Grown
<1> QED BY <1>1, <1>2, <1>4, ExecutionsStay, WalkStays, UtilizationStays DEF IInv, ReportFits

LEMMA DeleteActorFits ==
    ASSUME IInv, NEW a \in Actor, DeleteActor(a)
    PROVE  IInv'
<1>1. /\ actors' = actors \ {a} /\ permitted' = permitted \ {a} /\ report' = Crossed(a)
      /\ UNCHANGED <<posted, uncounted, actorTotal, putting, execs>>
  BY DEF DeleteActor
<1>2. RegistryFits'
  BY <1>1 DEF IInv, RegistryFits
<1>3. Saved' = Saved
  BY <1>1 DEF Saved
<1>4. ExecsFit' /\ Grown
  BY <1>1, <1>3 DEF IInv, ExecsFit, Grown
<1>5. CASE report.kind \in Walks /\ report.pc = "walk" /\ a \in report.todo
  <2>1. report' = [report EXCEPT !.crossed = TRUE]
    BY <1>1, <1>5 DEF Crossed, Walks
  <2>2. WalkFits
    BY <1>5 DEF IInv, ReportFits
  <2>3. /\ DOMAIN report' = WalkFields /\ report'.kind = report.kind /\ report'.pc = report.pc
        /\ report'.todo = report.todo /\ report'.all = report.all
        /\ report'.stats = report.stats /\ report'.crossed /\ report'.at = report.at
        /\ report'.actor = report.actor /\ report'.sum = report.sum
        /\ report'.crossed \in BOOLEAN
    BY <2>1, <2>2 DEF WalkFits, WalkFields
  <2>4. \A b : SavedOf(b)' = SavedOf(b)
    BY <1>1, <1>3 DEF SavedOf
  <2>5. WalkFits'
    BY <1>5, <2>2, <2>3, <2>4 DEF WalkFits, Sound
  <2> QED BY <1>2, <1>4, <1>5, <2>3, <2>5 DEF IInv, ReportFits, Walks
<1>6. CASE ~(report.kind \in Walks /\ report.pc = "walk" /\ a \in report.todo)
  <2>1. report' = report
    BY <1>1, <1>6 DEF Crossed, Walks
  <2> QED BY <1>1, <1>2, <1>4, <1>6, <2>1, ExecutionsStay, WalkStays, UtilizationStays
          DEF IInv, ReportFits
<1> QED BY <1>5, <1>6

LEMMA ExecStepFits ==
    ASSUME IInv, NEW e \in Execution,
           \/ \E a \in Actor : ReadActor(e, a)
           \/ SaveExecution(e) \/ FinalizeStatus(e)
           \/ \E c \in Cost : FinalizeCost(e, c)
    PROVE  IInv'
<1>1. UNCHANGED <<actors, posted, uncounted, actorTotal, permitted, putting, report>>
  BY DEF ReadActor, SaveExecution, FinalizeStatus, FinalizeCost, registry
<1>2. /\ execs' \in [Execution -> ExecRecord]
      /\ \A d \in Execution \ {e} : execs'[d] = execs[d]
      /\ execs'[e].pc # "none" => execs'[e].actor \in posted
      /\ e \in Saved => /\ execs'[e].actor = execs[e].actor
                        /\ execs'[e].pc \in {"saved", "complete", "final"}
  <2>0. execs[e] \in ExecRecord
    BY DEF IInv, ExecsFit
  <2>1. ASSUME NEW a \in Actor, ReadActor(e, a) PROVE <1>2!1 /\ <1>2!2 /\ <1>2!3 /\ <1>2!4
    <3> DEFINE new == [NoExec EXCEPT !.pc = "adding", !.actor = a]
    <3>1. NoExec \in ExecRecord
      BY DEF NoExec, ExecRecord
    <3>2. new \in ExecRecord /\ new.pc = "adding" /\ new.actor = a
      BY <3>1 DEF ExecRecord
    <3>3. /\ execs[e].pc = "none" /\ a \in actors
          /\ execs' = [execs EXCEPT ![e] = new]
      BY <2>1 DEF ReadActor
    <3>4. e \notin Saved
      BY <3>3 DEF Saved
    <3> HIDE DEF new
    <3> QED BY <3>2, <3>3, <3>4 DEF IInv, ExecsFit, RegistryFits
  <2>2. CASE SaveExecution(e) \/ FinalizeStatus(e)
    <3>1. PICK pc \in {"saved", "complete"} : execs' = [execs EXCEPT ![e].pc = pc]
      BY <2>2 DEF SaveExecution, FinalizeStatus
    <3>2. execs[e].pc # "none"
      BY <2>2 DEF SaveExecution, FinalizeStatus
    <3>3. [execs[e] EXCEPT !.pc = pc] = [pc |-> pc, actor |-> execs[e].actor,
                                         cost |-> execs[e].cost]
      BY <2>0 DEF ExecRecord
    <3>4. execs' = [execs EXCEPT ![e] = [pc |-> pc, actor |-> execs[e].actor,
                                         cost |-> execs[e].cost]]
      BY <3>1, <3>3
    <3> QED BY <2>0, <3>2, <3>4 DEF IInv, ExecsFit, ExecRecord
  <2>3. ASSUME NEW c \in Cost, FinalizeCost(e, c) PROVE <1>2!1 /\ <1>2!2 /\ <1>2!3 /\ <1>2!4
    <3>1. /\ execs[e].pc = "complete"
          /\ execs' = [execs EXCEPT ![e].pc = "final", ![e].cost = c]
      BY <2>3 DEF FinalizeCost
    <3>2. execs' \in [Execution -> ExecRecord] /\ \A d \in Execution \ {e} : execs'[d] = execs[d]
      BY <3>1, ReportsAssumption DEF IInv, ExecsFit, ExecRecord
    <3>3. execs'[e].pc = "final" /\ execs'[e].actor = execs[e].actor
      BY <2>0, <3>1 DEF IInv, ExecsFit, ExecRecord
    <3> QED BY <3>1, <3>2, <3>3 DEF IInv, ExecsFit
  <2> QED BY <2>1, <2>2, <2>3
<1>3. Saved \subseteq Saved' /\ Saved' \subseteq Saved \cup {e}
  BY <1>2 DEF Saved
<1>4. IsFiniteSet(Saved')
  <2>1. IsFiniteSet(Saved \cup {e})
    BY FS_AddElement DEF IInv, ExecsFit
  <2> QED BY <1>3, <2>1, FS_Subset
<1>5. ExecsFit'
  BY <1>1, <1>2, <1>4 DEF IInv, ExecsFit
<1>6. Grown
  <2>1. \A d \in Saved : execs'[d].actor = execs[d].actor
    BY <1>2 DEF Saved
  <2> QED BY <1>1, <1>3, <2>1 DEF Grown
<1>7. RegistryFits'
  BY <1>1 DEF IInv, RegistryFits
<1> QED BY <1>1, <1>5, <1>6, <1>7, ExecutionsStay, WalkStays, UtilizationStays DEF IInv, ReportFits

-----------------------------------------------------------------------------
(* The report on executions.                                                *)

(* Reports that are made change nothing else.                               *)
LEMMA OnlyReport ==
    ASSUME IInv, UNCHANGED <<registry, execs>>
    PROVE  RegistryFits' /\ ExecsFit' /\ UNCHANGED <<actors, posted, permitted, execs>>
           /\ Saved' = Saved /\ \A a : SavedOf(a)' = SavedOf(a)
<1>1. UNCHANGED <<actors, posted, uncounted, actorTotal, permitted, putting, execs>>
  BY DEF registry
<1>2. Saved' = Saved /\ \A a : SavedOf(a)' = SavedOf(a)
  BY <1>1 DEF Saved, SavedOf
<1> QED BY <1>1, <1>2 DEF IInv, RegistryFits, ExecsFit

LEMMA ReportExecutionsFits ==
    ASSUME IInv, ReportExecutions
    PROVE  IInv'
<1>1. UNCHANGED <<registry, execs>>
  BY DEF ReportExecutions
<1>2. /\ report'.kind = "executions" /\ DOMAIN report' = ExecFields
      /\ report'.todo = Saved /\ report'.cost = [e \in Saved |-> execs[e].cost]
      /\ report'.stats = <<>> /\ report'.gone = {} /\ report'.with = 0
      /\ report'.all = 0 /\ report'.allCost = 0
      /\ report'.existing = 0 /\ report'.existingCost = 0
  BY DEF ReportExecutions, ExecFields
<1>3. DOMAIN report'.stats = {}
  BY <1>2
<1>4. DOMAIN report'.cost = Saved /\ \A e \in Saved : report'.cost[e] \in Nat
  BY <1>2 DEF IInv, ExecsFit, ExecRecord, Saved
<1>5. Visited' = {}
  BY <1>2, <1>4 DEF Visited
<1>6. ExecutionsFit'
  BY <1>1, <1>2, <1>3, <1>4, <1>5, OnlyReport, TotalOfNone, FS_EmptySet DEF ExecutionsFit
<1> QED BY <1>1, <1>2, <1>6, OnlyReport DEF IInv, ReportFits, Walks

(* One of the numbers goes up, or is a new one.                             *)
LEMMA TotalRaised ==
    ASSUME NEW D, NEW f, NEW g, NEW a, NEW n \in Nat, Numbers(f, D),
           \A x \in D \ {a} : g[x] = f[x],
           g[a] = (IF a \in D THEN f[a] ELSE 0) + n
    PROVE  Total(g, D \cup {a}) = Total(f, D) + n
<1> DEFINE R == D \ {a}
<1>1. Numbers(f, R) /\ Numbers(g, R) /\ g[a] \in Nat
  BY FS_Subset DEF Numbers
<1>2. Total(g, R) = Total(f, R) /\ Total(f, R) \in Nat
  BY <1>1, TotalSame, UnitsFinite
<1>3. Total(g, D \cup {a}) = Total(f, R) + g[a]
  <2>1. R \cup {a} = D \cup {a} /\ a \notin R
    OBVIOUS
  <2>2. Total(g, R \cup {a}) = Total(g, R) + g[a]
    <3> HIDE DEF R
    <3> QED BY <1>1, <2>1, TotalAdd
  <2> QED BY <1>2, <2>1, <2>2
<1>4. CASE a \in D
  <2>1. R \cup {a} = D /\ a \notin R /\ f[a] \in Nat
    BY <1>4 DEF Numbers
  <2>2. Total(f, R \cup {a}) = Total(f, R) + f[a]
    <3> HIDE DEF R
    <3> QED BY <1>1, <2>1, TotalAdd
  <2>3. g[a] = f[a] + n /\ Total(f, D) = Total(f, R) + f[a]
    BY <1>4, <2>1, <2>2
  <2> HIDE DEF R
  <2> QED BY <1>2, <1>3, <2>1, <2>3
<1>5. CASE a \notin D
  <2>1. R = D /\ g[a] = n
    BY <1>5
  <2> QED BY <1>2, <1>3, <2>1
<1> QED BY <1>4, <1>5

LEMMA VisitedFinite ==
    ASSUME ExecsFit, ExecutionsFit
    PROVE  /\ Numbers(report.cost, Visited)
           /\ \A a : /\ Numbers(report.cost, Mine(a))
                     /\ Cardinality(Mine(a)) \in Nat /\ Total(report.cost, Mine(a)) \in Nat
<1>1. Visited \subseteq Saved /\ \A a : Mine(a) \subseteq Visited
  BY DEF ExecutionsFit, Visited, Mine
<1>2. Numbers(report.cost, Visited)
  <2>1. IsFiniteSet(Visited)
    BY <1>1, FS_Subset DEF ExecsFit
  <2> QED BY <2>1 DEF Numbers, Visited, ExecutionsFit
<1>3. ASSUME NEW a
      PROVE  /\ Numbers(report.cost, Mine(a))
             /\ Cardinality(Mine(a)) \in Nat /\ Total(report.cost, Mine(a)) \in Nat
  <2>1. Numbers(report.cost, Mine(a))
    BY <1>1, <1>2, FS_Subset DEF Numbers
  <2> QED BY <2>1, UnitsFinite, FS_CardinalityType DEF Numbers
<1> QED BY <1>2, <1>3

(* The actors of the report are numbers that can be added up.               *)
LEMMA StatsAreNumbers ==
    ASSUME RegistryFits, ExecsFit, ExecutionsFit
    PROVE  /\ Numbers(Counts("executions"), DOMAIN report.stats)
           /\ Numbers(Counts("cost"), DOMAIN report.stats)
<1>1. IsFiniteSet(DOMAIN report.stats)
  BY FS_Subset DEF RegistryFits, ExecutionsFit
<1>2. ASSUME NEW a \in DOMAIN report.stats
      PROVE  Counts("executions")[a] \in Nat /\ Counts("cost")[a] \in Nat
  <2>1. Cardinality(Mine(a)) \in Nat /\ Total(report.cost, Mine(a)) \in Nat
    BY VisitedFinite
  <2>2. report.stats[a] = [executions |-> Cardinality(Mine(a)),
                           cost |-> Total(report.cost, Mine(a))]
    BY <1>2 DEF ExecutionsFit
  <2>3. report.stats[a].executions \in Nat /\ report.stats[a].cost \in Nat
    BY <2>1, <2>2
  <2> QED BY <1>2, <2>3 DEF Counts
<1> QED BY <1>1, <1>2 DEF Numbers

LEMMA VisitExecutionFits ==
    ASSUME IInv, NEW e \in Execution, VisitExecution(e)
    PROVE  IInv'
<1> DEFINE a == execs[e].actor
           c == report.cost[e]
           D == DOMAIN report.stats
           old == IF a \in D THEN report.stats[a] ELSE [executions |-> 0, cost |-> 0]
           new == [executions |-> old.executions + 1, cost |-> old.cost + c]
           n == IF Found(a) THEN 1 ELSE 0
<1>1. /\ report.kind = "executions" /\ e \in report.todo /\ UNCHANGED <<registry, execs>>
      /\ report' = [report EXCEPT
              !.todo = @ \ {e},
              !.stats = IF Found(a) THEN Assigned(@, a, new) ELSE @,
              !.gone = IF Found(a) THEN @ ELSE @ \cup {a},
              !.with = @ + (IF Known(a) THEN 0 ELSE 1),
              !.all = @ + 1, !.allCost = @ + c,
              !.existing = @ + n, !.existingCost = @ + n * c]
  BY DEF VisitExecution
<1>2. RegistryFits /\ ExecsFit /\ ExecutionsFit
  BY <1>1 DEF IInv, ReportFits
<1>3. /\ DOMAIN report' = ExecFields /\ report'.kind = report.kind
      /\ report'.cost = report.cost /\ report'.todo = report.todo \ {e}
      /\ report'.stats = IF Found(a) THEN Assigned(report.stats, a, new) ELSE report.stats
      /\ report'.gone = IF Found(a) THEN report.gone ELSE report.gone \cup {a}
      /\ report'.with = report.with + (IF Known(a) THEN 0 ELSE 1)
      /\ report'.all = report.all + 1 /\ report'.allCost = report.allCost + c
      /\ report'.existing = report.existing + n
      /\ report'.existingCost = report.existingCost + n * c
  <2>1. DOMAIN report = ExecFields
    BY <1>2 DEF ExecutionsFit
  <2> HIDE DEF a, c, new, n
  <2> QED BY <1>1, <2>1 DEF ExecFields
<1>4. /\ RegistryFits' /\ ExecsFit' /\ Saved' = Saved
      /\ UNCHANGED <<actors, posted, permitted, execs>>
  BY <1>1, OnlyReport
<1>5. c \in Nat /\ e \in Saved /\ a \in posted /\ e \notin Visited
  BY <1>1, <1>2 DEF ExecutionsFit, ExecsFit, Saved, Visited
<1>6. Visited' = Visited \cup {e}
  BY <1>1, <1>2, <1>3 DEF Visited, ExecutionsFit
<1> HIDE DEF a, c
<1>7. /\ Cardinality(Visited') = Cardinality(Visited) + 1
      /\ Total(report.cost, Visited') = Total(report.cost, Visited) + c
  <2>1. Numbers(report.cost, Visited)
    BY <1>2, VisitedFinite
  <2>2. report.cost[e] \in Nat
    BY <1>5 DEF c
  <2>3. Total(report.cost, Visited \cup {e}) = Total(report.cost, Visited) + report.cost[e]
    BY <1>5, <2>1, <2>2, TotalAdd
  <2>4. Cardinality(Visited \cup {e}) = Cardinality(Visited) + 1
    BY <1>5, <2>1, FS_AddElement DEF Numbers
  <2> QED BY <1>6, <2>3, <2>4 DEF c
<1>8. /\ \A b : b # a => Mine(b)' = Mine(b)
      /\ Cardinality(Mine(a)') = Cardinality(Mine(a)) + 1
      /\ Total(report.cost, Mine(a)') = Total(report.cost, Mine(a)) + c
  <2>1. \A b : Mine(b)' = IF execs[e].actor = b THEN Mine(b) \cup {e} ELSE Mine(b)
    BY <1>4, <1>6 DEF Mine
  <2>2. Numbers(report.cost, Mine(a)) /\ e \notin Mine(a) /\ report.cost[e] \in Nat
    BY <1>2, <1>5, VisitedFinite DEF Mine, c
  <2>3. /\ Total(report.cost, Mine(a) \cup {e}) = Total(report.cost, Mine(a)) + report.cost[e]
        /\ Cardinality(Mine(a) \cup {e}) = Cardinality(Mine(a)) + 1
    <3>1. Total(report.cost, Mine(a) \cup {e}) = Total(report.cost, Mine(a)) + report.cost[e]
      BY <2>2, TotalAdd
    <3>2. IsFiniteSet(Mine(a))
      BY <2>2 DEF Numbers
    <3> QED BY <2>2, <3>1, <3>2, FS_AddElement
  <2>4. Mine(execs[e].actor)' = Mine(execs[e].actor) \cup {e}
    BY <1>4, <2>1
  <2>5. \A b : b # a => Mine(b)' = Mine(b)
    BY <2>1 DEF a
  <2> QED BY <1>4, <2>3, <2>4, <2>5 DEF a, c
<1>9. /\ DOMAIN report'.stats = IF Found(a) THEN D \cup {a} ELSE D
      /\ \A b \in D : b # a \/ ~Found(a) => report'.stats[b] = report.stats[b]
      /\ Found(a) => report'.stats[a] = new
  <2> HIDE DEF new
  <2> QED BY <1>3 DEF Assigned
<1>10. /\ Found(a) => a \notin report.gone
       /\ ~Found(a) => a \notin D
       /\ Known(a) <=> a \in D \cup report.gone
  BY <1>2 DEF Found, Known, ExecutionsFit
<1>11. DOMAIN report'.stats \cup report'.gone = (D \cup report.gone) \cup {a}
       /\ DOMAIN report'.stats \cap report'.gone = {}
  BY <1>2, <1>3, <1>9, <1>10 DEF ExecutionsFit
<1>12. report'.with = Cardinality(DOMAIN report'.stats \cup report'.gone)
  <2>1. IsFiniteSet(D \cup report.gone)
    <3>1. D \cup report.gone \subseteq posted
      BY <1>2 DEF ExecutionsFit
    <3> QED BY <1>2, <3>1, FS_Subset DEF RegistryFits
  <2>2. Cardinality((D \cup report.gone) \cup {a})
           = IF Known(a) THEN Cardinality(D \cup report.gone)
             ELSE Cardinality(D \cup report.gone) + 1
    BY <1>10, <2>1, FS_AddElement
  <2>3. Cardinality(D \cup report.gone) \in Nat /\ report.with = Cardinality(D \cup report.gone)
    BY <1>2, <2>1, FS_CardinalityType DEF ExecutionsFit
  <2>4. report'.with = report.with + (IF Known(a) THEN 0 ELSE 1)
    BY <1>3
  <2>5. DOMAIN report'.stats \cup report'.gone = (D \cup report.gone) \cup {a}
    BY <1>11
  <2> HIDE DEF D
  <2> QED BY <2>2, <2>3, <2>4, <2>5
<1>13. (\A d \in Visited : Known(execs[d].actor))'
  <2>1. ASSUME NEW d \in Visited \cup {e}
        PROVE  execs[d].actor \in (D \cup report.gone) \cup {a}
    BY <1>2, <2>1 DEF ExecutionsFit, Known, a
  <2> QED BY <1>4, <1>6, <1>11, <2>1 DEF Known
<1>14. Found(a) =>
          old.executions = Cardinality(Mine(a)) /\ old.cost = Total(report.cost, Mine(a))
  <2>1. CASE a \in D
    <3>1. report.stats[a] = [executions |-> Cardinality(Mine(a)),
                             cost |-> Total(report.cost, Mine(a))]
      BY <1>2, <2>1 DEF ExecutionsFit
    <3>2. old = [executions |-> Cardinality(Mine(a)), cost |-> Total(report.cost, Mine(a))]
      BY <2>1, <3>1
    <3> HIDE DEF old
    <3> QED BY <3>2
  <2>2. CASE a \notin D /\ Found(a)
    <3>1. Mine(a) = {}
      BY <1>2, <1>10, <2>2 DEF ExecutionsFit, Mine
    <3> QED BY <2>2, <3>1, TotalOfNone, FS_EmptySet
  <2> QED BY <2>1, <2>2
<1>15. (\A b \in DOMAIN report.stats :
           report.stats[b] = [executions |-> Cardinality(Mine(b)),
                              cost |-> Total(report.cost, Mine(b))])'
  <2> SUFFICES ASSUME NEW b \in DOMAIN report'.stats
               PROVE  report'.stats[b] = [executions |-> Cardinality(Mine(b)'),
                                          cost |-> Total(report.cost, Mine(b)')]
    BY <1>3
  <2>1. CASE b = a
    <3>1. Found(a) /\ report'.stats[a] = new
      BY <1>9, <1>10, <2>1
    <3>2. /\ old.executions + 1 = Cardinality(Mine(a)')
          /\ old.cost + c = Total(report.cost, Mine(a)')
      BY <1>8, <1>14, <3>1
    <3> HIDE DEF old
    <3>3. report'.stats[a] = [executions |-> Cardinality(Mine(a)'),
                              cost |-> Total(report.cost, Mine(a)')]
      BY <3>1, <3>2
    <3>4. Mine(b)' = Mine(a)'
      BY <1>4, <2>1 DEF Mine, a
    <3> QED BY <2>1, <3>3, <3>4
  <2>2. CASE b # a
    <3>1. b \in D /\ report'.stats[b] = report.stats[b] /\ Mine(b)' = Mine(b)
      BY <1>8, <1>9, <2>2
    <3> QED BY <1>2, <3>1 DEF ExecutionsFit
  <2> QED BY <2>1, <2>2
<1>16. /\ report'.existing = Total(Counts("executions")', DOMAIN report'.stats)
       /\ report'.existingCost = Total(Counts("cost")', DOMAIN report'.stats)
  <2>1. /\ Numbers(Counts("executions"), D) /\ Numbers(Counts("cost"), D)
        /\ Total(Counts("executions"), D) \in Nat /\ Total(Counts("cost"), D) \in Nat
        /\ report.existing = Total(Counts("executions"), D)
        /\ report.existingCost = Total(Counts("cost"), D)
    BY <1>2, StatsAreNumbers, UnitsFinite DEF ExecutionsFit
  <2>2. CASE Found(a)
    <3>1. /\ \A x \in D \ {a} : Counts("executions")'[x] = Counts("executions")[x]
          /\ \A x \in D \ {a} : Counts("cost")'[x] = Counts("cost")[x]
      BY <1>9, <2>2 DEF Counts
    <3>2. /\ Counts("executions")'[a]
               = (IF a \in D THEN Counts("executions")[a] ELSE 0) + 1
          /\ Counts("cost")'[a] = (IF a \in D THEN Counts("cost")[a] ELSE 0) + c
      BY <1>9, <2>2 DEF Counts
    <3>3. /\ Total(Counts("executions")', D \cup {a}) = Total(Counts("executions"), D) + 1
          /\ Total(Counts("cost")', D \cup {a}) = Total(Counts("cost"), D) + c
      <4> HIDE DEF D
      <4>1. Total(Counts("executions")', D \cup {a}) = Total(Counts("executions"), D) + 1
        BY <2>1, <3>1, <3>2, TotalRaised
      <4>2. Total(Counts("cost")', D \cup {a}) = Total(Counts("cost"), D) + c
        <5> DEFINE f == Counts("cost")
                   g == Counts("cost")'
        <5>1. /\ c \in Nat /\ Numbers(f, D) /\ \A x \in D \ {a} : g[x] = f[x]
              /\ g[a] = (IF a \in D THEN f[a] ELSE 0) + c
          BY <1>5, <2>1, <3>1, <3>2
        <5> HIDE DEF f, g
        <5>2. Total(g, D \cup {a}) = Total(f, D) + c
          BY <5>1, TotalRaised
        <5> QED BY <5>2 DEF f, g
      <4> QED BY <4>1, <4>2
    <3>4. n = 1 /\ n * c = c /\ DOMAIN report'.stats = D \cup {a}
      BY <1>5, <1>9, <2>2
    <3> QED BY <1>3, <2>1, <3>3, <3>4
  <2>3. CASE ~Found(a)
    <3>1. Counts("executions")' = Counts("executions") /\ Counts("cost")' = Counts("cost")
      BY <1>3, <2>3 DEF Counts
    <3>2. n = 0 /\ n * c = 0 /\ DOMAIN report'.stats = D
      BY <1>5, <1>9, <2>3
    <3> QED BY <1>3, <2>1, <3>1, <3>2
  <2> QED BY <2>2, <2>3
<1>17. /\ report'.gone \subseteq posted' /\ DOMAIN report'.stats \subseteq posted'
       /\ DOMAIN report'.cost \subseteq Saved' /\ report'.todo \subseteq DOMAIN report'.cost
       /\ \A d \in DOMAIN report'.cost : report'.cost[d] \in Nat
  <2> HIDE DEF new
  <2> QED BY <1>2, <1>3, <1>4, <1>5, <1>9 DEF ExecutionsFit
<1>18. report'.all = Cardinality(Visited') /\ report'.allCost = Total(report'.cost, Visited')
  BY <1>2, <1>3, <1>7 DEF ExecutionsFit
<1>19. ExecutionsFit'
  <2> HIDE DEF new, n, D
  <2> QED BY <1>3, <1>11, <1>12, <1>13, <1>15, <1>16, <1>17, <1>18 DEF ExecutionsFit
<1> QED BY <1>1, <1>3, <1>4, <1>19 DEF IInv, ReportFits, Walks

LEMMA ExecutionsEndFits ==
    ASSUME IInv, ReadTotal \/ ReadLen
    PROVE  IInv'
<1>1. /\ report.kind = "executions" /\ UNCHANGED <<registry, execs>>
      /\ \/ report' = NoReport
         \/ report' = [report EXCEPT !.pc = "len", !.actorsAll = actorTotal]
         \/ report' = [report EXCEPT !.pc = "done", !.actorsExisting = Cardinality(actors)]
  BY DEF ReadTotal, ReadLen
<1>2. RegistryFits' /\ ExecsFit' /\ Saved' = Saved /\ UNCHANGED <<posted, execs>>
  BY <1>1, OnlyReport
<1>3. CASE report' = NoReport
  BY <1>2, <1>3, NothingFits DEF IInv
<1>4. CASE report' # NoReport
  <2>1. ExecutionsFit
    BY <1>1 DEF IInv, ReportFits
  <2>2. /\ DOMAIN report' = ExecFields /\ report'.kind = report.kind
        /\ report'.cost = report.cost /\ report'.todo = report.todo
        /\ report'.stats = report.stats /\ report'.gone = report.gone
        /\ report'.with = report.with
        /\ report'.all = report.all /\ report'.allCost = report.allCost
        /\ report'.existing = report.existing
        /\ report'.existingCost = report.existingCost
    BY <1>1, <1>4, <2>1 DEF ExecutionsFit, ExecFields
  <2>3. /\ Visited' = Visited /\ (\A a : Mine(a)' = Mine(a))
        /\ \A f : Counts(f)' = Counts(f)
    BY <1>2, <2>2 DEF Visited, Mine, Counts
  <2>4. (\A e \in Visited : Known(execs[e].actor))'
    BY <1>2, <2>1, <2>2, <2>3 DEF ExecutionsFit, Known
  <2>5. ExecutionsFit'
    BY <1>2, <2>1, <2>2, <2>3, <2>4 DEF ExecutionsFit
  <2> QED BY <1>1, <1>2, <2>2, <2>5 DEF IInv, ReportFits, Walks
<1> QED BY <1>3, <1>4

-----------------------------------------------------------------------------
(* Walks over actors.                                                       *)

LEMMA WalkBegins ==
    ASSUME IInv, ReportActors \/ ListActors \/ \E a \in Actor : GetExecutions(a)
    PROVE  IInv'
<1>1. UNCHANGED <<registry, execs>>
  BY DEF ReportActors, ListActors, GetExecutions
<1>2. RegistryFits' /\ ExecsFit' /\ UNCHANGED <<actors, permitted>>
  BY <1>1, OnlyReport
<1>3. /\ DOMAIN report' = WalkFields /\ report'.kind \in Walks
      /\ report'.pc = "walk" /\ report'.todo = report'.all
      /\ report'.stats = <<>> /\ report'.at = 0 /\ report'.crossed \in BOOLEAN
      /\ ~report'.crossed =>
            report'.todo \subseteq IF report'.kind = "mine" THEN permitted ELSE actors
  <2>1. CASE ReportActors
    BY <2>1 DEF ReportActors, Walk, Walks, WalkFields
  <2>2. ASSUME NEW a \in Actor, GetExecutions(a) PROVE <1>3
    BY <2>2 DEF GetExecutions, Walk, Walks, WalkFields
  <2>3. CASE ListActors
    BY <2>3 DEF ListActors, Walk, Walks, WalkFields
  <2> QED BY <2>1, <2>2, <2>3
<1>4. DOMAIN report'.stats = {}
  BY <1>3
<1>5. WalkFits'
  BY <1>2, <1>3, <1>4 DEF WalkFits
<1> QED BY <1>2, <1>3, <1>5 DEF IInv, ReportFits, Walks

(* The computation of a summary.                                            *)
LEMMA TakenBetween ==
    ASSUME NEW at \in 0 .. 3, NEW now
    PROVE  Taken(at, now) \in at .. 3
<1> DEFINE S == {k \in at .. 3 : k = 3 \/ now[Fields[k + 1]] = 0}
<1>1. Taken(at, now) = Min(S)
  BY DEF Taken, Fields
<1>2. S \subseteq 0 .. 3 /\ 3 \in S /\ S \subseteq at .. 3
  OBVIOUS
<1> HIDE DEF S
<1>3. \E x \in S : \A y \in S : x =< y
  <2>1. CASE 0 \in S
    BY <1>2, <2>1
  <2>2. CASE 0 \notin S /\ 1 \in S
    BY <1>2, <2>2
  <2>3. CASE 0 \notin S /\ 1 \notin S /\ 2 \in S
    BY <1>2, <2>3
  <2>4. CASE 0 \notin S /\ 1 \notin S /\ 2 \notin S
    BY <1>2, <2>4
  <2> QED BY <2>1, <2>2, <2>3, <2>4
<1>4. Min(S) \in S
  BY <1>3 DEF Min
<1> QED BY <1>1, <1>2, <1>4

(* Which of the fields are of now.                                          *)
LEMMA NewFields ==
    ASSUME NEW at \in 0 .. 3, NEW to \in at .. 3
    PROVE  LET new == {Fields[i] : i \in 1 .. to} \ {Fields[i] : i \in 1 .. at - 1}
           IN  /\ "list" \in new <=> to > 0 /\ at < 2
               /\ "executions" \in new <=> to > 1 /\ at < 3
<1> DEFINE F(n) == {Fields[i] : i \in 1 .. n}
<1>1. ASSUME NEW n \in Int
      PROVE  ("list" \in F(n) <=> n > 0) /\ ("executions" \in F(n) <=> n > 1 )
  <2>1. /\ Fields[1] = "list" /\ Fields[2] = "executions" /\ Fields[3] = "cost"
    BY DEF Fields
  <2> QED BY <2>1
<1> QED BY <1>1

LEMMA VisitActorFits ==
    ASSUME IInv, NEW a \in Actor, VisitActor(a)
    PROVE  IInv'
<1>1. /\ report.kind \in {"actors", "summary"} /\ report.pc = "walk" /\ a \in report.todo
      /\ report.at > 0 => a = report.actor
      /\ UNCHANGED <<registry, execs>>
  BY DEF VisitActor
<1>2. /\ RegistryFits' /\ ExecsFit' /\ UNCHANGED <<actors, permitted, execs>>
      /\ \A b : SavedOf(b)' = SavedOf(b)
  BY <1>1, OnlyReport
<1>3. WalkFits
  BY <1>1 DEF IInv, ReportFits, Walks
<1>4. \A l, x, b : Sound(l, x, b)' = Sound(l, x, b)
  BY <1>2 DEF Sound
<1>5. CASE a \notin actors
  <2>1. report' = [report EXCEPT !.pc = "done"]
    BY <1>5 DEF VisitActor, Summary
  <2>2. /\ DOMAIN report' = WalkFields /\ report'.kind = report.kind /\ report'.pc = "done"
        /\ report'.todo = report.todo /\ report'.all = report.all
        /\ report'.stats = report.stats /\ report'.crossed = report.crossed
        /\ report'.at = report.at /\ report'.actor = report.actor /\ report'.sum = report.sum
    BY <1>3, <2>1 DEF WalkFits, WalkFields
  <2>3. report.crossed
    BY <1>1, <1>3, <1>5 DEF WalkFits
  <2>4. WalkFits'
    BY <1>2, <1>3, <1>4, <2>2, <2>3 DEF WalkFits
  <2> QED BY <1>1, <1>2, <2>2, <2>4 DEF IInv, ReportFits, Walks
<1>6. CASE a \in actors
  <2> DEFINE count == Cardinality(SavedOf(a))
             now == [list |-> count, executions |-> count, cost |-> CostOf(SavedOf(a))]
             at == report.at
             to == Taken(at, now)
             new == {Fields[i] : i \in 1 .. to} \ {Fields[i] : i \in 1 .. at - 1}
             sum == [f \in DOMAIN NoSummary |-> IF f \in new THEN now[f] ELSE report.sum[f]]
  <2>1. report' = IF to < 3
                  THEN [report EXCEPT !.actor = a, !.at = to + 1, !.sum = sum]
                  ELSE [report EXCEPT !.actor = NoActor, !.at = 0, !.sum = NoSummary,
                                      !.todo = @ \ {a}, !.stats = Assigned(@, a, sum)]
    BY <1>6 DEF VisitActor, Summary, Fields
  <2>2. at \in 0 .. 3 /\ to \in at .. 3 /\ count \in Nat
    BY <1>3, TakenBetween, SavedFinite DEF WalkFits, IInv
  <2>3. /\ "list" \in new <=> to > 0 /\ at < 2
        /\ "executions" \in new <=> to > 1 /\ at < 3
    <3> HIDE DEF to, at
    <3> QED BY <2>2, NewFields
  <2>4. /\ sum.list = IF to > 0 /\ at < 2 THEN count ELSE report.sum.list
        /\ sum.executions = IF to > 1 /\ at < 3 THEN count ELSE report.sum.executions
    <3>1. "list" \in DOMAIN NoSummary /\ "executions" \in DOMAIN NoSummary
      BY DEF NoSummary
    <3>2. now["list"] = count /\ now["executions"] = count
      OBVIOUS
    <3> HIDE DEF new, now
    <3> QED BY <2>3, <3>1, <3>2
  <2>5. /\ at > 1 => report.sum.list \in Nat /\ report.sum.list <= count
        /\ at > 2 => Sound(report.sum.list, report.sum.executions, a)
    BY <1>1, <1>3, <2>2 DEF WalkFits
  <2> HIDE DEF at, to, sum, now, new
  <2>6. /\ to > 0 => sum.list \in Nat /\ sum.list <= count
        /\ to > 1 => Sound(sum.list, sum.executions, a)
    <3> HIDE DEF count
    <3>1. to > 0 => sum.list \in Nat /\ sum.list <= count
      BY <2>2, <2>4, <2>5
    <3>2. ASSUME to > 1 PROVE Sound(sum.list, sum.executions, a)
      <4>1. CASE at < 3
        BY <2>2, <2>4, <3>1, <3>2, <4>1 DEF Sound, count
      <4>2. CASE at = 3
        BY <2>4, <2>5, <4>2
      <4> QED BY <2>2, <4>1, <4>2
    <3> QED BY <3>1, <3>2
  <2>7. CASE to < 3
    <3>1. /\ DOMAIN report' = WalkFields /\ report'.kind = report.kind /\ report'.pc = report.pc
          /\ report'.todo = report.todo /\ report'.all = report.all
          /\ report'.stats = report.stats /\ report'.crossed = report.crossed
          /\ report'.at = to + 1 /\ report'.actor = a /\ report'.sum = sum
      BY <1>3, <2>1, <2>7 DEF WalkFits, WalkFields
    <3>2. /\ report'.at \in 0 .. 3
          /\ report'.at > 1 => /\ report'.sum.list \in Nat
                               /\ report'.sum.list <= Cardinality(SavedOf(report'.actor))
          /\ report'.at > 2 => Sound(report'.sum.list, report'.sum.executions, report'.actor)
      BY <2>2, <2>6, <2>7, <3>1
    <3>3. WalkFits'
      BY <1>1, <1>2, <1>3, <1>4, <3>1, <3>2 DEF WalkFits
    <3> QED BY <1>1, <1>2, <3>1, <3>3 DEF IInv, ReportFits, Walks
  <2>8. CASE ~(to < 3)
    <3>1. /\ DOMAIN report' = WalkFields /\ report'.kind = report.kind /\ report'.pc = report.pc
          /\ report'.todo = report.todo \ {a} /\ report'.all = report.all
          /\ report'.stats = Assigned(report.stats, a, sum) /\ report'.crossed = report.crossed
          /\ report'.at = 0
      BY <1>3, <2>1, <2>8 DEF WalkFits, WalkFields
    <3>2. a \notin DOMAIN report.stats /\ a \in report.all
      BY <1>1, <1>3 DEF WalkFits
    <3>3. /\ DOMAIN report'.stats = DOMAIN report.stats \cup {a}
          /\ report'.stats[a] = sum
          /\ \A b \in DOMAIN report.stats : report'.stats[b] = report.stats[b]
      BY <3>1, <3>2 DEF Assigned
    <3>4. Sound(sum.list, sum.executions, a)
      BY <2>2, <2>6, <2>8
    <3>5. \A b \in DOMAIN report'.stats :
             Sound(report'.stats[b].list, report'.stats[b].executions, b)
      BY <1>3, <1>4, <3>3, <3>4 DEF WalkFits
    <3>6. WalkFits'
      BY <1>1, <1>2, <1>3, <1>4, <3>1, <3>2, <3>3, <3>5 DEF WalkFits
    <3> QED BY <1>1, <1>2, <3>1, <3>6 DEF IInv, ReportFits, Walks
  <2> QED BY <2>7, <2>8
<1> QED BY <1>5, <1>6

LEMMA CheckListedFits ==
    ASSUME IInv, NEW a \in Actor, CheckListed(a)
    PROVE  IInv'
<1>1. /\ report.kind = "mine" /\ report.pc = "walk" /\ a \in report.todo
      /\ UNCHANGED <<registry, execs>>
  BY DEF CheckListed
<1>2. /\ RegistryFits' /\ ExecsFit' /\ UNCHANGED <<actors, permitted, execs>>
      /\ \A b : SavedOf(b)' = SavedOf(b)
  BY <1>1, OnlyReport
<1>3. WalkFits
  BY <1>1 DEF IInv, ReportFits, Walks
<1>4. \A l, x, b : Sound(l, x, b)' = Sound(l, x, b)
  BY <1>2 DEF Sound
<1>5. CASE a \in permitted
  <2>1. report' = [report EXCEPT !.todo = @ \ {a}, !.stats = Assigned(@, a, NoSummary)]
    BY <1>5 DEF CheckListed
  <2>2. /\ DOMAIN report' = WalkFields /\ report'.kind = report.kind /\ report'.pc = report.pc
        /\ report'.todo = report.todo \ {a} /\ report'.all = report.all
        /\ report'.stats = Assigned(report.stats, a, NoSummary)
        /\ report'.crossed = report.crossed /\ report'.at = report.at
        /\ report'.actor = report.actor /\ report'.sum = report.sum
    BY <1>3, <2>1 DEF WalkFits, WalkFields
  <2>3. a \notin DOMAIN report.stats /\ a \in report.all
    BY <1>1, <1>3 DEF WalkFits
  <2>4. /\ DOMAIN report'.stats = DOMAIN report.stats \cup {a}
        /\ report'.stats[a] = NoSummary
        /\ \A b \in DOMAIN report.stats : report'.stats[b] = report.stats[b]
    BY <2>2, <2>3 DEF Assigned
  <2>5. Sound(NoSummary.list, NoSummary.executions, a)
    BY SavedFinite DEF Sound, NoSummary, IInv
  <2>6. \A b \in DOMAIN report'.stats :
           Sound(report'.stats[b].list, report'.stats[b].executions, b)
    BY <1>3, <1>4, <2>4, <2>5 DEF WalkFits
  <2>7. WalkFits'
    BY <1>1, <1>2, <1>3, <1>4, <2>2, <2>3, <2>4, <2>6 DEF WalkFits
  <2> QED BY <1>1, <1>2, <2>2, <2>7 DEF IInv, ReportFits, Walks
<1>6. CASE a \notin permitted
  <2>1. report' = [report EXCEPT !.pc = "done"]
    BY <1>6 DEF CheckListed
  <2>2. /\ DOMAIN report' = WalkFields /\ report'.kind = report.kind /\ report'.pc = "done"
        /\ report'.todo = report.todo /\ report'.all = report.all
        /\ report'.stats = report.stats /\ report'.crossed = report.crossed
        /\ report'.at = report.at /\ report'.actor = report.actor /\ report'.sum = report.sum
    BY <1>3, <2>1 DEF WalkFits, WalkFields
  <2>3. report.crossed
    BY <1>1, <1>3, <1>6 DEF WalkFits
  <2>4. WalkFits'
    BY <1>2, <1>3, <1>4, <2>2, <2>3 DEF WalkFits
  <2> QED BY <1>1, <1>2, <2>2, <2>4 DEF IInv, ReportFits, Walks
<1> QED BY <1>5, <1>6

LEMMA EndActorsFits ==
    ASSUME IInv, EndActors
    PROVE  IInv'
<1>1. /\ report.kind \in Walks /\ report.pc = "walk" /\ report.todo = {}
      /\ report' = [report EXCEPT !.pc = "done"] /\ UNCHANGED <<registry, execs>>
  BY DEF EndActors, Walks
<1>2. /\ RegistryFits' /\ ExecsFit' /\ UNCHANGED <<actors, permitted, execs>>
      /\ \A b : SavedOf(b)' = SavedOf(b)
  BY <1>1, OnlyReport
<1>3. WalkFits
  BY <1>1 DEF IInv, ReportFits
<1>4. \A l, x, b : Sound(l, x, b)' = Sound(l, x, b)
  BY <1>2 DEF Sound
<1>5. /\ DOMAIN report' = WalkFields /\ report'.kind = report.kind /\ report'.pc = "done"
      /\ report'.todo = report.todo /\ report'.all = report.all
      /\ report'.stats = report.stats /\ report'.crossed = report.crossed
      /\ report'.at = report.at /\ report'.actor = report.actor /\ report'.sum = report.sum
  BY <1>1, <1>3 DEF WalkFits, WalkFields
<1>6. WalkFits'
  BY <1>1, <1>2, <1>3, <1>4, <1>5 DEF WalkFits
<1> QED BY <1>1, <1>2, <1>5, <1>6 DEF IInv, ReportFits, Walks

-----------------------------------------------------------------------------
(* The other reports, and the answer.                                       *)
LEMMA OtherReportFits ==
    ASSUME IInv, \/ ReportUtilization \/ ReadUtilizationTotal \/ Answer
                 \/ \E args \in Searches : SearchExecutions(args)
    PROVE  IInv'
<1>1. UNCHANGED <<registry, execs>>
  BY DEF ReportUtilization, ReadUtilizationTotal, Answer, SearchExecutions
<1>2. RegistryFits' /\ ExecsFit' /\ UNCHANGED <<actors, posted>>
  BY <1>1, OnlyReport
<1>3. ReportFits'
  <2>1. CASE ReportUtilization
    <3>1. report' = [kind |-> "utilization", pc |-> "total",
                     current |-> Cardinality(actors), total |-> 0]
      BY <2>1 DEF ReportUtilization
    <3>2. Cardinality(actors) \in Nat /\ Cardinality(actors) <= Cardinality(posted)
      BY FS_Subset, FS_CardinalityType DEF IInv, RegistryFits
    <3>3. /\ report'.kind = "utilization" /\ report'.current = Cardinality(actors)
          /\ DOMAIN report' = {"kind", "pc", "current", "total"}
      BY <3>1
    <3> QED BY <1>2, <3>2, <3>3 DEF ReportFits, UtilizationFits, Walks
  <2>2. CASE ReadUtilizationTotal
    <3>1. CASE report' = NoReport
      BY <3>1, NothingFits
    <3>2. CASE report' # NoReport
      <4>1. /\ report.kind = "utilization"
            /\ report' = [report EXCEPT !.pc = "done", !.total = actorTotal]
        BY <2>2, <3>2 DEF ReadUtilizationTotal
      <4>2. UtilizationFits
        BY <4>1 DEF IInv, ReportFits
      <4>3. /\ report'.kind = "utilization" /\ report'.current = report.current
            /\ DOMAIN report' = DOMAIN report
        BY <4>1, <4>2 DEF UtilizationFits
      <4> QED BY <1>2, <4>2, <4>3 DEF ReportFits, UtilizationFits, Walks
    <3> QED BY <3>1, <3>2
  <2>3. CASE Answer
    BY <2>3, NothingFits DEF Answer
  <2>4. ASSUME NEW args \in Searches, SearchExecutions(args) PROVE ReportFits'
    <3>1. report'.kind = "search"
      BY <2>4 DEF SearchExecutions
    <3> QED BY <3>1 DEF ReportFits, Walks
  <2> QED BY <2>1, <2>2, <2>3, <2>4
<1> QED BY <1>2, <1>3 DEF IInv

LEMMA StuttersFit == ASSUME IInv, UNCHANGED vars PROVE IInv'
<1>1. RegistryFits' /\ ExecsFit' /\ Grown /\ UNCHANGED <<actors, permitted, report>>
  <2>1. UNCHANGED <<registry, execs>> /\ report' = report
    BY DEF vars, registry
  <2> QED BY <2>1, OnlyReport DEF Grown
<1> QED BY <1>1, ExecutionsStay, WalkStays, UtilizationStays DEF IInv, ReportFits

LEMMA StepFits == IInv /\ [Next]_vars => IInv'
<1> SUFFICES ASSUME IInv, [Next]_vars PROVE IInv'
  OBVIOUS
<1>1. ASSUME NEW a \in Actor,
             \/ PostActor(a) \/ CountActor(a) \/ PutActor(a) \/ SaveActor(a)
             \/ DeleteActor(a) \/ VisitActor(a) \/ GetExecutions(a) \/ CheckListed(a)
      PROVE  IInv'
  BY <1>1, PostActorFits, RegistryStepFits, DeleteActorFits, VisitActorFits, WalkBegins,
     CheckListedFits
<1>2. ASSUME NEW e \in Execution,
             \/ \E a \in Actor : ReadActor(e, a)
             \/ \E c \in Cost : FinalizeCost(e, c)
             \/ SaveExecution(e) \/ FinalizeStatus(e) \/ VisitExecution(e)
      PROVE  IInv'
  BY <1>2, ExecStepFits, VisitExecutionFits
<1>3. CASE ReportExecutions \/ ReadTotal \/ ReadLen
  BY <1>3, ReportExecutionsFits, ExecutionsEndFits
<1>4. CASE ReportActors \/ EndActors \/ ListActors
  BY <1>4, WalkBegins, EndActorsFits
<1>5. CASE \/ ReportUtilization \/ ReadUtilizationTotal \/ Answer
           \/ \E args \in Searches : SearchExecutions(args)
  BY <1>5, OtherReportFits
<1>6. CASE UNCHANGED vars
  BY <1>6, StuttersFit
<1> QED BY <1>1, <1>2, <1>3, <1>4, <1>5, <1>6 DEF Next

LEMMA SpecFits == Spec => []IInv
<1>1. Init => IInv
  BY InitFits
<1>2. IInv /\ [Next]_vars => IInv'
  BY StepFits
<1> QED BY <1>1, <1>2, PTL DEF Spec

-----------------------------------------------------------------------------
(* The report on executions adds up at every point of its walk, whatever is *)
(* deleted, brought back and charged anew meanwhile                         *)
(* (controllers.py:259-300).                                                *)
THEOREM ReportsAddUp == Spec => []ReportAddsUp
<1>1. ASSUME IInv PROVE ReportAddsUp
  <2> SUFFICES ASSUME report.kind = "executions" PROVE ReportAddsUp
    BY DEF ReportAddsUp
  <2>1. RegistryFits /\ ExecsFit /\ ExecutionsFit
    BY <1>1 DEF IInv, ReportFits
  <2>2. /\ CostSum(Visited) = Total(report.cost, Visited)
        /\ \A a : CostSum(Mine(a)) = Total(report.cost, Mine(a))
    BY <2>1, VisitedFinite, CostSumIsTotal
  <2>3. /\ SumOf("executions") = Total(Counts("executions"), DOMAIN report.stats)
        /\ SumOf("cost") = Total(Counts("cost"), DOMAIN report.stats)
    BY <2>1, StatsAreNumbers, SumOfIsTotal
  <2>4. ASSUME NEW a \in DOMAIN report.stats
        PROVE  report.stats[a] = [executions |-> Cardinality(Mine(a)),
                                  cost |-> CostSum(Mine(a))]
    BY <2>1, <2>2, <2>4 DEF ExecutionsFit
  <2> QED BY <2>1, <2>2, <2>3, <2>4 DEF ReportAddsUp, ExecutionsFit, Mine
<1> QED BY <1>1, SpecFits, PTL

(* A list of actors is cut short only by a deletion, or by an actor without *)
(* permissions, and no summary tells of more executions than there are, nor *)
(* lists more than it counts (controllers.py:166-186, 698;                  *)
(* models.py:1551-1567).                                                    *)
THEOREM ListsAreCutByDeletions == Spec => []ListCutByDeletion
<1>1. ASSUME IInv PROVE ListCutByDeletion
  BY <1>1 DEF IInv, ReportFits, Walks, WalkFits, Sound, ListCutByDeletion
<1> QED BY <1>1, SpecFits, PTL

(* Because the counter is read last, it covers the actors of the report but *)
(* for those whose handler has not come to it (controllers.py:302, 674-675).*)
THEOREM CounterCoversReports == Spec => TotalsCoverReports
<1> DEFINE Covered ==
        /\ ReadTotal /\ report'.kind = "executions" =>
              report.with <= report'.actorsAll + Cardinality(uncounted)
        /\ ReadUtilizationTotal /\ report'.kind = "utilization" =>
              report.current <= report'.total + Cardinality(uncounted)
<1>1. ASSUME IInv, ReadTotal, report'.kind = "executions"
      PROVE  report.with <= report'.actorsAll + Cardinality(uncounted)
  <2>1. /\ report.kind = "executions"
        /\ report' = [report EXCEPT !.pc = "len", !.actorsAll = actorTotal]
    BY <1>1 DEF ReadTotal, NoReport
  <2>2. ExecutionsFit /\ RegistryFits
    BY <1>1, <2>1 DEF IInv, ReportFits
  <2>3. report'.actorsAll = actorTotal
    BY <2>1, <2>2 DEF ExecutionsFit, ExecFields
  <2>4. /\ DOMAIN report.stats \cup report.gone \subseteq posted
        /\ report.with = Cardinality(DOMAIN report.stats \cup report.gone)
    BY <2>2 DEF ExecutionsFit
  <2>5. report.with <= Cardinality(posted)
    BY <2>2, <2>4, FS_Subset DEF RegistryFits
  <2> QED BY <2>2, <2>3, <2>5 DEF RegistryFits
<1>2. ASSUME IInv, ReadUtilizationTotal, report'.kind = "utilization"
      PROVE  report.current <= report'.total + Cardinality(uncounted)
  <2>1. /\ report.kind = "utilization"
        /\ report' = [report EXCEPT !.pc = "done", !.total = actorTotal]
    BY <1>2 DEF ReadUtilizationTotal, NoReport
  <2>2. UtilizationFits /\ RegistryFits
    BY <1>2, <2>1 DEF IInv, ReportFits
  <2>3. report'.total = actorTotal
    BY <2>1, <2>2 DEF UtilizationFits
  <2> QED BY <2>2, <2>3 DEF UtilizationFits, RegistryFits
<1>3. IInv /\ [Next]_vars => [Covered]_vars
  BY <1>1, <1>2
<1>4. Spec => [][Covered]_vars
  <2> HIDE DEF Covered
  <2> QED BY <1>3, SpecFits, PTL DEF Spec
<1> QED BY <1>4 DEF TotalsCoverReports

-----------------------------------------------------------------------------
(* Searches.  A number out of a range is the least of those that have a     *)
(* property, so that what holds of 0 and of the next number holds of all.   *)
LEMMA LeastNumber ==
    ASSUME NEW N \in Nat, NEW T, T \subseteq 0 .. N, T # {}
    PROVE  \E n \in T : \A m \in T : n <= m
<1> DEFINE F == {0 .. n : n \in T}
<1>1. F \subseteq SUBSET (0 .. N) /\ F # {}
  <2>1. ASSUME NEW n \in T PROVE 0 .. n \subseteq 0 .. N
    OBVIOUS
  <2> QED BY <2>1, Zenon
<1>2. IsFiniteSet(0 .. N)
  BY FS_Interval
<1>3. PICK I \in F : \A J \in F : J \subseteq I => J = I
  <2> DEFINE R == 0 .. N
  <2>1. IsFiniteSet(R) /\ F \subseteq SUBSET R /\ F # {}
    BY <1>1, <1>2
  <2> HIDE DEF F, R
  <2> QED BY <2>1, MinimalSubset
<1>4. PICK n \in T : I = 0 .. n
  BY <1>3
<1>5. ASSUME NEW m \in T, m < n PROVE FALSE
  <2>1. n \in Nat /\ m \in Nat
    OBVIOUS
  <2>2. 0 .. m \in F /\ 0 .. m \subseteq 0 .. n
    BY <1>5, <2>1
  <2>3. 0 .. m = 0 .. n
    BY <1>3, <1>4, <2>2
  <2>4. n \in 0 .. n /\ ~(n \in 0 .. m)
    BY <1>5, <2>1
  <2> QED BY <2>3, <2>4
<1> QED
  <2>1. T \subseteq Int
    OBVIOUS
  <2> QED BY <1>5, <2>1

LEMMA NumbersUpTo ==
    ASSUME NEW N \in Nat, NEW T, 0 \in T, \A n \in 1 .. N : n - 1 \in T => n \in T
    PROVE  N \in T
<1> DEFINE Bad == (0 .. N) \ T
<1> SUFFICES ASSUME Bad # {} PROVE FALSE
  OBVIOUS
<1>1. PICK n \in Bad : \A m \in Bad : n <= m
  <2>1. Bad \subseteq 0 .. N
    OBVIOUS
  <2> HIDE DEF Bad
  <2> QED BY <2>1, LeastNumber
<1>2. n \in 1 .. N /\ n - 1 \in 0 .. N
  OBVIOUS
<1>3. n - 1 \in T
  BY <1>1, <1>2
<1> QED BY <1>2, <1>3

(* CHOOSE takes the only number that there is.                              *)
LEMMA MaxIs ==
    ASSUME NEW S, S \subseteq Int, NEW m \in S, \A n \in S : n <= m
    PROVE  Max(S) = m
<1>1. Max(S) \in S /\ \A n \in S : Max(S) >= n
  <2>1. \A n \in S : m >= n
    OBVIOUS
  <2> QED BY <2>1, Zenon DEF Max
<1>2. m \in Int /\ Max(S) \in Int /\ Max(S) >= m /\ Max(S) <= m
  BY <1>1
<1> QED BY <1>2

LEMMA MinIs ==
    ASSUME NEW S, S \subseteq Int, NEW m \in S, \A n \in S : m <= n
    PROVE  Min(S) = m
<1>1. Min(S) \in S /\ \A n \in S : Min(S) =< n
  BY Zenon DEF Min
<1>2. m \in Int /\ Min(S) \in Int /\ Min(S) <= m /\ m <= Min(S)
  BY <1>1
<1> QED BY <1>2

(* The loop over the arguments: there is what has been parsed after each of *)
(* its turns.                                                               *)
LEMMA TurnsOfLoop ==
    ASSUME NEW args, NEW N \in Nat, DOMAIN args = 1 .. N
    PROVE  \E W : /\ W[0] = NoQuery /\ ArgParser(args) = W[N]
                  /\ \A n \in 1 .. N : W[n] = Parse(W[n - 1], args[n])
<1> DEFINE Body(V, n) == [s \in SUBSET (1 .. n) |->
                             IF s = {} THEN NoQuery
                             ELSE Parse(V[s \ {Max(s)}], args[Max(s)])]
           Solved == {n \in 0 .. N : \E V : V = Body(V, n)}
           V == CHOOSE V : V = Body(V, N)
           W == [n \in 0 .. N |-> V[1 .. n]]
<1>1. ArgParser(args) = V[1 .. N]
  BY DEF ArgParser, FoldLeft, MapThenFoldSet
<1>2. N \in Solved
  <2>1. 0 \in Solved
    <3> DEFINE U == [s \in SUBSET (1 .. 0) |-> NoQuery]
    <3>1. SUBSET (1 .. 0) = {{}}
      OBVIOUS
    <3>2. U = Body(U, 0)
      BY <3>1
    <3> QED BY <3>2
  <2>2. ASSUME NEW n \in 1 .. N, n - 1 \in Solved PROVE n \in Solved
    <3>1. PICK U : U = Body(U, n - 1)
      BY <2>2
    <3> DEFINE X == [s \in SUBSET (1 .. n) |->
                        IF n \in s THEN Parse(U[s \ {n}], args[n]) ELSE U[s]]
    <3>2. ASSUME NEW s \in SUBSET (1 .. n)
          PROVE  X[s] = IF s = {} THEN NoQuery ELSE Parse(X[s \ {Max(s)}], args[Max(s)])
      <4>1. CASE n \in s
        <5>1. Max(s) = n
          <6>1. s \subseteq Int /\ \A m \in s : m <= n
            OBVIOUS
          <6> QED BY <4>1, <6>1, MaxIs, Zenon
        <5>2. X[s \ {n}] = U[s \ {n}]
          OBVIOUS
        <5> QED BY <4>1, <5>1, <5>2
      <4>2. CASE n \notin s
        <5>1. s \in SUBSET (1 .. n - 1)
          BY <4>2
        <5>2. Body(U, n - 1)[s] = IF s = {} THEN NoQuery
                                  ELSE Parse(U[s \ {Max(s)}], args[Max(s)])
          BY <5>1
        <5>3. U[s] = IF s = {} THEN NoQuery ELSE Parse(U[s \ {Max(s)}], args[Max(s)])
          <6> HIDE DEF Body
          <6> QED BY <3>1, <5>2
        <5>4. X[s] = U[s] /\ X[s \ {Max(s)}] = U[s \ {Max(s)}]
          BY <4>2
        <5> QED BY <5>3, <5>4
      <4> QED BY <4>1, <4>2
    <3>3. X = Body(X, n)
      BY <3>2
    <3> HIDE DEF X, Body
    <3> QED BY <3>3
  <2> HIDE DEF Solved
  <2> QED BY <2>1, <2>2, NumbersUpTo
<1>3. V = Body(V, N)
  <2> HIDE DEF Body
  <2> QED BY <1>2
<1>4. \A s \in SUBSET (1 .. N) :
         V[s] = IF s = {} THEN NoQuery ELSE Parse(V[s \ {Max(s)}], args[Max(s)])
  <2>1. \A s \in SUBSET (1 .. N) :
           Body(V, N)[s] = IF s = {} THEN NoQuery
                           ELSE Parse(V[s \ {Max(s)}], args[Max(s)])
    BY Zenon
  <2> HIDE DEF Body, V
  <2> QED BY <1>3, <2>1
<1> HIDE DEF V
<1>5. W[0] = NoQuery
  <2>1. 1 .. 0 = {} /\ {} \in SUBSET (1 .. N)
    OBVIOUS
  <2>2. W[0] = V[{}]
    BY <2>1
  <2> QED BY <1>4, <2>1, <2>2
<1>6. ASSUME NEW n \in 1 .. N PROVE W[n] = Parse(W[n - 1], args[n])
  <2>1. Max(1 .. n) = n
    <3>1. 1 .. n \subseteq Int /\ n \in 1 .. n /\ \A m \in 1 .. n : m <= n
      OBVIOUS
    <3> QED BY <3>1, MaxIs, Zenon
  <2>2. (1 .. n) \ {n} = 1 .. n - 1 /\ 1 .. n \in SUBSET (1 .. N) /\ 1 .. n # {}
    OBVIOUS
  <2>3. V[1 .. n] = Parse(V[(1 .. n) \ {Max(1 .. n)}], args[Max(1 .. n)])
    BY <1>4, <2>2
  <2>4. V[1 .. n] = Parse(V[1 .. n - 1], args[n])
    BY <2>1, <2>2, <2>3
  <2>5. W[n] = V[1 .. n] /\ W[n - 1] = V[1 .. n - 1]
    OBVIOUS
  <2> QED BY <2>4, <2>5
<1> QED
  <2>1. ArgParser(args) = W[N]
    BY <1>1
  <2> HIDE DEF W
  <2> QED BY <1>5, <1>6, <2>1

-----------------------------------------------------------------------------
(* What has been parsed when the arguments of a set have had their turns,   *)
(* in whatever order: one stage for each that is not special, and numbers   *)
(* from those that give them, unless one of the arguments fails.            *)
Plain(S) == {arg \in S : arg.key \notin Special}

StageOf(arg) ==
    LET op == UsedOper(arg.key)
    IN  [field |-> Field(arg.key, op), op |-> op,
         kind |-> Converted(arg.key, arg.val), val |-> arg.val]

NotNegative == {x \in DOMAIN Number : Number[x] >= 0}
Fails(arg) ==
    \/ arg.key \in {<<"skip">>, <<"limit">>} /\ ~One(arg.val, NotNegative)
    \/ arg.key \notin Special /\ Stage(arg.key, arg.val) = <<>>

Gives(name, default, S, n) ==
    /\ n \in Nat
    /\ \A arg \in S : arg.key = <<name>> => n = Number[arg.val[1]]
    /\ (\A arg \in S : arg.key # <<name>>) => n = default

ParsedFields == {"query", "text", "skip", "limit", "failed"}
Read(S, p) ==
    /\ DOMAIN p = ParsedFields /\ p = [field \in ParsedFields |-> p[field]]
    /\ p.failed \in BOOLEAN
    /\ p.failed <=> \E arg \in S : Fails(arg)
    /\ ~p.failed => /\ p.query \in Seq({StageOf(arg) : arg \in Argument})
                    /\ ToSet(p.query) = {StageOf(arg) : arg \in Plain(S)}
                    /\ Len(p.query) = Cardinality(Plain(S))
                    /\ Gives("skip", 0, S, p.skip) /\ Gives("limit", 100, S, p.limit)

LEMMA NothingRead == Read({}, NoQuery)
<1>1. /\ DOMAIN NoQuery = ParsedFields
      /\ NoQuery = [field \in ParsedFields |-> NoQuery[field]]
      /\ NoQuery.failed = FALSE /\ NoQuery.query = <<>>
      /\ NoQuery.skip = 0 /\ NoQuery.limit = 100
  BY DEF NoQuery, ParsedFields
<1>2. Plain({}) = {}
  BY DEF Plain
<1>3. ToSet(<<>>) = {} /\ Len(<<>>) = 0
  BY DEF ToSet
<1>4. <<>> \in Seq({StageOf(arg) : arg \in Argument})
  <2> DEFINE R == {StageOf(arg) : arg \in Argument}
  <2> HIDE DEF R
  <2> QED OBVIOUS
<1>5. {StageOf(arg) : arg \in Plain({})} = {}
  BY <1>2
<1>6. Gives("skip", 0, {}, 0) /\ Gives("limit", 100, {}, 100)
  BY DEF Gives
<1> QED BY <1>1, <1>2, <1>3, <1>4, <1>5, <1>6, FS_EmptySet DEF Read

(* An argument that is not special has the one stage, or raises.            *)
LEMMA Stages ==
    ASSUME NEW arg \in Argument
    PROVE  Stage(arg.key, arg.val) \in {<<>>, <<StageOf(arg)>>} /\ <<StageOf(arg)>> # <<>>
BY DEF Stage, StageOf

(* Another stage at the end.                                                *)
LEMMA OneMore ==
    ASSUME NEW R, NEW q \in Seq(R), NEW r \in R
    PROVE  /\ q \o <<r>> \in Seq(R) /\ Len(q \o <<r>>) = Len(q) + 1
           /\ ToSet(q \o <<r>>) = ToSet(q) \cup {r}
<1> DEFINE t == q \o <<r>>
<1>1. t \in Seq(R) /\ Len(t) = Len(q) + 1 /\ t[Len(q) + 1] = r
      /\ \A i \in 1 .. Len(q) : t[i] = q[i]
  OBVIOUS
<1>2. DOMAIN t = 1 .. Len(q) + 1 /\ DOMAIN q = 1 .. Len(q) /\ Len(q) \in Nat
  OBVIOUS
<1> HIDE DEF t
<1>3. ASSUME NEW x \in ToSet(q) PROVE x \in ToSet(t)
  BY <1>1, <1>2 DEF ToSet
<1>4. r \in ToSet(t)
  BY <1>1, <1>2 DEF ToSet
<1>5. ASSUME NEW x \in ToSet(t) PROVE x \in ToSet(q) \cup {r}
  <2>1. PICK i \in 1 .. Len(q) + 1 : x = t[i]
    BY <1>2 DEF ToSet
  <2>2. CASE i = Len(q) + 1
    BY <1>1, <2>1, <2>2
  <2>3. CASE i \in 1 .. Len(q)
    BY <1>1, <1>2, <2>1, <2>3 DEF ToSet
  <2> QED BY <1>2, <2>1, <2>2, <2>3
<1>6. ToSet(t) = ToSet(q) \cup {r}
  BY <1>3, <1>4, <1>5
<1> QED BY <1>1, <1>6 DEF t

(* One turn more.                                                           *)
LEMMA TurnReads ==
    ASSUME NEW S, IsFiniteSet(S), NEW p, Read(S, p), NEW arg \in Argument,
           \A other \in S : other.key # arg.key
    PROVE  Read(S \cup {arg}, Parse(p, arg))
<1> DEFINE T == S \cup {arg}
           q == Parse(p, arg)
<1>1. arg \notin S /\ (p.failed => \E other \in T : Fails(other))
  BY DEF Read
<1>2. IsFiniteSet(Plain(S)) /\ Cardinality(Plain(S)) \in Nat
  <2>1. Plain(S) \subseteq S
    BY DEF Plain
  <2> QED BY <2>1, FS_Subset, FS_CardinalityType
<1>3. arg.key \in Special => Plain(T) = Plain(S)
  BY DEF Plain
<1>4. arg.key # <<"skip">> => \A n : Gives("skip", 0, S, n) => Gives("skip", 0, T, n)
  BY DEF Gives
<1>5. arg.key # <<"limit">> => \A n : Gives("limit", 100, S, n) => Gives("limit", 100, T, n)
  BY DEF Gives
<1>6. CASE p.failed
  <2>1. q = p
    BY <1>6 DEF Parse
  <2> QED BY <1>1, <1>6, <2>1 DEF Read
<1>7. CASE ~p.failed /\ arg.key = <<"x-nonce">>
  <2>1. q = p
    BY <1>7 DEF Parse
  <2>2. ~Fails(arg) /\ arg.key \in Special
    BY <1>7 DEF Fails, Special
  <2>3. arg.key # <<"skip">> /\ arg.key # <<"limit">>
    BY <1>7
  <2> QED BY <1>3, <1>4, <1>5, <1>7, <2>1, <2>2, <2>3 DEF Read
<1>8. ASSUME ~p.failed, arg.key \in {<<"search">>, <<"exactsearch">>}
      PROVE  Read(T, q)
  <2>1. q = [p EXCEPT !.text = Append(@, arg)]
    BY <1>8 DEF Parse
  <2>2. ~Fails(arg) /\ arg.key \in Special
    BY <1>8 DEF Fails, Special
  <2>3. arg.key # <<"skip">> /\ arg.key # <<"limit">>
    BY <1>8
  <2>4. /\ DOMAIN q = ParsedFields /\ q = [field \in ParsedFields |-> q[field]]
        /\ q.failed = p.failed /\ q.query = p.query /\ q.skip = p.skip /\ q.limit = p.limit
    BY <2>1 DEF Read, ParsedFields
  <2>5. \A other \in T : ~Fails(other)
    BY <1>8, <2>2 DEF Read
  <2>6. Gives("skip", 0, T, q.skip) /\ Gives("limit", 100, T, q.limit)
    BY <1>4, <1>5, <1>8, <2>3, <2>4 DEF Read
  <2>7. Plain(T) = Plain(S)
    BY <1>3, <2>2
  <2>8. /\ q.query \in Seq({StageOf(other) : other \in Argument})
        /\ ToSet(q.query) = {StageOf(other) : other \in Plain(T)}
        /\ Len(q.query) = Cardinality(Plain(T)) /\ q.failed = FALSE
    BY <1>8, <2>4, <2>7 DEF Read
  <2> HIDE DEF q
  <2> QED BY <2>4, <2>5, <2>6, <2>8 DEF Read
<1>9. ASSUME ~p.failed, arg.key \in {<<"skip">>, <<"limit">>}, ~One(arg.val, NotNegative)
      PROVE  Read(T, q)
  <2>1. q = [p EXCEPT !.failed = TRUE]
    BY <1>9 DEF Parse, NotNegative
  <2>2. Fails(arg)
    BY <1>9 DEF Fails
  <2>3. /\ DOMAIN q = ParsedFields /\ q = [field \in ParsedFields |-> q[field]]
        /\ q.failed = TRUE
    BY <2>1 DEF Read, ParsedFields
  <2> HIDE DEF q
  <2> QED BY <2>2, <2>3 DEF Read
<1>10. ASSUME ~p.failed, arg.key \in {<<"skip">>, <<"limit">>}, One(arg.val, NotNegative)
       PROVE  Read(T, q)
  <2>1. q = [p EXCEPT ![arg.key[1]] = Number[arg.val[1]]]
    BY <1>10 DEF Parse, NotNegative
  <2>2. ~Fails(arg) /\ arg.key \in Special
    BY <1>10 DEF Fails, Special
  <2>3. Number[arg.val[1]] \in Nat
    BY <1>10 DEF One, NotNegative, Number
  <2>4. CASE arg.key = <<"skip">>
    <3>1. q = [p EXCEPT !.skip = Number[arg.val[1]]] /\ arg.key # <<"limit">>
      <4>1. arg.key[1] = "skip" /\ arg.key # <<"limit">>
        BY <2>4
      <4> HIDE DEF q
      <4> QED BY <2>1, <4>1
    <3>2. /\ DOMAIN q = ParsedFields /\ q = [field \in ParsedFields |-> q[field]]
          /\ q.failed = p.failed /\ q.query = p.query /\ q.limit = p.limit
          /\ q.skip = Number[arg.val[1]]
      BY <3>1 DEF Read, ParsedFields
    <3>3. Gives("skip", 0, T, q.skip)
      BY <2>3, <2>4, <3>2 DEF Gives
    <3> HIDE DEF q
    <3> QED BY <1>3, <1>5, <1>10, <2>2, <3>1, <3>2, <3>3 DEF Read
  <2>5. CASE arg.key = <<"limit">>
    <3>1. q = [p EXCEPT !.limit = Number[arg.val[1]]] /\ arg.key # <<"skip">>
      <4>1. arg.key[1] = "limit" /\ arg.key # <<"skip">>
        BY <2>5
      <4> HIDE DEF q
      <4> QED BY <2>1, <4>1
    <3>2. /\ DOMAIN q = ParsedFields /\ q = [field \in ParsedFields |-> q[field]]
          /\ q.failed = p.failed /\ q.query = p.query /\ q.skip = p.skip
          /\ q.limit = Number[arg.val[1]]
      BY <3>1 DEF Read, ParsedFields
    <3>3. Gives("limit", 100, T, q.limit)
      BY <2>3, <2>5, <3>2 DEF Gives
    <3> HIDE DEF q
    <3> QED BY <1>3, <1>4, <1>10, <2>2, <3>1, <3>2, <3>3 DEF Read
  <2> QED BY <1>10, <2>4, <2>5
<1>11. ASSUME ~p.failed, arg.key \notin Special, Stage(arg.key, arg.val) = <<>>
       PROVE  Read(T, q)
  <2>1. q = [p EXCEPT !.query = @ \o <<>>, !.failed = TRUE]
    BY <1>11 DEF Parse, Special
  <2>2. Fails(arg)
    BY <1>11 DEF Fails
  <2>3. /\ DOMAIN q = ParsedFields /\ q = [field \in ParsedFields |-> q[field]]
        /\ q.failed = TRUE
    BY <2>1 DEF Read, ParsedFields
  <2> HIDE DEF q
  <2> QED BY <2>2, <2>3 DEF Read
<1>12. ASSUME ~p.failed, arg.key \notin Special, Stage(arg.key, arg.val) # <<>>
       PROVE  Read(T, q)
  <2> DEFINE R == {StageOf(other) : other \in Argument}
             r == StageOf(arg)
  <2>1. Stage(arg.key, arg.val) = <<r>>
    BY <1>12, Stages
  <2>2. q = [p EXCEPT !.query = @ \o <<r>>, !.failed = FALSE]
    BY <1>12, <2>1, Stages DEF Parse, Special
  <2>3. ~Fails(arg) /\ arg.key # <<"skip">> /\ arg.key # <<"limit">>
    BY <1>12 DEF Fails, Special
  <2>4. /\ DOMAIN q = ParsedFields /\ q = [field \in ParsedFields |-> q[field]]
        /\ q.failed = FALSE /\ q.query = p.query \o <<r>>
        /\ q.skip = p.skip /\ q.limit = p.limit
    BY <2>2 DEF Read, ParsedFields
  <2>5. Plain(T) = Plain(S) \cup {arg} /\ arg \notin Plain(S)
    BY <1>1, <1>12 DEF Plain
  <2>6. Cardinality(Plain(T)) = Cardinality(Plain(S)) + 1
    BY <1>2, <2>5, FS_AddElement
  <2>7. {StageOf(other) : other \in Plain(T)} = {StageOf(other) : other \in Plain(S)} \cup {r}
    BY <2>5
  <2>8. p.query \in Seq(R) /\ r \in R /\ Len(p.query) = Cardinality(Plain(S))
        /\ ToSet(p.query) = {StageOf(other) : other \in Plain(S)}
    BY <1>12 DEF Read
  <2>9. /\ q.query \in Seq(R) /\ Len(q.query) = Cardinality(Plain(T))
        /\ ToSet(q.query) = {StageOf(other) : other \in Plain(T)}
    <3> DEFINE old == p.query
    <3>1. old \in Seq(R) /\ r \in R /\ q.query = old \o <<r>>
      BY <2>4, <2>8
    <3> HIDE DEF R, r, q, old
    <3>2. q.query \in Seq(R) /\ Len(q.query) = Len(old) + 1 /\ ToSet(q.query) = ToSet(old) \cup {r}
      BY <3>1, OneMore
    <3> QED BY <2>6, <2>7, <2>8, <3>2 DEF old
  <2>10. Gives("skip", 0, T, q.skip) /\ Gives("limit", 100, T, q.limit)
    BY <1>4, <1>5, <1>12, <2>3, <2>4 DEF Read
  <2>11. \A other \in T : ~Fails(other)
    BY <1>12, <2>3 DEF Read
  <2> HIDE DEF q
  <2> QED BY <2>4, <2>9, <2>10, <2>11 DEF Read
<1> QED
  BY <1>6, <1>7, <1>8, <1>9, <1>10, <1>11, <1>12 DEF Special

-----------------------------------------------------------------------------
(* Arguments are a dictionary, so that a key is there once.                 *)
Keyed(args) == \A i, j \in DOMAIN args : args[i].key = args[j].key => i = j

(* When the loop ends all of them have been read: by induction on its turns.*)
LEMMA AllRead ==
    ASSUME NEW args \in Seq(Argument), Keyed(args)
    PROVE  Read(ToSet(args), ArgParser(args))
<1> DEFINE N == Len(args)
           Had(n) == {args[i] : i \in 1 .. n}
<1>1. N \in Nat /\ DOMAIN args = 1 .. N /\ \A i \in 1 .. N : args[i] \in Argument
  OBVIOUS
<1>2. PICK W : /\ W[0] = NoQuery /\ ArgParser(args) = W[N]
               /\ \A n \in 1 .. N : W[n] = Parse(W[n - 1], args[n])
  <2> HIDE DEF N
  <2> QED BY <1>1, TurnsOfLoop
<1> DEFINE T == {n \in 0 .. N : IsFiniteSet(Had(n)) /\ Read(Had(n), W[n])}
<1>3. 0 \in T
  <2>1. Had(0) = {}
    OBVIOUS
  <2>2. W[0] = NoQuery /\ 0 \in 0 .. N
    BY <1>1, <1>2
  <2> HIDE DEF Had, N
  <2> QED BY <2>1, <2>2, NothingRead, FS_EmptySet
<1>4. ASSUME NEW n \in 1 .. N, n - 1 \in T PROVE n \in T
  <2>1. IsFiniteSet(Had(n - 1)) /\ Read(Had(n - 1), W[n - 1])
    BY <1>4
  <2>2. Had(n) = Had(n - 1) \cup {args[n]}
    <3>1. 1 .. n = (1 .. n - 1) \cup {n}
      BY <1>1
    <3> QED BY <3>1
  <2>3. \A other \in Had(n - 1) : other.key # args[n].key
    BY <1>1 DEF Keyed
  <2>4. W[n] = Parse(W[n - 1], args[n]) /\ args[n] \in Argument /\ n \in 0 .. N
    BY <1>1, <1>2
  <2>5. IsFiniteSet(Had(n))
    <3> DEFINE H == Had(n - 1)
               arg == args[n]
    <3>1. IsFiniteSet(H) /\ Had(n) = H \cup {arg}
      BY <2>1, <2>2
    <3> HIDE DEF Had, H, arg
    <3>2. IsFiniteSet(H \cup {arg})
      BY <3>1, FS_AddElement
    <3> QED BY <3>1, <3>2
  <2>6. Read(Had(n), W[n])
    <3> DEFINE H == Had(n - 1)
    <3> HIDE DEF Had, H
    <3>1. Read(H \cup {args[n]}, Parse(W[n - 1], args[n]))
      BY <2>1, <2>3, <2>4, TurnReads DEF H
    <3> QED BY <2>2, <2>4, <3>1 DEF H
  <2> HIDE DEF Had
  <2> QED BY <2>4, <2>5, <2>6
<1>5. N \in T
  <2> HIDE DEF T
  <2> QED BY <1>1, <1>3, <1>4, NumbersUpTo
<1>6. Had(N) = ToSet(args)
  BY <1>1 DEF ToSet
<1> QED BY <1>2, <1>5, <1>6

(* The same arguments from the last to the first.                           *)
LEMMA Reversed ==
    ASSUME NEW args \in Seq(Argument), Keyed(args)
    PROVE  /\ Reverse(args) \in Seq(Argument) /\ Keyed(Reverse(args))
           /\ ToSet(Reverse(args)) = ToSet(args)
<1> DEFINE N == Len(args)
           back == Reverse(args)
<1>1. N \in Nat /\ DOMAIN args = 1 .. N /\ \A i \in 1 .. N : args[i] \in Argument
  OBVIOUS
<1>2. /\ back = [i \in 1 .. N |-> args[N - i + 1]] /\ DOMAIN back = 1 .. N
      /\ \A i \in 1 .. N : back[i] = args[N - i + 1] /\ N - i + 1 \in 1 .. N
  BY <1>1 DEF Reverse
<1> HIDE DEF back, N
<1>3. back \in Seq(Argument)
  BY <1>1, <1>2
<1>4. Keyed(back)
  <2>1. ASSUME NEW i \in 1 .. N, NEW j \in 1 .. N, back[i].key = back[j].key PROVE i = j
    <3>1. N - i + 1 \in 1 .. N /\ N - j + 1 \in 1 .. N
      BY <1>1
    <3>2. args[N - i + 1].key = args[N - j + 1].key
      BY <1>2, <2>1
    <3>3. N - i + 1 = N - j + 1
      BY <1>1, <3>1, <3>2 DEF Keyed
    <3> QED BY <1>1, <3>3
  <2> QED BY <1>2, <2>1 DEF Keyed
<1>5. \A i \in 1 .. N : N - i + 1 \in 1 .. N /\ args[i] = back[N - i + 1]
  BY <1>1, <1>2
<1>6. ToSet(back) = ToSet(args)
  <2>1. ASSUME NEW x \in ToSet(back) PROVE x \in ToSet(args)
    BY <1>1, <1>2 DEF ToSet
  <2>2. ASSUME NEW x \in ToSet(args) PROVE x \in ToSet(back)
    <3>1. PICK i \in 1 .. N : x = args[i]
      BY <1>1 DEF ToSet
    <3>2. N - i + 1 \in DOMAIN back /\ x = back[N - i + 1]
      BY <1>2, <1>5, <3>1
    <3> QED BY <3>2 DEF ToSet
  <2> QED BY <2>1, <2>2
<1> QED BY <1>3, <1>4, <1>6 DEF back

(* The arguments of a request are a dictionary, which has no order to speak *)
(* of: in whatever order arg_parser() comes to them it fails or does not,   *)
(* and asks for the same stages and the same page (models.py:171-309).      *)
THEOREM ArgumentsInAnyOrder ==
    ASSUME NEW args \in Seq(Argument), NEW other \in Seq(Argument),
           \A i, j \in DOMAIN args : args[i].key = args[j].key => i = j,
           \A i, j \in DOMAIN other : other[i].key = other[j].key => i = j,
           ToSet(args) = ToSet(other)
    PROVE  LET p == ArgParser(args)
               q == ArgParser(other)
           IN  /\ p.failed = q.failed
               /\ ~p.failed => /\ ToSet(p.query) = ToSet(q.query)
                               /\ Len(p.query) = Len(q.query)
                               /\ p.skip = q.skip /\ p.limit = q.limit
<1> DEFINE p == ArgParser(args)
           q == ArgParser(other)
           S == ToSet(args)
<1>1. Read(S, p) /\ Read(S, q)
  BY AllRead DEF Keyed
<1> HIDE DEF p, q, S
<1>2. p.failed = q.failed
  BY <1>1 DEF Read
<1>3. ASSUME ~p.failed
      PROVE  /\ ToSet(p.query) = ToSet(q.query) /\ Len(p.query) = Len(q.query)
             /\ Gives("skip", 0, S, p.skip) /\ Gives("skip", 0, S, q.skip)
             /\ Gives("limit", 100, S, p.limit) /\ Gives("limit", 100, S, q.limit)
  BY <1>1, <1>2, <1>3 DEF Read
<1>4. \A name, default, m, n :
         Gives(name, default, S, m) /\ Gives(name, default, S, n) => m = n
  BY DEF Gives
<1>5. ~p.failed => p.skip = q.skip /\ p.limit = q.limit
  BY <1>3, <1>4
<1> QED BY <1>2, <1>3, <1>5 DEF p, q

(* Shorter names that a name begins with come after it.                     *)
LEMMA FirstOperator ==
    ASSUME NEW i \in DOMAIN Operators,
           NEW j \in DOMAIN Operators, Operators[j] \in Begins(Operators[i])
    PROVE  i <= j
BY DEF Begins, Operators, ToSet

(* What else is used of the names.                                          *)
LEMMA OperatorsAre ==
    /\ DOMAIN Operators = 1 .. 11 /\ "is" \notin ToSet(Operators)
    /\ \A op \in ToSet(Operators) : op \in Begins(op)
    /\ \A segment : Begins(segment) \subseteq ToSet(Operators)
BY DEF Operators, ToSet, Begins

(* The operator found in a legible key is its last segment, and the field   *)
(* is what comes before.                                                    *)
LEMMA SpelledOut ==
    ASSUME NEW arg \in Argument,
           \A k \in 2 .. Len(arg.key) :
              Begins(arg.key[k]) = {} \/ (k = Len(arg.key) /\ arg.key[k] \in ToSet(Operators))
    PROVE  [field |-> StageOf(arg).field, op |-> StageOf(arg).op] = Spelled(arg)
<1> DEFINE key == arg.key
           L == Len(key)
           o == key[L]
           op == UsedOper(key)
<1>1. key \in Seq(STRING) /\ key # <<>> /\ L \in Nat /\ L >= 1
  BY DEF Argument
<1>2. StageOf(arg).field = Field(key, op) /\ StageOf(arg).op = op
  BY DEF StageOf
<1>3. ASSUME \A k \in 2 .. L : Begins(key[k]) = {}
      PROVE  op = "is" /\ Field(key, "is") = key /\ ~(L > 1 /\ o \in ToSet(Operators))
  <2>1. \A name : ~Holds(key, name)
    BY <1>3 DEF Holds
  <2>2. {i \in DOMAIN Operators : Holds(key, Operators[i])} = {}
    BY <2>1
  <2>3. op = "is"
    BY <2>2 DEF UsedOper
  <2>4. {i \in 2 .. Len(key) : "is" \in Begins(key[i])} = {}
    BY <1>3
  <2>5. ASSUME L > 1, o \in ToSet(Operators) PROVE FALSE
    <3>1. L \in 2 .. L
      BY <1>1, <2>5
    <3>2. Begins(o) = {}
      BY <1>3, <3>1
    <3> QED BY <2>5, <3>2, OperatorsAre
  <2> QED BY <2>3, <2>4, <2>5 DEF Field
<1>4. ASSUME NEW k \in 2 .. L, Begins(key[k]) # {}
      PROVE  op = o /\ Field(key, o) = Front(key) /\ L > 1 /\ o \in ToSet(Operators)
  <2>1. k = L /\ L > 1 /\ o \in ToSet(Operators)
    <3>1. k = L /\ key[k] \in ToSet(Operators)
      BY <1>4
    <3> QED BY <1>1, <3>1
  <2>2. \A i \in 2 .. L : i # L => Begins(key[i]) = {}
    BY <1>1
  <2>3. \A name : Holds(key, name) <=> name \in Begins(o)
    BY <1>1, <2>1, <2>2 DEF Holds
  <2>4. PICK n \in DOMAIN Operators : o = Operators[n]
    BY <2>1 DEF ToSet
  <2> DEFINE held == {i \in DOMAIN Operators : Holds(key, Operators[i])}
  <2>5. n \in held /\ held \subseteq Int /\ \A i \in held : n <= i
    <3>1. n \in held
      BY <2>1, <2>3, <2>4, OperatorsAre
    <3>2. held \subseteq Int
      BY OperatorsAre
    <3>3. ASSUME NEW i \in held PROVE n <= i
      BY <2>3, <2>4, FirstOperator
    <3> QED BY <3>1, <3>2, <3>3
  <2>6. Min(held) = n
    <3> HIDE DEF held
    <3> QED BY <2>5, MinIs
  <2>7. op = o
    BY <2>4, <2>5, <2>6 DEF UsedOper
  <2> DEFINE ends == {i \in 2 .. Len(key) : o \in Begins(key[i])}
  <2>8. ends = {L}
    BY <1>1, <2>1, <2>2, OperatorsAre
  <2>9. (CHOOSE i \in ends : \A j \in ends : i <= j) = L
    <3>1. \A j \in {L} : L <= j
      BY <1>1
    <3> HIDE DEF ends
    <3> QED BY <2>8, <3>1
  <2>10. Field(key, o) = SubSeq(key, 1, L - 1)
    BY <2>8, <2>9 DEF Field
  <2> QED BY <2>1, <2>7, <2>10 DEF Front
<1>5. CASE \A k \in 2 .. L : Begins(key[k]) = {}
  <2> HIDE DEF op
  <2> QED BY <1>2, <1>3, <1>5 DEF Spelled
<1>6. CASE \E k \in 2 .. L : Begins(key[k]) # {}
  <2>1. op = o /\ Field(key, o) = Front(key) /\ L > 1 /\ o \in ToSet(Operators)
    BY <1>4, <1>6
  <2> HIDE DEF op
  <2> QED BY <1>2, <2>1 DEF Spelled
<1> QED BY <1>5, <1>6

(* A page of n documents has those that are after skip and not after        *)
(* skip + limit.                                                            *)
LEMMA PageSize ==
    ASSUME NEW R, NEW found \in Seq(R), NEW p, p.skip \in Nat, p.limit \in Nat
    PROVE  LET page == Page(found, p)
           IN  /\ page.total_count = Len(found)
               /\ page.count_returned =
                     Cardinality({i \in 1 .. Len(found) : i > p.skip /\ i <= p.skip + p.limit})
<1> DEFINE n == Len(found)
           last == IF p.skip + p.limit < n THEN p.skip + p.limit ELSE n
           page == SubSeq(found, p.skip + 1, last)
           S == {i \in 1 .. n : i > p.skip /\ i <= p.skip + p.limit}
<1>1. /\ Page(found, p).total_count = n /\ Page(found, p).count_returned = Len(page)
      /\ n \in Nat
  BY DEF Page
<1>2. last \in Nat /\ last <= n
  BY <1>1
<1>3. S = p.skip + 1 .. last
  BY <1>1
<1>4. Cardinality(S) = IF p.skip + 1 > last THEN 0 ELSE last - p.skip
  <2>1. p.skip + 1 \in Int /\ last \in Int
    BY <1>2
  <2>2. Cardinality(p.skip + 1 .. last)
           = IF p.skip + 1 > last THEN 0 ELSE last - (p.skip + 1) + 1
    BY <2>1, FS_Interval, Zenon
  <2> HIDE DEF last, S
  <2> QED BY <1>2, <1>3, <2>2
<1>5. Len(page) = IF p.skip + 1 > last THEN 0 ELSE last - p.skip
  <2> HIDE DEF last
  <2>1. CASE p.skip + 1 > last
    <3>1. page = <<>>
      BY <1>1, <1>2, <2>1
    <3> QED BY <2>1, <3>1
  <2>2. CASE ~(p.skip + 1 > last)
    BY <1>1, <1>2, <2>2
  <2> QED BY <2>1, <2>2
<1> QED BY <1>1, <1>4, <1>5

(* The documents that are found are as many as there are.                   *)
LEMMA FoundIsSequence ==
    ASSUME NEW S, IsFiniteSet(S)
    PROVE  SetToSeq(S) \in Seq(S)
<1>1. Cardinality(S) \in Nat /\ ExistsBijection(1 .. Cardinality(S), S)
  BY FS_CardinalityType
<1>2. \E f \in [1 .. Cardinality(S) -> S] : IsInjective(f)
  BY <1>1 DEF ExistsBijection, Bijection, Injection
<1>3. SetToSeq(S) \in [1 .. Cardinality(S) -> S]
  BY <1>2 DEF SetToSeq
<1> QED BY <1>1, <1>3

-----------------------------------------------------------------------------
(* What the arguments say of a number, as Asked has it for a report.        *)
Given(args, name, default) ==
    IF \E i \in DOMAIN args : args[i].key = <<name>>
    THEN Number[(CHOOSE arg \in ToSet(args) : arg.key = <<name>>).val[1]]
    ELSE default

LEMMA GivenIsRead ==
    ASSUME NEW name, NEW default, NEW n, NEW args, Gives(name, default, ToSet(args), n)
    PROVE  n = Given(args, name, default)
<1>1. CASE \E i \in DOMAIN args : args[i].key = <<name>>
  <2>1. \E arg \in ToSet(args) : arg.key = <<name>>
    BY <1>1 DEF ToSet
  <2> DEFINE it == CHOOSE arg \in ToSet(args) : arg.key = <<name>>
  <2>2. it \in ToSet(args) /\ it.key = <<name>>
    BY <2>1
  <2> HIDE DEF it
  <2>3. n = Number[it.val[1]]
    BY <2>2 DEF Gives
  <2> QED BY <1>1, <2>3 DEF it, Given
<1>2. CASE ~\E i \in DOMAIN args : args[i].key = <<name>>
  <2>1. \A arg \in ToSet(args) : arg.key # <<name>>
    BY <1>2 DEF ToSet
  <2> QED BY <1>2, <2>1 DEF Gives, Given
<1> QED BY <1>1, <1>2

(* The report that a search makes.                                          *)
LEMMA SearchMeans ==
    ASSUME IInv, NEW args \in Searches, Legible(args), SearchExecutions(args)
    PROVE  SearchMeansItsKeys'
<1> DEFINE parsed == ArgParser(args)
           S == ToSet(args)
<1>1. args \in Seq(Argument) /\ Keyed(args)
  BY DEF Legible, Keyed
<1>2. Read(S, parsed) /\ Read(S, ArgParser(Reverse(args)))
  BY <1>1, AllRead, Reversed
<1>3. PICK found \in SUBSET Secured :
         report' = [kind |-> "search", pc |-> "done", args |-> args, parsed |-> parsed,
                    page |-> IF parsed.failed THEN Page(<<>>, parsed)
                             ELSE Page(SetToSeq(found), parsed)]
  BY DEF SearchExecutions
<1>4. /\ report'.kind = "search" /\ report'.args = args /\ report'.parsed = parsed
      /\ ~parsed.failed => report'.page = Page(SetToSeq(found), parsed)
  BY <1>3
<1>5. ArgParser(Reverse(args)).failed = parsed.failed
  BY <1>2 DEF Read
<1>6. Plain(S) = {arg \in S : arg.key \notin Special}
  BY DEF Plain
<1>7. ASSUME ~parsed.failed
      PROVE  /\ {[field |-> s.field, op |-> s.op] : s \in ToSet(parsed.query)}
                   = {Spelled(arg) : arg \in Plain(S)}
             /\ Len(parsed.query) = Cardinality(Plain(S))
             /\ Gives("skip", 0, S, parsed.skip) /\ Gives("limit", 100, S, parsed.limit)
  <2>1. /\ ToSet(parsed.query) = {StageOf(arg) : arg \in Plain(S)}
        /\ Len(parsed.query) = Cardinality(Plain(S))
        /\ Gives("skip", 0, S, parsed.skip) /\ Gives("limit", 100, S, parsed.limit)
    BY <1>2, <1>7 DEF Read
  <2>2. ASSUME NEW arg \in Plain(S)
        PROVE  [field |-> StageOf(arg).field, op |-> StageOf(arg).op] = Spelled(arg)
    <3>1. arg \in S
      BY DEF Plain
    <3>2. arg \in Argument
      BY <1>1, <3>1 DEF ToSet
    <3>3. \A k \in 2 .. Len(arg.key) :
             Begins(arg.key[k]) = {} \/ (k = Len(arg.key) /\ arg.key[k] \in ToSet(Operators))
      BY <3>1 DEF Legible
    <3> QED BY <3>2, <3>3, SpelledOut
  <2> HIDE DEF parsed, S
  <2>3. {[field |-> s.field, op |-> s.op] : s \in ToSet(parsed.query)}
           = {[field |-> StageOf(arg).field, op |-> StageOf(arg).op] : arg \in Plain(S)}
    BY <2>1
  <2>4. {[field |-> StageOf(arg).field, op |-> StageOf(arg).op] : arg \in Plain(S)}
           = {Spelled(arg) : arg \in Plain(S)}
    BY <2>2
  <2> QED BY <2>1, <2>3, <2>4
<1>8. ASSUME ~parsed.failed
      PROVE  report'.page.count_returned =
                Cardinality({i \in 1 .. report'.page.total_count :
                                i > parsed.skip /\ i <= parsed.skip + parsed.limit})
  <2>1. SetToSeq(found) \in Seq(found)
    <3>1. found \subseteq Saved /\ IsFiniteSet(Saved)
      BY DEF Secured, IInv, ExecsFit
    <3>2. IsFiniteSet(found)
      BY <3>1, FS_Subset
    <3> QED BY <3>2, FoundIsSequence
  <2>2. parsed.skip \in Nat /\ parsed.limit \in Nat
    BY <1>7, <1>8 DEF Gives
  <2> HIDE DEF parsed
  <2>3. /\ Page(SetToSeq(found), parsed).total_count = Len(SetToSeq(found))
        /\ Page(SetToSeq(found), parsed).count_returned =
              Cardinality({i \in 1 .. Len(SetToSeq(found)) :
                              i > parsed.skip /\ i <= parsed.skip + parsed.limit})
    BY <2>1, <2>2, PageSize
  <2> QED BY <1>4, <1>8, <2>3
<1>9. ASSUME ~parsed.failed
      PROVE  Asked("skip", 0)' = parsed.skip /\ Asked("limit", 100)' = parsed.limit
  <2> HIDE DEF parsed
  <2>1. Gives("skip", 0, ToSet(args), parsed.skip) /\ Gives("limit", 100, ToSet(args), parsed.limit)
    BY <1>7, <1>9
  <2>2. /\ Asked("skip", 0)' = Given(args, "skip", 0)
        /\ Asked("limit", 100)' = Given(args, "limit", 100)
    BY <1>4 DEF Asked, Given
  <2>3. parsed.skip = Given(args, "skip", 0)
    BY <2>1, GivenIsRead
  <2>4. parsed.limit = Given(args, "limit", 100)
    BY <2>1, GivenIsRead
  <2> QED BY <2>2, <2>3, <2>4
<1> HIDE DEF parsed
<1> QED BY <1>4, <1>5, <1>6, <1>7, <1>8, <1>9 DEF SearchMeansItsKeys

(* No other step makes such a report.                                       *)
LEMMA OtherReports ==
    ASSUME IInv, [Next]_vars, ~\E args \in Searches : SearchExecutions(args)
    PROVE  report' = report \/ report'.kind # "search"
<1>1. ASSUME NEW a \in Actor, DeleteActor(a) PROVE report' = report \/ report'.kind # "search"
  <2>1. report' = Crossed(a)
    BY <1>1 DEF DeleteActor
  <2>2. CASE report.kind \in Walks
    <3>1. report' = report \/ report' = [report EXCEPT !.crossed = TRUE]
      BY <2>1 DEF Crossed
    <3>2. DOMAIN report = WalkFields
      BY <2>2 DEF IInv, ReportFits, WalkFits
    <3> QED BY <2>2, <3>1, <3>2 DEF WalkFields, Walks
  <2>3. CASE report.kind \notin Walks
    BY <2>1, <2>3 DEF Crossed, Walks
  <2> QED BY <2>2, <2>3
<1>2. ASSUME NEW a \in Actor, VisitActor(a) \/ CheckListed(a)
      PROVE  report'.kind # "search"
  <2>1. report.kind \in Walks
    BY <1>2 DEF VisitActor, CheckListed, Walks
  <2>2. DOMAIN report = WalkFields
    BY <2>1 DEF IInv, ReportFits, WalkFits
  <2>3. report'.kind = report.kind
    <3>1. CASE VisitActor(a)
      BY <2>2, <3>1 DEF VisitActor, WalkFields
    <3>2. CASE CheckListed(a)
      BY <2>2, <3>2 DEF CheckListed, WalkFields
    <3> QED BY <1>2, <3>1, <3>2
  <2> QED BY <2>1, <2>3 DEF Walks
<1>3. ASSUME EndActors PROVE report'.kind # "search"
  <2>1. report.kind \in Walks
    BY <1>3 DEF EndActors, Walks
  <2>2. DOMAIN report = WalkFields
    BY <2>1 DEF IInv, ReportFits, WalkFits
  <2> QED BY <1>3, <2>1, <2>2 DEF EndActors, Walks, WalkFields
<1>4. ASSUME \/ ReadTotal \/ ReadLen \/ \E e \in Execution : VisitExecution(e)
      PROVE  report'.kind # "search"
  <2>1. report.kind = "executions"
    BY <1>4 DEF ReadTotal, ReadLen, VisitExecution
  <2>2. DOMAIN report = ExecFields
    BY <2>1 DEF IInv, ReportFits, ExecutionsFit
  <2>3. report' = NoReport \/ report'.kind = report.kind
    BY <1>4, <2>2 DEF ReadTotal, ReadLen, VisitExecution, ExecFields
  <2> QED BY <2>1, <2>3 DEF NoReport
<1>5. ASSUME ReadUtilizationTotal PROVE report'.kind # "search"
  <2>1. report.kind = "utilization"
    BY <1>5 DEF ReadUtilizationTotal
  <2>2. DOMAIN report = {"kind", "pc", "current", "total"}
    BY <2>1 DEF IInv, ReportFits, UtilizationFits
  <2> QED BY <1>5, <2>1, <2>2 DEF ReadUtilizationTotal, NoReport
<1>6. ASSUME \/ ReportExecutions \/ ReportActors \/ ListActors \/ ReportUtilization \/ Answer
             \/ \E a \in Actor : GetExecutions(a)
      PROVE  report'.kind # "search"
  <2>1. CASE ReportExecutions
    BY <2>1 DEF ReportExecutions
  <2>2. CASE ReportActors \/ \E a \in Actor : GetExecutions(a)
    BY <2>2 DEF ReportActors, GetExecutions, Walk
  <2>3. CASE ListActors
    <3>1. DOMAIN Walk("mine", actors) = WalkFields /\ Walk("mine", actors).kind = "mine"
      BY DEF Walk, WalkFields
    <3> QED BY <2>3, <3>1 DEF ListActors, WalkFields
  <2>4. CASE ReportUtilization \/ Answer
    BY <2>4 DEF ReportUtilization, Answer, NoReport
  <2> QED BY <1>6, <2>1, <2>2, <2>3, <2>4
<1>7. ASSUME \/ \E a \in Actor : \/ PostActor(a) \/ CountActor(a) \/ PutActor(a) \/ SaveActor(a)
             \/ \E e \in Execution : \/ \E a \in Actor : ReadActor(e, a)
                                     \/ \E c \in Cost : FinalizeCost(e, c)
                                     \/ SaveExecution(e) \/ FinalizeStatus(e)
             \/ UNCHANGED vars
      PROVE  report' = report
  BY <1>7 DEF PostActor, CountActor, PutActor, SaveActor, ReadActor, FinalizeCost,
     SaveExecution, FinalizeStatus, vars
<1> QED
  BY <1>1, <1>2, <1>3, <1>4, <1>5, <1>6, <1>7 DEF Next

(* A search asks for what each of its arguments spells, whatever stands     *)
(* beside them and in whatever order they come, if nothing in their keys    *)
(* but an operator at the end is or begins like one (models.py:171-309,     *)
(* 324).                                                                    *)
THEOREM SearchesMeanTheirKeys ==
    ASSUME \A args \in Searches : Legible(args)
    PROVE  Spec => []SearchMeansItsKeys
<1>1. Init => SearchMeansItsKeys
  BY DEF Init, NoReport, SearchMeansItsKeys
<1>2. IInv /\ SearchMeansItsKeys /\ [Next]_vars => SearchMeansItsKeys'
  <2> SUFFICES ASSUME IInv, SearchMeansItsKeys, [Next]_vars
               PROVE  SearchMeansItsKeys'
    OBVIOUS
  <2>1. CASE \E args \in Searches : SearchExecutions(args)
    BY <2>1, SearchMeans
  <2>2. CASE report' = report
    <3>1. Asked("skip", 0)' = Asked("skip", 0) /\ Asked("limit", 100)' = Asked("limit", 100)
      BY <2>2 DEF Asked
    <3> QED BY <2>2, <3>1 DEF SearchMeansItsKeys
  <2>3. CASE report'.kind # "search"
    BY <2>3 DEF SearchMeansItsKeys
  <2> QED BY <2>1, <2>2, <2>3, OtherReports
<1> QED BY <1>1, <1>2, SpecFits, PTL DEF Spec
=============================================================================
