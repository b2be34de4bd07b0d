-------------------------- MODULE ActorStateProofs --------------------------
(* Proofs about the documents of actors, for every set of actors, aliases   *)
(* and handlers and everything that requests may ask for: the walk of       *)
(* has_cycles() finds the cycles, linked actors form one only after a race, *)
(* and stateful actors stay stateful.                                       *)
EXTENDS ActorState, FiniteSetTheorems, TLAPS

JobRecord == [actor : Actor \cup {NoActor}, link : Link, stale : BOOLEAN]

-----------------------------------------------------------------------------
(* The walk.                                                                *)

(* A family of subsets of a finite set has one that contains no other one.  *)
LEMMA MinimalSubset ==
    ASSUME NEW S, IsFiniteSet(S), NEW F, F \subseteq SUBSET S, F # {}
    PROVE  \E T \in F : \A U \in F : U \subseteq T => U = T
<1>1. FiniteSubsetsOf(S) = SUBSET S
  BY FS_FiniteSubsetsOfFinite
<1>2. IsWellFoundedOn(StrictSubsetOrdering(S), SUBSET S)
  BY <1>1, FS_StrictSubsetOrderingWellFounded
<1>3. PICK T \in F : \A U \in F : ~(<<U, T>> \in StrictSubsetOrdering(S))
  BY <1>2, WFMin
<1>4. ASSUME NEW U \in F, U \subseteq T PROVE U = T
  BY <1>3, <1>4 DEF StrictSubsetOrdering
<1> QED BY <1>4

(* From here the links lead to a visited node, or round.                    *)
Loops(links, v, c) ==
    /\ c \in DOMAIN links
    /\ \E S \in SUBSET DOMAIN links : c \in S /\ \A x \in S : links[x] \in v \cup S

(* One link further, as has_cycles() goes.                                  *)
Step(links, W) ==
    [v \in SUBSET Actor |->
        [c \in Actor |-> /\ c \in DOMAIN links
                         /\ \/ links[c] \in v
                            \/ W[v \cup {links[c]}][links[c]]]]

(* Every link leads to an actor.                                            *)
IsGraph(links) == DOMAIN links \subseteq Actor /\ \A a \in DOMAIN links : links[a] \in Actor

(* Going one link further changes nothing of what comes of it: this is the  *)
(* equation of the walk, ...                                                *)
LEMMA LoopsAgain ==
    ASSUME NEW links, IsGraph(links), NEW v \in SUBSET Actor, NEW c \in Actor
    PROVE  Loops(links, v, c) <=> /\ c \in DOMAIN links
                                  /\ \/ links[c] \in v
                                     \/ Loops(links, v \cup {links[c]}, links[c])
<1> DEFINE D == DOMAIN links
           d == links[c]
<1>1. ASSUME Loops(links, v, c), d \notin v
      PROVE  c \in D /\ Loops(links, v \cup {d}, d)
  <2>1. PICK S \in SUBSET D : c \in S /\ \A x \in S : links[x] \in v \cup S
    BY <1>1 DEF Loops
  <2>2. d \in S
    BY <1>1, <2>1
  <2> QED BY <2>1, <2>2 DEF Loops
<1>2. ASSUME c \in D, d \in v PROVE Loops(links, v, c)
  <2>1. /\ {c} \in SUBSET D /\ c \in {c}
        /\ \A x \in {c} : links[x] \in v \cup {c}
    BY <1>2
  <2> QED BY <1>2, <2>1 DEF Loops
<1>3. ASSUME c \in D, Loops(links, v \cup {d}, d) PROVE Loops(links, v, c)
  <2>1. PICK S \in SUBSET D : d \in S /\ \A x \in S : links[x] \in (v \cup {d}) \cup S
    BY <1>3 DEF Loops
  <2> DEFINE R == S \cup {c}
  <2>2. R \in SUBSET D /\ c \in R /\ \A x \in R : links[x] \in v \cup R
    BY <1>3, <2>1
  <2> QED BY <1>3, <2>2 DEF Loops
<1> QED BY <1>1, <1>2, <1>3 DEF Loops

(* ... so that there is a walk, ...                                         *)
LEMMA WalkExists ==
    ASSUME NEW links, IsGraph(links)
    PROVE  \E W : W = Step(links, W)
<1> DEFINE W == [v \in SUBSET Actor |-> [c \in Actor |-> Loops(links, v, c)]]
<1>1. ASSUME NEW v \in SUBSET Actor, NEW c \in Actor
      PROVE  W[v][c] = /\ c \in DOMAIN links
                        /\ \/ links[c] \in v
                           \/ W[v \cup {links[c]}][links[c]]
  <2>1. CASE c \in DOMAIN links
    <3>1. links[c] \in Actor /\ v \cup {links[c]} \in SUBSET Actor
      BY <2>1 DEF IsGraph
    <3>2. W[v \cup {links[c]}][links[c]] = Loops(links, v \cup {links[c]}, links[c])
      BY <3>1
    <3>3. W[v][c] = Loops(links, v, c)
      OBVIOUS
    <3>4. Loops(links, v, c) \in BOOLEAN /\ Loops(links, v \cup {links[c]}, links[c]) \in BOOLEAN
      BY DEF Loops
    <3> QED BY <2>1, <3>2, <3>3, <3>4, LoopsAgain
  <2>2. CASE c \notin DOMAIN links
    BY <2>2 DEF Loops
  <2> QED BY <2>1, <2>2
<1>2. W = Step(links, W)
  BY <1>1 DEF Step
<1> QED BY <1>2

(* ... and there is no other: of the places where two walks differ, one has *)
(* the fewest actors left to visit, and its next place has fewer.           *)
LEMMA WalkLoops ==
    ASSUME NEW links, IsGraph(links), IsFiniteSet(DOMAIN links),
           NEW W, W = Step(links, W),
           NEW v \in SUBSET Actor, NEW c \in Actor
    PROVE  W[v][c] <=> Loops(links, v, c)
<1> DEFINE D == DOMAIN links
           Differ(w, d) == ~(W[w][d] <=> Loops(links, w, d))
           F == {D \ w : w \in {u \in SUBSET Actor : \E d \in Actor : Differ(u, d)}}
<1>0. ASSUME NEW w \in SUBSET Actor, NEW d \in Actor
      PROVE  W[w][d] = /\ d \in D
                       /\ \/ links[d] \in w
                          \/ W[w \cup {links[d]}][links[d]]
  <2> DEFINE B == Step(links, W)
  <2>1. B[w][d] = /\ d \in D
                  /\ \/ links[d] \in w
                     \/ W[w \cup {links[d]}][links[d]]
    BY DEF Step
  <2>2. W = B
    OBVIOUS
  <2> HIDE DEF B
  <2> QED BY <2>1, <2>2
<1>1. SUFFICES ASSUME F # {} PROVE FALSE
  OBVIOUS
<1>2. PICK T \in F : \A U \in F : U \subseteq T => U = T
  <2>1. F \subseteq SUBSET D
    OBVIOUS
  <2> HIDE DEF F
  <2> QED BY <1>1, <2>1, MinimalSubset
<1>3. PICK w \in SUBSET Actor, d \in Actor : T = D \ w /\ Differ(w, d)
  OBVIOUS
<1>4. W[w][d] = /\ d \in D
                /\ \/ links[d] \in w
                   \/ W[w \cup {links[d]}][links[d]]
  BY <1>0
<1>5. d \in D /\ links[d] \notin w /\ links[d] \in Actor
      /\ Differ(w \cup {links[d]}, links[d])
  BY <1>3, <1>4, LoopsAgain DEF IsGraph
<1> DEFINE u == w \cup {links[d]}
<1>6. links[d] \notin D
  <2>1. D \ u \in F
    BY <1>5
  <2>2. D \ u = D \ w
    BY <1>2, <1>3, <2>1
  <2> QED BY <1>5, <2>2
<1>7. ~W[u][links[d]] /\ ~Loops(links, u, links[d])
  <2>1. u \in SUBSET Actor
    BY <1>5
  <2>2. W[u][links[d]] = /\ links[d] \in D
                         /\ \/ links[links[d]] \in u
                            \/ W[u \cup {links[links[d]]}][links[links[d]]]
    BY <1>0, <1>5, <2>1
  <2> QED BY <1>6, <2>2 DEF Loops
<1> QED BY <1>5, <1>7

(* has_cycles() finds the cycles of any finite set of links.                *)
THEOREM WalkAnswers ==
    ASSUME NEW links, IsGraph(links), IsFiniteSet(DOMAIN links)
    PROVE  HasCycles(links) <=> Cyclic(links)
<1> DEFINE W == CHOOSE W : W = Step(links, W)
<1>1. HasCycles(links) = \E k \in DOMAIN links : W[{k, links[k]}][links[k]]
  BY DEF HasCycles, Step
<1>2. W = Step(links, W)
  BY WalkExists
<1> HIDE DEF W
<1>3. ASSUME NEW k \in DOMAIN links
      PROVE  W[{k, links[k]}][links[k]] <=> Loops(links, {k, links[k]}, links[k])
  BY <1>2, <1>3, WalkLoops DEF IsGraph
<1>4. ASSUME NEW k \in DOMAIN links, Loops(links, {k, links[k]}, links[k])
      PROVE  Cyclic(links)
  <2>1. PICK S \in SUBSET DOMAIN links :
            links[k] \in S /\ \A x \in S : links[x] \in {k, links[k]} \cup S
    BY <1>4 DEF Loops
  <2>2. /\ S \cup {k} \in SUBSET DOMAIN links /\ S \cup {k} # {}
        /\ \A x \in S \cup {k} : links[x] \in S \cup {k}
    BY <2>1
  <2> QED BY <2>2 DEF Cyclic
<1>5. ASSUME Cyclic(links)
      PROVE  \E k \in DOMAIN links : Loops(links, {k, links[k]}, links[k])
  <2>1. PICK S \in SUBSET DOMAIN links : S # {} /\ \A x \in S : links[x] \in S
    BY <1>5 DEF Cyclic
  <2>2. PICK k \in S : TRUE
    BY <2>1
  <2> QED BY <2>1, <2>2 DEF Loops
<1> QED BY <1>1, <1>3, <1>4, <1>5

-----------------------------------------------------------------------------
(* Cycles.                                                                  *)

(* A link names what has existed: an actor that was created, an alias that  *)
(* was given.                                                               *)
Known(l) == /\ l \in Actor => l \in created
            /\ l \in Alias => l \in named

LinkTypes ==
    /\ actors \subseteq created /\ created \subseteq Actor /\ IsFiniteSet(created)
    /\ link \in [Actor -> Link]
    /\ alias \in [Alias -> Actor \cup {NoActor}]
    /\ job \in [Handler -> JobRecord]
    /\ raced \in BOOLEAN
    /\ \A a \in Actor : Known(link[a])
    /\ \A l \in Alias : alias[l] # NoActor => l \in named /\ alias[l] \in created
    /\ \A h \in Handler : job[h] # Idle => job[h].actor \in created /\ Known(job[h].link)

(* The links once actor a is written with link l.                           *)
Written(a, l, b) == Resolve(IF b = a THEN l ELSE link[b])
After(a, l) ==
    [b \in {c \in actors \cup {a} : Written(a, l, c) # NoActor} |-> Written(a, l, b)]

(* What a PUT that no other one crossed is about to write closes no cycle.  *)
JobSafe(h) == job[h] # Idle /\ ~job[h].stale => ~Cyclic(After(job[h].actor, job[h].link))

LinksInv == /\ LinkTypes
            /\ ~raced => ~Cyclic(Current) /\ \A h \in Handler : JobSafe(h)

-----------------------------------------------------------------------------
(* Links taken away close no cycle, ...                                     *)
LEMMA FewerLinks ==
    ASSUME NEW f, NEW g, DOMAIN f \subseteq DOMAIN g,
           \A x \in DOMAIN f : f[x] = g[x], Cyclic(f)
    PROVE  Cyclic(g)
<1>1. PICK S \in SUBSET DOMAIN f : S # {} /\ \A x \in S : f[x] \in S
  BY DEF Cyclic
<1>2. S \in SUBSET DOMAIN g /\ S # {} /\ \A x \in S : g[x] \in S
  BY <1>1
<1> QED BY <1>2 DEF Cyclic

(* ... and neither does the link of an actor that no link leads to.         *)
LEMMA NewActor ==
    ASSUME NEW f, NEW g, NEW b, DOMAIN f \subseteq DOMAIN g \cup {b},
           \A x \in DOMAIN f : f[x] # b /\ (x # b => f[x] = g[x]), Cyclic(f)
    PROVE  Cyclic(g)
<1>1. PICK S \in SUBSET DOMAIN f : S # {} /\ \A x \in S : f[x] \in S
  BY DEF Cyclic
<1> DEFINE R == S \ {b}
<1>2. R \in SUBSET DOMAIN g /\ R # {} /\ \A x \in R : g[x] \in R
  BY <1>1
<1> QED BY <1>2 DEF Cyclic

LEMMA ResolveKnown ==
    ASSUME LinkTypes, NEW l \in Link, Known(l), Resolve(l) # NoActor
    PROVE  Resolve(l) \in created
BY LinksAssumption DEF LinkTypes, Resolve, Known, Link

(* The links in the stores are finitely many, and lead to actors.           *)
LEMMA CurrentIsGraph ==
    ASSUME LinkTypes
    PROVE  IsGraph(Current) /\ IsFiniteSet(DOMAIN Current)
<1>1. DOMAIN Current \subseteq created
  BY DEF Current, Linked, LinkTypes
<1>2. ASSUME NEW a \in DOMAIN Current PROVE Current[a] \in Actor
  <2>1. a \in Actor /\ Current[a] = Resolve(link[a]) /\ Resolve(link[a]) # NoActor
    BY <1>2 DEF Current, Linked, LinkTypes
  <2>2. link[a] \in Link /\ Known(link[a])
    BY <2>1 DEF LinkTypes
  <2> QED BY <2>1, <2>2, ResolveKnown DEF LinkTypes
<1>3. IsFiniteSet(DOMAIN Current)
  BY <1>1, FS_Subset DEF LinkTypes
<1> QED BY <1>1, <1>2, <1>3 DEF IsGraph, LinkTypes

-----------------------------------------------------------------------------
LEMMA InitLinks == Init => LinksInv
<1> SUFFICES ASSUME Init PROVE LinksInv
  OBVIOUS
<1>1. LinkTypes
  BY FS_EmptySet, LinksAssumption DEF Init, LinkTypes, JobRecord, Idle, Link, Known
<1>2. ~Cyclic(Current)
  BY DEF Init, Current, Linked, Cyclic
<1> QED BY <1>1, <1>2 DEF LinksInv, JobSafe, Init

LEMMA PostActorLinks ==
    ASSUME LinksInv, NEW b \in Actor, NEW k \in Link, PostActor(b, k)
    PROVE  LinksInv'
<1> USE DEF LinksInv
<1>1. /\ b \notin created /\ b \notin actors /\ Valid(k)
      /\ created' = created \cup {b} /\ actors' = actors \cup {b}
      /\ link' = [link EXCEPT ![b] = k]
      /\ UNCHANGED <<alias, named, job, raced>>
  BY DEF PostActor, LinkTypes
<1>2. Known(k) /\ Resolve(k) # b /\ (Resolve(k) # NoActor => Resolve(k) \in created)
  BY <1>1, LinksAssumption DEF Valid, Resolve, Known, LinkTypes, Link
<1>3. \A l : Resolve(l)' = Resolve(l) /\ (Known(l) => Known(l)')
  BY <1>1 DEF Resolve, Known
<1>4. LinkTypes'
  <2>1. IsFiniteSet(created')
    BY <1>1, FS_AddElement DEF LinkTypes
  <2>2. link' \in [Actor -> Link] /\ \A a \in Actor : Known(link[a])'
    BY <1>1, <1>2 DEF LinkTypes, Known
  <2>3. \A h \in Handler : (job[h] # Idle => job[h].actor \in created /\ Known(job[h].link))'
    BY <1>1 DEF LinkTypes, Known
  <2>4. \A l \in Alias : alias[l] # NoActor => l \in named /\ alias[l] \in created'
    BY <1>1 DEF LinkTypes
  <2> QED BY <1>1, <2>1, <2>2, <2>3, <2>4 DEF LinkTypes
<1>5. ASSUME NEW x \in actors PROVE link'[x] = link[x] /\ Resolve(link[x]) # b
  <2>1. x # b /\ x \in Actor /\ Known(link[x]) /\ link[x] \in Link
    BY <1>1, <1>5 DEF LinkTypes
  <2>2. Resolve(link[x]) # NoActor => Resolve(link[x]) \in created
    BY <2>1, ResolveKnown
  <2> QED BY <1>1, <2>1, <2>2, LinksAssumption DEF LinkTypes
<1>6. link'[b] = k
  BY <1>1 DEF LinkTypes
<1>7. SUFFICES ASSUME ~raced
               PROVE  ~Cyclic(Current)' /\ \A h \in Handler : JobSafe(h)'
  BY <1>1, <1>4
<1>8. ~Cyclic(Current)'
  <2> DEFINE f == Current'
  <2>1. /\ DOMAIN f \subseteq DOMAIN Current \cup {b}
        /\ \A x \in DOMAIN f : f[x] # b /\ (x # b => f[x] = Current[x])
    BY <1>1, <1>2, <1>3, <1>5, <1>6 DEF Current, Linked
  <2>2. ~Cyclic(f)
    <3> HIDE DEF f
    <3> QED BY <1>7, <2>1, NewActor
  <2> QED BY <2>2 DEF Cyclic
<1>9. ASSUME NEW h \in Handler PROVE JobSafe(h)'
  <2> SUFFICES ASSUME job[h] # Idle, ~job[h].stale
               PROVE  ~Cyclic(After(job[h].actor, job[h].link)')
    BY <1>1 DEF JobSafe, Cyclic
  <2> DEFINE a == job[h].actor
             l == job[h].link
             f == After(a, l)'
             g == After(a, l)
  <2>1. a \in created /\ a # b /\ Known(l) /\ l \in Link
    BY <1>1 DEF LinkTypes, JobRecord
  <2>2. Resolve(l) # b
    BY <1>1, <2>1, ResolveKnown, LinksAssumption DEF LinkTypes
  <2>3. \A x \in actors \cup {a} : Written(a, l, x)' = Written(a, l, x) /\ Written(a, l, x) # b
    BY <1>1, <1>5, <2>2 DEF Written, Resolve
  <2>4. Written(a, l, b)' # b
    BY <1>1, <1>2, <1>6, <2>1 DEF Written, Resolve
  <2>5. /\ DOMAIN f \subseteq DOMAIN g \cup {b}
        /\ \A x \in DOMAIN f : f[x] # b /\ (x # b => f[x] = g[x])
    BY <1>1, <2>3, <2>4 DEF After
  <2>6. ~Cyclic(g)
    BY <1>7 DEF JobSafe
  <2> HIDE DEF f, g
  <2>7. ~Cyclic(f)
    BY <2>5, <2>6, NewActor
  <2> QED BY <2>7 DEF f
<1> QED BY <1>8, <1>9

LEMMA PutCheckLinks ==
    ASSUME LinksInv, NEW h \in Handler, NEW a \in Actor, NEW l \in Link, PutCheck(h, a, l)
    PROVE  LinksInv'
<1> USE DEF LinksInv
<1>1. /\ a \in actors /\ Valid(l)
      /\ l # NoActor => ~HasCycles(Links(a, Resolve(l)))
      /\ job' = [job EXCEPT ![h] = [actor |-> a, link |-> l, stale |-> FALSE]]
      /\ UNCHANGED <<actors, created, link, alias, named, raced>>
  BY DEF PutCheck
<1>2. Known(l) /\ (l # NoActor => Resolve(l) \in actors)
  BY <1>1, LinksAssumption DEF Valid, Resolve, Known, LinkTypes, Link
<1>3. LinkTypes'
  <2>1. job' \in [Handler -> JobRecord]
    BY <1>1 DEF LinkTypes, JobRecord
  <2>2. \A g \in Handler : job'[g] # Idle => job'[g].actor \in created /\ Known(job'[g].link)
    BY <1>1, <1>2 DEF LinkTypes
  <2> QED BY <1>1, <2>1, <2>2 DEF LinkTypes, Known
<1>4. \A b, k : After(b, k)' = After(b, k)
  BY <1>1 DEF After, Written, Resolve
<1>5. SUFFICES ASSUME ~raced
               PROVE  ~Cyclic(Current)' /\ \A g \in Handler : JobSafe(g)'
  BY <1>1, <1>3
<1>6. ~Cyclic(Current)'
  BY <1>1, <1>5 DEF Current, Linked, Resolve, Cyclic
<1>7. ~Cyclic(After(a, l))
  <2>1. CASE l = NoActor
    <3>1. /\ DOMAIN After(a, l) \subseteq DOMAIN Current
          /\ \A x \in DOMAIN After(a, l) : After(a, l)[x] = Current[x]
      BY <1>1, <2>1, LinksAssumption DEF After, Written, Current, Linked, Resolve
    <3> QED BY <1>5, <3>1, FewerLinks
  <2>2. CASE l # NoActor
    <3> DEFINE G == Links(a, Resolve(l))
    <3>1. Resolve(l) \in actors /\ Resolve(l) # NoActor
      BY <1>2, <2>2, LinksAssumption DEF LinkTypes
    <3>2. After(a, l) = G
      BY <1>1, <3>1 DEF After, Written, Links, Linked
    <3>3. IsGraph(G) /\ IsFiniteSet(DOMAIN G)
      <4>1. DOMAIN G = Linked \cup {a} /\ Linked = DOMAIN Current
        BY DEF Links, Current
      <4>2. \A x \in Linked \cup {a} : G[x] \in Actor
        BY <1>1, <3>1, <4>1, CurrentIsGraph DEF Links, IsGraph, Current, LinkTypes
      <4>3. IsFiniteSet(Linked \cup {a})
        BY <4>1, CurrentIsGraph, FS_AddElement
      <4> QED BY <4>1, <4>2, <4>3, CurrentIsGraph DEF IsGraph
    <3> QED BY <1>1, <2>2, <3>2, <3>3, WalkAnswers
  <2> QED BY <2>1, <2>2
<1>8. ASSUME NEW g \in Handler PROVE JobSafe(g)'
  <2>1. CASE g = h
    <3>1. job'[g].actor = a /\ job'[g].link = l
      BY <1>1, <2>1 DEF LinkTypes
    <3> QED BY <1>4, <1>7, <3>1 DEF JobSafe, Cyclic
  <2>2. CASE g # h
    <3>1. job'[g] = job[g]
      BY <1>1, <2>2 DEF LinkTypes
    <3> QED BY <1>4, <1>5, <3>1 DEF JobSafe, Cyclic
  <2> QED BY <2>1, <2>2
<1> QED BY <1>6, <1>8

LEMMA PutSaveLinks ==
    ASSUME LinksInv, NEW h \in Handler, PutSave(h)
    PROVE  LinksInv'
<1> USE DEF LinksInv
<1> DEFINE a == job[h].actor
           l == job[h].link
<1>1. /\ job[h] # Idle
      /\ actors' = actors \cup {a} /\ link' = [link EXCEPT ![a] = l]
      /\ raced' = (raced \/ job[h].stale)
      /\ job' = [g \in Handler |-> IF g = h \/ job[g] = Idle THEN Idle
                                   ELSE [job[g] EXCEPT !.stale = TRUE]]
      /\ UNCHANGED <<created, alias, named>>
  BY DEF PutSave
<1>2. a \in created /\ a \in Actor /\ Known(l) /\ l \in Link /\ job[h].stale \in BOOLEAN
  BY <1>1, LinksAssumption DEF LinkTypes, JobRecord
<1>3. ASSUME NEW g \in Handler, job'[g] # Idle
      PROVE  /\ job[g] # Idle /\ job'[g].stale
             /\ job'[g].actor = job[g].actor /\ job'[g].link = job[g].link
  <2>1. job[g] # Idle /\ job'[g] = [job[g] EXCEPT !.stale = TRUE] /\ job[g] \in JobRecord
    BY <1>1, <1>3 DEF LinkTypes
  <2> QED BY <2>1 DEF JobRecord
<1>4. LinkTypes'
  <2>1. job' \in [Handler -> JobRecord]
    <3>1. Idle \in JobRecord
      BY DEF Idle, JobRecord, Link
    <3>2. ASSUME NEW g \in Handler PROVE [job[g] EXCEPT !.stale = TRUE] \in JobRecord
      <4>1. job[g] \in JobRecord
        BY DEF LinkTypes
      <4> QED BY <4>1 DEF JobRecord
    <3> QED BY <1>1, <3>1, <3>2
  <2>2. \A g \in Handler : job'[g] # Idle => job'[g].actor \in created /\ Known(job'[g].link)
    BY <1>3 DEF LinkTypes
  <2>3. link' \in [Actor -> Link] /\ \A b \in Actor : Known(link'[b])
    BY <1>1, <1>2 DEF LinkTypes
  <2> QED BY <1>1, <1>2, <2>1, <2>2, <2>3 DEF LinkTypes, Known
<1>5. \A g \in Handler : JobSafe(g)'
  BY <1>3 DEF JobSafe
<1>6. ASSUME ~raced, ~job[h].stale PROVE ~Cyclic(Current)'
  <2>1. \A x \in actors \cup {a} : link'[x] = IF x = a THEN l ELSE link[x]
    BY <1>1, <1>2 DEF LinkTypes
  <2>2. Current' = After(a, l)
    BY <1>1, <2>1 DEF Current, Linked, After, Written, Resolve
  <2>3. ~Cyclic(After(a, l))
    BY <1>1, <1>6 DEF JobSafe
  <2> QED BY <2>2, <2>3 DEF Cyclic
<1> QED BY <1>1, <1>4, <1>5, <1>6

(* Deletions, and a new name.                                               *)
LEMMA SameOrFewerLinks ==
    ASSUME LinksInv, LinkTypes', actors' \subseteq actors, UNCHANGED <<link, job>>,
           raced => raced',
           \A l \in Link : Known(l) => Resolve(l)' \in {NoActor, Resolve(l)}
    PROVE  LinksInv'
<1> USE DEF LinksInv
<1> SUFFICES ASSUME ~raced
             PROVE  ~Cyclic(Current)' /\ \A h \in Handler : JobSafe(h)'
  OBVIOUS
<1>1. \A x \in actors : Resolve(link[x])' \in {NoActor, Resolve(link[x])}
  BY DEF LinkTypes
<1>2. ~Cyclic(Current)'
  <2> DEFINE f == Current'
  <2>1. DOMAIN f \subseteq DOMAIN Current /\ \A x \in DOMAIN f : f[x] = Current[x]
    BY <1>1 DEF Current, Linked
  <2>2. ~Cyclic(f)
    <3> HIDE DEF f
    <3> QED BY <2>1, FewerLinks
  <2> QED BY <2>2 DEF Cyclic
<1>3. ASSUME NEW h \in Handler PROVE JobSafe(h)'
  <2> SUFFICES ASSUME job[h] # Idle, ~job[h].stale
               PROVE  ~Cyclic(After(job[h].actor, job[h].link)')
    BY DEF JobSafe, Cyclic
  <2> DEFINE a == job[h].actor
             l == job[h].link
             f == After(a, l)'
             g == After(a, l)
  <2>1. Resolve(l)' \in {NoActor, Resolve(l)}
    BY DEF LinkTypes, JobRecord
  <2>2. \A x \in actors \cup {a} : Written(a, l, x)' \in {NoActor, Written(a, l, x)}
    BY <1>1, <2>1 DEF Written, Resolve
  <2>3. DOMAIN f \subseteq DOMAIN g /\ \A x \in DOMAIN f : f[x] = g[x]
    BY <2>2 DEF After
  <2>4. ~Cyclic(g)
    BY DEF JobSafe
  <2> HIDE DEF f, g
  <2>5. ~Cyclic(f)
    BY <2>3, <2>4, FewerLinks
  <2> QED BY <2>5 DEF f
<1> QED BY <1>2, <1>3

LEMMA DeleteActorLinks ==
    ASSUME LinksInv, NEW a \in Actor, DeleteActor(a)
    PROVE  LinksInv'
<1>1. LinkTypes'
  BY DEF DeleteActor, LinksInv, LinkTypes, Known
<1>2. \A l \in Link : Resolve(l)' = Resolve(l)
  BY DEF DeleteActor, Resolve
<1> QED BY <1>1, <1>2, SameOrFewerLinks DEF DeleteActor

LEMMA DeleteAliasLinks ==
    ASSUME LinksInv, NEW k \in Alias, DeleteAlias(k)
    PROVE  LinksInv'
<1> USE DEF LinksInv
<1>1. LinkTypes'
  BY DEF DeleteAlias, LinkTypes, Known
<1>2. \A l \in Link : Resolve(l)' \in {NoActor, Resolve(l)}
  BY DEF DeleteAlias, Resolve, LinkTypes
<1> QED BY <1>1, <1>2, SameOrFewerLinks DEF DeleteAlias

LEMMA GiveAliasLinks ==
    ASSUME LinksInv, NEW k \in Alias, NEW a \in Actor, PostAlias(k, a) \/ PutAlias(k, a)
    PROVE  LinksInv'
<1> USE DEF LinksInv
<1>1. /\ a \in actors
      /\ alias' = [alias EXCEPT ![k] = a]
      /\ named' = named \cup {k} /\ raced' \in BOOLEAN /\ (raced => raced')
      /\ k \in named => raced'
      /\ UNCHANGED <<actors, created, link, job>>
  BY DEF PostAlias, PutAlias, LinkTypes
<1>2. LinkTypes'
  <2>1. alias' \in [Alias -> Actor \cup {NoActor}]
    BY <1>1 DEF LinkTypes
  <2>2. \A l \in Alias : alias'[l] # NoActor => l \in named' /\ alias'[l] \in created
    BY <1>1 DEF LinkTypes
  <2> QED BY <1>1, <2>1, <2>2 DEF LinkTypes, Known
<1>3. CASE k \in named
  BY <1>1, <1>2, <1>3
<1>4. CASE k \notin named
  <2>1. \A l \in Link : Known(l) => Resolve(l)' = Resolve(l)
    BY <1>1, <1>4 DEF Resolve, Known, LinkTypes
  <2> QED BY <1>1, <1>2, <2>1, SameOrFewerLinks
<1> QED BY <1>3, <1>4

LEMMA StepLinks == LinksInv /\ [Next]_vars => LinksInv'
<1> SUFFICES ASSUME LinksInv, [Next]_vars PROVE LinksInv'
  OBVIOUS
<1>1. CASE Next
  BY <1>1, PostActorLinks, PutCheckLinks, PutSaveLinks, DeleteActorLinks, GiveAliasLinks,
     DeleteAliasLinks
  DEF Next
<1>2. CASE UNCHANGED vars
  <2>1. LinkTypes'
    BY <1>2 DEF LinksInv, LinkTypes, Known, vars
  <2>2. \A l \in Link : Resolve(l)' = Resolve(l)
    BY <1>2 DEF vars, Resolve
  <2> QED BY <1>2, <2>1, <2>2, SameOrFewerLinks DEF vars
<1> QED BY <1>1, <1>2

LEMMA SpecLinks == Spec => []LinksInv
BY InitLinks, StepLinks, PTL DEF Spec

(* What happens to stateful actors is what may happen to actors.            *)
LEMMA StateImplementsLinks == StateSpec => Spec
<1>1. StateInit => Init
  BY DEF StateInit
<1>2. [StateNext]_allVars => [Next]_vars
  <2> SUFFICES ASSUME [StateNext]_allVars PROVE [Next]_vars
    OBVIOUS
  <2>1. ASSUME NEW a \in Actor, Remove(a) PROVE Next
    BY <2>1 DEF Remove, Next
  <2>2. ASSUME NEW a \in Actor, NEW new \in Asked[a], NEW l \in Link,
               Register(a, l, new) \/ \E h \in Handler : BeginPut(h, a, l, new)
        PROVE  Next
    BY <2>2 DEF Register, BeginPut, Next
  <2>3. ASSUME NEW p \in Poster, (\E a \in Actor : CheckState(p, a)) \/ SaveState(p)
        PROVE  UNCHANGED vars
    BY <2>3 DEF CheckState, SaveState
  <2>4. ASSUME NEW h \in Handler, EndPut(h) PROVE Next
    BY <2>4 DEF EndPut, Next
  <2>5. ASSUME NEW l \in Alias,
               \/ \E a \in Actor : (PostAlias(l, a) \/ PutAlias(l, a)) /\ UNCHANGED stateVars
               \/ DeleteAlias(l) /\ UNCHANGED stateVars
        PROVE  Next
    BY <2>5 DEF Next
  <2> QED BY <2>1, <2>2, <2>3, <2>4, <2>5 DEF StateNext, allVars
<1> QED BY <1>1, <1>2, PTL DEF StateSpec, Spec

(* Unless an alias moved or a PUT came between the check and the write of   *)
(* another one, linked actors form no cycle (controllers.py:578-608).       *)
THEOREM NoCycleWithoutRace == StateSpec => []CycleNeedsRace
<1>1. LinksInv => CycleNeedsRace
  BY DEF LinksInv, CycleNeedsRace
<1> QED BY <1>1, SpecLinks, StateImplementsLinks, PTL

(* The walk of has_cycles() answers whether there is a cycle for all links  *)
(* that the stores can hold (controllers.py:609-636).                       *)
THEOREM CyclesAreFound == StateSpec => []WalkFindsCycles
<1>1. LinksInv => WalkFindsCycles
  BY CurrentIsGraph, WalkAnswers DEF LinksInv, WalkFindsCycles
<1> QED BY <1>1, SpecLinks, StateImplementsLinks, PTL

-----------------------------------------------------------------------------
(* Stateful actors.                                                         *)

Types ==
    /\ actors \subseteq created /\ created \subseteq Actor
    /\ job \in [Handler -> JobRecord]
    /\ stateful \subseteq Actor /\ capped \subseteq Actor /\ posted \subseteq Actor
    /\ born \subseteq created
    /\ draft \in [Handler -> Attributes]
    /\ poster \in [Poster -> [actor : Actor \cup {NoActor}, late : BOOLEAN]]

(* What the property says of an actor.                                      *)
ActorFits(a) ==
    a \in actors => /\ a \in born => a \in stateful \ capped
                    /\ a \in posted => a \in stateful

(* A PUT writes what fits the actor: for one that was registered as         *)
(* stateful always, for another as long as no other PUT was faster.         *)
JobFits(h) ==
    job[h] # Idle =>
        /\ job[h].actor \in created
        /\ job[h].actor \in born => draft[h].stateful /\ ~draft[h].capped
        /\ ~job[h].stale /\ job[h].actor \in stateful \cap actors => draft[h].stateful

(* A POST of a state is about a stateful actor as long as no PUT was faster.*)
PosterFits(p) ==
    poster[p] # IdlePoster =>
        /\ poster[p].actor \in created
        /\ ~poster[p].late /\ poster[p].actor \in actors => poster[p].actor \in stateful

IInv ==
    /\ Types
    /\ \A a \in Actor : ActorFits(a)
    /\ \A h \in Handler : JobFits(h)
    /\ \A p \in Poster : PosterFits(p)

(* The action property.                                                     *)
Kept ==
    \A a \in stateful \cap actors \cap actors' :
        \/ a \in stateful'
        \/ \E h \in Handler : job[h].actor = a /\ job[h].stale /\ job'[h] = Idle

-----------------------------------------------------------------------------
LEMMA InitFits == StateInit => IInv
BY LinksAssumption
DEF StateInit, Init, IInv, Types, ActorFits, JobFits, PosterFits, JobRecord, Idle,
    IdlePoster, Default, Attributes, Link

LEMMA RegisterFits ==
    ASSUME IInv, NEW a \in Actor, NEW l \in Link, NEW new \in Attributes,
           Register(a, l, new)
    PROVE  IInv' /\ Kept
<1> USE DEF IInv
<1>1. /\ a \notin created /\ a \notin actors /\ a \notin born
      /\ created' = created \cup {a} /\ actors' = actors \cup {a}
      /\ job' = job /\ draft' = draft /\ poster' = poster
  BY DEF Register, PostActor, Types
<1>2. /\ new.stateful \in BOOLEAN /\ new.capped \in BOOLEAN
      /\ ~(new.stateful /\ new.capped)
      /\ stateful' = (IF new.stateful THEN stateful \cup {a} ELSE stateful \ {a})
      /\ capped' = (IF new.capped THEN capped \cup {a} ELSE capped \ {a})
      /\ born' = (IF new.stateful THEN born \cup {a} ELSE born \ {a})
      /\ posted' = posted \ {a}
  BY DEF Register, Write, SetIf, Attributes
<1>3. Types'
  BY <1>1, <1>2 DEF Types
<1>4. ASSUME NEW b \in Actor PROVE ActorFits(b)'
  BY <1>1, <1>2, <1>4 DEF ActorFits
<1>5. ASSUME NEW h \in Handler PROVE JobFits(h)'
  BY <1>1, <1>2, <1>5 DEF JobFits, Types
<1>6. ASSUME NEW p \in Poster PROVE PosterFits(p)'
  BY <1>1, <1>2, <1>6 DEF PosterFits, Types
<1>7. Kept
  BY <1>1, <1>2 DEF Kept
<1> QED BY <1>3, <1>4, <1>5, <1>6, <1>7

LEMMA BeginPutFits ==
    ASSUME IInv, NEW h \in Handler, NEW a \in Actor, NEW l \in Link, NEW new \in Attributes,
           BeginPut(h, a, l, new)
    PROVE  IInv' /\ Kept
<1> USE DEF IInv
<1>1. /\ a \in actors
      /\ job' = [job EXCEPT ![h] = [actor |-> a, link |-> l, stale |-> FALSE]]
      /\ draft' = [draft EXCEPT ![h] = new]
      /\ UNCHANGED <<actors, created, stateful, capped, posted, poster, born>>
  BY DEF BeginPut, PutCheck
<1>2. a \in stateful => new.stateful /\ ~new.capped
  BY DEF BeginPut, ValidatePut
<1>3. Types'
  BY <1>1 DEF Types, JobRecord
<1>4. ASSUME NEW b \in Actor PROVE ActorFits(b)'
  BY <1>1, <1>4 DEF ActorFits
<1>5. ASSUME NEW g \in Handler PROVE JobFits(g)'
  <2>1. CASE g = h
    <3>1. job'[g].actor = a /\ draft'[g] = new
      BY <1>1, <2>1 DEF Types
    <3>2. a \in created /\ (a \in born => a \in stateful)
      BY <1>1 DEF Types, ActorFits
    <3> QED BY <1>1, <1>2, <3>1, <3>2 DEF JobFits
  <2>2. CASE g # h
    <3>1. job'[g] = job[g] /\ draft'[g] = draft[g]
      BY <1>1, <2>2 DEF Types
    <3> QED BY <1>1, <1>5, <3>1 DEF JobFits
  <2> QED BY <2>1, <2>2
<1>6. ASSUME NEW p \in Poster PROVE PosterFits(p)'
  BY <1>1, <1>6 DEF PosterFits
<1>7. Kept
  BY <1>1 DEF Kept
<1> QED BY <1>3, <1>4, <1>5, <1>6, <1>7

LEMMA EndPutFits ==
    ASSUME IInv, NEW h \in Handler, EndPut(h)
    PROVE  IInv' /\ Kept
<1> USE DEF IInv
<1> DEFINE a == job[h].actor
<1>1. /\ job[h] # Idle
      /\ actors' = actors \cup {a} /\ UNCHANGED <<created, born>>
      /\ job' = [g \in Handler |-> IF g = h \/ job[g] = Idle THEN Idle
                                   ELSE [job[g] EXCEPT !.stale = TRUE]]
      /\ draft' = [draft EXCEPT ![h] = Default]
      /\ poster' = [p \in Poster |-> [poster[p] EXCEPT !.late = @ \/ poster[p].actor = a]]
  BY DEF EndPut, PutSave
<1>2. /\ stateful' = (IF draft[h].stateful THEN stateful \cup {a} ELSE stateful \ {a})
      /\ capped' = (IF draft[h].capped THEN capped \cup {a} ELSE capped \ {a})
      /\ posted' = posted \ {a}
  BY DEF EndPut, Write, SetIf
<1>3. /\ a \in created /\ a \in Actor
      /\ a \in born => draft[h].stateful /\ ~draft[h].capped
      /\ ~job[h].stale /\ a \in stateful \cap actors => draft[h].stateful
  BY <1>1 DEF JobFits, Types
<1>4. Types'
  <2>1. job' \in [Handler -> JobRecord]
    <3>1. Idle \in JobRecord
      BY LinksAssumption DEF JobRecord, Idle, Link
    <3>2. ASSUME NEW g \in Handler
          PROVE  job[g] \in JobRecord /\ [job[g] EXCEPT !.stale = TRUE] \in JobRecord
      <4>1. job[g] \in JobRecord
        BY DEF Types
      <4> QED BY <4>1 DEF JobRecord
    <3> QED BY <1>1, <3>1, <3>2
  <2>2. draft' \in [Handler -> Attributes]
    BY <1>1 DEF Types, Default, Attributes
  <2>3. poster' \in [Poster -> [actor : Actor \cup {NoActor}, late : BOOLEAN]]
    <3>1. ASSUME NEW p \in Poster
          PROVE  [poster[p] EXCEPT !.late = @ \/ poster[p].actor = a]
                    \in [actor : Actor \cup {NoActor}, late : BOOLEAN]
      BY <3>1 DEF Types
    <3> QED BY <1>1, <3>1
  <2> QED BY <1>1, <1>2, <1>3, <2>1, <2>2, <2>3 DEF Types
<1>5. ASSUME NEW b \in Actor PROVE ActorFits(b)'
  <2>1. CASE b = a
    BY <1>1, <1>2, <1>3, <2>1 DEF ActorFits
  <2>2. CASE b # a
    BY <1>1, <1>2, <1>5, <2>2 DEF ActorFits
  <2> QED BY <2>1, <2>2
<1>6. ASSUME NEW g \in Handler PROVE JobFits(g)'
  <2>1. CASE g = h \/ job[g] = Idle
    BY <1>1, <2>1 DEF JobFits
  <2>2. CASE g # h /\ job[g] # Idle
    <3>1. job'[g] = [job[g] EXCEPT !.stale = TRUE] /\ draft'[g] = draft[g]
      BY <1>1, <2>2 DEF Types
    <3>2. job'[g].actor = job[g].actor /\ job'[g].stale
      BY <3>1 DEF Types, JobRecord
    <3>3. /\ job[g].actor \in created
          /\ job[g].actor \in born => draft[g].stateful /\ ~draft[g].capped
      BY <2>2 DEF JobFits
    <3> QED BY <1>1, <3>1, <3>2, <3>3 DEF JobFits
  <2> QED BY <2>1, <2>2
<1>7. ASSUME NEW p \in Poster PROVE PosterFits(p)'
  <2>1. /\ poster'[p].actor = poster[p].actor
        /\ poster'[p].late = (poster[p].late \/ poster[p].actor = a)
    BY <1>1 DEF Types
  <2>2. CASE poster[p].actor = a
    <3>1. poster'[p].actor = a /\ poster'[p].late
      BY <2>1, <2>2
    <3> QED BY <1>1, <1>3, <3>1 DEF PosterFits
  <2>3. CASE poster[p].actor # a
    <3>1. poster'[p] = poster[p]
      BY <1>1, <2>3 DEF Types
    <3> QED BY <1>1, <1>2, <2>3, <3>1 DEF PosterFits
  <2> QED BY <2>2, <2>3
<1>8. Kept
  <2>1. job'[h] = Idle
    BY <1>1
  <2>2. ASSUME NEW b \in stateful \cap actors \cap actors', b \notin stateful'
        PROVE  b = a /\ ~draft[h].stateful
    BY <1>2, <2>2
  <2> QED BY <1>3, <2>1, <2>2 DEF Kept
<1> QED BY <1>4, <1>5, <1>6, <1>7, <1>8

LEMMA StateFits ==
    ASSUME IInv, NEW p \in Poster,
           (\E a \in Actor : CheckState(p, a)) \/ SaveState(p)
    PROVE  IInv' /\ Kept
<1> USE DEF IInv
<1>1. /\ UNCHANGED <<actors, created, job, stateful, capped, draft, born>>
      /\ \A q \in Poster \ {p} : poster'[q] = poster[q]
  BY DEF CheckState, SaveState, Types, vars
<1>2. /\ poster' \in [Poster -> [actor : Actor \cup {NoActor}, late : BOOLEAN]]
      /\ PosterFits(p)'
      /\ posted' \subseteq Actor
      /\ \A b \in posted' \ posted : b \in actors => b \in stateful
  <2>1. ASSUME NEW a \in Actor, CheckState(p, a)
        PROVE  <1>2!1 /\ <1>2!2 /\ <1>2!3 /\ <1>2!4
    <3>1. /\ a \in actors \cap stateful
          /\ poster' = [poster EXCEPT ![p].actor = a] /\ posted' = posted
      BY <2>1 DEF CheckState
    <3> QED BY <1>1, <3>1 DEF Types, PosterFits
  <2>2. CASE SaveState(p)
    <3>1. /\ poster[p] # IdlePoster
          /\ posted' = SetIf(posted, poster[p].actor, ~poster[p].late)
          /\ poster' = [poster EXCEPT ![p] = IdlePoster]
      BY <2>2 DEF SaveState
    <3>2. poster[p].actor \in Actor
      BY <3>1 DEF PosterFits, Types
    <3>3. poster'[p] = IdlePoster
      BY <3>1 DEF Types
    <3>4. poster' \in [Poster -> [actor : Actor \cup {NoActor}, late : BOOLEAN]]
      BY <3>1 DEF Types, IdlePoster
    <3>5. posted' \subseteq Actor /\ \A b \in posted' \ posted : b \in actors => b \in stateful
      BY <3>1, <3>2 DEF SetIf, PosterFits, Types
    <3> QED BY <3>3, <3>4, <3>5 DEF PosterFits
  <2> QED BY <2>1, <2>2
<1>3. Types'
  BY <1>1, <1>2 DEF Types
<1>4. ASSUME NEW b \in Actor PROVE ActorFits(b)'
  BY <1>1, <1>2, <1>4 DEF ActorFits
<1>5. ASSUME NEW h \in Handler PROVE JobFits(h)'
  BY <1>1, <1>5 DEF JobFits
<1>6. ASSUME NEW q \in Poster PROVE PosterFits(q)'
  BY <1>1, <1>2, <1>6 DEF PosterFits
<1>7. Kept
  BY <1>1 DEF Kept
<1> QED BY <1>3, <1>4, <1>5, <1>6, <1>7

LEMMA RemoveFits ==
    ASSUME IInv, NEW a \in Actor, Remove(a)
    PROVE  IInv' /\ Kept
<1> USE DEF IInv
<1>1. /\ actors' = actors \ {a}
      /\ stateful' = stateful \ {a} /\ capped' = capped \ {a} /\ posted' = posted \ {a}
      /\ UNCHANGED <<created, job, draft, poster, born>>
  BY DEF Remove, DeleteActor, Write, SetIf, Default
<1>2. Types'
  BY <1>1 DEF Types
<1>3. ASSUME NEW b \in Actor PROVE ActorFits(b)'
  BY <1>1, <1>3 DEF ActorFits
<1>4. ASSUME NEW h \in Handler PROVE JobFits(h)'
  BY <1>1, <1>4 DEF JobFits
<1>5. ASSUME NEW p \in Poster PROVE PosterFits(p)'
  BY <1>1, <1>5 DEF PosterFits
<1>6. Kept
  BY <1>1 DEF Kept
<1> QED BY <1>2, <1>3, <1>4, <1>5, <1>6

(* Aliases, and steps that change nothing.                                  *)
LEMMA OtherFits ==
    ASSUME IInv, UNCHANGED <<actors, created, job, stateVars>>
    PROVE  IInv' /\ Kept
BY DEF IInv, Types, ActorFits, JobFits, PosterFits, Kept, stateVars

LEMMA StepFits ==
    ASSUME IInv, [StateNext]_allVars
    PROVE  IInv' /\ Kept
<1>1. ASSUME NEW a \in Actor, Remove(a) PROVE IInv' /\ Kept
  BY <1>1, RemoveFits
<1>2. ASSUME NEW a \in Actor, NEW new \in Asked[a], NEW l \in Link,
             Register(a, l, new) \/ \E h \in Handler : BeginPut(h, a, l, new)
      PROVE  IInv' /\ Kept
  <2>1. new \in Attributes
    BY <1>2, StateAssumption
  <2> QED BY <1>2, <2>1, RegisterFits, BeginPutFits
<1>3. ASSUME NEW p \in Poster, (\E a \in Actor : CheckState(p, a)) \/ SaveState(p)
      PROVE  IInv' /\ Kept
  BY <1>3, StateFits
<1>4. ASSUME NEW h \in Handler, EndPut(h) PROVE IInv' /\ Kept
  BY <1>4, EndPutFits
<1>5. ASSUME NEW l \in Alias,
             \/ \E a \in Actor : (PostAlias(l, a) \/ PutAlias(l, a)) /\ UNCHANGED stateVars
             \/ DeleteAlias(l) /\ UNCHANGED stateVars
      PROVE  IInv' /\ Kept
  BY <1>5, OtherFits DEF PostAlias, PutAlias, DeleteAlias
<1>6. CASE UNCHANGED allVars
  BY <1>6, OtherFits DEF allVars, vars
<1> QED BY <1>1, <1>2, <1>3, <1>4, <1>5, <1>6 DEF StateNext

(* An actor that was registered as stateful stays so, without max_workers;  *)
(* one that became stateful later is made stateless only by a PUT that      *)
(* another one crossed; and only a PUT between its check and its write lets *)
(* a POST give a stateless actor a state (controllers.py:985-988, 1018).    *)
THEOREM StatefulKept == StateSpec => StatefulIsKept
<1> DEFINE Sound == \A a \in actors : /\ a \in born => a \in stateful \ capped
                                      /\ a \in posted => a \in stateful
<1>1. StateInit => IInv
  BY InitFits
<1>2. IInv /\ [StateNext]_allVars => IInv' /\ [Kept]_allVars
  BY StepFits
<1>3. IInv => Sound
  BY DEF IInv, Types, ActorFits
<1>4. StateSpec => []Sound /\ [][Kept]_allVars
  <2> HIDE DEF Sound
  <2> QED BY <1>1, <1>2, <1>3, PTL DEF StateSpec
<1> QED BY <1>4 DEF StatefulIsKept, Kept
=============================================================================
