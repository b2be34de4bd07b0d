----------------------------- MODULE ActorLinks -----------------------------
(* Links between actors (controllers.py, validate_link and below).  A link  *)
(* names an actor or an alias and is stored as it was given; aliases are    *)
(* resolved when links are checked and again whenever an event is sent.     *)
(* POST checks that the link resolves; PUT reads the links of all actors,   *)
(* looks for a cycle, and writes the actor later, so that other handlers    *)
(* can change links and aliases in between.                                 *)
EXTENDS FiniteSets

CONSTANTS
    Actor,      \* ids that get_uuid() may generate
    Alias,      \* alias names
    Handler,    \* API threads that serve PUT of an actor
    NoActor,    \* no link, or nothing behind an alias
    Repoint     \* whether alias names may be given to another actor

ASSUME LinksAssumption == /\ NoActor \notin Actor \cup Alias
                          /\ Actor \cap Alias = {}
                          /\ Repoint \in BOOLEAN

VARIABLES
    actors,    \* the documents in actors_store
    created,   \* ids generated so far
    link,      \* their attribute `link`
    alias,     \* the actor of each document in alias_store
    named,     \* history: names that have been an alias
    job,       \* PUT handlers between check and write
    raced      \* history: a link or an alias changed behind somebody's back

vars == <<actors, created, link, alias, named, job, raced>>

Link == Actor \cup Alias \cup {NoActor}
Idle == [actor |-> NoActor, link |-> NoActor, stale |-> FALSE]

Init == /\ actors = {} /\ created = {} /\ named = {} /\ raced = FALSE
        /\ link = [a \in Actor |-> NoActor]
        /\ alias = [l \in Alias |-> NoActor]
        /\ job = [h \in Handler |-> Idle]

Resolve(l) == IF l \in Alias THEN alias[l] ELSE l

(* The actors whose link resolves.                                          *)
Linked == {a \in actors : Resolve(link[a]) # NoActor}

(* Mutant of Links: the stored link of the actor wins.                      *)
LinksKeepOld(a, target) ==
    [b \in Linked \cup {a} |-> IF b \in Linked THEN Resolve(link[b]) ELSE target]

(* The dictionary of check_for_link_cycles(): the links that resolve, with  *)
(* the proposed one in place of the link that the actor has.                *)
Links(a, target) == [b \in Linked \cup {a} |-> IF b = a THEN target ELSE Resolve(link[b])]

(* Mutant of HasCycles: the walk ends after two links.                      *)
HasCyclesOfTwo(links) ==
    \E k \in DOMAIN links : links[k] \in DOMAIN links /\ links[links[k]] = k

(* has_cycles(): from every entry follow the links until one leads to a     *)
(* node that was visited, or nowhere.                                       *)
HasCycles(links) ==
    LET Walk[visited \in SUBSET Actor] ==
            [current \in Actor |->
                /\ current \in DOMAIN links
                /\ \/ links[current] \in visited
                   \/ Walk[visited \cup {links[current]}][links[current]]]
    IN  \E k \in DOMAIN links : Walk[{k, links[k]}][links[k]]

(* The check of a link: it must resolve to an actor that has permissions,   *)
(* which an actor has until it is deleted.                                  *)
Valid(l) == l = NoActor \/ Resolve(l) \in actors

PostActor(a, l) ==
    /\ a \notin created
    /\ Valid(l)
    /\ created' = created \cup {a}
    /\ actors' = actors \cup {a}
    /\ link' = [link EXCEPT ![a] = l]
    /\ UNCHANGED <<alias, named, job, raced>>

PutCheck(h, a, l) ==
    /\ job[h] = Idle
    /\ a \in actors
    /\ Valid(l)
    /\ l # NoActor => Resolve(l) # a /\ ~HasCycles(Links(a, Resolve(l)))
    /\ job' = [job EXCEPT ![h] = [actor |-> a, link |-> l, stale |-> FALSE]]
    /\ UNCHANGED <<actors, created, link, alias, named, raced>>

(* The whole document is written, also if the actor was deleted meanwhile.  *)
PutSave(h) ==
    /\ job[h] # Idle
    /\ actors' = actors \cup {job[h].actor}
    /\ link' = [link EXCEPT ![job[h].actor] = job[h].link]
    /\ raced' = (raced \/ job[h].stale)
    /\ job' = [g \in Handler |-> IF g = h \/ job[g] = Idle THEN Idle
                                 ELSE [job[g] EXCEPT !.stale = TRUE]]
    /\ UNCHANGED <<created, alias, named>>

DeleteActor(a) ==
    /\ a \in actors
    /\ actors' = actors \ {a}
    /\ UNCHANGED <<created, link, alias, named, job, raced>>

(* POST of an alias: add_if_empty.  Links to a name that was deleted are    *)
(* still there.                                                             *)
PostAlias(l, a) ==
    /\ alias[l] = NoActor
    /\ a \in actors
    /\ l \in named => Repoint
    /\ alias' = [alias EXCEPT ![l] = a]
    /\ named' = named \cup {l}
    /\ raced' = (raced \/ l \in named)
    /\ UNCHANGED <<actors, created, link, job>>

PutAlias(l, a) ==
    /\ Repoint
    /\ alias[l] # NoActor /\ a \in actors
    /\ alias' = [alias EXCEPT ![l] = a]
    /\ raced' = TRUE
    /\ UNCHANGED <<actors, created, link, named, job>>

DeleteAlias(l) ==
    /\ alias[l] # NoActor
    /\ alias' = [alias EXCEPT ![l] = NoActor]
    /\ UNCHANGED <<actors, created, link, named, job, raced>>

Next == \/ \E a \in Actor : \/ DeleteActor(a)
                            \/ \E l \in Link : PostActor(a, l)
                            \/ \E h \in Handler, l \in Link : PutCheck(h, a, l)
                            \/ \E l \in Alias : PostAlias(l, a) \/ PutAlias(l, a)
        \/ \E h \in Handler : PutSave(h)
        \/ \E l \in Alias : DeleteAlias(l)

Spec == Init /\ [][Next]_vars

-----------------------------------------------------------------------------
Current == [a \in Linked |-> Resolve(link[a])]

(* A graph where every node has at most one successor has a cycle iff some  *)
(* nodes lead only to each other.                                           *)
Cyclic(links) == \E S \in SUBSET DOMAIN links : S # {} /\ \A a \in S : links[a] \in S

(* The walk of has_cycles() terminates and answers whether there is a cycle *)
(* for every set of links the stores can hold, cyclic ones and links to     *)
(* deleted actors included.                                                 *)
WalkFindsCycles == HasCycles(Current) <=> Cyclic(Current)

(* A cycle is never the work of one request: without an alias that moved    *)
(* and without another PUT between the check and the write of an actor,     *)
(* linked actors form no cycle, whatever is created, deleted or brought     *)
(* back by a late write.                                                    *)
CycleNeedsRace == Cyclic(Current) => raced
=============================================================================
