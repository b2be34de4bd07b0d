----------------------------- MODULE ActorState -----------------------------
(* Stateful actors (controllers.py): the attributes `stateless`,            *)
(* `max_workers` and `state` of the documents that ActorLinks is about.     *)
(* POST and PUT of an actor check them together with the link; POST of a    *)
(* state looks whether the actor is stateful and then writes that one       *)
(* attribute.  PUT compares what it is asked for with the document it read  *)
(* and writes it later, so that PUTs and POSTs of states cross.             *)
EXTENDS ActorLinks

CONSTANTS
    Poster,     \* API threads that serve POST of a state
    Asked       \* bound: what requests give for `stateless` and `max_workers`
                \* of each actor, or what the parser fills in

Attributes == [stateful : BOOLEAN, capped : BOOLEAN]
Default == [stateful |-> FALSE, capped |-> FALSE]

ASSUME StateAssumption == Asked \in [Actor -> SUBSET Attributes]

VARIABLES
    stateful,   \* the actors whose document says that they are not stateless
    capped,     \* the actors whose document has max_workers
    posted,     \* the actors whose document has a state that was POSTed with
                \* no PUT between the check and the write
    draft,      \* what each PUT handler is about to write
    poster,     \* the POSTs of a state between check and write
    born        \* history: the actors that were registered as stateful

stateVars == <<stateful, capped, posted, draft, poster, born>>
allVars == <<vars, stateVars>>

IdlePoster == [actor |-> NoActor, late |-> FALSE]

StateInit ==
    /\ Init
    /\ stateful = {} /\ capped = {} /\ posted = {} /\ born = {}
    /\ draft = [h \in Handler |-> Default]
    /\ poster = [p \in Poster |-> IdlePoster]

-----------------------------------------------------------------------------
SetIf(S, a, yes) == IF yes THEN S \cup {a} ELSE S \ {a}

(* The whole document: with the state of the request, {} if it has none.    *)
Write(a, new) ==
    /\ stateful' = SetIf(stateful, a, new.stateful)
    /\ capped' = SetIf(capped, a, new.capped)
    /\ posted' = posted \ {a}

(* ActorsResource.post()                                                    *)
Register(a, l, new) ==
    /\ ~(new.stateful /\ new.capped)
    /\ PostActor(a, l)
    /\ Write(a, new)
    /\ born' = SetIf(born, a, new.stateful)
    /\ UNCHANGED <<draft, poster>>

(* Mutant of ValidatePut: the values asked for are looked at, as in POST.   *)
ValidatePutNew(a, new) == ~(new.stateful /\ new.capped)

(* validate_put() goes by what the actor was before.                        *)
ValidatePut(a, new) == a \in stateful => new.stateful /\ ~new.capped

BeginPut(h, a, l, new) ==
    /\ ValidatePut(a, new)
    /\ PutCheck(h, a, l)
    /\ draft' = [draft EXCEPT ![h] = new]
    /\ UNCHANGED <<stateful, capped, posted, poster, born>>

EndPut(h) ==
    LET a == job[h].actor
    IN  /\ PutSave(h)
        /\ Write(a, draft[h])
        /\ draft' = [draft EXCEPT ![h] = Default]
        /\ poster' = [p \in Poster |-> [poster[p] EXCEPT !.late = @ \/ poster[p].actor = a]]
        /\ UNCHANGED born

(* ActorStateResource.post() finds the actor stateful, ...                  *)
CheckState(p, a) ==
    /\ poster[p] = IdlePoster
    /\ a \in actors \cap stateful
    /\ poster' = [poster EXCEPT ![p].actor = a]
    /\ UNCHANGED <<vars, stateful, capped, posted, draft, born>>

(* ... and writes its state.  If the actor is gone, this makes a document   *)
(* with nothing else in it, which no handler can read as an actor.          *)
SaveState(p) ==
    /\ poster[p] # IdlePoster
    /\ posted' = SetIf(posted, poster[p].actor, ~poster[p].late)
    /\ poster' = [poster EXCEPT ![p] = IdlePoster]
    /\ UNCHANGED <<vars, stateful, capped, draft, born>>

Remove(a) ==
    /\ DeleteActor(a)
    /\ Write(a, Default)
    /\ UNCHANGED <<draft, poster, born>>

StateNext ==
    \/ \E a \in Actor :
          \/ Remove(a)
          \/ \E new \in Asked[a], l \in Link : \/ Register(a, l, new)
                                               \/ \E h \in Handler : BeginPut(h, a, l, new)
          \/ \E p \in Poster : CheckState(p, a)
          \/ \E l \in Alias : (PostAlias(l, a) \/ PutAlias(l, a)) /\ UNCHANGED stateVars
    \/ \E h \in Handler : EndPut(h)
    \/ \E p \in Poster : SaveState(p)
    \/ \E l \in Alias : DeleteAlias(l) /\ UNCHANGED stateVars

StateSpec == StateInit /\ [][StateNext]_allVars

-----------------------------------------------------------------------------
(* What validate_put() says of stateful actors (controllers.py:985-988): an *)
(* actor that was registered as stateful stays so, without max_workers, for *)
(* as long as it exists, whatever PUTs cross; one that became stateful by a *)
(* PUT is made stateless only by a PUT that another one crossed; and so a   *)
(* stateless actor has a state from POST only if a PUT came between the     *)
(* check and the write of that POST (controllers.py:1018-1023).             *)
StatefulIsKept ==
    /\ [](\A a \in actors : /\ a \in born => a \in stateful \ capped
                            /\ a \in posted => a \in stateful)
    /\ [][\A a \in stateful \cap actors \cap actors' :
             \/ a \in stateful'
             \/ \E h \in Handler : job[h].actor = a /\ job[h].stale /\ job'[h] = Idle]_allVars
=============================================================================
