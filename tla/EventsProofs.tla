---------------------------- MODULE EventsProofs ----------------------------
(* Proofs about events, for every set of actors, aliases and handlers and   *)
(* every number of messages, changes of status and crashes: what a message  *)
(* sets off is never more than one thing at a time, and executions and      *)
(* messages go together.                                                    *)
EXTENDS Events, FiniteSetTheorems, TLAPS

Target == Actor \cup {NoActor}
Event == [link : Target, hook : BOOLEAN]

(* The agent holds the one event it is at, which has a link if that is due. *)
AgentFits ==
    \/ agent = IdleAgent
    \/ \E e \in Event :
          /\ \E pc \in {"link", "put", "hook", "ack"} : agent = [pc |-> pc, event |-> <<e>>]
          /\ agent.pc \in {"link", "put"} => e.link \in Actor

LinkTypes ==
    /\ link \in [Actor -> Link]
    /\ alias \in [Alias -> Target]
    /\ \A h \in Handler : job[h].link \in Link

Types ==
    /\ LinkTypes
    /\ used \in [EventKinds -> Nat]
    /\ docs \in [Actor -> Int] /\ inbox \in [Actor -> Nat]
    /\ channel \in Seq(Event)
    /\ AgentFits

(* What there is of a message, a change of status or an event that was      *)
(* delivered again.                                                         *)
Busy == IF agent.pc \in {"link", "put"} THEN 1 ELSE 0
Alive == Cardinality(Messages) + Len(channel) + Busy
Causes == used["message"] + used["status"] + used["crash"]

Puts(a) == IF agent.pc = "put" /\ Handled.link = a THEN 1 ELSE 0
Paired(a) == docs[a] - inbox[a] \in Puts(a) .. used["crash"] + Puts(a)

IInv == /\ Types
        /\ IsFiniteSet(Messages) /\ Alive <= Causes
        /\ \A a \in Actor : Paired(a)

(* What a step has to keep of the invariant, besides the types.             *)
Kept == /\ IsFiniteSet(Messages)' /\ (Alive <= Causes)'
        /\ \A a \in Actor : Paired(a)'

-----------------------------------------------------------------------------
(* Messages.                                                                *)

LEMMA InMessages ==
    \A m : m \in Messages <=> \E a \in Actor : \E i \in 1 .. inbox[a] : m = <<a, i>>
BY DEF Messages

(* A message more in an inbox is a message more.                            *)
LEMMA MessageAdded ==
    ASSUME inbox \in [Actor -> Nat], IsFiniteSet(Messages),
           NEW a \in Actor, inbox' = [inbox EXCEPT ![a] = @ + 1]
    PROVE  /\ IsFiniteSet(Messages')
           /\ Cardinality(Messages') = Cardinality(Messages) + 1
<1> DEFINE m == <<a, inbox[a] + 1>>
<1>1. \A b \in Actor : 1 .. inbox'[b] = IF b = a THEN (1 .. inbox[b]) \cup {inbox[a] + 1}
                                        ELSE 1 .. inbox[b]
  <2>1. inbox'[a] = inbox[a] + 1 /\ \A b \in Actor \ {a} : inbox'[b] = inbox[b]
    OBVIOUS
  <2>2. ASSUME NEW n \in Nat PROVE 1 .. n + 1 = (1 .. n) \cup {n + 1}
    OBVIOUS
  <2> QED BY <2>1, <2>2
<1>2. Messages' = Messages \cup {m}
  BY <1>1 DEF Messages
<1>3. m \notin Messages
  BY InMessages
<1> QED BY <1>2, <1>3, FS_AddElement

(* A message less is a message less.                                        *)
LEMMA MessageTaken ==
    ASSUME inbox \in [Actor -> Nat], IsFiniteSet(Messages),
           NEW a \in Actor, inbox[a] > 0, inbox' = [inbox EXCEPT ![a] = @ - 1]
    PROVE  /\ IsFiniteSet(Messages')
           /\ Cardinality(Messages') = Cardinality(Messages) - 1
<1> DEFINE m == <<a, inbox[a]>>
<1>1. \A b \in Actor : 1 .. inbox'[b] = IF b = a THEN (1 .. inbox[b]) \ {inbox[a]}
                                        ELSE 1 .. inbox[b]
  <2>1. inbox'[a] = inbox[a] - 1 /\ \A b \in Actor \ {a} : inbox'[b] = inbox[b]
    OBVIOUS
  <2>2. ASSUME NEW n \in Nat PROVE 1 .. n - 1 = (1 .. n) \ {n}
    OBVIOUS
  <2> QED BY <2>1, <2>2
<1>2. Messages' = Messages \ {m}
  BY <1>1 DEF Messages
<1>3. m \in Messages
  BY InMessages
<1> QED BY <1>2, <1>3, FS_RemoveElement

(* An inbox that is deleted takes its messages with it.                     *)
LEMMA InboxDeleted ==
    ASSUME inbox \in [Actor -> Nat], IsFiniteSet(Messages),
           NEW a \in Actor, inbox' = [inbox EXCEPT ![a] = 0]
    PROVE  /\ IsFiniteSet(Messages')
           /\ Cardinality(Messages') <= Cardinality(Messages)
<1>1. \A b \in Actor : (1 .. inbox'[b]) \subseteq 1 .. inbox[b]
  OBVIOUS
<1>2. Messages' \subseteq Messages
  BY <1>1 DEF Messages
<1> QED BY <1>2, FS_Subset

(* What is counted.                                                         *)
LEMMA Counts ==
    ASSUME IInv
    PROVE  /\ Cardinality(Messages) \in Nat /\ Len(channel) \in Nat /\ Busy \in {0, 1}
           /\ Causes \in Nat /\ Cardinality(Messages) + Len(channel) + Busy <= Causes
<1>1. Cardinality(Messages) \in Nat
  BY FS_CardinalityType DEF IInv
<1>2. used["message"] \in Nat /\ used["status"] \in Nat /\ used["crash"] \in Nat
  BY DEF IInv, Types, EventKinds
<1>3. Causes \in Nat
  BY <1>2 DEF Causes
<1>4. Len(channel) \in Nat
  BY DEF IInv, Types
<1>5. Busy \in {0, 1}
  BY DEF Busy
<1> QED BY <1>1, <1>3, <1>4, <1>5 DEF IInv, Alive

-----------------------------------------------------------------------------
(* Events.                                                                  *)

(* Publishing adds one event to the channel or none.                        *)
LEMMA PublishedOne ==
    ASSUME Types, NEW a \in Actor
    PROVE  Published(a) \in Seq(Event) /\ Len(Published(a)) <= Len(channel) + 1
<1>1. Resolve(link[a]) \in Target
  BY DEF Types, LinkTypes, Resolve, Link, Target
<1>2. [link |-> Resolve(link[a]), hook |-> a \in Hook] \in Event
  BY <1>1 DEF Event
<1> QED BY <1>2 DEF Published, Types

(* The agent does not change: neither does what it stands for.              *)
LEMMA AgentKept ==
    ASSUME agent' = agent
    PROVE  (AgentFits => AgentFits') /\ Busy' = Busy /\ \A a : Puts(a)' = Puts(a)
BY DEF AgentFits, Busy, Puts, Handled, IdleAgent

LEMMA AgentHolds ==
    ASSUME AgentFits, agent.pc # "idle"
    PROVE  \E e \in Event :
              /\ agent.pc \in {"link", "put", "hook", "ack"}
              /\ agent = [pc |-> agent.pc, event |-> <<e>>]
              /\ agent.event = <<e>> /\ Handled = e
              /\ agent.pc \in {"link", "put"} => e.link \in Actor
BY DEF AgentFits, IdleAgent, Handled

-----------------------------------------------------------------------------
(* The steps.                                                               *)

LEMMA InitIsKept == EventsInit => IInv
<1> SUFFICES ASSUME EventsInit PROVE IInv
  OBVIOUS
<1>1. Types
  BY DEF EventsInit, Init, Types, LinkTypes, AgentFits, EventKinds, Link, Target, Idle
<1>2. Messages = {}
  BY InMessages DEF EventsInit
<1>3. Alive = 0 /\ Causes = 0
  BY <1>2, FS_EmptySet DEF EventsInit, Alive, Causes, Busy, IdleAgent, EventKinds
<1>4. \A a \in Actor : Paired(a)
  BY DEF EventsInit, Paired, Puts, IdleAgent, EventKinds
<1> QED BY <1>1, <1>2, <1>3, <1>4, FS_EmptySet DEF IInv

LEMMA UseCounts ==
    ASSUME Types, NEW k \in EventKinds, Use(k)
    PROVE  /\ used' \in [EventKinds -> Nat] /\ used'["crash"] >= used["crash"]
           /\ Causes' = Causes + 1
           /\ k # "crash" => used'["crash"] = used["crash"]
           /\ k = "crash" => used'["crash"] = used["crash"] + 1
<1>1. used \in [EventKinds -> Nat] /\ used' = [used EXCEPT ![k] = used[k] + 1]
  BY DEF Types, Use
<1>2. used' \in [EventKinds -> Nat]
  BY <1>1
<1>3. used'[k] = used[k] + 1 /\ \A i \in EventKinds \ {k} : used'[i] = used[i]
  BY <1>1
<1>4. CASE k = "message"
  BY <1>1, <1>2, <1>3, <1>4 DEF Causes, EventKinds
<1>5. CASE k = "status"
  BY <1>1, <1>2, <1>3, <1>5 DEF Causes, EventKinds
<1>6. CASE k = "crash"
  BY <1>1, <1>2, <1>3, <1>6 DEF Causes, EventKinds
<1> QED BY <1>2, <1>4, <1>5, <1>6 DEF EventKinds

(* Links and aliases change, and nothing that they were read for.           *)
LEMMA ChangeLinksKept ==
    ASSUME IInv, ChangeLinks \/ UNCHANGED allVars
    PROVE  Types' /\ Kept
<1>1. UNCHANGED eventVars
  BY DEF ChangeLinks, allVars
<1>2. LinkTypes'
  <2> USE DEF IInv, Types, LinkTypes
  <2>1. ASSUME NEW a \in Actor, NEW l \in Link, PostActor(a, l) PROVE LinkTypes'
    BY <2>1 DEF PostActor
  <2>2. ASSUME NEW h \in Handler, NEW a \in Actor, NEW l \in Link, PutCheck(h, a, l)
        PROVE  LinkTypes'
    <3>1. UNCHANGED <<link, alias>>
          /\ job' = [job EXCEPT ![h] = [actor |-> a, link |-> l, stale |-> FALSE]]
      BY <2>2 DEF PutCheck
    <3> QED BY <3>1
  <2>3. ASSUME NEW h \in Handler, PutSave(h) PROVE LinkTypes'
    <3>1. /\ link' = [link EXCEPT ![job[h].actor] = job[h].link] /\ alias' = alias
          /\ job' = [g \in Handler |-> IF g = h \/ job[g] = Idle THEN Idle
                                       ELSE [job[g] EXCEPT !.stale = TRUE]]
      BY <2>3 DEF PutSave
    <3>2. Idle.link \in Link
      BY DEF Idle, Link
    <3>3. \A g \in Handler : [job[g] EXCEPT !.stale = TRUE].link = job[g].link
      OBVIOUS
    <3> QED BY <3>1, <3>2, <3>3
  <2>4. ASSUME NEW l \in Alias, NEW a \in Actor, PostAlias(l, a) \/ PutAlias(l, a)
        PROVE  LinkTypes'
    BY <2>4 DEF PostAlias, PutAlias, Target
  <2>5. ASSUME NEW l \in Alias, DeleteAlias(l) PROVE LinkTypes'
    BY <2>5 DEF DeleteAlias, Target
  <2>6. CASE UNCHANGED allVars
    BY <2>6 DEF allVars, vars
  <2> QED BY <2>1, <2>2, <2>3, <2>4, <2>5, <2>6 DEF ChangeLinks
<1>3. /\ UNCHANGED <<used, docs, inbox, channel>>
      /\ Messages' = Messages /\ AgentFits' /\ Busy' = Busy
      /\ \A a : Puts(a)' = Puts(a)
  BY <1>1, AgentKept DEF eventVars, Messages, IInv, Types
<1> QED BY <1>2, <1>3 DEF IInv, Types, Kept, Alive, Causes, Paired

LEMMA RemoveActorKept ==
    ASSUME IInv, NEW a \in Actor, RemoveActor(a)
    PROVE  Types' /\ Kept
<1>1. /\ docs' = [docs EXCEPT ![a] = @ - inbox[a]] /\ inbox' = [inbox EXCEPT ![a] = 0]
      /\ UNCHANGED <<link, alias, job, used, channel, agent>>
  BY DEF RemoveActor, DeleteActor
<1>2. IsFiniteSet(Messages') /\ Cardinality(Messages') <= Cardinality(Messages)
  BY <1>1, InboxDeleted DEF IInv, Types
<1>3. AgentFits' /\ Busy' = Busy /\ \A b : Puts(b)' = Puts(b)
  BY <1>1, AgentKept DEF IInv, Types
<1>4. Types'
  BY <1>1, <1>3 DEF IInv, Types, LinkTypes
<1>5. (Alive <= Causes)'
  <2>1. Cardinality(Messages') \in Nat
    BY <1>2, FS_CardinalityType
  <2>2. Causes' = Causes /\ Len(channel') = Len(channel)
    BY <1>1 DEF Causes
  <2> QED BY <1>2, <1>3, <2>1, <2>2, Counts DEF Alive
<1>6. ASSUME NEW b \in Actor PROVE Paired(b)'
  <2>1. docs'[b] - inbox'[b] = docs[b] - inbox[b]
    <3>1. docs \in [Actor -> Int] /\ inbox \in [Actor -> Nat]
      BY DEF IInv, Types
    <3>2. CASE b = a
      <4>1. docs'[b] = docs[b] - inbox[b] /\ inbox'[b] = 0
        BY <1>1, <3>1, <3>2
      <4> QED BY <3>1, <4>1
    <3>3. CASE b # a
      <4>1. docs'[b] = docs[b] /\ inbox'[b] = inbox[b]
        BY <1>1, <3>1, <3>3
      <4> QED BY <4>1
    <3> QED BY <3>2, <3>3
  <2>2. Puts(b)' = Puts(b) /\ used' = used
    BY <1>1, <1>3
  <2>3. Paired(b)
    BY DEF IInv
  <2> QED BY <2>1, <2>2, <2>3 DEF Paired
<1> QED BY <1>2, <1>4, <1>5, <1>6 DEF Kept

LEMMA PostMessageKept ==
    ASSUME IInv, NEW a \in Actor, PostMessage(a)
    PROVE  Types' /\ Kept
<1>1. /\ Use("message")
      /\ docs' = [docs EXCEPT ![a] = @ + 1] /\ inbox' = [inbox EXCEPT ![a] = @ + 1]
      /\ UNCHANGED <<link, alias, job, channel, agent>>
  BY DEF PostMessage, vars
<1>2. IsFiniteSet(Messages') /\ Cardinality(Messages') = Cardinality(Messages) + 1
  BY <1>1, MessageAdded DEF IInv, Types
<1>3. AgentFits' /\ Busy' = Busy /\ \A b : Puts(b)' = Puts(b)
  BY <1>1, AgentKept DEF IInv, Types
<1>4. /\ used' \in [EventKinds -> Nat] /\ used'["crash"] = used["crash"]
      /\ Causes' = Causes + 1
  BY <1>1, UseCounts DEF IInv, EventKinds
<1>5. Types'
  <2>1. docs' \in [Actor -> Int] /\ inbox' \in [Actor -> Nat]
    BY <1>1 DEF IInv, Types
  <2>2. LinkTypes' /\ channel' \in Seq(Event)
    BY <1>1 DEF IInv, Types, LinkTypes
  <2> QED BY <1>3, <1>4, <2>1, <2>2 DEF Types
<1>6. (Alive <= Causes)'
  BY <1>1, <1>2, <1>3, <1>4, Counts DEF Alive
<1>7. ASSUME NEW b \in Actor PROVE Paired(b)'
  <2>1. docs'[b] - inbox'[b] = docs[b] - inbox[b]
    <3>1. docs \in [Actor -> Int] /\ inbox \in [Actor -> Nat]
      BY DEF IInv, Types
    <3>2. CASE b = a
      <4>1. docs'[b] = docs[b] + 1 /\ inbox'[b] = inbox[b] + 1
        BY <1>1, <3>1, <3>2
      <4> QED BY <3>1, <4>1
    <3>3. CASE b # a
      <4>1. docs'[b] = docs[b] /\ inbox'[b] = inbox[b]
        BY <1>1, <3>1, <3>3
      <4> QED BY <4>1
    <3> QED BY <3>2, <3>3
  <2>2. Puts(b)' = Puts(b) /\ used'["crash"] = used["crash"]
    BY <1>3, <1>4
  <2>3. Paired(b)
    BY DEF IInv
  <2> QED BY <2>1, <2>2, <2>3 DEF Paired
<1> QED BY <1>2, <1>5, <1>6, <1>7 DEF Kept

LEMMA RunExecutionKept ==
    ASSUME IInv, NEW a \in Actor, RunExecution(a)
    PROVE  Types' /\ Kept
<1>1. /\ inbox[a] > 0 /\ channel' = Published(a)
      /\ docs' = [docs EXCEPT ![a] = @ - 1] /\ inbox' = [inbox EXCEPT ![a] = @ - 1]
      /\ UNCHANGED <<link, alias, job, used, agent>>
  BY DEF RunExecution, vars
<1>2. IsFiniteSet(Messages') /\ Cardinality(Messages') = Cardinality(Messages) - 1
  BY <1>1, MessageTaken DEF IInv, Types
<1>3. AgentFits' /\ Busy' = Busy /\ \A b : Puts(b)' = Puts(b)
  BY <1>1, AgentKept DEF IInv, Types
<1>4. channel' \in Seq(Event) /\ Len(channel') <= Len(channel) + 1
  BY <1>1, PublishedOne DEF IInv
<1>5. Types'
  <2>1. docs' \in [Actor -> Int]
    BY <1>1 DEF IInv, Types
  <2>2. inbox' \in [Actor -> Nat]
    <3>1. inbox \in [Actor -> Nat] /\ inbox[a] - 1 \in Nat
      BY <1>1 DEF IInv, Types
    <3>2. inbox' = [inbox EXCEPT ![a] = inbox[a] - 1]
      BY <1>1
    <3> QED BY <3>1, <3>2
  <2>3. LinkTypes' /\ used' \in [EventKinds -> Nat]
    BY <1>1 DEF IInv, Types, LinkTypes
  <2> QED BY <1>3, <1>4, <2>1, <2>2, <2>3 DEF Types
<1>6. (Alive <= Causes)'
  <2>1. Causes' = Causes /\ Len(channel') \in Nat
    BY <1>1, <1>4 DEF Causes
  <2> QED BY <1>2, <1>3, <1>4, <2>1, Counts DEF Alive
<1>7. ASSUME NEW b \in Actor PROVE Paired(b)'
  <2>1. docs'[b] - inbox'[b] = docs[b] - inbox[b]
    BY <1>1, <1>7 DEF IInv, Types
  <2> QED BY <1>1, <1>3, <1>7, <2>1 DEF IInv, Paired
<1> QED BY <1>2, <1>5, <1>6, <1>7 DEF Kept

(* A change of status, and workers that go.                                 *)
LEMMA StatusKept ==
    ASSUME IInv, NEW a \in Actor, SetStatus(a) \/ LoseWorkers(a)
    PROVE  Types' /\ Kept
<1>1. UNCHANGED <<link, alias, job, docs, inbox, agent>>
  BY DEF SetStatus, LoseWorkers, vars
<1>2. AgentFits' /\ Busy' = Busy /\ (\A b : Puts(b)' = Puts(b)) /\ Messages' = Messages
  BY <1>1, AgentKept DEF IInv, Types, Messages
<1>3. /\ used' \in [EventKinds -> Nat] /\ used'["crash"] = used["crash"]
      /\ channel' \in Seq(Event)
      /\ \/ Causes' = Causes + 1 /\ Len(channel') <= Len(channel) + 1
         \/ Causes' = Causes /\ Len(channel') = Len(channel)
  <2>1. CASE SetStatus(a)
    BY <2>1, UseCounts, PublishedOne DEF SetStatus, IInv, EventKinds
  <2>2. CASE LoseWorkers(a)
    BY <2>2 DEF LoseWorkers, IInv, Types, Causes
  <2> QED BY <2>1, <2>2
<1>4. Types'
  BY <1>1, <1>2, <1>3 DEF IInv, Types, LinkTypes
<1>5. (Alive <= Causes)'
  <2>1. Len(channel') \in Nat
    BY <1>3
  <2> QED BY <1>2, <1>3, <2>1, Counts DEF Alive
<1>6. ASSUME NEW b \in Actor PROVE Paired(b)'
  BY <1>1, <1>2, <1>3, <1>6 DEF IInv, Paired
<1> QED BY <1>2, <1>4, <1>5, <1>6 DEF IInv, Kept

LEMMA TakeEventKept ==
    ASSUME IInv, TakeEvent
    PROVE  Types' /\ Kept
<1> DEFINE e == Head(channel)
<1>1. /\ agent = IdleAgent /\ channel # <<>> /\ channel' = Tail(channel)
      /\ agent' = [pc |-> IF e.link = NoActor THEN "hook" ELSE "link", event |-> <<e>>]
      /\ UNCHANGED <<link, alias, job, used, docs, inbox>>
  BY DEF TakeEvent, vars
<1>2. e \in Event /\ channel' \in Seq(Event) /\ Len(channel') = Len(channel) - 1
  BY <1>1 DEF IInv, Types
<1>3. e.link = NoActor \/ e.link \in Actor
  BY <1>2 DEF Event, Target
<1>4. agent'.pc \in {"hook", "link"} /\ (agent'.pc = "link" => e.link \in Actor)
  BY <1>1, <1>3
<1>5. AgentFits'
  <2>1. agent' = [pc |-> agent'.pc, event |-> <<e>>]
    BY <1>1
  <2> QED BY <1>2, <1>4, <2>1 DEF AgentFits
<1>6. Busy = 0 /\ Busy' \in {0, 1} /\ \A b : Puts(b)' = 0 /\ Puts(b) = 0
  BY <1>1, <1>4 DEF Busy, Puts, IdleAgent
<1>7. Types'
  BY <1>1, <1>2, <1>5 DEF IInv, Types, LinkTypes
<1>8. Messages' = Messages /\ Causes' = Causes
  BY <1>1 DEF Messages, Causes
<1>9. (Alive <= Causes)'
  BY <1>2, <1>6, <1>8, Counts DEF Alive
<1>10. ASSUME NEW b \in Actor PROVE Paired(b)'
  BY <1>1, <1>6, <1>10 DEF IInv, Paired
<1> QED BY <1>7, <1>8, <1>9, <1>10 DEF IInv, Kept

(* The agent goes from one place to the next.                               *)
LEMMA AgentGoes ==
    ASSUME AgentFits, agent.pc # "idle", NEW pc \in {"link", "put", "hook", "ack"},
           pc \in {"link", "put"} => Handled.link \in Actor, Goes(pc)
    PROVE  /\ AgentFits' /\ agent'.pc = pc /\ Handled' = Handled
           /\ agent'.event = agent.event
<1>1. PICK e \in Event : agent = [pc |-> agent.pc, event |-> <<e>>] /\ Handled = e
  BY AgentHolds
<1>2. agent' = [pc |-> pc, event |-> <<e>>]
  BY <1>1 DEF Goes
<1>3. agent'.pc = pc /\ agent'.event = <<e>> /\ agent.event = <<e>>
  BY <1>1, <1>2
<1>4. Handled' = Handled
  BY <1>3 DEF Handled
<1>5. AgentFits'
  <2>1. agent'.pc \in {"link", "put"} => e.link \in Actor
    BY <1>1, <1>3
  <2> QED BY <1>2, <2>1 DEF AgentFits
<1> QED BY <1>3, <1>4, <1>5

LEMMA ProcessLinkKept ==
    ASSUME IInv, ProcessLink
    PROVE  Types' /\ Kept
<1> DEFINE b == Handled.link
<1>1. /\ agent.pc = "link" /\ UNCHANGED <<link, alias, job, used, inbox, channel>>
      /\ \/ docs' = [docs EXCEPT ![b] = @ + 1] /\ Goes("put")
         \/ docs' = docs /\ Goes("ack")
  BY DEF ProcessLink, vars
<1>2. b \in Actor
  BY <1>1, AgentHolds DEF IInv, Types
<1>3. Busy = 1 /\ \A a : Puts(a) = 0
  BY <1>1 DEF Busy, Puts
<1>4. Messages' = Messages /\ Causes' = Causes
  BY <1>1 DEF Messages, Causes
<1>5. CASE docs' = [docs EXCEPT ![b] = @ + 1] /\ Goes("put")
  <2>1. AgentFits' /\ agent'.pc = "put" /\ Handled' = Handled
    BY <1>1, <1>2, <1>5, AgentGoes DEF IInv, Types
  <2>2. Busy' = 1 /\ \A a : Puts(a)' = IF a = b THEN 1 ELSE 0
    BY <2>1 DEF Busy, Puts
  <2>3. Types'
    BY <1>1, <1>2, <1>5, <2>1 DEF IInv, Types, LinkTypes
  <2>4. ASSUME NEW a \in Actor PROVE Paired(a)'
    <3> HIDE DEF b
    <3>1. docs'[a] - inbox'[a] = (docs[a] - inbox[a]) + Puts(a)' /\ docs[a] - inbox[a] \in Int
      <4>1. docs \in [Actor -> Int] /\ inbox \in [Actor -> Nat]
        BY DEF IInv, Types
      <4>2. inbox' = inbox /\ docs' = [docs EXCEPT ![b] = @ + 1]
        BY <1>1, <1>5
      <4>3. CASE a = b
        <5>1. docs'[a] = docs[a] + 1 /\ Puts(a)' = 1
          BY <2>2, <4>1, <4>2, <4>3
        <5> QED BY <4>1, <4>2, <5>1
      <4>4. CASE a # b
        <5>1. docs'[a] = docs[a] /\ Puts(a)' = 0
          BY <2>2, <4>1, <4>2, <4>4
        <5> QED BY <4>1, <4>2, <5>1
      <4> QED BY <4>3, <4>4
    <3>2. used["crash"] \in Nat /\ used' = used /\ Puts(a)' \in {0, 1} /\ Puts(a) = 0
      BY <1>1, <1>3, <2>2 DEF IInv, Types, EventKinds
    <3>3. Paired(a)
      BY DEF IInv
    <3> QED BY <3>1, <3>2, <3>3 DEF Paired
  <2> QED BY <1>1, <1>3, <1>4, <2>2, <2>3, <2>4 DEF IInv, Kept, Alive
<1>6. CASE docs' = docs /\ Goes("ack")
  <2>1. AgentFits' /\ agent'.pc = "ack"
    BY <1>1, <1>6, AgentGoes DEF IInv, Types
  <2>2. Busy' = 0 /\ \A a : Puts(a)' = 0
    BY <2>1 DEF Busy, Puts
  <2>3. Types'
    BY <1>1, <1>6, <2>1 DEF IInv, Types, LinkTypes
  <2>4. ASSUME NEW a \in Actor PROVE Paired(a)'
    BY <1>1, <1>3, <1>6, <2>2, <2>4 DEF IInv, Paired
  <2>5. (Alive <= Causes)'
    BY <1>1, <1>3, <1>4, <2>2, Counts DEF Alive
  <2> QED BY <1>4, <2>3, <2>4, <2>5 DEF IInv, Kept
<1> QED BY <1>1, <1>5, <1>6

LEMMA PutToInboxKept ==
    ASSUME IInv, PutToInbox
    PROVE  Types' /\ Kept
<1> DEFINE b == Handled.link
<1>1. /\ agent.pc = "put" /\ UNCHANGED <<link, alias, job, used, docs, channel>>
      /\ inbox' = [inbox EXCEPT ![b] = @ + 1]
      /\ \E pc \in {"hook", "ack"} : Goes(pc)
  BY DEF PutToInbox, vars
<1>2. b \in Actor
  BY <1>1, AgentHolds DEF IInv, Types
<1>3. Busy = 1 /\ \A a : Puts(a) = IF a = b THEN 1 ELSE 0
  BY <1>1 DEF Busy, Puts
<1>4. AgentFits' /\ agent'.pc \in {"hook", "ack"}
  BY <1>1, AgentGoes DEF IInv, Types
<1>5. Busy' = 0 /\ \A a : Puts(a)' = 0
  BY <1>4 DEF Busy, Puts
<1> HIDE DEF b
<1>6. IsFiniteSet(Messages') /\ Cardinality(Messages') = Cardinality(Messages) + 1
  BY <1>1, <1>2, MessageAdded DEF IInv, Types
<1>7. Types'
  BY <1>1, <1>2, <1>4 DEF IInv, Types, LinkTypes
<1>8. (Alive <= Causes)'
  <2>1. Causes' = Causes
    BY <1>1 DEF Causes
  <2> QED BY <1>1, <1>3, <1>5, <1>6, <2>1, Counts DEF Alive
<1>9. ASSUME NEW a \in Actor PROVE Paired(a)'
  <2>1. docs'[a] - inbox'[a] = (docs[a] - inbox[a]) - Puts(a) /\ docs[a] - inbox[a] \in Int
    <3>1. docs \in [Actor -> Int] /\ inbox \in [Actor -> Nat]
      BY DEF IInv, Types
    <3>2. docs' = docs /\ inbox' = [inbox EXCEPT ![b] = @ + 1]
      BY <1>1
    <3>3. CASE a = b
      <4>1. inbox'[a] = inbox[a] + 1 /\ Puts(a) = 1
        BY <1>3, <3>1, <3>2, <3>3
      <4> QED BY <3>1, <3>2, <4>1
    <3>4. CASE a # b
      <4>1. inbox'[a] = inbox[a] /\ Puts(a) = 0
        BY <1>3, <3>1, <3>2, <3>4
      <4> QED BY <3>1, <3>2, <4>1
    <3> QED BY <3>3, <3>4
  <2>2. used["crash"] \in Nat /\ used' = used /\ Puts(a) \in {0, 1} /\ Puts(a)' = 0
    BY <1>1, <1>3, <1>5 DEF IInv, Types, EventKinds
  <2>3. Paired(a)
    BY DEF IInv
  <2> QED BY <2>1, <2>2, <2>3 DEF Paired
<1> QED BY <1>6, <1>7, <1>8, <1>9 DEF Kept

(* The web hook is called, and the event acknowledged.                      *)
LEMMA EndEventKept ==
    ASSUME IInv, PostHook \/ AckEvent
    PROVE  Types' /\ Kept
<1>1. /\ agent.pc \in {"hook", "ack"} /\ (Goes("ack") \/ agent' = IdleAgent)
      /\ UNCHANGED <<link, alias, job, used, docs, inbox, channel>>
  BY DEF PostHook, AckEvent, vars
<1>2. Busy = 0 /\ \A a : Puts(a) = 0
  BY <1>1 DEF Busy, Puts
<1>3. AgentFits' /\ agent'.pc \in {"ack", "idle"}
  <2>1. CASE Goes("ack")
    BY <1>1, <2>1, AgentGoes DEF IInv, Types
  <2>2. CASE agent' = IdleAgent
    BY <2>2 DEF AgentFits, IdleAgent
  <2> QED BY <1>1, <2>1, <2>2
<1>4. Busy' = 0 /\ \A a : Puts(a)' = 0
  BY <1>3 DEF Busy, Puts
<1>5. Messages' = Messages /\ Causes' = Causes /\ Alive' = Alive
  BY <1>1, <1>2, <1>4 DEF Messages, Causes, Alive
<1>6. Types'
  BY <1>1, <1>3 DEF IInv, Types, LinkTypes
<1>7. ASSUME NEW a \in Actor PROVE Paired(a)'
  BY <1>1, <1>2, <1>4, <1>7 DEF IInv, Paired
<1> QED BY <1>5, <1>6, <1>7 DEF IInv, Kept

(* An agent that dies between add_execution() and put_msg() leaves an       *)
(* execution without its message.                                           *)
LEMMA CrashAgentKept ==
    ASSUME IInv, CrashAgent
    PROVE  Types' /\ Kept
<1>1. /\ agent.pc # "idle" /\ Use("crash")
      /\ channel' = agent.event \o channel /\ agent' = IdleAgent
      /\ UNCHANGED <<link, alias, job, docs, inbox>>
  BY DEF CrashAgent, vars
<1>2. PICK e \in Event : agent.event = <<e>>
  BY <1>1, AgentHolds DEF IInv, Types
<1>3. channel' \in Seq(Event) /\ Len(channel') = Len(channel) + 1
  <2>1. <<e>> \in Seq(Event) /\ Len(<<e>>) = 1
    OBVIOUS
  <2> QED BY <1>1, <1>2, <2>1 DEF IInv, Types
<1>4. AgentFits' /\ Busy' = 0 /\ Busy \in {0, 1} /\ \A a : Puts(a)' = 0 /\ Puts(a) \in {0, 1}
  BY <1>1 DEF AgentFits, Busy, Puts, IdleAgent
<1>5. /\ used' \in [EventKinds -> Nat] /\ used'["crash"] = used["crash"] + 1
      /\ Causes' = Causes + 1
  BY <1>1, UseCounts DEF IInv, EventKinds
<1>6. Types'
  BY <1>1, <1>3, <1>4, <1>5 DEF IInv, Types, LinkTypes
<1>7. Messages' = Messages
  BY <1>1 DEF Messages
<1>8. (Alive <= Causes)'
  BY <1>3, <1>4, <1>5, <1>7, Counts DEF Alive
<1>9. ASSUME NEW a \in Actor PROVE Paired(a)'
  <2>1. docs'[a] - inbox'[a] = docs[a] - inbox[a] /\ docs[a] - inbox[a] \in Int
    BY <1>1, <1>9 DEF IInv, Types
  <2>2. used["crash"] \in Nat
    BY DEF IInv, Types, EventKinds
  <2> QED BY <1>4, <1>5, <1>9, <2>1, <2>2 DEF IInv, Paired
<1> QED BY <1>6, <1>7, <1>8, <1>9 DEF IInv, Kept

-----------------------------------------------------------------------------
LEMMA StepIsKept ==
    ASSUME IInv, [EventsNext]_allVars
    PROVE  IInv'
<1> SUFFICES Types' /\ Kept
  BY DEF IInv, Kept
<1>1. CASE ChangeLinks \/ UNCHANGED allVars
  BY <1>1, ChangeLinksKept
<1>2. ASSUME NEW a \in Actor, \/ RemoveActor(a) \/ PostMessage(a) \/ RunExecution(a)
                              \/ SetStatus(a) \/ LoseWorkers(a)
      PROVE  Types' /\ Kept
  BY <1>2, RemoveActorKept, PostMessageKept, RunExecutionKept, StatusKept
<1>3. CASE AgentStep
  BY <1>3, TakeEventKept, ProcessLinkKept, PutToInboxKept, EndEventKept DEF AgentStep
<1>4. CASE CrashAgent
  BY <1>4, CrashAgentKept
<1> QED BY <1>1, <1>2, <1>3, <1>4 DEF EventsNext

LEMMA SpecIsKept == EventsSpec => []IInv
<1>1. EventsInit => IInv
  BY InitIsKept
<1>2. IInv /\ [EventsNext]_allVars => IInv'
  BY StepIsKept
<1> QED BY <1>1, <1>2, PTL DEF EventsSpec

(* One message never fans out, whatever becomes of links, aliases and       *)
(* actors meanwhile and however often the agent dies (events.py,            *)
(* process_event_msg).                                                      *)
THEOREM MessagesDoNotFanOut == EventsSpec => []NoFanOut
<1>1. IInv => NoFanOut
  BY DEF IInv, NoFanOut, Alive, Causes, Busy
<1> QED BY <1>1, SpecIsKept, PTL

(* No message is in an inbox without an execution of its own, and only a    *)
(* crash of the agent leaves an execution without its message               *)
(* (events.py:72-84).                                                       *)
THEOREM ExecutionsHaveMessages == EventsSpec => []SubmittedHasMessage
<1>1. IInv => SubmittedHasMessage
  BY DEF IInv, SubmittedHasMessage, Paired, Puts
<1> QED BY <1>1, SpecIsKept, PTL
=============================================================================
