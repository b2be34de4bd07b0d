------------------------------- MODULE Events -------------------------------
(* Events over the links between actors: what a finished execution and a    *)
(* change of an actor's status publish (models.Event), the events channel,  *)
(* and the events agent (events.py), which turns an event into an execution *)
(* of the linked actor and a call of the web hook.  The links and aliases   *)
(* change meanwhile as ActorLinks says.  How an execution runs is           *)
(* Executions; here it is one step of an actor that has a worker.           *)
EXTENDS ActorLinks, Integers, Sequences

CONSTANTS
    Hook,       \* the actors with a web hook
    Bound       \* bound: how many messages, status changes and crashes

EventKinds == {"message", "status", "crash"}

ASSUME EventsAssumption ==
    /\ Hook \subseteq Actor
    /\ Bound \in [EventKinds -> Nat]

VARIABLES
    used,     \* how many of each kind there have been
    docs,     \* how many executions of each actor are SUBMITTED, without those
              \* whose message was deleted with the actor's inbox
    inbox,    \* how many messages are in the inbox of each actor
    served,   \* the actors that have a worker, or one on its way
    channel,  \* the events channel, oldest event first: link and web hook of each
    agent     \* where the events agent is, and the event it handles

eventVars == <<used, docs, inbox, served, channel, agent>>
allVars == <<vars, eventVars>>

IdleAgent == [pc |-> "idle", event |-> <<>>]

EventsInit ==
    /\ Init
    /\ used = [k \in EventKinds |-> 0]
    /\ docs = [a \in Actor |-> 0]
    /\ inbox = [a \in Actor |-> 0]
    /\ served = {}
    /\ channel = <<>>
    /\ agent = IdleAgent

Use(k) == used[k] < Bound[k] /\ used' = [used EXCEPT ![k] = @ + 1]

-----------------------------------------------------------------------------
(* Publishing.                                                              *)

(* Event.__init__() reads the actor again and resolves its link, and fails  *)
(* if the actor is gone; publish() sends nothing without link and web hook. *)
Published(a) ==
    IF a \in actors /\ (Resolve(link[a]) # NoActor \/ a \in Hook)
    THEN Append(channel, [link |-> Resolve(link[a]), hook |-> a \in Hook])
    ELSE channel

(* MessagesResource.post(), which makes sure that the actor has a worker.   *)
PostMessage(a) ==
    /\ a \in actors
    /\ Use("message")
    /\ docs' = [docs EXCEPT ![a] = @ + 1]
    /\ inbox' = [inbox EXCEPT ![a] = @ + 1]
    /\ served' = served \cup {a}
    /\ UNCHANGED <<vars, channel, agent>>

(* Mutant of RunExecution: the message is requeued all the same.            *)
RunExecutionRequeues(a) ==
    /\ a \in served
    /\ inbox[a] > 0
    /\ docs' = [docs EXCEPT ![a] = @ - 1]
    /\ channel' = Published(a)
    /\ UNCHANGED <<vars, used, inbox, served, agent>>

(* A worker takes a message, runs it and completes the execution.           *)
RunExecution(a) ==
    /\ a \in served
    /\ inbox[a] > 0
    /\ inbox' = [inbox EXCEPT ![a] = @ - 1]
    /\ docs' = [docs EXCEPT ![a] = @ - 1]
    /\ channel' = Published(a)
    /\ UNCHANGED <<vars, used, served, agent>>

(* Actor.set_status() to READY or ERROR.                                    *)
SetStatus(a) ==
    /\ a \in actors
    /\ Use("status")
    /\ channel' = Published(a)
    /\ UNCHANGED <<vars, docs, inbox, served, agent>>

(* The last worker of an actor is shut down, at the end of its time to live.*)
LoseWorkers(a) ==
    /\ a \in served
    /\ served' = served \ {a}
    /\ UNCHANGED <<vars, used, docs, inbox, channel, agent>>

-----------------------------------------------------------------------------
(* The events agent.                                                        *)

Handled == agent.event[1]
Goes(pc) == agent' = [agent EXCEPT !.pc = pc]

(* The message stays unacknowledged while it is processed.                  *)
TakeEvent ==
    /\ agent = IdleAgent
    /\ channel # <<>>
    /\ agent' = [pc |-> IF Head(channel).link = NoActor THEN "hook" ELSE "link",
                 event |-> <<Head(channel)>>]
    /\ channel' = Tail(channel)
    /\ UNCHANGED <<vars, used, docs, inbox, served>>

(* process_link(): an execution of the linked actor, unless that is gone,   *)
(* which raises an exception: the web hook is passed over.                  *)
ProcessLink ==
    /\ agent.pc = "link"
    /\ IF Handled.link \in actors
       THEN /\ docs' = [docs EXCEPT ![Handled.link] = @ + 1]
            /\ Goes("put")
       ELSE /\ Goes("ack")
            /\ UNCHANGED docs
    /\ UNCHANGED <<vars, used, inbox, served, channel>>

(* Mutant of PutToInbox: the message is put twice.                          *)
PutToInboxTwice ==
    /\ agent.pc = "put"
    /\ inbox' = [inbox EXCEPT ![Handled.link] = @ + 2]
    /\ Goes(IF Handled.hook THEN "hook" ELSE "ack")
    /\ UNCHANGED <<vars, used, docs, served, channel>>

(* ch.put_msg(): no worker is asked for.                                    *)
PutToInbox ==
    /\ agent.pc = "put"
    /\ inbox' = [inbox EXCEPT ![Handled.link] = @ + 1]
    /\ Goes(IF Handled.hook THEN "hook" ELSE "ack")
    /\ UNCHANGED <<vars, used, docs, served, channel>>

(* Mutant of PostHook: an event whose web hook fails is put back.           *)
PostHookRetries ==
    /\ agent.pc = "hook"
    /\ \/ Goes("ack") /\ UNCHANGED channel
       \/ channel' = agent.event \o channel /\ agent' = IdleAgent
    /\ UNCHANGED <<vars, used, docs, inbox, served>>

(* process_webhook(): an error is logged.                                   *)
PostHook ==
    /\ agent.pc = "hook"
    /\ Goes("ack")
    /\ UNCHANGED <<vars, used, docs, inbox, served, channel>>

AckEvent ==
    /\ agent.pc = "ack"
    /\ agent' = IdleAgent
    /\ UNCHANGED <<vars, used, docs, inbox, served, channel>>

AgentStep == TakeEvent \/ ProcessLink \/ PutToInbox \/ PostHook \/ AckEvent

(* The agent dies, and the broker delivers the event again.                 *)
CrashAgent ==
    /\ agent.pc # "idle"
    /\ Use("crash")
    /\ channel' = agent.event \o channel
    /\ agent' = IdleAgent
    /\ UNCHANGED <<vars, docs, inbox, served>>

-----------------------------------------------------------------------------
(* The handlers of ActorLinks; the deletion of an actor takes its workers   *)
(* and its inbox with it, while the agent may be about to put a message to  *)
(* the inbox of that name.                                                  *)
RemoveActor(a) ==
    /\ DeleteActor(a)
    /\ docs' = [docs EXCEPT ![a] = @ - inbox[a]]
    /\ inbox' = [inbox EXCEPT ![a] = 0]
    /\ served' = served \ {a}
    /\ UNCHANGED <<used, channel, agent>>

ChangeLinks ==
    /\ \/ \E a \in Actor, l \in Link : PostActor(a, l)
       \/ \E h \in Handler, a \in Actor, l \in Link : PutCheck(h, a, l)
       \/ \E h \in Handler : PutSave(h)
       \/ \E a \in Actor, l \in Alias : PostAlias(l, a) \/ PutAlias(l, a)
       \/ \E l \in Alias : DeleteAlias(l)
    /\ UNCHANGED eventVars

EventsNext ==
    \/ ChangeLinks
    \/ \E a \in Actor : RemoveActor(a) \/ PostMessage(a) \/ RunExecution(a)
                        \/ SetStatus(a) \/ LoseWorkers(a)
    \/ AgentStep
    \/ CrashAgent

EventsSpec == EventsInit /\ [][EventsNext]_allVars

(* The agent is started again when it dies, and workers go on.              *)
EventsFairSpec ==
    EventsSpec /\ WF_allVars(AgentStep)
               /\ \A a \in Actor : WF_allVars(RunExecution(a))

-----------------------------------------------------------------------------
(* The messages in all of the inboxes, by their places.                     *)
Messages == UNION {{a} \X (1 .. inbox[a]) : a \in Actor}

(* One message never fans out: however the links change and actors come and *)
(* go, there are never more messages and events about than were sent, than  *)
(* status changes and deliveries made again after a crash of the agent.     *)
NoFanOut ==
    Cardinality(Messages) + Len(channel)
      + (IF agent.pc \in {"link", "put"} THEN 1 ELSE 0)
        <= used["message"] + used["status"] + used["crash"]

(* Executions and messages go together: no message is in an inbox without   *)
(* an execution of its own, and an execution that is SUBMITTED has its      *)
(* message in the inbox, but for the one the agent is at, and those an      *)
(* agent died over between add_execution() and put_msg() (events.py:72-84). *)
SubmittedHasMessage ==
    \A a \in Actor :
        LET puts == IF agent.pc = "put" /\ Handled.link = a THEN 1 ELSE 0
        IN  docs[a] - inbox[a] \in puts .. used["crash"] + puts

Quiet == /\ channel = <<>>
         /\ agent = IdleAgent
         /\ \A a \in served : inbox[a] = 0

(* A chain of events comes to its end once nobody changes links, aliases    *)
(* and actors any more and the links form no cycle: that is what the check  *)
(* of links is for (controllers.py:578-608).                                *)
ChainEnds ==
    <>[][FALSE]_<<actors, link, alias>> /\ <>[]~Cyclic(Current) => <>[]Quiet
=============================================================================
