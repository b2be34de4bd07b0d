----------------------------- MODULE WorkerPool -----------------------------
(* The workers of one actor: the API handlers and the health check that     *)
(* request and stop them (controllers.py, health.py), the spawners of one   *)
(* host that start them (spawner.py) and the two threads of every worker    *)
(* process (worker.py).                                                     *)
(* They share the actors store, the workers store, the command channel, a   *)
(* channel per worker and the actor's inbox; every step below does one      *)
(* access to one of these, so all the interleavings of the code are here.   *)
EXTENDS Naturals, Sequences, FiniteSets, WorkerStore

CONSTANTS
    Worker,      \* the worker ids that get_uuid() may generate
    Client,      \* threads of the API and of the health check
    Spawner,     \* spawner processes of the host
    NoWorker,    \* stands for "no worker id"
    MaxWorkers,  \* MAX_WORKERS of spawner.py: workers per host
    Budget,      \* bound: how many requests of each kind are issued
    Faults       \* the failures that may happen: a subset of FaultKinds

RequestKinds ==
    {"message", "workers", "update", "put", "stop", "expire", "delete", "force"}

FaultKinds ==
    {"client", "pull", "create", "timeout", "signal", "prep", "start", "fail"}

ASSUME PoolAssumption ==
    /\ IsFiniteSet(Worker) /\ IsFiniteSet(Client) /\ IsFiniteSet(Spawner)
    /\ Worker \cap Client = {}
    /\ NoWorker \notin Worker
    /\ MaxWorkers \in Nat \ {0}
    /\ Budget \in [RequestKinds -> Nat]
    /\ Faults \subseteq FaultKinds

VARIABLES
    actor,    \* the document of the actor in the actors store
    store,    \* the documents of its workers in the workers store
    issued,   \* the worker ids generated so far
    used,     \* how many requests of each kind were issued
    job,      \* what each caller of the worker API is in the middle of
    cmd,      \* the command channel, oldest command first
    wch,      \* the channel of each worker, oldest message first
    spawner,  \* where each spawner is in run(), and its local variables
    signal,   \* the workers whose SpawnerWorkerChannel holds 'READY'
    main,     \* where the main thread of each worker process is
    thread,   \* where its channel thread is, and the message it handles
    keep,     \* globals.keep_running of each worker process
    inbox,    \* the number of messages in the actor's inbox
    held      \* the workers that hold an unacknowledged message

vars == <<actor, store, issued, used, job, cmd, wch, spawner, signal, main,
          thread, keep, inbox, held>>

processVars == <<signal, main, thread, keep, inbox, held>>

(* The main thread of a worker that gives up runs shutdown_workers() as the *)
(* handlers do: it is a caller of the worker API as well.                   *)
Agent == Client \cup Worker

(* The actor document is a ghost when only its status was ever upserted;    *)
(* Actor.from_db() fails on a ghost as it does on a missing document.       *)
ActorStatuses == {"SUBMITTED", "READY", "ERROR", "SHUTTING_DOWN"}
ActorDoc == [kind : {"full", "ghost", "absent"}, status : ActorStatuses \cup {"NULL"}]
NoActor == [kind |-> "absent", status |-> "NULL"]

ActorFull == actor.kind = "full"

(* Actor.set_status() upserts the status.                                   *)
SetActorStatus(s) ==
    actor' = [kind |-> IF actor.kind = "absent" THEN "ghost" ELSE actor.kind,
              status |-> s]

(* Worker.get_workers()                                                     *)
Owned == {w \in Worker : store[w].owned}

(* get_tot_workers(): the records with this host's id.                      *)
Hosted == {w \in Worker : store[w].hosted}

StopMsgs == {"stop", "stop-no-delete"}

JobPcs == {"idle", "check", "count", "add", "put", "save", "retire", "list",
           "touch", "mark", "send", "wait"}
JobOps == RequestKinds \cup {"none", "create", "giveup"}
IdleJob == [pc |-> "idle", op |-> "none", w |-> NoWorker, todo |-> {},
            left |-> 0, seen |-> "NULL"]

(* The message that ends a shutdown_worker() call made for an operation:    *)
(* delete_actor_ch is left at its default by DELETE actor and by the health *)
(* check only.                                                              *)
StopMsgOf(op) == IF op \in {"delete", "expire"} THEN "stop"
                 ELSE IF op = "force" THEN "force_quit"
                 ELSE "stop-no-delete"

IdleSpawner == [pc |-> "check", w |-> NoWorker, stop |-> FALSE, bad |-> FALSE,
                todo |-> {}]
SpawnerPcs == {"check", "get", "actor", "worker", "drop", "setup", "pull",
               "create", "run", "kill", "confirm", "ready", "add", "signal",
               "stopList", "stopEach", "errActor", "errWorker", "errStop"}

MainPcs == {"none", "waiting", "starting", "top", "get", "got", "actor", "run",
            "touch", "limit", "error", "giveup", "ended", "exited"}
(* The main thread's pcs of a process that exists.                          *)
Alive(w) == main[w] \notin {"none", "exited"}

ThreadPcs == {"off", "listen", "mark", "delete", "close", "exit"}
(* The channel thread has taken a stop message and is shutting down.        *)
Stopping(w) == thread[w].pc \in {"mark", "delete", "close", "exit"}

(* The saved actor's POST handler is about to call ensure_one_worker(), if  *)
(* the instance is configured to start initial workers.                     *)
Init ==
    /\ actor = [kind |-> "full", status |-> "SUBMITTED"]
    /\ store = [w \in Worker |-> Absent]
    /\ issued = {}
    /\ used = [k \in RequestKinds |-> 0]
    /\ \E creators \in SUBSET Client :
         /\ Cardinality(creators) <= 1
         /\ job = [a \in Agent |->
                     IF a \in creators
                     THEN [IdleJob EXCEPT !.pc = "count", !.op = "create", !.left = 1]
                     ELSE IdleJob]
    /\ cmd = <<>>
    /\ wch = [w \in Worker |-> <<>>]
    /\ spawner = [s \in Spawner |-> IdleSpawner]
    /\ signal = {}
    /\ main = [w \in Worker |-> "none"]
    /\ thread = [w \in Worker |-> [pc |-> "off", msg |-> "stop"]]
    /\ keep = [w \in Worker |-> TRUE]
    /\ inbox = 0
    /\ held = {}

-----------------------------------------------------------------------------
(* The callers of the worker API.                                           *)

(* The caller a goes on with j as what it is in the middle of.              *)
Continue(a, j) == job' = [job EXCEPT ![a] = j]

(* A client thread takes up a request of kind op and starts its handler.    *)
Begin(c, op, j) ==
    /\ job[c].pc = "idle"
    /\ used[op] < Budget[op]
    /\ used' = [used EXCEPT ![op] = @ + 1]
    /\ Continue(c, j)

(* MessagesResource.post(): the message is put in the inbox before the      *)
(* handler makes sure that a worker is there to take it.                    *)
PostMessage(c) ==
    /\ ActorFull
    /\ Begin(c, "message",
             [IdleJob EXCEPT !.pc = "check", !.op = "message", !.left = 1])
    /\ inbox' = inbox + 1
    /\ UNCHANGED <<actor, store, issued, cmd, wch, spawner, signal, main,
                   thread, keep, held>>

(* The actor is read again before ensure_one_worker() is called on it.      *)
CheckActor(a) ==
    /\ job[a].pc = "check"
    /\ Continue(a, IF ActorFull THEN [job[a] EXCEPT !.pc = "count"] ELSE IdleJob)
    /\ UNCHANGED <<actor, store, issued, used, cmd, wch, spawner, processVars>>

(* WorkersResource.post() asked for n workers.                              *)
RequestWorkers(c) ==
    /\ ActorFull
    /\ \E n \in 1..Cardinality(Worker) :
         Begin(c, "workers",
               [IdleJob EXCEPT !.pc = "count", !.op = "workers", !.left = n])
    /\ UNCHANGED <<actor, store, issued, cmd, wch, spawner, processVars>>

(* The workers of the actor are counted, and only the missing ones are      *)
(* requested: ensure_one_worker() is the case of one.                       *)
CountWorkers(a) ==
    /\ job[a].pc = "count"
    /\ LET current == Cardinality(Owned)
       IN  Continue(a, IF current < job[a].left
                       THEN [job[a] EXCEPT !.pc = "add", !.left = @ - current]
                       ELSE IdleJob)
    /\ UNCHANGED <<actor, store, issued, used, cmd, wch, spawner, processVars>>

(* A record in status REQUESTED is written under a new id.  Bound: when     *)
(* every id of Worker has been used the request ends without a worker.      *)
AddRecord(a) ==
    /\ job[a].pc = "add"
    /\ \/ \E w \in Worker \ issued :
            /\ store' = [store EXCEPT ![w] = RequestedDoc]
            /\ issued' = issued \cup {w}
            /\ Continue(a, [job[a] EXCEPT !.pc = "put", !.w = w])
       \/ /\ issued = Worker
          /\ Continue(a, IdleJob)
          /\ UNCHANGED <<store, issued>>
    /\ UNCHANGED <<actor, used, cmd, wch, spawner, processVars>>

(* Mutant of PutCommand: nothing is put while a command is waiting.         *)
PutCommandIfIdle(a) ==
    /\ job[a].pc = "put"
    /\ cmd' = IF cmd = <<>> THEN <<[w |-> job[a].w, stop |-> job[a].op = "update"]>>
              ELSE cmd
    /\ Continue(a, IF job[a].left > 1
                   THEN [job[a] EXCEPT !.pc = "add", !.w = NoWorker, !.left = @ - 1]
                   ELSE IdleJob)
    /\ UNCHANGED <<actor, store, issued, used, wch, spawner, processVars>>

(* put_cmd(): only the update of an image leaves stop_existing at True.     *)
PutCommand(a) ==
    /\ job[a].pc = "put"
    /\ cmd' = Append(cmd, [w |-> job[a].w, stop |-> job[a].op = "update"])
    /\ Continue(a, IF job[a].left > 1
                   THEN [job[a] EXCEPT !.pc = "add", !.w = NoWorker, !.left = @ - 1]
                   ELSE IdleJob)
    /\ UNCHANGED <<actor, store, issued, used, wch, spawner, processVars>>

(* ActorResource.put(): the status read here is written back by SaveActor   *)
(* when the image stays the same ("put").                                   *)
UpdateActor(c) ==
    /\ ActorFull
    /\ \E op \in {"update", "put"} :
         Begin(c, op, [IdleJob EXCEPT !.pc = "save", !.op = op,
                                      !.left = 1, !.seen = actor.status])
    /\ UNCHANGED <<actor, store, issued, cmd, wch, spawner, processVars>>

SaveActor(c) ==
    /\ job[c].pc = "save"
    /\ IF job[c].op = "update"
       THEN /\ actor' = [kind |-> "full", status |-> "SUBMITTED"]
            /\ Continue(c, [job[c] EXCEPT !.pc = "add"])
       ELSE /\ actor' = [kind |-> "full", status |-> job[c].seen]
            /\ Continue(c, IdleJob)
    /\ UNCHANGED <<store, issued, used, cmd, wch, spawner, processVars>>

(* WorkerResource.delete()                                                  *)
StopWorker(c) ==
    /\ \E w \in {x \in Worker : HasId(store[x])} :
         Begin(c, "stop", [IdleJob EXCEPT !.pc = "mark", !.op = "stop", !.todo = {w}])
    /\ UNCHANGED <<actor, store, issued, cmd, wch, spawner, processVars>>

(* check_workers() reads the list of workers, and goes on with one of this  *)
(* host that answers its status check.                                      *)
CheckHealth(c) ==
    /\ \E w \in Owned \cap Hosted :
         Begin(c, "expire", [IdleJob EXCEPT !.pc = "touch", !.op = "expire",
                                            !.todo = {w}, !.seen = store[w].status])
    /\ UNCHANGED <<actor, store, issued, cmd, wch, spawner, processVars>>

(* update_worker_health_time(); a worker that was not busy in the list, and *)
(* has been idle beyond its time to live, is then shut down.                *)
TouchWorker(a) ==
    /\ job[a].pc = "touch"
    /\ \E w \in job[a].todo : store' = [store EXCEPT ![w] = TouchUpsert(@)]
    /\ \/ Continue(a, IdleJob)
       \/ job[a].seen # "BUSY" /\ Continue(a, [job[a] EXCEPT !.pc = "mark"])
    /\ UNCHANGED <<actor, issued, used, cmd, wch, spawner, processVars>>

(* ActorExecutionResource.delete() on an execution in status RUNNING.       *)
ForceQuit(c) ==
    /\ \E w \in {x \in Worker : main[x] = "run"} :
         Begin(c, "force", [IdleJob EXCEPT !.pc = "send", !.op = "force",
                                           !.w = w, !.todo = {w}])
    /\ UNCHANGED <<actor, store, issued, cmd, wch, spawner, processVars>>

(* ActorResource.delete(): an actor that is already gone is not marked.     *)
DeleteActor(c) ==
    /\ actor.kind # "ghost"
    /\ Begin(c, "delete",
             [IdleJob EXCEPT !.pc = IF ActorFull THEN "retire" ELSE "list",
                             !.op = "delete"])
    /\ UNCHANGED <<actor, store, issued, cmd, wch, spawner, processVars>>

RetireActor(c) ==
    /\ job[c].pc = "retire"
    /\ SetActorStatus("SHUTTING_DOWN")
    /\ Continue(c, [job[c] EXCEPT !.pc = "list"])
    /\ UNCHANGED <<store, issued, used, cmd, wch, spawner, processVars>>

(* What a caller does when it has stopped every worker of its list.         *)
AfterStops(j) == IF j.op = "delete" THEN [j EXCEPT !.pc = "wait", !.w = NoWorker]
                 ELSE IdleJob

(* shutdown_workers(): the list is read once.                               *)
ListWorkers(a) ==
    /\ job[a].pc = "list"
    /\ Continue(a, IF Owned = {} THEN AfterStops(job[a])
                   ELSE [job[a] EXCEPT !.pc = "mark", !.todo = Owned])
    /\ UNCHANGED <<actor, store, issued, used, cmd, wch, spawner, processVars>>

(* shutdown_worker(): the record is marked, then the message is sent.       *)
MarkWorker(a) ==
    /\ job[a].pc = "mark"
    /\ \E w \in job[a].todo :
         /\ store' = [store EXCEPT ![w] = UpdateWorkerStatus(@, "SHUTDOWN_REQUESTED")]
         /\ Continue(a, [job[a] EXCEPT !.pc = "send", !.w = w])
    /\ UNCHANGED <<actor, issued, used, cmd, wch, spawner, processVars>>

(* Mutant of SendStop: a message reaches only a worker that is listening.   *)
SendStopToListener(a) ==
    /\ job[a].pc = "send"
    /\ LET w    == job[a].w
           rest == job[a].todo \ {w}
       IN  /\ wch' = IF thread[w].pc = "listen"
                     THEN [wch EXCEPT ![w] = Append(@, StopMsgOf(job[a].op))]
                     ELSE wch
           /\ Continue(a, IF rest = {} THEN AfterStops([job[a] EXCEPT !.todo = {}])
                          ELSE [job[a] EXCEPT !.pc = "mark", !.w = NoWorker,
                                              !.todo = rest])
    /\ UNCHANGED <<actor, store, issued, used, cmd, spawner, processVars>>

SendStop(a) ==
    /\ job[a].pc = "send"
    /\ LET w    == job[a].w
           rest == job[a].todo \ {w}
       IN  /\ wch' = [wch EXCEPT ![w] = Append(@, StopMsgOf(job[a].op))]
           /\ Continue(a, IF rest = {} THEN AfterStops([job[a] EXCEPT !.todo = {}])
                          ELSE [job[a] EXCEPT !.pc = "mark", !.w = NoWorker,
                                              !.todo = rest])
    /\ UNCHANGED <<actor, store, issued, used, cmd, spawner, processVars>>

(* The handler waits until no worker is left, but at most 20 seconds, so it *)
(* may go on in any state.  ActorMsgChannel.delete() only closes the        *)
(* handler's own connection: the inbox stays as it is.                      *)
EraseActor(c) ==
    /\ job[c].pc = "wait"
    /\ actor' = NoActor
    /\ Continue(c, IdleJob)
    /\ UNCHANGED <<store, issued, used, cmd, wch, spawner, processVars>>

NewRequest(c) ==
    \/ PostMessage(c) \/ RequestWorkers(c) \/ UpdateActor(c)
    \/ StopWorker(c) \/ CheckHealth(c) \/ ForceQuit(c) \/ DeleteActor(c)

(* A worker that is a caller goes no further once its process has exited.   *)
JobStep(a) ==
    /\ a \in Worker => main[a] # "exited"
    /\ \/ CheckActor(a) \/ CountWorkers(a) \/ AddRecord(a) \/ PutCommand(a)
       \/ SaveActor(a) \/ RetireActor(a) \/ ListWorkers(a) \/ TouchWorker(a)
       \/ MarkWorker(a) \/ SendStop(a) \/ EraseActor(a)

-----------------------------------------------------------------------------
(* The spawners.                                                            *)

callerVars == <<issued, used, job>>

Become(s, r) == spawner' = [spawner EXCEPT ![s] = r]
Goto(s, pc)  == Become(s, [spawner[s] EXCEPT !.pc = pc])
Release(s)   == Become(s, IdleSpawner)

(* Mutant of SpawnerCheck: off by one.                                      *)
SpawnerCheckAtMost(s) ==
    /\ spawner[s].pc = "check"
    /\ Cardinality(Hosted) <= MaxWorkers
    /\ Goto(s, "get")
    /\ UNCHANGED <<actor, store, callerVars, cmd, wch, processVars>>

(* overloaded(): commands are only taken below MAX_WORKERS records.         *)
SpawnerCheck(s) ==
    /\ spawner[s].pc = "check"
    /\ Cardinality(Hosted) < MaxWorkers
    /\ Goto(s, "get")
    /\ UNCHANGED <<actor, store, callerVars, cmd, wch, processVars>>

(* Mutant of SpawnerGet: the command is not acknowledged, and comes again.  *)
SpawnerGetNoAck(s) ==
    /\ spawner[s].pc = "get"
    /\ cmd # <<>>
    /\ Become(s, [spawner[s] EXCEPT !.pc = "actor", !.w = Head(cmd).w,
                                    !.stop = Head(cmd).stop])
    /\ UNCHANGED <<actor, store, callerVars, cmd, wch, processVars>>

(* The command is acknowledged at once: it is never delivered again.        *)
SpawnerGet(s) ==
    /\ spawner[s].pc = "get"
    /\ cmd # <<>>
    /\ cmd' = Tail(cmd)
    /\ Become(s, [spawner[s] EXCEPT !.pc = "actor", !.w = Head(cmd).w,
                                    !.stop = Head(cmd).stop])
    /\ UNCHANGED <<actor, store, callerVars, wch, processVars>>

(* process(): the command is dropped when the actor is gone.  Its status is *)
(* kept for the test made after the worker's record was read.               *)
SpawnerReadActor(s) ==
    /\ spawner[s].pc = "actor"
    /\ IF ActorFull
       THEN Become(s, [spawner[s] EXCEPT !.pc = "worker",
                                         !.bad = (actor.status = "ERROR")])
       ELSE Release(s)
    /\ UNCHANGED <<actor, store, callerVars, cmd, wch, processVars>>

(* Mutant of SpawnerReadWorker: a worker that was stopped is left alone.    *)
SpawnerReadWorkerSkips(s) ==
    /\ spawner[s].pc = "worker"
    /\ LET doc == store[spawner[s].w]
       IN  IF doc.exists /\ doc.status = "REQUESTED"
           THEN Goto(s, IF spawner[s].bad THEN "drop" ELSE "setup")
           ELSE Release(s)
    /\ UNCHANGED <<actor, store, callerVars, cmd, wch, processVars>>

(* A worker that was stopped before it was started is removed, and so is    *)
(* the worker of an actor in ERROR; any other status is left alone.         *)
SpawnerReadWorker(s) ==
    /\ spawner[s].pc = "worker"
    /\ LET doc == store[spawner[s].w]
       IN  \/ /\ doc.exists
              /\ \/ doc.status \in {"SHUTDOWN_REQUESTED", "SHUTTING_DOWN"}
                 \/ doc.status = "REQUESTED" /\ spawner[s].bad
              /\ Goto(s, "drop")
           \/ /\ doc.exists /\ doc.status = "REQUESTED" /\ ~spawner[s].bad
              /\ Goto(s, "setup")
           \/ /\ ~(doc.exists /\ doc.status \in
                     {"SHUTDOWN_REQUESTED", "SHUTTING_DOWN", "REQUESTED"})
              /\ Release(s)
    /\ UNCHANGED <<actor, store, callerVars, cmd, wch, processVars>>

(* delete_worker(), or kill_worker(), as the last thing done for a command. *)
SpawnerDrop(s) ==
    /\ spawner[s].pc = "drop"
    /\ store' = [store EXCEPT ![spawner[s].w] = Absent]
    /\ Release(s)
    /\ UNCHANGED <<actor, callerVars, cmd, wch, processVars>>

(* Client generation fails after ten attempts: the record is removed and    *)
(* nothing else is done.                                                    *)
SpawnerSetup(s) ==
    /\ spawner[s].pc = "setup"
    /\ store' = [store EXCEPT ![spawner[s].w] = UpdateWorkerStatus(@, "SPAWNER_SETUP")]
    /\ \/ Goto(s, "pull")
       \/ "client" \in Faults /\ Goto(s, "drop")
    /\ UNCHANGED <<actor, callerVars, cmd, wch, processVars>>

SpawnerPull(s) ==
    /\ spawner[s].pc = "pull"
    /\ store' = [store EXCEPT ![spawner[s].w] = UpdateWorkerStatus(@, "PULLING_IMAGE")]
    /\ \/ Goto(s, "create")
       \/ "pull" \in Faults /\ Goto(s, "errActor")
    /\ UNCHANGED <<actor, callerVars, cmd, wch, processVars>>

SpawnerCreate(s) ==
    /\ spawner[s].pc = "create"
    /\ store' = [store EXCEPT ![spawner[s].w] = UpdateWorkerStatus(@, "CREATING_CONTAINER")]
    /\ Goto(s, "run")
    /\ UNCHANGED <<actor, callerVars, cmd, wch, processVars>>

(* run_worker() starts the container: its main thread waits for 'READY'.    *)
SpawnerRun(s) ==
    /\ spawner[s].pc = "run"
    /\ main[spawner[s].w] = "none"
    /\ main' = [main EXCEPT ![spawner[s].w] = "waiting"]
    /\ Goto(s, "confirm")
    /\ UNCHANGED <<actor, store, callerVars, cmd, wch, signal, thread, keep,
                   inbox, held>>

(* Mutant of SpawnerRunTimeout: a timeout is taken for a started container. *)
SpawnerRunTimeoutGoesOn(s) ==
    /\ spawner[s].pc = "run"
    /\ "timeout" \in Faults
    /\ Goto(s, "confirm")
    /\ UNCHANGED <<actor, store, callerVars, cmd, wch, processVars>>

(* A read timeout, after which the container may or may not be running.  It *)
(* is tried again, up to 20 times; bound: the count is left out.            *)
SpawnerRunTimeout(s) ==
    /\ spawner[s].pc = "run"
    /\ "timeout" \in Faults
    /\ \/ UNCHANGED main
       \/ main[spawner[s].w] = "none"
          /\ main' = [main EXCEPT ![spawner[s].w] = "waiting"]
    /\ \/ Goto(s, "run")
       \/ Goto(s, "errActor")
    /\ UNCHANGED <<actor, store, callerVars, cmd, wch, signal, thread, keep,
                   inbox, held>>

(* Any other error; one is certain when a container of that name exists.    *)
SpawnerRunError(s) ==
    /\ spawner[s].pc = "run"
    /\ "create" \in Faults \/ main[spawner[s].w] # "none"
    /\ Goto(s, "kill")
    /\ UNCHANGED <<actor, store, callerVars, cmd, wch, processVars>>

SpawnerKill(s) ==
    /\ spawner[s].pc = "kill"
    /\ store' = [store EXCEPT ![spawner[s].w] = Absent]
    /\ Goto(s, "errActor")
    /\ UNCHANGED <<actor, callerVars, cmd, wch, processVars>>

(* The actor is read again; a missing actor raises an exception here.       *)
SpawnerConfirm(s) ==
    /\ spawner[s].pc = "confirm"
    /\ Goto(s, IF ~ActorFull THEN "errActor"
               ELSE IF actor.status = "READY" THEN "add" ELSE "ready")
    /\ UNCHANGED <<actor, store, callerVars, cmd, wch, processVars>>

SpawnerReady(s) ==
    /\ spawner[s].pc = "ready"
    /\ SetActorStatus("READY")
    /\ Goto(s, "add")
    /\ UNCHANGED <<store, callerVars, cmd, wch, processVars>>

SpawnerAdd(s) ==
    /\ spawner[s].pc = "add"
    /\ store' = [store EXCEPT ![spawner[s].w] = AddWorker(@)]
    /\ Goto(s, "signal")
    /\ UNCHANGED <<actor, callerVars, cmd, wch, processVars>>

(* ch.put('READY')                                                          *)
SpawnerSignal(s) ==
    /\ spawner[s].pc = "signal"
    /\ \/ /\ signal' = signal \cup {spawner[s].w}
          /\ IF spawner[s].stop THEN Goto(s, "stopList") ELSE Release(s)
       \/ /\ "signal" \in Faults
          /\ Goto(s, "errActor")
          /\ UNCHANGED signal
    /\ UNCHANGED <<actor, store, callerVars, cmd, wch, main, thread, keep, inbox, held>>

(* stop_workers(): all the workers but the new one after an update, all of  *)
(* them in error_out_actor().  Statuses are not changed.                    *)
SpawnerStopList(s) ==
    /\ spawner[s].pc \in {"stopList", "errStop"}
    /\ LET others == IF spawner[s].pc = "stopList" THEN Owned \ {spawner[s].w}
                     ELSE Owned
       IN  IF others = {} THEN Release(s)
           ELSE Become(s, [spawner[s] EXCEPT !.pc = "stopEach", !.todo = others])
    /\ UNCHANGED <<actor, store, callerVars, cmd, wch, processVars>>

SpawnerStopEach(s) ==
    /\ spawner[s].pc = "stopEach"
    /\ \E w \in spawner[s].todo :
         /\ wch' = [wch EXCEPT ![w] = Append(@, "stop-no-delete")]
         /\ IF spawner[s].todo = {w} THEN Release(s)
            ELSE Become(s, [spawner[s] EXCEPT !.todo = @ \ {w}])
    /\ UNCHANGED <<actor, store, callerVars, cmd, processVars>>

(* error_out_actor()                                                        *)
SpawnerErrActor(s) ==
    /\ spawner[s].pc = "errActor"
    /\ SetActorStatus("ERROR")
    /\ Goto(s, "errWorker")
    /\ UNCHANGED <<store, callerVars, cmd, wch, processVars>>

(* What is done depends on how far the worker's record got.                 *)
SpawnerErrWorker(s) ==
    /\ spawner[s].pc = "errWorker"
    /\ LET doc     == store[spawner[s].w]
           started == doc.exists /\ doc.status \in {"UPDATING_STORE", "READY", "BUSY"}
           unborn  == doc.exists /\ doc.status \in
                        {"REQUESTED", "SPAWNER_SETUP", "PULLING_IMAGE"}
       IN  \/ started /\ Goto(s, "errStop")
           \/ unborn /\ Goto(s, "drop")
           \/ ~started /\ ~unborn /\ Release(s)
    /\ UNCHANGED <<actor, store, callerVars, cmd, wch, processVars>>

SpawnerStep(s) ==
    \/ SpawnerCheck(s) \/ SpawnerGet(s) \/ SpawnerReadActor(s)
    \/ SpawnerReadWorker(s) \/ SpawnerDrop(s) \/ SpawnerSetup(s)
    \/ SpawnerPull(s) \/ SpawnerCreate(s) \/ SpawnerRun(s)
    \/ SpawnerRunTimeout(s) \/ SpawnerRunError(s) \/ SpawnerKill(s)
    \/ SpawnerConfirm(s) \/ SpawnerReady(s) \/ SpawnerAdd(s)
    \/ SpawnerSignal(s) \/ SpawnerStopList(s) \/ SpawnerStopEach(s)
    \/ SpawnerErrActor(s) \/ SpawnerErrWorker(s)

-----------------------------------------------------------------------------
(* The main thread of a worker process: main() and subscribe().             *)

sharedVars == <<issued, used, cmd, spawner>>

(* nack(requeue=True), or the broker's reaction to a closed connection.     *)
Requeue(w) ==
    /\ inbox' = inbox + Cardinality(held \cap {w})
    /\ held' = held \ {w}

(* The channel thread closed the connection to the inbox, see ThreadClose.  *)
InboxClosed(w) == thread[w] = [pc |-> "exit", msg |-> "stop"]

(* 'READY' has come; subscribe() starts the channel thread...               *)
MainStart(w) ==
    /\ main[w] = "waiting"
    /\ w \in signal
    /\ signal' = signal \ {w}
    /\ main' = [main EXCEPT ![w] = "starting"]
    /\ thread' = [thread EXCEPT ![w].pc = "listen"]
    /\ UNCHANGED <<actor, store, sharedVars, job, wch, keep, inbox, held>>

(* ... and only then sets globals.keep_running.                             *)
MainKeep(w) ==
    /\ main[w] = "starting"
    /\ keep' = [keep EXCEPT ![w] = TRUE]
    /\ main' = [main EXCEPT ![w] = "top"]
    /\ UNCHANGED <<actor, store, sharedVars, job, wch, signal, thread, inbox, held>>

MainTop(w) ==
    /\ main[w] = "top"
    /\ IF keep[w]
       THEN /\ store' = [store EXCEPT ![w] = UpdateWorkerStatus(@, "READY")]
            /\ main' = [main EXCEPT ![w] = "get"]
       ELSE /\ main' = [main EXCEPT ![w] = "ended"]
            /\ UNCHANGED store
    /\ UNCHANGED <<actor, sharedVars, job, wch, signal, thread, keep, inbox, held>>

(* Mutant of MainGet: an empty answer is taken for a message.               *)
MainGetAny(w) ==
    /\ main[w] = "get"
    /\ ~InboxClosed(w)
    /\ inbox' = inbox - 1
    /\ held' = held \cup {w}
    /\ main' = [main EXCEPT ![w] = "got"]
    /\ UNCHANGED <<actor, store, sharedVars, job, wch, signal, thread, keep>>

(* actor_ch.get_one(): the prefetch count is one, a worker holds at most    *)
(* one message that it has not acknowledged.                                *)
MainGet(w) ==
    /\ main[w] = "get"
    /\ inbox > 0
    /\ ~InboxClosed(w)
    /\ inbox' = inbox - 1
    /\ held' = held \cup {w}
    /\ main' = [main EXCEPT ![w] = "got"]
    /\ UNCHANGED <<actor, store, sharedVars, job, wch, signal, thread, keep>>

(* A stop that came while the thread was blocked is honoured here.          *)
MainGot(w) ==
    /\ main[w] = "got"
    /\ IF keep[w]
       THEN /\ store' = [store EXCEPT ![w] = UpdateWorkerStatus(@, "BUSY")]
            /\ main' = [main EXCEPT ![w] = "actor"]
            /\ UNCHANGED <<inbox, held>>
       ELSE /\ Requeue(w)
            /\ main' = [main EXCEPT ![w] = "ended"]
            /\ UNCHANGED store
    /\ UNCHANGED <<actor, sharedVars, job, wch, signal, thread, keep>>

(* The actor is read and the execution prepared; whatever fails here        *)
(* requeues the message and ends the main thread with an exception.         *)
MainReadActor(w) ==
    /\ main[w] = "actor"
    /\ \/ /\ ActorFull
          /\ main' = [main EXCEPT ![w] = "run"]
          /\ UNCHANGED <<inbox, held>>
       \/ /\ ~ActorFull \/ "prep" \in Faults
          /\ Requeue(w)
          /\ main' = [main EXCEPT ![w] = "ended"]
    /\ UNCHANGED <<actor, store, sharedVars, job, wch, signal, thread, keep>>

(* execute_actor() returns and the message is acknowledged, which raises an *)
(* exception when the channel thread has closed the connection.             *)
MainDone(w) ==
    /\ main[w] = "run"
    /\ held' = held \ {w}
    /\ main' = [main EXCEPT ![w] = IF w \in held THEN "touch" ELSE "ended"]
    /\ UNCHANGED <<actor, store, sharedVars, job, wch, signal, thread, keep, inbox>>

(* update_worker_execution_time()                                           *)
MainTouch(w) ==
    /\ main[w] = "touch"
    /\ store' = [store EXCEPT ![w] = TouchUpsert(@)]
    /\ main' = [main EXCEPT ![w] = "top"]
    /\ UNCHANGED <<actor, sharedVars, job, wch, signal, thread, keep, inbox, held>>

(* The actor container does not start: the message is requeued, and after   *)
(* MAX_WORKER_CONSECUTIVE_ERRORS times in a row the worker gives up; bound: *)
(* the count is left out, it may give up at any time.                       *)
MainStartError(w) ==
    /\ main[w] = "run"
    /\ "start" \in Faults
    /\ Requeue(w)
    /\ \E pc \in IF w \in held THEN {"top", "limit"} ELSE {"ended"} :
         main' = [main EXCEPT ![w] = pc]
    /\ UNCHANGED <<actor, store, sharedVars, job, wch, signal, thread, keep>>

(* The same after any other exception of execute_actor().                   *)
MainSetError(w) ==
    /\ main[w] = "limit" \/ (main[w] = "run" /\ "fail" \in Faults)
    /\ SetActorStatus("ERROR")
    /\ main' = [main EXCEPT ![w] = IF @ = "limit" THEN "giveup" ELSE "error"]
    /\ UNCHANGED <<store, sharedVars, job, wch, signal, thread, keep, inbox, held>>

(* The message of a failed execution is acknowledged.                       *)
MainAckError(w) ==
    /\ main[w] = "error"
    /\ held' = held \ {w}
    /\ main' = [main EXCEPT ![w] = IF w \in held THEN "giveup" ELSE "ended"]
    /\ UNCHANGED <<actor, store, sharedVars, job, wch, signal, thread, keep, inbox>>

(* The worker shuts down all the workers of the actor, itself included.     *)
MainGiveUp(w) ==
    /\ main[w] = "giveup"
    /\ Continue(w, [IdleJob EXCEPT !.pc = "list", !.op = "giveup"])
    /\ main' = [main EXCEPT ![w] = "ended"]
    /\ UNCHANGED <<actor, store, sharedVars, wch, signal, thread, keep, inbox, held>>

MainStep(w) ==
    \/ MainStart(w) \/ MainKeep(w) \/ MainTop(w) \/ MainGet(w) \/ MainGot(w)
    \/ MainReadActor(w) \/ MainDone(w) \/ MainTouch(w) \/ MainStartError(w)
    \/ MainSetError(w) \/ MainAckError(w) \/ MainGiveUp(w)

-----------------------------------------------------------------------------
(* The channel thread of a worker process: process_worker_ch().             *)

(* force_quit ends the main loop but not this thread, whose own loop tests  *)
(* another variable; a stop message is the last one the thread takes.       *)
ThreadGet(w) ==
    /\ thread[w].pc = "listen"
    /\ wch[w] # <<>>
    /\ wch' = [wch EXCEPT ![w] = Tail(@)]
    /\ keep' = [keep EXCEPT ![w] = FALSE]
    /\ thread' = [thread EXCEPT ![w] =
                    IF Head(wch[w]) = "force_quit" THEN @
                    ELSE [pc |-> "mark", msg |-> Head(wch[w])]]
    /\ UNCHANGED <<actor, store, sharedVars, job, signal, main, inbox, held>>

ThreadMark(w) ==
    /\ thread[w].pc = "mark"
    /\ store' = [store EXCEPT ![w] = UpdateWorkerStatus(@, "SHUTTING_DOWN")]
    /\ thread' = [thread EXCEPT ![w].pc = "delete"]
    /\ UNCHANGED <<actor, sharedVars, job, wch, signal, main, keep, inbox, held>>

(* Mutant of ThreadDelete: the record is not removed.                       *)
ThreadDeleteFails(w) ==
    /\ thread[w].pc = "delete"
    /\ thread' = [thread EXCEPT ![w].pc = "close"]
    /\ UNCHANGED <<actor, store, sharedVars, job, wch, signal, main, keep, inbox, held>>

ThreadDelete(w) ==
    /\ thread[w].pc = "delete"
    /\ store' = [store EXCEPT ![w] = Absent]
    /\ thread' = [thread EXCEPT ![w].pc = "close"]
    /\ UNCHANGED <<actor, sharedVars, job, wch, signal, main, keep, inbox, held>>

(* After 'stop', ActorMsgChannel.delete() closes the connection that the    *)
(* main thread uses, so the broker requeues the message it holds.  The      *)
(* worker's own channel is deleted with whatever is left in it.             *)
ThreadClose(w) ==
    /\ thread[w].pc = "close"
    /\ IF thread[w].msg = "stop" THEN Requeue(w) ELSE UNCHANGED <<inbox, held>>
    /\ wch' = [wch EXCEPT ![w] = <<>>]
    /\ thread' = [thread EXCEPT ![w].pc = "exit"]
    /\ UNCHANGED <<actor, store, sharedVars, job, signal, main, keep>>

(* Mutant of ThreadExit: the broker keeps the message as unacknowledged.    *)
ThreadExitKeeps(w) ==
    /\ thread[w].pc = "exit"
    /\ main' = [main EXCEPT ![w] = "exited"]
    /\ thread' = [thread EXCEPT ![w].pc = "off"]
    /\ UNCHANGED <<actor, store, sharedVars, job, wch, signal, keep, inbox, held>>

(* os._exit(0), wherever the main thread is.                                *)
ThreadExit(w) ==
    /\ thread[w].pc = "exit"
    /\ Requeue(w)
    /\ main' = [main EXCEPT ![w] = "exited"]
    /\ thread' = [thread EXCEPT ![w].pc = "off"]
    /\ UNCHANGED <<actor, store, sharedVars, job, wch, signal, keep>>

ThreadStep(w) ==
    \/ ThreadGet(w) \/ ThreadMark(w) \/ ThreadDelete(w) \/ ThreadClose(w)
    \/ ThreadExit(w)

-----------------------------------------------------------------------------
Next ==
    \/ \E c \in Client : NewRequest(c)
    \/ \E a \in Agent : JobStep(a)
    \/ \E s \in Spawner : SpawnerStep(s)
    \/ \E w \in Worker : MainStep(w) \/ ThreadStep(w)

Spec == Init /\ [][Next]_vars

(* Every thread that can take a step eventually does: handlers finish, and  *)
(* executions end, which is an assumption about the actors' containers: by  *)
(* default (max_run_time, abaco.conf:62) nothing stops one that does not.   *)
(* Nothing makes a client issue a request.                                  *)
Fairness ==
    /\ \A a \in Agent : WF_vars(JobStep(a))
    /\ \A s \in Spawner : WF_vars(SpawnerStep(s))
    /\ \A w \in Worker : WF_vars(MainStep(w)) /\ WF_vars(ThreadStep(w))

FairSpec == Spec /\ Fairness

-----------------------------------------------------------------------------
JobRecord == [pc : JobPcs, op : JobOps, w : Worker \cup {NoWorker},
              todo : SUBSET Worker, left : Nat, seen : ActorStatuses \cup Statuses]
Command == [w : Worker, stop : BOOLEAN]
WorkerMsg == StopMsgs \cup {"force_quit"}
SpawnerRecord == [pc : SpawnerPcs, w : Worker \cup {NoWorker}, stop : BOOLEAN,
                  bad : BOOLEAN, todo : SUBSET Worker]

(* Every variable holds a value of its kind: records, channels and the      *)
(* program counters of all the threads.                                     *)
TypeOK ==
    /\ actor \in ActorDoc
    /\ store \in [Worker -> Doc]
    /\ issued \subseteq Worker
    /\ used \in [RequestKinds -> Nat]
    /\ job \in [Agent -> JobRecord]
    /\ cmd \in Seq(Command)
    /\ wch \in [Worker -> Seq(WorkerMsg)]
    /\ spawner \in [Spawner -> SpawnerRecord]
    /\ signal \subseteq Worker
    /\ main \in [Worker -> MainPcs]
    /\ thread \in [Worker -> [pc : ThreadPcs, msg : StopMsgs]]
    /\ keep \in [Worker -> BOOLEAN]
    /\ inbox \in Nat
    /\ held \subseteq Worker

(* A record of the actor that offers a worker, in status READY or BUSY, has *)
(* a process behind it: ensure_one_worker() and POST workers rely on it     *)
(* when they count records instead of processes.                            *)
ReadyHasProcess ==
    \A w \in Worker :
        store[w].owned /\ store[w].status \in {"READY", "BUSY"} => Alive(w)

(* The places that can still lead to the start of worker w.                 *)
Putting(w)   == {a \in Agent : job[a].pc = "put" /\ job[a].w = w}
Queued(w)    == {i \in DOMAIN cmd : cmd[i].w = w}
HandledBy(w) == {s \in Spawner : spawner[s].w = w}

(* A worker id is in one pair of hands at most: a handler about to put its  *)
(* command, one command, or one spawner.  What the spawners write to its    *)
(* record and the READY message they send rely on it.                       *)
OneHandler ==
    \A w \in Worker :
        Cardinality(Putting(w)) + Cardinality(Queued(w)) + Cardinality(HandledBy(w)) <= 1

(* A worker whose record says that it was asked to stop, and whose process  *)
(* can still hear of it, is about to be sent a stop message, or the worker  *)
(* that was about to send it exited in between; or the message is on its    *)
(* way, or the worker is stopping.                                          *)
StopOnTheWay ==
    \A w \in Worker :
        store[w].status = "SHUTDOWN_REQUESTED" /\ main[w] # "exited" =>
            \/ \E a \in Agent : job[a].pc = "send" /\ job[a].w = w /\ job[a].op # "force"
            \/ \E i \in DOMAIN wch[w] : wch[w][i] \in StopMsgs
            \/ Stopping(w)

(* overloaded() is read before a spawner waits for a command, so each       *)
(* spawner of the host can exceed MAX_WORKERS by the one it was let through *)
(* for, and the records of the host never exceed this.                      *)
HostCapacity == Cardinality(Hosted) <= MaxWorkers - 1 + Cardinality(Spawner)

(* A worker that was asked to stop is removed from the store in the end.    *)
StopIsObeyed ==
    \A w \in Worker :
        (store[w].owned /\ store[w].status = "SHUTDOWN_REQUESTED") ~> ~store[w].owned

(* A requested worker is claimed by a spawner, or removed.                  *)
RequestIsHandled ==
    \A w \in Worker : (store[w].status = "REQUESTED") ~> (store[w].status # "REQUESTED")

(* A message in the inbox is taken and its execution acknowledged, unless   *)
(* the actor is left without a worker.                                      *)
MessagesAreRun == (inbox > 0) ~> ((inbox = 0 /\ held = {}) \/ Owned = {})

=============================================================================
