----------------------------- MODULE Executions -----------------------------
(* The executions of one actor: the API handlers that create, halt, watch   *)
(* and purge them (controllers.py), their documents (models.Execution), the *)
(* actor's inbox, and the worker processes that run them: the main loop of  *)
(* worker.subscribe() with docker_utils.execute_actor() inside it, and the  *)
(* thread that listens on the worker's channel.  How workers are requested, *)
(* started and registered is WorkerPool; here they are simply started.      *)
EXTENDS Naturals, Sequences, FiniteSets

CONSTANTS
    Execution,  \* the execution ids that get_uuid() may generate
    Worker,     \* the worker ids
    Caller,     \* threads of the API
    NoWorker,   \* an execution document without worker_id
    NoExecution,\* a worker that has not taken a message yet
    MaxErrors,  \* MAX_WORKER_CONSECUTIVE_ERRORS of worker.py
    Budget,     \* bound: how many requests of each kind, kills and datagrams
    Faults      \* the failures that may happen: a subset of FaultKinds

RequestKinds == {"sync", "halt", "stop", "purge", "kill", "datagram"}
FaultKinds == {"prep", "create", "start", "stop", "inspect"}

ASSUME ExecutionsAssumption ==
    /\ NoWorker \notin Worker
    /\ NoExecution \notin Execution
    /\ MaxErrors \in Nat
    /\ Budget \in [RequestKinds -> Nat]
    /\ Faults \subseteq FaultKinds

VARIABLES
    doc,       \* the status and worker_id of each execution document
    results,   \* the executions with a datagram on their results channel
    published, \* how many EXECUTION_COMPLETE events each execution has caused
    inbox,     \* the executions whose message is in the actor's inbox
    caller,    \* what each thread of the API is in the middle of
    used,      \* how many requests of each kind there have been
    main,      \* where the main thread of each worker is in subscribe()
    cur,       \* the execution of the message it took last
    held,      \* the workers whose last message is not acknowledged
    errors,    \* consecutive_errors of each worker
    running,   \* the actor containers that run, with the worker that started them
    thread,    \* where the channel thread is, and the message it handles
    wch,       \* the channel of each worker, oldest message first
    keep,      \* the workers whose globals.keep_running is true
    force      \* the workers whose globals.force_quit is true

docVars    == <<doc, results, published>>
mainVars   == <<main, cur, held, errors, running>>
threadVars == <<thread, wch>>
vars == <<docVars, inbox, caller, used, mainVars, threadVars, keep, force>>

MainPcs == {"off", "top", "get", "got", "assign", "enter", "create", "started",
            "loop", "check", "stop", "after", "ack", "status", "publish", "logs",
            "limit", "error", "ended", "exited"}
ThreadPcs == {"off", "listen", "close", "exit"}
CallerPcs == {"idle", "put", "halt", "poll", "reply"}
StopMsgs == {"stop", "stop-no-delete"}

Alive(w) == main[w] \notin {"off", "exited"}
(* The main thread is inside execute_actor() with a container started.      *)
InLoop(w) == main[w] \in {"loop", "check", "stop"}
(* The channel thread has closed the connection the main thread uses.       *)
Closed(w) == thread[w] = [pc |-> "exit", msg |-> "stop"]

IdleCaller == [pc |-> "idle", x |-> NoExecution, w |-> NoWorker, sync |-> FALSE]

Init ==
    /\ doc = [x \in Execution |-> [status |-> "NULL", worker |-> NoWorker]]
    /\ results = {}
    /\ published = [x \in Execution |-> 0]
    /\ inbox = {}
    /\ caller = [c \in Caller |-> IdleCaller]
    /\ used = [k \in RequestKinds |-> 0]
    /\ main = [w \in Worker |-> "off"]
    /\ cur = [w \in Worker |-> NoExecution]
    /\ held = {}
    /\ errors = [w \in Worker |-> 0]
    /\ running = {}
    /\ thread = [w \in Worker |-> [pc |-> "off", msg |-> "stop"]]
    /\ wch = [w \in Worker |-> <<>>]
    /\ keep = {}
    /\ force = {}

(* A message for a worker process; nobody reads the channel of a worker     *)
(* that is gone, so what is put there is left out.                          *)
Sent(w, m) ==
    IF w \in Worker /\ Alive(w) THEN [wch EXCEPT ![w] = Append(@, m)] ELSE wch

Use(k) == used[k] < Budget[k] /\ used' = [used EXCEPT ![k] = @ + 1]

-----------------------------------------------------------------------------
(* The handlers of the API.                                                 *)

Becomes(c, j) == caller' = [caller EXCEPT ![c] = j]

(* MessagesResource.post(): the document first ...  The length of the inbox *)
(* that a synchronous request must not exceed is read of another queue      *)
(* (`id` is the builtin there), so it never refuses one.                    *)
AddExecution(c) ==
    /\ caller[c].pc = "idle"
    /\ \E x \in Execution, sync \in BOOLEAN :
         /\ doc[x].status = "NULL"
         /\ doc' = [doc EXCEPT ![x].status = "SUBMITTED"]
         /\ Becomes(c, [IdleCaller EXCEPT !.pc = "put", !.x = x, !.sync = sync])
         /\ IF sync THEN Use("sync") ELSE UNCHANGED used
    /\ UNCHANGED <<results, published, inbox, mainVars, threadVars, keep, force>>

(* ... then the message.                                                    *)
PutMessage(c) ==
    /\ caller[c].pc = "put"
    /\ inbox' = inbox \cup {caller[c].x}
    /\ Becomes(c, IF caller[c].sync THEN [caller[c] EXCEPT !.pc = "poll"]
                  ELSE IdleCaller)
    /\ UNCHANGED <<docVars, used, mainVars, threadVars, keep, force>>

(* do_synch_message(): a result on the channel ends the wait ...            *)
PollResults(c) ==
    /\ caller[c].pc = "poll"
    /\ caller[c].x \in results
    /\ results' = results \ {caller[c].x}
    /\ Becomes(c, IdleCaller)
    /\ UNCHANGED <<doc, published, inbox, used, mainVars, threadVars, keep, force>>

(* Mutant of PollStatus: the status is looked at only after a result.       *)
PollStatusOfResult(c) ==
    /\ caller[c].pc = "poll"
    /\ caller[c].x \in results
    /\ doc[caller[c].x].status = "COMPLETE"
    /\ Becomes(c, [caller[c] EXCEPT !.pc = "reply"])
    /\ UNCHANGED <<docVars, inbox, used, mainVars, threadVars, keep, force>>

(* ... and so does the status COMPLETE, and no other.                       *)
PollStatus(c) ==
    /\ caller[c].pc = "poll"
    /\ doc[caller[c].x].status = "COMPLETE"
    /\ Becomes(c, [caller[c] EXCEPT !.pc = "reply"])
    /\ UNCHANGED <<docVars, inbox, used, mainVars, threadVars, keep, force>>

(* The answer is a result that has come meanwhile, or else the logs.        *)
Reply(c) ==
    /\ caller[c].pc = "reply"
    /\ results' = results \ {caller[c].x}
    /\ Becomes(c, IdleCaller)
    /\ UNCHANGED <<doc, published, inbox, used, mainVars, threadVars, keep, force>>

(* ActorExecutionResultsResource.get() takes a result from the channel.     *)
GetResult(c) ==
    /\ caller[c].pc = "idle"
    /\ \E x \in results : results' = results \ {x}
    /\ UNCHANGED <<doc, published, inbox, caller, used, mainVars, threadVars,
                   keep, force>>

(* ActorExecutionResource.delete(): the document is read and its status     *)
(* checked ...                                                              *)
ReadForHalt(c) ==
    /\ caller[c].pc = "idle"
    /\ Use("halt")
    /\ \E x \in Execution :
         /\ doc[x].status = "RUNNING"
         /\ Becomes(c, [IdleCaller EXCEPT !.pc = "halt", !.x = x, !.w = doc[x].worker])
    /\ UNCHANGED <<docVars, inbox, mainVars, threadVars, keep, force>>

(* ... and the worker it names is sent 'force_quit', with no execution id.  *)
PutForceQuit(c) ==
    /\ caller[c].pc = "halt"
    /\ wch' = Sent(caller[c].w, "force_quit")
    /\ Becomes(c, IdleCaller)
    /\ UNCHANGED <<docVars, inbox, used, mainVars, thread, keep, force>>

(* MessagesResource.delete()                                                *)
PurgeInbox(c) ==
    /\ caller[c].pc = "idle"
    /\ Use("purge")
    /\ inbox' = {}
    /\ UNCHANGED <<docVars, caller, mainVars, threadVars, keep, force>>

(* shutdown_worker() of an API handler, the spawner or the health check.    *)
SendStop(w) ==
    /\ Alive(w)
    /\ Use("stop")
    /\ \E m \in StopMsgs : wch' = Sent(w, m)
    /\ UNCHANGED <<docVars, inbox, caller, mainVars, thread, keep, force>>

CallerStep(c) ==
    \/ AddExecution(c) \/ PutMessage(c) \/ PollResults(c) \/ PollStatus(c)
    \/ Reply(c) \/ GetResult(c) \/ ReadForHalt(c) \/ PutForceQuit(c)
    \/ PurgeInbox(c)

-----------------------------------------------------------------------------
(* The main thread of a worker process: subscribe() and execute_actor().    *)

Goto(w, pc) == main' = [main EXCEPT ![w] = pc]

shared == <<docVars, caller, used, threadVars>>

(* Mutant of Requeue: what was acknowledged is requeued as well.            *)
RequeueAlways(w) ==
    /\ inbox' = inbox \cup {cur[w]}
    /\ held' = held \ {w}

(* nack(requeue=True), or the broker's reaction to a closed connection.     *)
Requeue(w) ==
    /\ inbox' = IF w \in held THEN inbox \cup {cur[w]} ELSE inbox
    /\ held' = held \ {w}

(* subscribe() starts the channel thread and enters the main loop.          *)
Start(w) ==
    /\ main[w] = "off"
    /\ Goto(w, "top")
    /\ thread' = [thread EXCEPT ![w].pc = "listen"]
    /\ keep' = keep \cup {w}
    /\ UNCHANGED <<docVars, inbox, caller, used, cur, held, errors, running, wch, force>>

Top(w) ==
    /\ main[w] = "top"
    /\ Goto(w, IF w \in keep THEN "get" ELSE "ended")
    /\ UNCHANGED <<shared, inbox, cur, held, errors, running, keep, force>>

(* actor_ch.get_one() blocks until there is a message; prefetch is one.     *)
Get(w) ==
    /\ main[w] = "get"
    /\ ~Closed(w)
    /\ \E x \in inbox :
         /\ inbox' = inbox \ {x}
         /\ cur' = [cur EXCEPT ![w] = x]
    /\ held' = held \cup {w}
    /\ Goto(w, "got")
    /\ UNCHANGED <<shared, errors, running, keep, force>>

(* A stop or a halt that came while the thread was blocked sends the        *)
(* message back.                                                            *)
Got(w) ==
    /\ main[w] = "got"
    /\ IF w \in keep THEN Goto(w, "assign") /\ UNCHANGED <<inbox, held>>
       ELSE Requeue(w) /\ Goto(w, "ended")
    /\ UNCHANGED <<shared, cur, errors, running, keep, force>>

(* Execution.add_worker_id()                                                *)
Assign(w) ==
    /\ main[w] = "assign"
    /\ doc' = [doc EXCEPT ![cur[w]].worker = w]
    /\ Goto(w, "enter")
    /\ UNCHANGED <<results, published, inbox, caller, used, cur, held, errors,
                   running, threadVars, keep, force>>

(* Reading the actor, making the FIFO or refreshing the token fails: the    *)
(* message is requeued and the exception ends the main thread.              *)
PrepFails(w) ==
    /\ main[w] = "assign"
    /\ "prep" \in Faults
    /\ Requeue(w)
    /\ Goto(w, "ended")
    /\ UNCHANGED <<shared, cur, errors, running, keep, force>>

(* execute_actor() forgets any halt that has come so far.                   *)
Enter(w) ==
    /\ main[w] = "enter"
    /\ force' = force \ {w}
    /\ Goto(w, "create")
    /\ UNCHANGED <<shared, inbox, cur, held, errors, running, keep>>

(* DockerStartContainerError, of the FIFO, the results socket or cli.start: *)
(* the message is requeued and the worker goes on, unless it has happened   *)
(* too often in a row.  nack raises when the connection is closed.          *)
StartFails(w) ==
    /\ main[w] = "create"
    /\ "start" \in Faults
    /\ Requeue(w)
    /\ IF w \in held
       THEN /\ errors' = [errors EXCEPT ![w] = @ + 1]
            /\ Goto(w, IF errors[w] + 1 > MaxErrors THEN "limit" ELSE "top")
       ELSE Goto(w, "ended") /\ UNCHANGED errors
    /\ UNCHANGED <<shared, cur, running, keep, force>>

(* cli.create_container() is not guarded: its exception is not a            *)
(* DockerStartContainerError.                                               *)
CreateFails(w) ==
    /\ main[w] = "create"
    /\ "create" \in Faults
    /\ Goto(w, "error")
    /\ UNCHANGED <<shared, inbox, cur, held, errors, running, keep, force>>

StartContainer(w) ==
    /\ main[w] = "create"
    /\ running' = running \cup {<<w, cur[w]>>}
    /\ Goto(w, "started")
    /\ UNCHANGED <<shared, inbox, cur, held, errors, keep, force>>

(* Execution.update_status(RUNNING)                                         *)
MarkRunning(w) ==
    /\ main[w] = "started"
    /\ doc' = [doc EXCEPT ![cur[w]].status = "RUNNING"]
    /\ Goto(w, "loop")
    /\ UNCHANGED <<results, published, inbox, caller, used, cur, held, errors,
                   running, threadVars, keep, force>>

(* `while running and not globals.force_quit`: a halt noticed here leaves   *)
(* the loop without stopping the container.                                 *)
LoopHead(w) ==
    /\ main[w] = "loop"
    /\ Goto(w, IF w \in force THEN "after" ELSE "check")
    /\ UNCHANGED <<shared, inbox, cur, held, errors, running, keep, force>>

(* A datagram of the container is put on the results channel, in the loop   *)
(* or when what is left is read after it.                                   *)
ForwardResult(w) ==
    /\ main[w] \in {"check", "after"}
    /\ Use("datagram")
    /\ results' = results \cup {cur[w]}
    /\ UNCHANGED <<doc, published, inbox, caller, mainVars, threadVars, keep, force>>

(* The state of the container, then the halt: a container that is still     *)
(* running is stopped when a halt has come.  One that docker does not list, *)
(* or that runs beyond max_run_time, is stopped too.                        *)
CheckContainer(w) ==
    /\ main[w] = "check"
    /\ LET up == <<w, cur[w]>> \in running
       IN  \/ ~up /\ Goto(w, "after")
           \/ up /\ w \in force /\ Goto(w, "stop")
           \/ up /\ w \notin force /\ \E pc \in {"loop", "stop"} : Goto(w, pc)
    /\ UNCHANGED <<shared, inbox, cur, held, errors, running, keep, force>>

StopContainer(w) ==
    /\ main[w] = "stop"
    /\ \/ running' = running \ {<<w, cur[w]>>} /\ Goto(w, "after")
       \/ "stop" \in Faults /\ Goto(w, "error") /\ UNCHANGED running
    /\ UNCHANGED <<shared, inbox, cur, held, errors, keep, force>>

(* After the loop: the flag is cleared, the container inspected (when that  *)
(* fails `container_state` is unbound), its logs read, and the container    *)
(* removed if it has stopped.                                               *)
AfterLoop(w) ==
    /\ main[w] = "after"
    /\ force' = force \ {w}
    /\ \/ Goto(w, "ack")
       \/ "inspect" \in Faults /\ Goto(w, "error")
    /\ UNCHANGED <<shared, inbox, cur, held, errors, running, keep>>

(* Mutant of Ack: the exception of an ack on a closed connection is lost.   *)
AckIgnored(w) ==
    /\ main[w] = "ack"
    /\ held' = held \ {w}
    /\ Goto(w, "status")
    /\ UNCHANGED <<shared, inbox, cur, errors, running, keep, force>>

(* Mutant of Ack: the message is left unacknowledged until the worker ends. *)
AckMissing(w) ==
    /\ main[w] = "ack"
    /\ Goto(w, IF w \in held THEN "status" ELSE "ended")
    /\ UNCHANGED <<shared, inbox, cur, held, errors, running, keep, force>>

(* ack() raises when the channel thread has closed the connection.          *)
Ack(w) ==
    /\ main[w] = "ack"
    /\ held' = held \ {w}
    /\ Goto(w, IF w \in held THEN "status" ELSE "ended")
    /\ UNCHANGED <<shared, inbox, cur, errors, running, keep, force>>

(* finalize_execution(): the status is the first of its eight writes ...    *)
MarkComplete(w) ==
    /\ main[w] = "status"
    /\ doc' = [doc EXCEPT ![cur[w]].status = "COMPLETE"]
    /\ Goto(w, "publish")
    /\ UNCHANGED <<results, published, inbox, caller, used, cur, held, errors,
                   running, threadVars, keep, force>>

(* ... and the event comes after the last.                                  *)
Publish(w) ==
    /\ main[w] = "publish"
    /\ published' = [published EXCEPT ![cur[w]] = @ + 1]
    /\ Goto(w, "logs")
    /\ UNCHANGED <<doc, results, inbox, caller, used, cur, held, errors, running,
                   threadVars, keep, force>>

(* Execution.set_logs() and the worker's time stamps; the worker is ready   *)
(* for the next message.                                                    *)
Finish(w) ==
    /\ main[w] = "logs"
    /\ errors' = [errors EXCEPT ![w] = 0]
    /\ cur' = [cur EXCEPT ![w] = NoExecution]
    /\ Goto(w, "top")
    /\ UNCHANGED <<shared, inbox, held, running, keep, force>>

(* Mutant of GiveUp: the message is requeued once more.                     *)
GiveUpRequeues(w) ==
    /\ \/ main[w] = "limit" \/ main[w] = "error"
    /\ held' = held \ {w}
    /\ inbox' = inbox \cup {cur[w]}
    /\ wch' = IF main[w] = "error" /\ w \notin held THEN wch
              ELSE [v \in Worker |-> Sent(v, "stop-no-delete")[v]]
    /\ Goto(w, "ended")
    /\ UNCHANGED <<docVars, caller, used, cur, errors, running, thread, keep, force>>

(* The worker gives up: it acknowledges the message unless it has requeued  *)
(* it already, and shuts down the workers of the actor, itself included     *)
(* (step by step in WorkerPool).  The execution is not finalized.           *)
GiveUp(w) ==
    /\ \/ main[w] = "limit" \/ main[w] = "error"
    /\ held' = held \ {w}
    /\ wch' = IF main[w] = "error" /\ w \notin held THEN wch
              ELSE [v \in Worker |-> Sent(v, "stop-no-delete")[v]]
    /\ Goto(w, "ended")
    /\ UNCHANGED <<docVars, caller, used, inbox, cur, errors, running, thread, keep, force>>

MainStep(w) ==
    \/ Top(w) \/ Get(w) \/ Got(w) \/ Assign(w) \/ PrepFails(w) \/ Enter(w)
    \/ StartFails(w) \/ CreateFails(w) \/ StartContainer(w) \/ MarkRunning(w)
    \/ LoopHead(w) \/ CheckContainer(w) \/ StopContainer(w) \/ AfterLoop(w)
    \/ Ack(w) \/ MarkComplete(w) \/ Publish(w) \/ Finish(w) \/ GiveUp(w)

-----------------------------------------------------------------------------
(* The channel thread of a worker process: process_worker_ch().             *)

(* Mutant of TakeForceQuit: the halted worker goes on to the next message.  *)
TakeForceQuitStays(w) ==
    /\ thread[w].pc = "listen"
    /\ wch[w] # <<>> /\ Head(wch[w]) = "force_quit"
    /\ wch' = [wch EXCEPT ![w] = Tail(@)]
    /\ force' = force \cup {w}
    /\ UNCHANGED <<docVars, inbox, caller, used, mainVars, thread, keep>>

(* Mutant of TakeForceQuit: only the main loop is told.                     *)
TakeForceQuitKeeps(w) ==
    /\ thread[w].pc = "listen"
    /\ wch[w] # <<>> /\ Head(wch[w]) = "force_quit"
    /\ wch' = [wch EXCEPT ![w] = Tail(@)]
    /\ keep' = keep \ {w}
    /\ UNCHANGED <<docVars, inbox, caller, used, mainVars, thread, force>>

(* force_quit halts the execution and ends the main loop, not this thread.  *)
TakeForceQuit(w) ==
    /\ thread[w].pc = "listen"
    /\ wch[w] # <<>> /\ Head(wch[w]) = "force_quit"
    /\ wch' = [wch EXCEPT ![w] = Tail(@)]
    /\ force' = force \cup {w}
    /\ keep' = keep \ {w}
    /\ UNCHANGED <<docVars, inbox, caller, used, mainVars, thread>>

(* 'stop' halts the execution as well, 'stop-no-delete' does not.           *)
TakeStop(w) ==
    /\ thread[w].pc = "listen"
    /\ wch[w] # <<>> /\ Head(wch[w]) \in StopMsgs
    /\ wch' = [wch EXCEPT ![w] = Tail(@)]
    /\ force' = IF Head(wch[w]) = "stop" THEN force \cup {w} ELSE force
    /\ keep' = keep \ {w}
    /\ thread' = [thread EXCEPT ![w] = [pc |-> "close", msg |-> Head(wch[w])]]
    /\ UNCHANGED <<docVars, inbox, caller, used, mainVars>>

(* After 'stop', ActorMsgChannel.delete() closes the connection that the    *)
(* main thread uses, so the broker requeues the message it holds.           *)
CloseChannels(w) ==
    /\ thread[w].pc = "close"
    /\ IF thread[w].msg = "stop" THEN Requeue(w) ELSE UNCHANGED <<inbox, held>>
    /\ wch' = [wch EXCEPT ![w] = <<>>]
    /\ thread' = [thread EXCEPT ![w].pc = "exit"]
    /\ UNCHANGED <<docVars, caller, used, main, cur, errors, running, keep, force>>

(* The process ends wherever its main thread is: the broker requeues the    *)
(* message it holds, the actor container it started is left as it is.       *)
Ends(w) ==
    /\ Requeue(w)
    /\ main' = [main EXCEPT ![w] = "exited"]
    /\ thread' = [thread EXCEPT ![w] = [pc |-> "off", msg |-> "stop"]]
    /\ wch' = [wch EXCEPT ![w] = <<>>]
    /\ cur' = [cur EXCEPT ![w] = NoExecution]
    /\ errors' = [errors EXCEPT ![w] = 0]
    /\ keep' = keep \ {w}
    /\ force' = force \ {w}
    /\ UNCHANGED <<docVars, caller, running>>

(* os._exit(0)                                                              *)
ExitProcess(w) == thread[w].pc = "exit" /\ Ends(w) /\ UNCHANGED used

(* The health check removes the container of a worker that does not answer  *)
(* in time, whatever it is doing; a host may fail.                          *)
KillProcess(w) == Alive(w) /\ Use("kill") /\ Ends(w)

ThreadStep(w) == TakeForceQuit(w) \/ TakeStop(w) \/ CloseChannels(w) \/ ExitProcess(w)

(* An actor container ends by itself, whoever still watches it.             *)
ContainerEnds ==
    /\ \E r \in running : running' = running \ {r}
    /\ UNCHANGED <<docVars, inbox, caller, used, main, cur, held, errors, threadVars,
                   keep, force>>

-----------------------------------------------------------------------------
Next ==
    \/ \E c \in Caller : CallerStep(c)
    \/ \E w \in Worker :
         \/ MainStep(w) \/ ThreadStep(w) \/ ForwardResult(w)
         \/ Start(w) \/ SendStop(w) \/ KillProcess(w)
    \/ ContainerEnds

Spec == Init /\ [][Next]_vars

(* The threads of a worker and a handler that has begun go on; nothing      *)
(* makes a container end, a client send a request or a worker start.        *)
Fairness ==
    /\ \A w \in Worker : WF_vars(MainStep(w)) /\ WF_vars(ThreadStep(w))
    /\ \A c \in Caller :
         WF_vars(PutMessage(c) \/ PollResults(c) \/ PollStatus(c) \/ Reply(c)
                 \/ PutForceQuit(c))

FairSpec == Spec /\ Fairness
-----------------------------------------------------------------------------
CallerRecord == [pc : CallerPcs, x : Execution \cup {NoExecution},
                 w : Worker \cup {NoWorker}, sync : BOOLEAN]

(* Every variable holds a value of its kind.                                *)
TypeOK ==
    /\ doc \in [Execution -> [status : {"NULL", "SUBMITTED", "RUNNING", "COMPLETE"},
                              worker : Worker \cup {NoWorker}]]
    /\ results \subseteq Execution
    /\ published \in [Execution -> Nat]
    /\ inbox \subseteq Execution
    /\ caller \in [Caller -> CallerRecord]
    /\ used \in [RequestKinds -> Nat]
    /\ main \in [Worker -> MainPcs]
    /\ cur \in [Worker -> Execution \cup {NoExecution}]
    /\ held \subseteq Worker
    /\ errors \in [Worker -> Nat]
    /\ running \subseteq Worker \X Execution
    /\ thread \in [Worker -> [pc : ThreadPcs, msg : StopMsgs]]
    /\ wch \in [Worker -> Seq(StopMsgs \cup {"force_quit"})]
    /\ keep \subseteq Worker /\ force \subseteq Worker

(* At most one actor container runs under one worker.  A halt may leave the *)
(* container of the halted execution running, and a failed stop leaves it   *)
(* too; what protects the next execution is that the worker takes no other  *)
(* message afterwards.                                                      *)
OneContainer == \A r1, r2 \in running : r1[1] = r2[1] => r1 = r2

(* Where the message of an execution is, for its abstract life.             *)
Unsent == {x \in Execution : doc[x].status = "NULL"}
            \cup {caller[c].x : c \in {d \in Caller : caller[d].pc = "put"}}
HeldBy(x) == {w \in held : cur[w] = x}

phase == [x \in Execution |-> IF x \in inbox THEN "waiting"
                              ELSE IF HeldBy(x) # {} THEN "taken"
                              ELSE IF x \in Unsent THEN "new"
                              ELSE "consumed"]
announced == {x \in Execution : published[x] > 0}

Life == INSTANCE ExecutionLife

(* Whatever the interleaving of halts, stops, kills and failures, the       *)
(* message of an execution is in one place, comes back until it is          *)
(* acknowledged and never afterwards, and the execution is announced after  *)
(* that only: add_execution(), put_msg(), get_one(), ack(), nack() and the  *)
(* closing of connections implement the abstract life.                      *)
ImplementsLife == Life!Spec

(* finalize_execution() runs once for an execution at most, so a subscriber *)
(* never hears twice of its completion, although the message may have been  *)
(* run several times.                                                       *)
AnnouncedOnce == \A x \in Execution : published[x] <= 1

(* A completed execution stays COMPLETE, except for the late write of a     *)
(* worker that 'stop' has cut off while it started the same execution: the  *)
(* status is then RUNNING for ever.                                         *)
CompleteIsFinal ==
    [][\A x \in Execution :
         doc[x].status = "COMPLETE" /\ doc'[x].status # "COMPLETE" =>
             \E w \in Worker : cur[w] = x /\ Closed(w)]_vars

(* A halt sent to a worker ends the execution it is supervising even if the *)
(* container never ends by itself: the worker leaves its loop.              *)
HaltEndsTheLoop ==
    \A w \in Worker :
        (InLoop(w) /\ wch[w] # <<>> /\ Head(wch[w]) = "force_quit") ~> ~InLoop(w)

(* A synchronous request whose execution is COMPLETE is answered.           *)
SyncIsAnswered ==
    \A c \in Caller :
        (caller[c].pc = "poll" /\ doc[caller[c].x].status = "COMPLETE")
            ~> (caller[c].pc # "poll" \/ doc[caller[c].x].status # "COMPLETE")
=============================================================================
