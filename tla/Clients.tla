------------------------------ MODULE Clients ------------------------------
(* The OAuth clients of the workers of one actor: the clients generator     *)
(* (clients.py) that registers them with the API manager, the spawner that  *)
(* asks for one before it starts a worker, the worker that asks for its     *)
(* deletion when it is stopped, and the health agent (health.py) that       *)
(* removes workers that do not answer and clients without a worker.         *)
EXTENDS WorkerStore, Naturals, Sequences

CONSTANTS
    Worker,      \* the worker ids, which are the names of the clients too
    MaxAttempts, \* 10 in client_generation()
    Forever,     \* worker_ttl is negative
    Faults       \* the failures that may happen: a subset of FaultKinds

FaultKinds == {"agave", "create", "credentials", "remove", "list", "timeout",
               "pull", "confirm", "slow", "container", "die"}

ASSUME ClientsAssumption ==
    /\ MaxAttempts \in Nat \ {0}
    /\ Forever \in BOOLEAN
    /\ Faults \subseteq FaultKinds

VARIABLES
    store,    \* workers_store: the document of each worker
    apim,     \* the workers whose client is registered with the API manager
    clients,  \* clients_store: the workers with a client document
    requests, \* the clients channel, oldest request first
    clientg,  \* where the clients generator is, and the request it handles
    spawner,  \* the handling of the command that starts each worker
    proc,     \* where the process of each worker is
    has,      \* the workers whose process was given a client
    stop,     \* the workers with a stop message in their channel
    marked,   \* the workers marked by a handler that has not sent it yet
    health    \* where the health agent is

clientVars == <<apim, clients>>
workerVars == <<proc, has, stop, marked>>
vars == <<store, clientVars, requests, clientg, spawner, workerVars, health>>

ClientgPcs == {"idle", "check", "create", "save", "remove", "forget"}
SpawnerPcs == {"idle", "command", "ask", "wait", "granted", "refused", "start",
               "confirm", "signal", "errActor", "revoke", "revoking", "done",
               "failed"}
ProcPcs == {"none", "waiting", "listen", "ask", "await", "unlist", "leave",
            "deaf", "gone"}
HealthPcs == {"idle", "check", "ping", "remove", "channel", "touch", "ttl",
              "send", "list", "clients", "revoke"}

Alive(w) == proc[w] \notin {"none", "gone"}
(* Workers.get_workers(), less what has no host_id.                         *)
Checkable(w) == store[w].owned /\ store[w].hosted

Request == [cmd : {"new", "delete"}, w : Worker, by : {"spawner", "worker"},
            n : 0 .. MaxAttempts]
IdleSpawner == [pc |-> "idle", n |-> 0, heard |-> FALSE, client |-> FALSE]

Init ==
    /\ store = [w \in Worker |-> Absent]
    /\ apim = {}
    /\ clients = {}
    /\ requests = <<>>
    /\ clientg = [pc |-> "idle", reqs |-> <<>>]
    /\ spawner = [w \in Worker |-> IdleSpawner]
    /\ proc = [w \in Worker |-> "none"]
    /\ has = {}
    /\ stop = {}
    /\ marked = {}
    /\ health = [pc |-> "idle", todo |-> {}, busy |-> {}, at |-> {}]

-----------------------------------------------------------------------------
(* The clients generator handles one request at a time.                     *)

Req == clientg.reqs[1]

GoClientg(pc) == clientg' = [clientg EXCEPT !.pc = pc]

(* The answer to a request ends the wait of whoever still waits for it; one *)
(* that comes after the timeout of put_sync() goes to a channel nobody      *)
(* reads.  A worker, and a spawner that deletes, only log an error.         *)
Answered(ok) ==
    /\ clientg' = [pc |-> "idle", reqs |-> <<>>]
    /\ LET s == spawner[Req.w]
       IN  IF Req.by = "spawner" /\ Req.cmd = "new" /\ s.pc = "wait" /\ s.n = Req.n
           THEN spawner' = [spawner EXCEPT ![Req.w].pc = IF ok THEN "granted" ELSE "refused"]
           ELSE IF Req.by = "spawner" /\ Req.cmd = "delete" /\ s.pc = "revoking"
           THEN spawner' = [spawner EXCEPT ![Req.w].pc = "failed"]
           ELSE UNCHANGED spawner
    /\ IF Req.by = "worker" /\ proc[Req.w] = "await"
       THEN proc' = [proc EXCEPT ![Req.w] = "unlist"]
       ELSE UNCHANGED proc

(* run() acknowledges a message before it looks at it.                      *)
TakeRequest ==
    /\ clientg.pc = "idle"
    /\ requests # <<>>
    /\ requests' = Tail(requests)
    /\ clientg' = [pc |-> "check", reqs |-> <<Head(requests)>>]
    /\ UNCHANGED <<store, clientVars, spawner, workerVars, health>>

(* get_agave(): no client of the service account without credentials for   *)
(* the tenant, or without an answer of the API manager.                     *)
GetAgaveFails == "agave" \in Faults

(* check_new_params() and get_agave(): a record under the worker's key is   *)
(* all that is asked for, be it a ghost.                                    *)
CheckNew ==
    /\ clientg.pc = "check" /\ Req.cmd = "new"
    /\ \/ /\ store[Req.w].exists
          /\ GoClientg("create")
          /\ UNCHANGED <<spawner, proc>>
       \/ /\ ~store[Req.w].exists \/ GetAgaveFails
          /\ Answered(FALSE)
    /\ UNCHANGED <<store, clientVars, requests, has, stop, marked, health>>

(* Mutant of CreateClient: the answer is sent before the client is stored.  *)
CreateClientAnswers ==
    /\ clientg.pc = "create"
    /\ apim' = apim \cup {Req.w}
    /\ Answered(TRUE)
    /\ UNCHANGED <<store, clients, requests, has, stop, marked, health>>

(* AgaveClientsService.create().  A name that is taken is refused.  When    *)
(* the API manager registers the client and then fails to make credentials  *)
(* for it, five attempts are made to delete it again, which may fail.       *)
Register ==
    \/ /\ Req.w \notin apim
       /\ apim' = apim \cup {Req.w}
       /\ GoClientg("save")
       /\ UNCHANGED <<spawner, proc>>
    \/ /\ Req.w \in apim \/ "create" \in Faults
       /\ Answered(FALSE)
       /\ UNCHANGED apim
    \/ /\ "credentials" \in Faults
       /\ apim' = apim \cup {Req.w}
       /\ Answered(FALSE)

(* generate_client(): an exception becomes an answer to whoever asked.      *)
CreateClient ==
    /\ clientg.pc = "create"
    /\ Register
    /\ UNCHANGED <<store, clients, requests, has, stop, marked, health>>

SaveClient ==
    /\ clientg.pc = "save"
    /\ clients' = clients \cup {Req.w}
    /\ Answered(TRUE)
    /\ UNCHANGED <<store, apim, requests, has, stop, marked, health>>

(* check_del_params(): the spawner sends the secret of the OAuth client in  *)
(* place of the secret of the service, and is refused.                      *)
CheckDelete ==
    /\ clientg.pc = "check" /\ Req.cmd = "delete"
    /\ \/ /\ Req.by = "worker"
          /\ GoClientg("remove")
          /\ UNCHANGED <<spawner, proc>>
       \/ /\ Req.by = "spawner" \/ GetAgaveFails
          /\ Answered(FALSE)
    /\ UNCHANGED <<store, clientVars, requests, has, stop, marked, health>>

(* ag.clients.delete() raises for a client that is not registered.          *)
RemoveClient ==
    /\ clientg.pc = "remove"
    /\ \/ /\ Req.w \in apim
          /\ apim' = apim \ {Req.w}
          /\ GoClientg("forget")
          /\ UNCHANGED <<spawner, proc>>
       \/ /\ Req.w \notin apim \/ "remove" \in Faults
          /\ Answered(FALSE)
          /\ UNCHANGED apim
    /\ UNCHANGED <<store, clients, requests, has, stop, marked, health>>

ForgetClient ==
    /\ clientg.pc = "forget"
    /\ clients' = clients \ {Req.w}
    /\ Answered(TRUE)
    /\ UNCHANGED <<store, apim, requests, has, stop, marked, health>>

ClientgStep == \/ TakeRequest \/ CheckNew \/ CreateClient \/ SaveClient
               \/ CheckDelete \/ RemoveClient \/ ForgetClient

-----------------------------------------------------------------------------
(* The spawner that handles the command for a worker.                       *)

Become(w, r) == spawner' = [spawner EXCEPT ![w] = r]
Goto(w, pc)  == Become(w, [spawner[w] EXCEPT !.pc = pc])
spawnerRest  == <<clientVars, clientg, health>>

(* request_worker(), and a command for the spawner.                         *)
RequestWorker(w) ==
    /\ spawner[w].pc = "idle"
    /\ store' = [store EXCEPT ![w] = RequestedDoc]
    /\ Goto(w, "command")
    /\ UNCHANGED <<requests, workerVars, spawnerRest>>

(* process(): a worker that was stopped meanwhile is removed.               *)
ProcessCommand(w) ==
    /\ spawner[w].pc = "command"
    /\ IF store[w].status = "REQUESTED"
       THEN /\ store' = [store EXCEPT ![w] = UpdateWorkerStatus(@, "SPAWNER_SETUP")]
            /\ Goto(w, "ask")
       ELSE /\ store' = [store EXCEPT ![w] = Absent]
            /\ Goto(w, "done")
    /\ UNCHANGED <<requests, workerVars, spawnerRest>>

(* One attempt of client_generation().                                      *)
AskForClient(w) ==
    /\ spawner[w].pc = "ask"
    /\ Become(w, [spawner[w] EXCEPT !.pc = "wait", !.n = @ + 1])
    /\ requests' = Append(requests, [cmd |-> "new", w |-> w, by |-> "spawner",
                                     n |-> spawner[w].n + 1])
    /\ UNCHANGED <<store, workerVars, spawnerRest>>

Granted(w) ==
    /\ spawner[w].pc = "granted"
    /\ Become(w, [spawner[w] EXCEPT !.pc = "start", !.client = TRUE])
    /\ UNCHANGED <<store, requests, workerVars, spawnerRest>>

(* Mutant of TryAgain: one attempt too many.                                *)
TryAgainOnceMore(w) ==
    IF spawner[w].n > MaxAttempts
    THEN /\ store' = [store EXCEPT ![w] = Absent]
         /\ Goto(w, "failed")
    ELSE /\ Become(w, [spawner[w] EXCEPT !.pc = "ask", !.heard = TRUE])
         /\ UNCHANGED store

(* Another attempt, or after the last one kill_worker().                    *)
TryAgain(w) ==
    IF spawner[w].n = MaxAttempts
    THEN /\ store' = [store EXCEPT ![w] = Absent]
         /\ Goto(w, "failed")
    ELSE /\ Become(w, [spawner[w] EXCEPT !.pc = "ask", !.heard = TRUE])
         /\ UNCHANGED store

(* Mutant of Refused: the attempts are not counted.                         *)
RefusedForEver(w) ==
    /\ spawner[w].pc = "refused"
    /\ Become(w, [spawner[w] EXCEPT !.pc = "ask", !.n = 0, !.heard = TRUE])
    /\ UNCHANGED <<store, requests, workerVars, spawnerRest>>

Refused(w) ==
    /\ spawner[w].pc = "refused"
    /\ TryAgain(w)
    /\ UNCHANGED <<requests, workerVars, spawnerRest>>

(* Mutant of AskTimesOut: a timeout counts as a grant.                      *)
AskTimesOutGoesOn(w) ==
    /\ spawner[w].pc = "wait"
    /\ "timeout" \in Faults
    /\ Become(w, [spawner[w] EXCEPT !.pc = "start", !.client = TRUE])
    /\ UNCHANGED <<store, requests, workerVars, spawnerRest>>

(* A timeout leaves client_msg as the attempt before set it, which was an   *)
(* error; if there was none, reading it raises UnboundLocalError, which     *)
(* ends process() with the record in place.                                 *)
AskTimesOut(w) ==
    /\ spawner[w].pc = "wait"
    /\ "timeout" \in Faults
    /\ IF spawner[w].heard \/ spawner[w].n = MaxAttempts
       THEN TryAgain(w)
       ELSE Goto(w, "failed") /\ UNCHANGED store
    /\ UNCHANGED <<requests, workerVars, spawnerRest>>

(* start_worker() pulls the image and starts the process, which waits for   *)
(* READY.                                                                   *)
StartProcess(w) ==
    /\ spawner[w].pc = "start"
    /\ store' = [store EXCEPT ![w] = UpdateWorkerStatus(UpdateWorkerStatus(@,
                      "PULLING_IMAGE"), "CREATING_CONTAINER")]
    /\ proc' = [proc EXCEPT ![w] = "waiting"]
    /\ has' = has \cup {w}
    /\ Goto(w, "confirm")
    /\ UNCHANGED <<requests, stop, marked, spawnerRest>>

(* The image cannot be pulled, or Docker refuses the container.             *)
StartFails(w) ==
    /\ spawner[w].pc = "start"
    /\ "pull" \in Faults
    /\ store' = [store EXCEPT ![w] = UpdateWorkerStatus(@, "PULLING_IMAGE")]
    /\ Goto(w, "errActor")
    /\ UNCHANGED <<requests, workerVars, spawnerRest>>

(* The actor is gone, or the store fails.                                   *)
ConfirmFails(w) ==
    /\ spawner[w].pc = "confirm"
    /\ "confirm" \in Faults
    /\ Goto(w, "errActor")
    /\ UNCHANGED <<store, requests, workerVars, spawnerRest>>

(* error_out_actor(): nothing is done about a container being created, or a *)
(* worker being stopped.                                                    *)
ErrorOutActor(w) ==
    /\ spawner[w].pc = "errActor"
    /\ store' = IF store[w].status \in {"SPAWNER_SETUP", "PULLING_IMAGE"}
                THEN [store EXCEPT ![w] = Absent] ELSE store
    /\ Goto(w, "revoke")
    /\ UNCHANGED <<requests, workerVars, spawnerRest>>

RevokeClient(w) ==
    /\ spawner[w].pc = "revoke"
    /\ requests' = Append(requests, [cmd |-> "delete", w |-> w, by |-> "spawner",
                                     n |-> spawner[w].n])
    /\ Goto(w, "revoking")
    /\ UNCHANGED <<store, workerVars, spawnerRest>>

RevokeTimesOut(w) ==
    /\ spawner[w].pc = "revoking"
    /\ "timeout" \in Faults
    /\ Goto(w, "failed")
    /\ UNCHANGED <<store, requests, workerVars, spawnerRest>>

AddRunningWorker(w) ==
    /\ spawner[w].pc = "confirm"
    /\ store' = [store EXCEPT ![w] = AddWorker(@)]
    /\ Goto(w, "signal")
    /\ UNCHANGED <<requests, workerVars, spawnerRest>>

(* ch.put('READY'): the process, if it is still there, subscribes.          *)
SignalReady(w) ==
    /\ spawner[w].pc = "signal"
    /\ proc' = [proc EXCEPT ![w] = IF @ = "waiting" THEN "listen" ELSE @]
    /\ Goto(w, "done")
    /\ UNCHANGED <<store, requests, has, stop, marked, spawnerRest>>

SpawnerStep(w) ==
    \/ ProcessCommand(w) \/ AskForClient(w) \/ Granted(w) \/ Refused(w)
    \/ AskTimesOut(w) \/ StartProcess(w) \/ StartFails(w) \/ ConfirmFails(w)
    \/ ErrorOutActor(w) \/ RevokeClient(w) \/ RevokeTimesOut(w)
    \/ AddRunningWorker(w) \/ SignalReady(w)

-----------------------------------------------------------------------------
(* Workers, and the handlers that stop them.                                *)

workerRest == <<clientVars, clientg, spawner, health>>

(* shutdown_worker(): the mark first ...                                    *)
MarkWorker(w) ==
    /\ HasId(store[w])
    /\ w \notin marked
    /\ store' = [store EXCEPT ![w] = UpdateWorkerStatus(@, "SHUTDOWN_REQUESTED")]
    /\ marked' = marked \cup {w}
    /\ UNCHANGED <<requests, proc, has, stop, workerRest>>

(* ... then the message.                                                    *)
SendStop(w) ==
    /\ w \in marked
    /\ marked' = marked \ {w}
    /\ stop' = stop \cup {w}
    /\ UNCHANGED <<store, requests, proc, has, workerRest>>

(* A worker is BUSY while it runs an execution.                             *)
ToggleBusy(w) ==
    /\ proc[w] = "listen"
    /\ store[w].status \in {"READY", "BUSY"}
    /\ store' = [store EXCEPT ![w].status = IF @ = "READY" THEN "BUSY" ELSE "READY"]
    /\ UNCHANGED <<requests, workerVars, workerRest>>

(* process_worker_ch() takes a stop message.                                *)
TakeStop(w) ==
    /\ proc[w] = "listen"
    /\ w \in stop
    /\ stop' = stop \ {w}
    /\ store' = [store EXCEPT ![w] = UpdateWorkerStatus(@, "SHUTTING_DOWN")]
    /\ proc' = [proc EXCEPT ![w] = "ask"]
    /\ UNCHANGED <<requests, has, marked, workerRest>>

AskForDeletion(w) ==
    /\ proc[w] = "ask"
    /\ requests' = Append(requests, [cmd |-> "delete", w |-> w, by |-> "worker",
                                     n |-> 0])
    /\ proc' = [proc EXCEPT ![w] = "await"]
    /\ UNCHANGED <<store, has, stop, marked, workerRest>>

(* The exception of put_sync() ends the thread, and the main loop is left   *)
(* when the execution at hand is over.                                      *)
DeletionTimesOut(w) ==
    /\ proc[w] = "await"
    /\ "timeout" \in Faults
    /\ proc' = [proc EXCEPT ![w] = "deaf"]
    /\ UNCHANGED <<store, requests, has, stop, marked, workerRest>>

MainLoopEnds(w) ==
    /\ proc[w] = "deaf"
    /\ proc' = [proc EXCEPT ![w] = "gone"]
    /\ UNCHANGED <<store, requests, has, stop, marked, workerRest>>

DeleteRecord(w) ==
    /\ proc[w] = "unlist"
    /\ store' = [store EXCEPT ![w] = Absent]
    /\ proc' = [proc EXCEPT ![w] = "leave"]
    /\ UNCHANGED <<requests, has, stop, marked, workerRest>>

(* The channels are deleted and the process exits.                          *)
Leave(w) ==
    /\ proc[w] = "leave"
    /\ proc' = [proc EXCEPT ![w] = "gone"]
    /\ stop' = stop \ {w}
    /\ UNCHANGED <<store, requests, has, marked, workerRest>>

(* The container of the worker is killed by something else.                 *)
Die(w) ==
    /\ "die" \in Faults
    /\ Alive(w)
    /\ proc' = [proc EXCEPT ![w] = "gone"]
    /\ UNCHANGED <<store, requests, has, stop, marked, workerRest>>

WorkerStep(w) ==
    \/ TakeStop(w) \/ AskForDeletion(w) \/ MainLoopEnds(w) \/ DeleteRecord(w)
    \/ Leave(w)

-----------------------------------------------------------------------------
(* The health agent: main() is run from cron, on the host of the workers.   *)

HealthAt(pc, at) == health' = [health EXCEPT !.pc = pc, !.at = at]
HealthGoes(pc)   == health' = [health EXCEPT !.pc = pc]
healthRest == <<clients, requests, clientg, spawner, has, marked>>

(* check_workers() reads the workers and their statuses once.               *)
ListWorkers ==
    /\ health.pc = "idle"
    /\ LET found == {w \in Worker : Checkable(w)}
       IN  health' = [pc |-> "check", todo |-> found, at |-> {},
                      busy |-> {w \in found : store[w].status = "BUSY"}]
    /\ UNCHANGED <<store, apim, proc, stop, healthRest>>

NextWorker ==
    /\ health.pc = "check"
    /\ \/ \E w \in health.todo :
            health' = [health EXCEPT !.pc = "ping", !.at = {w}, !.todo = @ \ {w}]
       \/ health.todo = {} /\ HealthAt("list", {})
    /\ UNCHANGED <<store, apim, proc, stop, healthRest>>

(* put_sync('status'): the thread on the worker's channel answers.          *)
PingAnswered ==
    /\ health.pc = "ping"
    /\ \A w \in health.at : proc[w] = "listen"
    /\ HealthGoes("touch")
    /\ UNCHANGED <<store, apim, proc, stop, healthRest>>

(* No answer in five seconds: the container is removed, or cannot be ...    *)
PingTimesOut ==
    /\ health.pc = "ping"
    /\ \E w \in health.at :
         /\ proc[w] # "listen" \/ "slow" \in Faults
         /\ \/ proc' = [proc EXCEPT ![w] = "gone"]
            \/ "container" \in Faults /\ UNCHANGED proc
    /\ HealthGoes("remove")
    /\ UNCHANGED <<store, apim, stop, healthRest>>

(* Mutant of RemoveRecord: an exception of rm_container() skips it.         *)
RemoveRecordIfStopped ==
    /\ health.pc = "remove"
    /\ store' = [w \in Worker |-> IF w \in health.at /\ "container" \notin Faults
                                  THEN Absent ELSE store[w]]
    /\ HealthGoes("channel")
    /\ UNCHANGED <<apim, proc, stop, healthRest>>

(* ... the record is deleted ...                                            *)
RemoveRecord ==
    /\ health.pc = "remove"
    /\ store' = [w \in Worker |-> IF w \in health.at THEN Absent ELSE store[w]]
    /\ HealthGoes("channel")
    /\ UNCHANGED <<apim, proc, stop, healthRest>>

(* ... and the channel with what is in it.                                  *)
RemoveChannel ==
    /\ health.pc = "channel"
    /\ stop' = stop \ health.at
    /\ HealthGoes("touch")
    /\ UNCHANGED <<store, apim, proc, healthRest>>

(* update_worker_health_time() is reached by a worker that was removed, too,*)
(* and creates its document again.  With an infinite time to live the loop  *)
(* over the workers is then left.                                           *)
TouchChecked ==
    /\ health.pc = "touch"
    /\ store' = [w \in Worker |-> IF w \in health.at THEN TouchUpsert(store[w])
                                  ELSE store[w]]
    /\ IF Forever THEN HealthAt("list", {}) ELSE HealthGoes("ttl")
    /\ UNCHANGED <<apim, proc, stop, healthRest>>

(* shutdown_worker() for one that is beyond its time to live, unless it was *)
(* BUSY when it was listed.                                                 *)
ExpireWorker ==
    /\ health.pc = "ttl"
    /\ \/ /\ health.at \cap health.busy = {}
          /\ store' = [w \in Worker |-> IF w \in health.at
                          THEN UpdateWorkerStatus(store[w], "SHUTDOWN_REQUESTED")
                          ELSE store[w]]
          /\ HealthGoes("send")
       \/ HealthGoes("check") /\ UNCHANGED store
    /\ UNCHANGED <<apim, proc, stop, healthRest>>

SendExpired ==
    /\ health.pc = "send"
    /\ stop' = stop \cup health.at
    /\ HealthGoes("check")
    /\ UNCHANGED <<store, apim, proc, healthRest>>

(* clean_up_apim_clients() lists the clients ...                            *)
ListClients ==
    /\ health.pc = "list"
    /\ \/ health' = [health EXCEPT !.pc = "clients", !.todo = apim, !.at = {}]
       \/ "list" \in Faults /\ HealthAt("idle", {})
    /\ UNCHANGED <<store, apim, proc, stop, healthRest>>

(* Mutant of NextClient: the worker is not looked up.                       *)
NextClientBlindly ==
    /\ health.pc = "clients"
    /\ \/ \E w \in health.todo :
            health' = [health EXCEPT !.pc = "revoke", !.at = {w}, !.todo = @ \ {w}]
       \/ health.todo = {} /\ HealthAt("idle", {})
    /\ UNCHANGED <<store, apim, proc, stop, healthRest>>

(* ... and looks up the worker of each.  get_worker() returns the list that *)
(* the store found: a list has no `get`, so the first client whose worker   *)
(* exists raises AttributeError, which ends the agent.                      *)
NextClient ==
    /\ health.pc = "clients"
    /\ \/ \E w \in health.todo :
            IF HasId(store[w])
            THEN health' = [pc |-> "idle", todo |-> {}, busy |-> {}, at |-> {}]
            ELSE health' = [health EXCEPT !.pc = "revoke", !.at = {w},
                                          !.todo = @ \ {w}]
       \/ health.todo = {} /\ HealthAt("idle", {})
    /\ UNCHANGED <<store, apim, proc, stop, healthRest>>

(* delete_client(); an exception is logged.                                 *)
RevokeRetired ==
    /\ health.pc = "revoke"
    /\ \/ apim' = apim \ health.at
       \/ "remove" \in Faults /\ UNCHANGED apim
    /\ HealthGoes("clients")
    /\ UNCHANGED <<store, proc, stop, healthRest>>

HealthStep ==
    \/ ListWorkers \/ NextWorker \/ PingAnswered \/ PingTimesOut
    \/ RemoveRecord \/ RemoveChannel \/ TouchChecked \/ ExpireWorker
    \/ SendExpired \/ ListClients \/ NextClient \/ RevokeRetired

-----------------------------------------------------------------------------
Next ==
    \/ ClientgStep
    \/ HealthStep
    \/ \E w \in Worker :
         \/ RequestWorker(w) \/ SpawnerStep(w)
         \/ MarkWorker(w) \/ SendStop(w) \/ ToggleBusy(w)
         \/ WorkerStep(w) \/ DeletionTimesOut(w) \/ Die(w)

Spec == Init /\ [][Next]_vars

(* The agents' loops go on for ever, cron starts the health agent again and *)
(* again, and an execution ends.                                            *)
Fairness ==
    /\ WF_vars(ClientgStep)
    /\ WF_vars(HealthStep)
    /\ \A w \in Worker : WF_vars(SpawnerStep(w)) /\ WF_vars(WorkerStep(w))
                         /\ WF_vars(SendStop(w))

FairSpec == Spec /\ Fairness

-----------------------------------------------------------------------------
TypeOK ==
    /\ store \in [Worker -> Doc]
    /\ apim \in SUBSET Worker
    /\ clients \in SUBSET Worker
    /\ requests \in Seq(Request)
    /\ clientg \in [pc : ClientgPcs, reqs : Seq(Request)]
    /\ clientg.reqs = <<>> <=> clientg.pc = "idle"
    /\ spawner \in [Worker -> [pc : SpawnerPcs, n : 0 .. MaxAttempts,
                               heard : BOOLEAN, client : BOOLEAN]]
    /\ proc \in [Worker -> ProcPcs]
    /\ has \in SUBSET Worker
    /\ stop \in SUBSET Worker
    /\ marked \in SUBSET Worker
    /\ health \in [pc : HealthPcs, todo : SUBSET Worker, busy : SUBSET Worker,
                   at : SUBSET Worker]

(* A client is given to a worker only once its document is in the clients   *)
(* store, and stays there as long as the worker has not asked for its       *)
(* deletion: without the document nobody can delete the client by its key.  *)
(* Clients half made by the API manager, late answers and second attempts   *)
(* (clients.py:106-121, spawner.py:258-327) must not put a worker to work   *)
(* with a client that Abaco does not know.                                  *)
WorkingClientIsStored ==
    \A w \in Worker : proc[w] \in {"waiting", "listen", "ask"} => w \in clients

(* A worker that is on record and has not taken a stop message keeps the    *)
(* client it was given in the API manager: neither the deletion that        *)
(* another step asked for, nor the clean-up of the health agent, which      *)
(* lists clients, then looks each worker up and then deletes                *)
(* (health.py:125-150), takes it away.                                      *)
WorkingClientIsRegistered ==
    \A w \in Worker :
        proc[w] \in {"waiting", "listen"} /\ HasId(store[w]) => w \in apim

(* A request to the clients generator that nobody waits for any more has no *)
(* effect on a later one: a spawner that was granted a client finds its own *)
(* document and registration there (channels.py:50-58).                     *)
GrantIsGenuine ==
    \A w \in Worker :
        spawner[w].pc \in {"granted", "start"} => w \in clients \cap apim

(* client_generation() ends: with a client, or with the worker given up.    *)
GenerationEnds ==
    \A w \in Worker : spawner[w].pc = "ask" ~> spawner[w].pc \in {"start", "failed"}

(* "workers that have stopped responding are shutdown and removed from the  *)
(* database" (health.py:2-3): once a process is gone no record that the     *)
(* agent checks is left of it for ever.                                     *)
DeadWorkerIsRemoved ==
    \A w \in Worker : proc[w] = "gone" ~> proc[w] = "gone" /\ ~Checkable(w)
=============================================================================
