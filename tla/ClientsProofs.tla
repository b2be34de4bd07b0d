--------------------------- MODULE ClientsProofs ---------------------------
(* Proofs about Clients, for every set of workers, every number of attempts *)
(* and every combination of failures: the type invariant, and that a worker *)
(* at work has a client that is stored and registered.                      *)
EXTENDS Clients, TLAPS

(* Where a worker cannot have been seen by anybody but its spawner yet ...  *)
New == {"idle", "command"}
(* ... where it is on record, but not on a host ...                         *)
Setup == {"ask", "wait", "granted", "refused", "start"}
(* ... and where its process has asked for the deletion of its client, or   *)
(* is gone.                                                                 *)
Past == {"await", "unlist", "leave", "deaf", "gone"}

(* The workers that the health agent read as checkable, and the clients     *)
(* that it read.                                                            *)
Visited == IF health.pc \in {"check", "ping", "remove", "channel", "touch", "ttl", "send"}
           THEN health.todo \cup health.at ELSE {}
Listed == IF health.pc \in {"clients", "revoke"} THEN health.todo \cup health.at ELSE {}

(* The document of a worker on its way ...                                  *)
RecordFits(w) ==
    /\ store[w].exists \/ (~store[w].owned /\ ~store[w].hosted)
    /\ spawner[w].pc \in {"command", "confirm"} \cup Setup => store[w].owned
    /\ spawner[w].pc \in {"confirm"} \cup New \cup Setup =>
          ~store[w].hosted /\ w \notin Visited
    /\ spawner[w].pc \in New \cup Setup => proc[w] = "none"
    /\ spawner[w].pc = "confirm" => proc[w] \in {"waiting", "gone"}

(* ... its client ...                                                       *)
ClientFits(w) ==
    /\ spawner[w].pc \in New => w \notin apim /\ w \notin Listed
    /\ spawner[w].pc \in {"granted", "start"} => w \in clients \cap apim
    /\ proc[w] \in {"waiting", "listen", "ask"} => w \in clients
    /\ proc[w] \in {"waiting", "listen"} /\ HasId(store[w]) => w \in apim
    /\ health.pc = "revoke" /\ w \in health.at => ~HasId(store[w])

(* ... and the requests about it.                                           *)
RequestFits(r) ==
    /\ r.cmd = "new" => r.by = "spawner"
    /\ r.by = "worker" => proc[r.w] \in Past
    /\ spawner[r.w].pc \notin New

(* A client that the generator is about to store is registered, as long as  *)
(* a spawner may wait for it.                                               *)
GeneratorFits ==
    clientg.pc # "idle" =>
        /\ RequestFits(Req)
        /\ clientg.pc \in {"create", "save"} => Req.cmd = "new"
        /\ clientg.pc \in {"remove", "forget"} => Req.by = "worker"
        /\ clientg.pc = "save" /\ spawner[Req.w].pc \in Setup => Req.w \in apim

(* A spawner that is about to ask has an attempt left.                      *)
Counted(w) == spawner[w].pc \in New \cup {"ask"} => spawner[w].n < MaxAttempts

Types == TypeOK /\ \A w \in Worker : Counted(w)

IInv ==
    /\ Types
    /\ \A w \in Worker : RecordFits(w) /\ ClientFits(w)
    /\ \A i \in DOMAIN requests : RequestFits(requests[i])
    /\ GeneratorFits

-----------------------------------------------------------------------------
(* The type invariant.                                                      *)

LEMMA Writes ==
    ASSUME NEW doc \in Doc
    PROVE  /\ \A s \in Statuses : /\ UpdateWorkerStatus(doc, s) \in Doc
                                  /\ UpdateWorkerStatus(doc, s).owned = doc.owned
                                  /\ UpdateWorkerStatus(doc, s).hosted = doc.hosted
                                  /\ doc.exists => UpdateWorkerStatus(doc, s).exists
           /\ AddWorker(doc) \in Doc /\ AddWorker(doc).owned = doc.owned
           /\ AddWorker(doc).exists
           /\ TouchUpsert(doc) \in Doc /\ TouchUpsert(doc).exists
           /\ TouchUpsert(doc).owned = doc.owned /\ TouchUpsert(doc).hosted = doc.hosted
           /\ Absent \in Doc /\ ~Absent.owned /\ ~Absent.hosted
           /\ RequestedDoc \in Doc /\ RequestedDoc.exists
           /\ RequestedDoc.owned /\ ~RequestedDoc.hosted
<1>1. ASSUME NEW s \in Statuses
      PROVE  /\ UpdateWorkerStatus(doc, s) \in Doc
             /\ UpdateWorkerStatus(doc, s).owned = doc.owned
             /\ UpdateWorkerStatus(doc, s).hosted = doc.hosted
             /\ doc.exists => UpdateWorkerStatus(doc, s).exists
  <2>1. [doc EXCEPT !.exists = TRUE, !.status = s] \in Doc
        /\ [doc EXCEPT !.status = s] \in Doc
    BY DEF Doc
  <2> QED BY <2>1 DEF UpdateWorkerStatus, StatusUpsert, Doc
<1>2. /\ AddWorker(doc) \in Doc /\ AddWorker(doc).owned = doc.owned
      /\ AddWorker(doc).exists
      /\ TouchUpsert(doc) \in Doc /\ TouchUpsert(doc).exists
      /\ TouchUpsert(doc).owned = doc.owned /\ TouchUpsert(doc).hosted = doc.hosted
  BY DEF AddWorker, TouchUpsert, Doc, Statuses
<1>3. /\ Absent \in Doc /\ ~Absent.owned /\ ~Absent.hosted
      /\ RequestedDoc \in Doc /\ RequestedDoc.exists
      /\ RequestedDoc.owned /\ ~RequestedDoc.hosted
  BY DEF Absent, RequestedDoc, Doc, Statuses
<1> QED BY <1>1, <1>2, <1>3

SpawnerRecord == [pc : SpawnerPcs, n : 0 .. MaxAttempts, heard : BOOLEAN, client : BOOLEAN]

LEMMA ReqType == ASSUME TypeOK, clientg.pc # "idle" PROVE Req \in Request
  BY DEF TypeOK, Req

LEMMA AnsweredType ==
    ASSUME TypeOK, clientg.pc # "idle", NEW ok, Answered(ok)
    PROVE  /\ clientg' \in [pc : ClientgPcs, reqs : Seq(Request)]
           /\ clientg'.reqs = <<>> <=> clientg'.pc = "idle"
           /\ spawner' \in [Worker -> SpawnerRecord]
           /\ proc' \in [Worker -> ProcPcs]
<1>1. Req \in Request
  BY ReqType
<1>2. clientg' \in [pc : ClientgPcs, reqs : Seq(Request)]
      /\ (clientg'.reqs = <<>> <=> clientg'.pc = "idle")
  BY DEF Answered, ClientgPcs
<1>3. spawner' \in [Worker -> SpawnerRecord]
  <2>1. Req.w \in Worker /\ spawner \in [Worker -> SpawnerRecord]
    BY <1>1 DEF TypeOK, SpawnerRecord, Request
  <2>2. \A pc \in {"granted", "refused", "failed"} :
           [spawner EXCEPT ![Req.w].pc = pc] \in [Worker -> SpawnerRecord]
    BY <2>1 DEF SpawnerRecord, SpawnerPcs
  <2>3. \E pc \in {"granted", "refused", "failed"} :
           spawner' \in {spawner, [spawner EXCEPT ![Req.w].pc = pc]}
    BY DEF Answered
  <2> QED BY <2>1, <2>2, <2>3
<1>4. proc' \in [Worker -> ProcPcs]
  BY <1>1 DEF Answered, TypeOK, ProcPcs, Request
<1> QED BY <1>2, <1>3, <1>4

LEMMA GoClientgType ==
    ASSUME TypeOK, clientg.pc # "idle", NEW pc \in ClientgPcs \ {"idle"}, GoClientg(pc)
    PROVE  /\ clientg' \in [pc : ClientgPcs, reqs : Seq(Request)]
           /\ clientg'.reqs = <<>> <=> clientg'.pc = "idle"
  BY DEF GoClientg, TypeOK

LEMMA BecomeType ==
    ASSUME TypeOK, NEW w \in Worker, NEW r \in SpawnerRecord, Become(w, r)
    PROVE  spawner' \in [Worker -> SpawnerRecord]
  BY DEF Become, TypeOK, SpawnerRecord

LEMMA GotoType ==
    ASSUME TypeOK, NEW w \in Worker, NEW pc \in SpawnerPcs, Goto(w, pc)
    PROVE  spawner' \in [Worker -> SpawnerRecord]
<1>1. spawner[w] \in SpawnerRecord
  BY DEF TypeOK, SpawnerRecord
<1>2. [spawner[w] EXCEPT !.pc = pc] \in SpawnerRecord
  BY <1>1 DEF SpawnerRecord
<1> QED BY <1>2, BecomeType DEF Goto

LEMMA ClientgTypes == ASSUME TypeOK, ClientgStep PROVE TypeOK'
<1>r. clientg.pc # "idle" => Req \in Request
  BY ReqType
<1>1. CASE TakeRequest
  <2>1. Head(requests) \in Request /\ requests' \in Seq(Request)
    BY <1>1 DEF TakeRequest, TypeOK
  <2>2. clientg' = [pc |-> "check", reqs |-> <<Head(requests)>>]
    BY <1>1 DEF TakeRequest
  <2>3. <<Head(requests)>> \in Seq(Request) /\ <<Head(requests)>> # <<>>
    BY <2>1
  <2>4. clientg' \in [pc : ClientgPcs, reqs : Seq(Request)]
        /\ (clientg'.reqs = <<>> <=> clientg'.pc = "idle")
    BY <2>2, <2>3 DEF ClientgPcs
  <2> QED BY <1>1, <2>1, <2>4 DEF TakeRequest, TypeOK, clientVars, workerVars
<1>2. CASE CheckNew
  BY <1>2, AnsweredType, GoClientgType
     DEF CheckNew, TypeOK, clientVars, ClientgPcs, SpawnerRecord
<1>3. CASE CreateClient
  BY <1>3, <1>r, AnsweredType, GoClientgType
     DEF CreateClient, Register, TypeOK, ClientgPcs, SpawnerRecord, Request
<1>4. CASE SaveClient
  BY <1>4, <1>r, AnsweredType DEF SaveClient, TypeOK, SpawnerRecord, Request
<1>5. CASE CheckDelete
  BY <1>5, AnsweredType, GoClientgType
     DEF CheckDelete, TypeOK, clientVars, ClientgPcs, SpawnerRecord
<1>6. CASE RemoveClient
  BY <1>6, <1>r, AnsweredType, GoClientgType
     DEF RemoveClient, TypeOK, ClientgPcs, SpawnerRecord
<1>7. CASE ForgetClient
  BY <1>7, <1>r, AnsweredType DEF ForgetClient, TypeOK, SpawnerRecord
<1> QED BY <1>1, <1>2, <1>3, <1>4, <1>5, <1>6, <1>7 DEF ClientgStep

LEMMA TryAgainType ==
    ASSUME TypeOK, NEW w \in Worker, TryAgain(w)
    PROVE  store' \in [Worker -> Doc] /\ spawner' \in [Worker -> SpawnerRecord]
<1>1. Absent \in Doc
  BY DEF Absent, Doc, Statuses
<1>2. [spawner[w] EXCEPT !.pc = "ask", !.heard = TRUE] \in SpawnerRecord
  <2>1. spawner[w] \in SpawnerRecord /\ "ask" \in SpawnerPcs
    BY DEF TypeOK, SpawnerRecord, SpawnerPcs
  <2> QED BY <2>1 DEF SpawnerRecord
<1>3. store \in [Worker -> Doc] /\ spawner \in [Worker -> SpawnerRecord]
  BY DEF TypeOK, SpawnerRecord
<1>4. CASE spawner[w].n = MaxAttempts
  <2>1. "failed" \in SpawnerPcs /\ Goto(w, "failed") /\ store' = [store EXCEPT ![w] = Absent]
    BY <1>4 DEF TryAgain, SpawnerPcs
  <2> QED BY <1>1, <1>3, <2>1, GotoType
<1>5. CASE spawner[w].n # MaxAttempts
  BY <1>5, <1>2, <1>3, BecomeType DEF TryAgain
<1> QED BY <1>4, <1>5

LEMMA SpawnerTypes ==
    ASSUME Types, NEW w \in Worker, RequestWorker(w) \/ SpawnerStep(w) PROVE TypeOK'
<1>s. /\ store[w] \in Doc /\ spawner[w] \in SpawnerRecord
      /\ requests \in Seq(Request) /\ store \in [Worker -> Doc] /\ TypeOK
      /\ spawner \in [Worker -> SpawnerRecord] /\ proc \in [Worker -> ProcPcs]
  BY DEF Types, TypeOK, SpawnerRecord
<1>d. /\ RequestedDoc \in Doc /\ Absent \in Doc /\ AddWorker(store[w]) \in Doc
      /\ \A s \in Statuses : UpdateWorkerStatus(store[w], s) \in Doc
  BY <1>s, Writes
<1>w. \A d \in Doc : [store EXCEPT ![w] = d] \in [Worker -> Doc]
  BY <1>s
<1>g. \A pc \in SpawnerPcs : Goto(w, pc) => spawner' \in [Worker -> SpawnerRecord]
  BY <1>s, GotoType
<1>q. /\ {"idle", "command", "ask", "wait", "granted", "refused", "start", "confirm",
          "signal", "errActor", "revoke", "revoking", "done", "failed"} \subseteq SpawnerPcs
      /\ {"SPAWNER_SETUP", "PULLING_IMAGE", "CREATING_CONTAINER"} \subseteq Statuses
  BY DEF SpawnerPcs, Statuses
<1>1. ASSUME store' \in [Worker -> Doc], spawner' \in [Worker -> SpawnerRecord],
             requests' \in Seq(Request), proc' \in [Worker -> ProcPcs],
             has' \in SUBSET Worker, UNCHANGED <<stop, marked, spawnerRest>>
      PROVE  TypeOK'
  BY <1>1, <1>s DEF TypeOK, SpawnerRecord, spawnerRest, clientVars
<1>2. CASE RequestWorker(w)
  BY <1>2, <1>1, <1>s, <1>d, <1>w, <1>g, <1>q DEF RequestWorker, workerVars, TypeOK
<1>3. CASE ProcessCommand(w)
  BY <1>3, <1>1, <1>s, <1>d, <1>w, <1>g, <1>q DEF ProcessCommand, workerVars, TypeOK
<1>4. CASE AskForClient(w)
  <2>1. spawner[w].n + 1 \in 0 .. MaxAttempts
    <3>1. spawner[w].n \in 0 .. MaxAttempts /\ MaxAttempts \in Nat
      BY <1>s, ClientsAssumption DEF SpawnerRecord, ClientsAssumption
    <3>2. spawner[w].n < MaxAttempts
      BY <1>4 DEF AskForClient, Types, Counted
    <3> QED BY <3>1, <3>2
  <2>2. [spawner[w] EXCEPT !.pc = "wait", !.n = @ + 1] \in SpawnerRecord
    BY <2>1, <1>s DEF SpawnerRecord, SpawnerPcs
  <2>3. [cmd |-> "new", w |-> w, by |-> "spawner", n |-> spawner[w].n + 1] \in Request
    BY <2>1 DEF Request
  <2>4. requests' \in Seq(Request)
    BY <1>4, <1>s, <2>3 DEF AskForClient
  <2> QED BY <1>4, <1>s, <1>1, <2>2, <2>4, BecomeType DEF AskForClient, workerVars, TypeOK
<1>5. CASE Granted(w)
  <2>1. [spawner[w] EXCEPT !.pc = "start", !.client = TRUE] \in SpawnerRecord
    BY <1>s DEF SpawnerRecord, SpawnerPcs
  <2> QED BY <1>5, <1>s, <1>1, <2>1, BecomeType DEF Granted, workerVars, TypeOK
<1>6. CASE Refused(w)
  BY <1>6, <1>s, <1>1, TryAgainType DEF Refused, workerVars, TypeOK
<1>7. CASE AskTimesOut(w)
  BY <1>7, <1>s, <1>1, <1>g, <1>q, TryAgainType DEF AskTimesOut, workerVars, TypeOK
<1>8. CASE StartProcess(w)
  <2>1. UpdateWorkerStatus(UpdateWorkerStatus(store[w], "PULLING_IMAGE"),
                           "CREATING_CONTAINER") \in Doc
    BY <1>d, <1>q, Writes
  <2> QED BY <1>8, <2>1, <1>1, <1>s, <1>w, <1>g, <1>q
          DEF StartProcess, workerVars, TypeOK, ProcPcs
<1>9. CASE StartFails(w)
  BY <1>9, <1>1, <1>s, <1>d, <1>w, <1>g, <1>q DEF StartFails, workerVars, TypeOK
<1>10. CASE ConfirmFails(w)
  BY <1>10, <1>1, <1>s, <1>g, <1>q DEF ConfirmFails, workerVars, TypeOK
<1>11. CASE ErrorOutActor(w)
  BY <1>11, <1>1, <1>s, <1>d, <1>w, <1>g, <1>q DEF ErrorOutActor, workerVars, TypeOK
<1>12. CASE RevokeClient(w)
  <2>1. [cmd |-> "delete", w |-> w, by |-> "spawner", n |-> spawner[w].n] \in Request
    BY <1>s DEF Request, SpawnerRecord
  <2>2. requests' \in Seq(Request)
    BY <1>12, <1>s, <2>1 DEF RevokeClient
  <2> QED BY <1>12, <1>1, <1>s, <1>g, <1>q, <2>2 DEF RevokeClient, workerVars, TypeOK
<1>13. CASE RevokeTimesOut(w)
  BY <1>13, <1>1, <1>s, <1>g, <1>q DEF RevokeTimesOut, workerVars, TypeOK
<1>14. CASE AddRunningWorker(w)
  BY <1>14, <1>1, <1>s, <1>d, <1>w, <1>g, <1>q DEF AddRunningWorker, workerVars, TypeOK
<1>15. CASE SignalReady(w)
  <2>1. proc' \in [Worker -> ProcPcs]
    BY <1>15, <1>s DEF SignalReady, ProcPcs
  <2> QED BY <1>15, <2>1, <1>1, <1>s, <1>g, <1>q DEF SignalReady, workerVars, TypeOK
<1> QED BY <1>2, <1>3, <1>4, <1>5, <1>6, <1>7, <1>8, <1>9, <1>10, <1>11, <1>12, <1>13,
           <1>14, <1>15 DEF SpawnerStep

LEMMA WorkerTypes ==
    ASSUME TypeOK, NEW w \in Worker,
           \/ MarkWorker(w) \/ SendStop(w) \/ ToggleBusy(w) \/ WorkerStep(w)
           \/ DeletionTimesOut(w) \/ Die(w)
    PROVE  TypeOK'
<1>s. /\ store[w] \in Doc /\ requests \in Seq(Request) /\ store \in [Worker -> Doc]
      /\ proc \in [Worker -> ProcPcs] /\ stop \in SUBSET Worker /\ marked \in SUBSET Worker
  BY DEF TypeOK
<1>d. /\ Absent \in Doc
      /\ \A s \in {"SHUTDOWN_REQUESTED", "SHUTTING_DOWN"} : UpdateWorkerStatus(store[w], s) \in Doc
  BY <1>s, Writes DEF Statuses
<1>w. \A d \in Doc : [store EXCEPT ![w] = d] \in [Worker -> Doc]
  BY <1>s
<1>p. \A pc \in ProcPcs : [proc EXCEPT ![w] = pc] \in [Worker -> ProcPcs]
  BY <1>s
<1>1. ASSUME store' \in [Worker -> Doc], requests' \in Seq(Request),
             proc' \in [Worker -> ProcPcs], stop' \in SUBSET Worker,
             marked' \in SUBSET Worker, UNCHANGED <<has, workerRest>>
      PROVE  TypeOK'
  BY <1>1 DEF TypeOK, workerRest, clientVars
<1>2. CASE MarkWorker(w)
  BY <1>2, <1>1, <1>s, <1>d, <1>w DEF MarkWorker
<1>3. CASE SendStop(w)
  BY <1>3, <1>1, <1>s DEF SendStop
<1>4. CASE ToggleBusy(w)
  <2>1. store' \in [Worker -> Doc]
    BY <1>4, <1>s DEF ToggleBusy, Doc, Statuses
  <2> QED BY <1>4, <2>1, <1>1, <1>s DEF ToggleBusy, workerVars
<1>5. CASE TakeStop(w)
  BY <1>5, <1>1, <1>s, <1>d, <1>w, <1>p DEF TakeStop, ProcPcs
<1>6. CASE AskForDeletion(w)
  <2>1. [cmd |-> "delete", w |-> w, by |-> "worker", n |-> 0] \in Request
    BY ClientsAssumption DEF Request, ClientsAssumption
  <2>2. requests' \in Seq(Request)
    BY <1>6, <1>s, <2>1 DEF AskForDeletion
  <2> QED BY <1>6, <2>2, <1>1, <1>s, <1>p DEF AskForDeletion, ProcPcs
<1>7. CASE DeletionTimesOut(w) \/ MainLoopEnds(w) \/ Die(w)
  BY <1>7, <1>1, <1>s, <1>p DEF DeletionTimesOut, MainLoopEnds, Die, ProcPcs
<1>8. CASE DeleteRecord(w)
  BY <1>8, <1>1, <1>s, <1>d, <1>w, <1>p DEF DeleteRecord, ProcPcs
<1>9. CASE Leave(w)
  BY <1>9, <1>1, <1>s, <1>p DEF Leave, ProcPcs
<1> QED BY <1>2, <1>3, <1>4, <1>5, <1>6, <1>7, <1>8, <1>9 DEF WorkerStep

LEMMA HealthTypes == ASSUME TypeOK, HealthStep PROVE TypeOK'
<1>s. /\ store \in [Worker -> Doc] /\ proc \in [Worker -> ProcPcs] /\ stop \in SUBSET Worker
      /\ apim \in SUBSET Worker
  BY DEF TypeOK
<1>d. /\ \A w \in Worker : /\ TouchUpsert(store[w]) \in Doc
                           /\ UpdateWorkerStatus(store[w], "SHUTDOWN_REQUESTED") \in Doc
      /\ Absent \in Doc
  <2>1. ASSUME NEW w \in Worker
        PROVE  /\ TouchUpsert(store[w]) \in Doc
               /\ UpdateWorkerStatus(store[w], "SHUTDOWN_REQUESTED") \in Doc
    BY <1>s, Writes DEF Statuses
  <2> QED BY <2>1 DEF Absent, Doc, Statuses
<1> DEFINE R == [pc : HealthPcs, todo : SUBSET Worker, busy : SUBSET Worker, at : SUBSET Worker]
<1>h. health \in R
  BY DEF TypeOK
<1>g. \A pc \in HealthPcs : HealthGoes(pc) => health' \in R
  BY <1>h DEF HealthGoes
<1>a. \A pc \in HealthPcs : HealthAt(pc, {}) => health' \in R
  BY <1>h DEF HealthAt
<1>n. \A w \in health.todo, pc \in HealthPcs :
         [health EXCEPT !.pc = pc, !.at = {w}, !.todo = @ \ {w}] \in R
  <2> TAKE w \in health.todo, pc \in HealthPcs
  <2>1. {w} \in SUBSET Worker /\ health.todo \ {w} \in SUBSET Worker
    BY <1>h
  <2> QED BY <2>1, <1>h
<1>q. HealthPcs = {"idle", "check", "ping", "remove", "channel", "touch", "ttl", "send",
                   "list", "clients", "revoke"}
  BY DEF HealthPcs
<1>1. ASSUME store' \in [Worker -> Doc], proc' \in [Worker -> ProcPcs],
             stop' \in SUBSET Worker, apim' \in SUBSET Worker, health' \in R,
             UNCHANGED healthRest
      PROVE  TypeOK'
  BY <1>1 DEF TypeOK, healthRest
<1>2. CASE ListWorkers
  BY <1>2, <1>1, <1>s, <1>q DEF ListWorkers
<1>3. CASE NextWorker
  <2> HIDE DEF R
  <2>1. health' \in R
    BY <1>3, <1>n, <1>a, <1>q DEF NextWorker
  <2> QED BY <1>3, <2>1, <1>1, <1>s DEF NextWorker
<1> HIDE DEF R
<1>4. CASE PingAnswered
  BY <1>4, <1>1, <1>s, <1>q, <1>g DEF PingAnswered
<1>5. CASE PingTimesOut
  <2>1. proc' \in [Worker -> ProcPcs]
    BY <1>5, <1>s DEF PingTimesOut, ProcPcs
  <2> QED BY <1>5, <2>1, <1>1, <1>s, <1>q, <1>g DEF PingTimesOut
<1>6. CASE RemoveRecord
  BY <1>6, <1>1, <1>s, <1>d, <1>q, <1>g DEF RemoveRecord
<1>7. CASE RemoveChannel
  BY <1>7, <1>1, <1>s, <1>q, <1>g DEF RemoveChannel
<1>8. CASE TouchChecked
  BY <1>8, <1>1, <1>s, <1>d, <1>q, <1>g, <1>a DEF TouchChecked
<1>9. CASE ExpireWorker
  BY <1>9, <1>1, <1>s, <1>d, <1>q, <1>g DEF ExpireWorker
<1>10. CASE SendExpired
  <2>1. health.at \in SUBSET Worker
    BY <1>h DEF R
  <2> QED BY <1>10, <2>1, <1>1, <1>s, <1>q, <1>g DEF SendExpired
<1>11. CASE ListClients
  <2>1. health' \in R
    BY <1>11, <1>h, <1>a, <1>q, <1>s DEF ListClients, R
  <2> QED BY <1>11, <2>1, <1>1, <1>s DEF ListClients
<1>12. CASE NextClient
  <2>1. health' \in R
    <3>1. [pc |-> "idle", todo |-> {}, busy |-> {}, at |-> {}] \in R
      BY <1>q DEF R
    <3>2. \A w \in health.todo : w \in Worker
      BY <1>h DEF R
    <3> QED BY <1>12, <1>n, <1>a, <1>q, <3>1, <3>2 DEF NextClient
  <2> QED BY <1>12, <2>1, <1>1, <1>s DEF NextClient
<1>13. CASE RevokeRetired
  BY <1>13, <1>1, <1>s, <1>q, <1>g DEF RevokeRetired
<1> QED BY <1>2, <1>3, <1>4, <1>5, <1>6, <1>7, <1>8, <1>9, <1>10, <1>11, <1>12, <1>13
        DEF HealthStep

LEMMA CountedNext == ASSUME Types, [Next]_vars PROVE \A w \in Worker : Counted(w)'
<1> SUFFICES ASSUME NEW v \in Worker PROVE Counted(v)'
  OBVIOUS
<1>s. /\ spawner \in [Worker -> SpawnerRecord] /\ Counted(v)
      /\ \A w \in Worker : spawner[w].n \in 0 .. MaxAttempts
      /\ MaxAttempts \in Nat
  BY ClientsAssumption DEF Types, TypeOK, SpawnerRecord, ClientsAssumption
<1>1. ASSUME UNCHANGED spawner PROVE Counted(v)'
  BY <1>1, <1>s DEF Counted
<1>2. ASSUME NEW w \in Worker, NEW r \in SpawnerRecord, Become(w, r),
             r.pc \in New \cup {"ask"} => r.n < MaxAttempts
      PROVE  Counted(v)'
  BY <1>2, <1>s DEF Become, Counted
<1>3. ASSUME NEW w \in Worker, NEW pc \in SpawnerPcs, Goto(w, pc),
             pc \in New \cup {"ask"} => spawner[w].n < MaxAttempts
      PROVE  Counted(v)'
  BY <1>3, <1>2, <1>s DEF Goto, SpawnerRecord
<1>4. ASSUME NEW ok, clientg.pc # "idle", Answered(ok) PROVE Counted(v)'
  <2>1. Req.w \in Worker
    BY <1>4, ReqType DEF Types, Request
  <2> QED BY <1>4, <2>1, <1>s DEF Answered, Counted, New, SpawnerRecord
<1>5. ASSUME NEW w \in Worker, TryAgain(w) PROVE Counted(v)'
  <2>1. CASE spawner[w].n = MaxAttempts
    BY <1>5, <2>1, <1>3 DEF TryAgain, SpawnerPcs, New
  <2>2. CASE spawner[w].n # MaxAttempts
    <3>1. [spawner[w] EXCEPT !.pc = "ask", !.heard = TRUE] \in SpawnerRecord
      BY <1>s DEF SpawnerRecord, SpawnerPcs
    <3>2. [spawner[w] EXCEPT !.pc = "ask", !.heard = TRUE].n < MaxAttempts
      BY <1>s, <2>2 DEF SpawnerRecord
    <3> QED BY <1>5, <2>2, <3>1, <3>2, <1>2 DEF TryAgain
  <2> QED BY <2>1, <2>2
<1>6. CASE ClientgStep
  BY <1>6, <1>1, <1>4 DEF ClientgStep, TakeRequest, CheckNew, CreateClient, Register, SaveClient,
     CheckDelete, RemoveClient, ForgetClient
<1>7. CASE HealthStep
  BY <1>7, <1>1 DEF HealthStep, ListWorkers, NextWorker, PingAnswered, PingTimesOut,
     RemoveRecord, RemoveChannel, TouchChecked, ExpireWorker, SendExpired, ListClients,
     NextClient, RevokeRetired, healthRest
<1>8. ASSUME NEW w \in Worker, RequestWorker(w) \/ SpawnerStep(w) PROVE Counted(v)'
  <2>c. Counted(w)
    BY DEF Types
  <2>1. CASE RequestWorker(w)
    BY <2>1, <2>c, <1>3 DEF RequestWorker, SpawnerPcs, New, Counted
  <2>2. CASE ProcessCommand(w)
    BY <2>2, <2>c, <1>3 DEF ProcessCommand, SpawnerPcs, New, Counted
  <2>3. CASE AskForClient(w)
    BY <2>3, <1>s DEF AskForClient, Become, Counted, New, SpawnerRecord
  <2>4. CASE Granted(w)
    BY <2>4, <1>s DEF Granted, Become, Counted, New, SpawnerRecord
  <2>5. CASE Refused(w) \/ AskTimesOut(w)
    BY <2>5, <1>3, <1>5 DEF Refused, AskTimesOut, SpawnerPcs, New
  <2>6. CASE \/ StartProcess(w) \/ StartFails(w) \/ ConfirmFails(w) \/ ErrorOutActor(w)
             \/ RevokeClient(w) \/ RevokeTimesOut(w) \/ AddRunningWorker(w) \/ SignalReady(w)
    BY <2>6, <1>3 DEF StartProcess, StartFails, ConfirmFails, ErrorOutActor, RevokeClient,
       RevokeTimesOut, AddRunningWorker, SignalReady, SpawnerPcs, New
  <2> QED BY <1>8, <2>1, <2>2, <2>3, <2>4, <2>5, <2>6 DEF SpawnerStep
<1>9. ASSUME NEW w \in Worker,
             \/ MarkWorker(w) \/ SendStop(w) \/ ToggleBusy(w) \/ WorkerStep(w)
             \/ DeletionTimesOut(w) \/ Die(w)
      PROVE  Counted(v)'
  BY <1>9, <1>1 DEF MarkWorker, SendStop, ToggleBusy, WorkerStep, DeletionTimesOut, Die,
     TakeStop, AskForDeletion, MainLoopEnds, DeleteRecord, Leave, workerRest
<1>10. CASE UNCHANGED vars
  BY <1>10, <1>1 DEF vars
<1> QED BY <1>6, <1>7, <1>8, <1>9, <1>10 DEF Next

LEMMA TypesInit == Init => Types
<1> SUFFICES ASSUME Init PROVE Types
  OBVIOUS
<1>1. Absent \in Doc /\ IdleSpawner \in SpawnerRecord /\ IdleSpawner.n < MaxAttempts
  BY ClientsAssumption
     DEF Absent, Doc, Statuses, IdleSpawner, SpawnerRecord, SpawnerPcs, ClientsAssumption
<1>2. <<>> \in Seq(Request)
  OBVIOUS
<1>3. clientg \in [pc : ClientgPcs, reqs : Seq(Request)]
  BY <1>2 DEF Init, ClientgPcs
<1> QED BY <1>1, <1>2, <1>3
        DEF Init, Types, TypeOK, Counted, ProcPcs, HealthPcs, SpawnerRecord

LEMMA TypesNext == Types /\ [Next]_vars => Types'
<1> SUFFICES ASSUME Types, [Next]_vars PROVE TypeOK'
  BY CountedNext DEF Types
<1>t. TypeOK
  BY DEF Types
<1>1. CASE UNCHANGED vars
  BY <1>t, <1>1 DEF vars, clientVars, workerVars, TypeOK
<1> QED BY <1>t, <1>1, ClientgTypes, HealthTypes, SpawnerTypes, WorkerTypes DEF Next

(* Every variable keeps to its type: a spawner asks MaxAttempts times at    *)
(* most, whatever fails (spawner.py:258-321).                               *)
THEOREM Typing == Spec => []TypeOK
<1>1. Types => TypeOK
  BY DEF Types
<1> QED BY <1>1, TypesInit, TypesNext, PTL DEF Spec

-----------------------------------------------------------------------------
(* The inductive invariant.                                                 *)

(* A process that is past the deletion of its client stays so, and nobody   *)
(* goes back to the beginning of a start.                                   *)
Forward(v) ==
    /\ proc[v] \in Past => proc'[v] \in Past
    /\ spawner[v].pc \notin New => spawner'[v].pc \notin New
    /\ spawner'[v].pc \in Setup => spawner[v].pc \in {"command"} \cup Setup

(* What is still to be shown of a step, given the types.                    *)
Rest == /\ \A w \in Worker : RecordFits(w) /\ ClientFits(w)
        /\ \A i \in DOMAIN requests : RequestFits(requests[i])
        /\ GeneratorFits

LEMMA KeepsFitting ==
    ASSUME NEW r \in Request, RequestFits(r), Forward(r.w)
    PROVE  RequestFits(r)'
  BY DEF RequestFits, Forward, Request

AllFit == \A i \in DOMAIN requests : RequestFits(requests[i])

LEMMA Appended ==
    ASSUME IInv, \A v \in Worker : Forward(v), NEW r \in Request,
           RequestFits(r)', requests' = Append(requests, r)
    PROVE  AllFit'
<1>1. requests \in Seq(Request) /\ AllFit
  BY DEF IInv, Types, TypeOK, AllFit
<1> SUFFICES ASSUME NEW i \in DOMAIN requests' PROVE RequestFits(requests[i])'
  BY DEF AllFit
<1> PICK e : e = requests'[i]
  OBVIOUS
<1>2. CASE i = Len(requests) + 1
  BY <1>1, <1>2
<1>3. CASE i # Len(requests) + 1
  <2>1. i \in DOMAIN requests /\ e = requests[i] /\ e \in Request
    BY <1>1, <1>3
  <2>2. RequestFits(e)
    BY <1>1, <2>1 DEF AllFit
  <2>3. RequestFits(e)'
    BY <2>1, <2>2, KeepsFitting DEF Request
  <2> QED BY <2>3
<1> QED BY <1>2, <1>3

LEMMA SameRequests ==
    ASSUME IInv, \A v \in Worker : Forward(v), requests' = requests
    PROVE  AllFit'
<1>1. requests \in Seq(Request) /\ AllFit
  BY DEF IInv, Types, TypeOK, AllFit
<1> SUFFICES ASSUME NEW i \in DOMAIN requests PROVE RequestFits(requests[i])'
  BY DEF AllFit
<1> PICK e : e = requests[i]
  OBVIOUS
<1>2. e \in Request /\ RequestFits(e)
  BY <1>1 DEF AllFit
<1>3. RequestFits(e)'
  BY <1>2, KeepsFitting DEF Request
<1> QED BY <1>3

(* The generator stays as it is while others take steps.                    *)
LEMMA SameGenerator ==
    ASSUME IInv, \A v \in Worker : Forward(v), clientg' = clientg,
           \A v \in Worker : spawner'[v].pc \in Setup /\ v \in apim => v \in apim'
    PROVE  GeneratorFits'
<1> SUFFICES ASSUME clientg.pc # "idle"
             PROVE  /\ RequestFits(Req)'
                    /\ clientg.pc \in {"create", "save"} => Req.cmd = "new"
                    /\ clientg.pc \in {"remove", "forget"} => Req.by = "worker"
                    /\ clientg.pc = "save" /\ spawner'[Req.w].pc \in Setup => Req.w \in apim'
  BY DEF GeneratorFits, Req
<1>1. PICK r \in Request : r = Req
  BY ReqType DEF IInv, Types
<1>2. RequestFits(r) /\ Forward(r.w) /\ r.w \in Worker
  BY <1>1 DEF IInv, GeneratorFits, Request
<1>3. RequestFits(r)' /\ r = Req'
  BY <1>1, <1>2, KeepsFitting DEF Req
<1>4. RequestFits(Req)'
  BY <1>3
<1>5. spawner'[r.w].pc \in Setup => spawner[r.w].pc \in Setup
  BY <1>2 DEF Forward, RequestFits, New
<1> QED BY <1>1, <1>2, <1>4, <1>5 DEF IInv, GeneratorFits

(* A step that concerns the client of a worker at most: it may register and *)
(* store it, and remove it once the process has asked for that.             *)
LEMMA ClientOnly ==
    ASSUME NEW v \in Worker, RecordFits(v), ClientFits(v),
           store'[v] = store[v], spawner'[v].pc = spawner[v].pc, proc'[v] = proc[v],
           v \in apim => v \in apim' \/ proc[v] \in Past,
           v \in apim' => v \in apim \/ spawner[v].pc \notin New,
           v \in clients => v \in clients' \/ proc[v] \in Past,
           UNCHANGED health
    PROVE  RecordFits(v)' /\ ClientFits(v)' /\ Forward(v)
<1>1. RecordFits(v)'
  BY DEF RecordFits, Visited
<1>2. Forward(v)
  BY DEF Forward, New, Setup
<1>3. proc[v] \in Past => /\ spawner[v].pc \notin {"granted", "start"}
                          /\ proc[v] \notin {"waiting", "listen", "ask"}
  BY DEF Past, RecordFits, Setup
<1>4. ClientFits(v)'
  BY <1>3 DEF ClientFits, HasId, Listed
<1> QED BY <1>1, <1>2, <1>4

-----------------------------------------------------------------------------
(* The clients generator.                                                   *)

Refusal == Answered(FALSE)
Consent == Answered(TRUE)

(* An answer moves a spawner that waits for it, and a worker that does.     *)
LEMMA AnswerMoves ==
    ASSUME IInv, clientg.pc # "idle", Consent \/ Refusal, NEW v \in Worker
    PROVE  /\ spawner'[v].pc # spawner[v].pc =>
                 /\ v = Req.w /\ Req.by = "spawner"
                 /\ \/ /\ spawner[v].pc = "wait" /\ Req.cmd = "new"
                       /\ \/ spawner'[v].pc = "granted" /\ ~Refusal
                          \/ spawner'[v].pc = "refused"
                    \/ spawner[v].pc = "revoking" /\ spawner'[v].pc = "failed"
           /\ proc'[v] # proc[v] => proc[v] = "await" /\ proc'[v] = "unlist"
           /\ Forward(v)
<1>1. Req \in Request /\ Req.w \in Worker
  BY ReqType DEF IInv, Types, Request
<1>2. spawner \in [Worker -> SpawnerRecord] /\ proc \in [Worker -> ProcPcs]
  BY DEF IInv, Types, TypeOK, SpawnerRecord
<1>3. /\ spawner'[v].pc # spawner[v].pc =>
                 /\ v = Req.w /\ Req.by = "spawner"
                 /\ \/ /\ spawner[v].pc = "wait" /\ Req.cmd = "new"
                       /\ \/ spawner'[v].pc = "granted" /\ ~Refusal
                          \/ spawner'[v].pc = "refused"
                    \/ spawner[v].pc = "revoking" /\ spawner'[v].pc = "failed"
  <2>1. CASE Consent
    BY <2>1, <1>1, <1>2 DEF Refusal, Consent, Answered, SpawnerRecord
  <2>2. CASE Refusal
    BY <2>2, <1>1, <1>2 DEF Refusal, Consent, Answered, SpawnerRecord
  <2> QED BY <2>1, <2>2
<1>4. proc'[v] # proc[v] => proc[v] = "await" /\ proc'[v] = "unlist"
  BY <1>1, <1>2 DEF Refusal, Consent, Answered
<1>5. Forward(v)
  BY <1>3, <1>4 DEF Forward, Past, New, Setup
<1> QED BY <1>3, <1>4, <1>5

LEMMA AnswerEnds == ASSUME Consent \/ Refusal PROVE GeneratorFits'
  BY DEF Refusal, Consent, Answered, GeneratorFits

(* An answer: a grant is only given with a client that is stored and        *)
(* registered.                                                              *)
LEMMA AnswerFits ==
    ASSUME IInv, clientg.pc # "idle", Consent \/ Refusal, NEW v \in Worker,
           UNCHANGED <<store, health>>,
           v \in apim => v \in apim',
           v \in apim' => v \in apim \/ spawner[v].pc \notin New,
           v \in clients => v \in clients' \/ proc[v] \in Past,
           ~Refusal /\ v = Req.w /\ Req.cmd = "new" /\ spawner[v].pc = "wait" =>
               v \in clients' \cap apim'
    PROVE  RecordFits(v)' /\ ClientFits(v)'
<1>f. RecordFits(v) /\ ClientFits(v)
  BY DEF IInv
<1>1. proc'[v] # proc[v] => proc[v] = "await" /\ proc'[v] = "unlist"
  BY AnswerMoves
<1>2. spawner'[v].pc # spawner[v].pc =>
         \/ spawner[v].pc = "wait" /\ spawner'[v].pc = "refused"
         \/ spawner[v].pc = "wait" /\ spawner'[v].pc = "granted" /\ v \in clients' \cap apim'
         \/ spawner[v].pc = "revoking" /\ spawner'[v].pc = "failed"
  BY AnswerMoves
<1>3. RecordFits(v)'
  BY <1>f, <1>1, <1>2 DEF RecordFits, Visited, New, Setup
<1>4. proc[v] \in Past => /\ spawner[v].pc \notin {"granted", "start", "wait"}
                          /\ proc[v] \notin {"waiting", "listen", "ask"}
  BY <1>f DEF Past, RecordFits, Setup
<1>5. ClientFits(v)'
  BY <1>f, <1>1, <1>2, <1>4 DEF ClientFits, HasId, Listed, New
<1> QED BY <1>3, <1>5

LEMMA ClientgInv == ASSUME IInv, ClientgStep PROVE Rest'
<1>t. TypeOK /\ GeneratorFits /\ AllFit
  BY DEF IInv, Types, AllFit
<1>r. clientg.pc # "idle" => Req \in Request /\ Req.w \in Worker /\ RequestFits(Req)
  BY <1>t, ReqType DEF Request, GeneratorFits
<1>f. \A v \in Worker : RecordFits(v) /\ ClientFits(v)
  BY DEF IInv
<1>q. ASSUME \A v \in Worker : RecordFits(v)' /\ ClientFits(v)' /\ Forward(v),
             requests' = requests, GeneratorFits'
      PROVE  Rest'
  BY <1>q, SameRequests DEF Rest, AllFit
(* A step to the next stage of a request.                                   *)
<1>g. ASSUME clientg.pc # "idle", NEW pc, GoClientg(pc), UNCHANGED <<spawner, proc>>,
             pc \in {"create", "save"} => Req.cmd = "new",
             pc \in {"remove", "forget"} => Req.by = "worker",
             pc = "save" => Req.w \in apim'
      PROVE  GeneratorFits'
  <2>1. Req' = Req /\ clientg'.pc = pc
    BY <1>t, <1>g DEF Req, GoClientg, TypeOK
  <2>2. RequestFits(Req)'
    BY <1>r, <1>g, <2>1 DEF RequestFits
  <2> QED BY <1>g, <2>1, <2>2 DEF GeneratorFits
<1>c. Req.by = "worker" /\ clientg.pc # "idle" => proc[Req.w] \in Past
  BY <1>r DEF RequestFits
<1>1. CASE TakeRequest
  <2>1. UNCHANGED <<store, clientVars, spawner, proc, health>> /\ clientg.pc = "idle"
    BY <1>1 DEF TakeRequest, workerVars
  <2>2. \A v \in Worker : RecordFits(v)' /\ ClientFits(v)' /\ Forward(v)
    BY <2>1, <1>f, ClientOnly DEF clientVars
  <2>3. PICK r : r = Head(requests)
    OBVIOUS
  <2>4. r \in Request /\ RequestFits(r) /\ Req' = r /\ clientg'.pc = "check"
    BY <1>1, <1>t, <2>3 DEF TakeRequest, TypeOK, AllFit, Req
  <2>5. RequestFits(r)'
    BY <2>2, <2>4, KeepsFitting DEF Request
  <2>6. GeneratorFits'
    BY <2>4, <2>5 DEF GeneratorFits
  <2>7. AllFit'
    <3> SUFFICES ASSUME NEW i \in DOMAIN requests' PROVE RequestFits(requests[i])'
      BY DEF AllFit
    <3>1. PICK e : e = requests'[i]
      OBVIOUS
    <3>2. i + 1 \in DOMAIN requests /\ e = requests[i + 1] /\ e \in Request
      BY <1>1, <1>t, <3>1 DEF TakeRequest, TypeOK
    <3>3. RequestFits(e)
      BY <1>t, <3>2 DEF AllFit
    <3>4. RequestFits(e)'
      BY <2>2, <3>2, <3>3, KeepsFitting DEF Request
    <3> QED BY <3>1, <3>4
  <2> QED BY <2>2, <2>6, <2>7 DEF Rest, AllFit
<1>2. CASE CheckNew
  <2>1. UNCHANGED <<store, apim, clients, requests, health>> /\ clientg.pc = "check"
        /\ Req.cmd = "new"
    BY <1>2 DEF Refusal, Consent, CheckNew, clientVars
  <2>2. CASE GoClientg("create") /\ UNCHANGED <<spawner, proc>>
    BY <2>1, <2>2, <1>q, <1>g, <1>f, ClientOnly
  <2>3. CASE Refusal
    BY <2>1, <2>3, <1>q, <1>f, AnswerFits, AnswerMoves, AnswerEnds
  <2> QED BY <1>2, <2>2, <2>3 DEF Refusal, Consent, CheckNew
<1>3. CASE CreateClient
  <2>1. UNCHANGED <<store, clients, requests, health>> /\ clientg.pc = "create"
        /\ Req.cmd = "new"
    BY <1>3, <1>t DEF Refusal, Consent, CreateClient, Register, GeneratorFits
  <2>2. spawner[Req.w].pc \notin New
    BY <2>1, <1>r DEF RequestFits
  <2>3. CASE apim' = apim \cup {Req.w} /\ GoClientg("save") /\ UNCHANGED <<spawner, proc>>
    BY <2>1, <2>2, <2>3, <1>q, <1>g, <1>f, ClientOnly
  <2>4. CASE apim' \in {apim, apim \cup {Req.w}} /\ Refusal
    <3>1. \A v \in Worker : RecordFits(v)' /\ ClientFits(v)'
      BY <2>1, <2>2, <2>4, AnswerFits
    <3> QED BY <2>1, <2>4, <3>1, <1>q, AnswerMoves, AnswerEnds
  <2> QED BY <1>3, <2>3, <2>4 DEF Refusal, Consent, CreateClient, Register
<1>4. CASE SaveClient
  <2>1. UNCHANGED <<store, apim, requests, health>> /\ clientg.pc = "save" /\ Consent
        /\ clients' = clients \cup {Req.w}
    BY <1>4 DEF Refusal, Consent, SaveClient
  <2>2. spawner[Req.w].pc = "wait" => Req.w \in apim
    BY <2>1, <1>t DEF GeneratorFits, Setup
  <2>3. \A v \in Worker : RecordFits(v)' /\ ClientFits(v)'
    BY <2>1, <2>2, AnswerFits
  <2> QED BY <2>1, <2>3, <1>q, AnswerMoves, AnswerEnds
<1>5. CASE CheckDelete
  <2>1. UNCHANGED <<store, apim, clients, requests, health>> /\ clientg.pc = "check"
    BY <1>5 DEF Refusal, Consent, CheckDelete, clientVars
  <2>2. CASE Req.by = "worker" /\ GoClientg("remove") /\ UNCHANGED <<spawner, proc>>
    BY <2>1, <2>2, <1>q, <1>g, <1>f, ClientOnly
  <2>3. CASE Refusal
    BY <2>1, <2>3, <1>q, <1>f, AnswerFits, AnswerMoves, AnswerEnds
  <2> QED BY <1>5, <2>2, <2>3 DEF Refusal, Consent, CheckDelete
<1>6. CASE RemoveClient
  <2>1. UNCHANGED <<store, clients, requests, health>> /\ clientg.pc = "remove"
        /\ Req.by = "worker"
    BY <1>6, <1>t DEF Refusal, Consent, RemoveClient, GeneratorFits
  <2>2. CASE apim' = apim \ {Req.w} /\ GoClientg("forget") /\ UNCHANGED <<spawner, proc>>
    BY <2>1, <2>2, <1>q, <1>g, <1>f, <1>c, ClientOnly
  <2>3. CASE UNCHANGED apim /\ Refusal
    BY <2>1, <2>3, <1>q, <1>f, AnswerFits, AnswerMoves, AnswerEnds
  <2> QED BY <1>6, <2>2, <2>3 DEF Refusal, Consent, RemoveClient
<1>7. CASE ForgetClient
  <2>1. UNCHANGED <<store, apim, requests, health>> /\ clientg.pc = "forget" /\ Consent
        /\ clients' = clients \ {Req.w} /\ Req.by = "worker" /\ proc[Req.w] \in Past
    BY <1>7, <1>t, <1>c DEF Refusal, Consent, ForgetClient, GeneratorFits
  <2>2. Req.cmd # "new"
    BY <2>1, <1>r DEF RequestFits
  <2>3. \A v \in Worker : RecordFits(v)' /\ ClientFits(v)'
    BY <2>1, <2>2, AnswerFits
  <2> QED BY <2>1, <2>3, <1>q, AnswerMoves, AnswerEnds
<1> QED BY <1>1, <1>2, <1>3, <1>4, <1>5, <1>6, <1>7 DEF ClientgStep

-----------------------------------------------------------------------------
(* The spawner's handling of a worker, and the worker.                      *)

(* A step that concerns one worker.                                         *)
LEMMA OneWorker ==
    ASSUME IInv, NEW w \in Worker, UNCHANGED <<apim, clients, clientg, health>>,
           \A v \in Worker \ {w} : /\ store'[v] = store[v] /\ spawner'[v] = spawner[v]
                                   /\ proc'[v] = proc[v],
           RecordFits(w)', ClientFits(w)', Forward(w),
           \/ requests' = requests
           \/ \E r \in Request : RequestFits(r)' /\ requests' = Append(requests, r)
    PROVE  Rest'
<1>1. \A v \in Worker : RecordFits(v)' /\ ClientFits(v)' /\ Forward(v)
  BY ClientOnly DEF IInv
<1>2. GeneratorFits'
  BY <1>1, SameGenerator
<1>3. AllFit'
  BY <1>1, SameRequests, Appended
<1> QED BY <1>1, <1>2, <1>3 DEF Rest, AllFit

LEMMA SpawnerInv ==
    ASSUME IInv, NEW w \in Worker, RequestWorker(w) \/ SpawnerStep(w) PROVE Rest'
<1>t. /\ store \in [Worker -> Doc] /\ store[w] \in Doc
      /\ spawner \in [Worker -> SpawnerRecord] /\ proc \in [Worker -> ProcPcs]
  BY DEF IInv, Types, TypeOK, SpawnerRecord
<1>f. RecordFits(w) /\ ClientFits(w)
  BY DEF IInv
<1>w. /\ ~Absent.owned /\ ~Absent.hosted /\ RequestedDoc.exists /\ RequestedDoc.owned
      /\ ~RequestedDoc.hosted /\ AddWorker(store[w]).exists
      /\ AddWorker(store[w]).owned = store[w].owned
      /\ \A s \in Statuses : /\ UpdateWorkerStatus(store[w], s) \in Doc
                             /\ UpdateWorkerStatus(store[w], s).owned = store[w].owned
                             /\ UpdateWorkerStatus(store[w], s).hosted = store[w].hosted
                             /\ store[w].exists => UpdateWorkerStatus(store[w], s).exists
  BY <1>t, Writes
<1>q. {"SPAWNER_SETUP", "PULLING_IMAGE", "CREATING_CONTAINER"} \subseteq Statuses
  BY DEF Statuses
<1>b. ASSUME NEW r \in SpawnerRecord, Become(w, r)
      PROVE  spawner'[w] = r /\ \A v \in Worker \ {w} : spawner'[v] = spawner[v]
  BY <1>b, <1>t DEF Become
<1>g. ASSUME NEW pc \in SpawnerPcs, Goto(w, pc)
      PROVE  spawner'[w].pc = pc /\ \A v \in Worker \ {w} : spawner'[v] = spawner[v]
  BY <1>g, <1>t DEF Goto, Become, SpawnerRecord
(* A step that only sets the pc.                                            *)
<1>1. ASSUME UNCHANGED <<store, proc, clients, apim, clientg, health, requests>>,
             \A v \in Worker \ {w} : spawner'[v] = spawner[v],
             spawner'[w].pc \notin New \cup Setup \cup {"confirm"},
             spawner[w].pc \notin New
      PROVE  Rest'
  <2>1. RecordFits(w)' /\ ClientFits(w)' /\ Forward(w)
    BY <1>1, <1>f DEF RecordFits, ClientFits, Forward, HasId, Visited, Listed, New, Setup
  <2> QED BY <1>1, <2>1, OneWorker
(* One from a stage before the start of the process to another.             *)
<1>2. ASSUME UNCHANGED <<store, proc, clients, apim, clientg, health, requests>>,
             \A v \in Worker \ {w} : spawner'[v] = spawner[v],
             spawner[w].pc \in Setup, spawner'[w].pc \in Setup,
             spawner'[w].pc \in {"granted", "start"} => spawner[w].pc \in {"granted", "start"}
      PROVE  Rest'
  <2>1. RecordFits(w)' /\ ClientFits(w)' /\ Forward(w)
    BY <1>2, <1>f DEF RecordFits, ClientFits, Forward, HasId, Visited, Listed, New, Setup
  <2> QED BY <1>2, <2>1, OneWorker
<1>3. CASE RequestWorker(w)
  <2>1. /\ store'[w] = RequestedDoc /\ \A v \in Worker \ {w} : store'[v] = store[v]
        /\ spawner[w].pc = "idle" /\ spawner'[w].pc = "command"
        /\ \A v \in Worker \ {w} : spawner'[v] = spawner[v]
        /\ UNCHANGED <<proc, clients, apim, clientg, health, requests>>
    BY <1>3, <1>t, <1>g DEF RequestWorker, SpawnerPcs, workerVars, spawnerRest, clientVars
  <2>2. RecordFits(w)' /\ ClientFits(w)' /\ Forward(w)
    BY <2>1, <1>w, <1>f
       DEF RecordFits, ClientFits, Forward, HasId, Visited, Listed, New, Setup, Past
  <2> QED BY <2>1, <2>2, OneWorker
<1>4. CASE ProcessCommand(w)
  <2>1. /\ store'[w] \in {UpdateWorkerStatus(store[w], "SPAWNER_SETUP"), Absent}
        /\ spawner'[w].pc = "ask" => store'[w] = UpdateWorkerStatus(store[w], "SPAWNER_SETUP")
        /\ \A v \in Worker \ {w} : store'[v] = store[v]
        /\ spawner[w].pc = "command" /\ spawner'[w].pc \in {"ask", "done"}
        /\ \A v \in Worker \ {w} : spawner'[v] = spawner[v]
        /\ UNCHANGED <<proc, clients, apim, clientg, health, requests>>
    BY <1>4, <1>t, <1>g DEF ProcessCommand, SpawnerPcs, workerVars, spawnerRest, clientVars
  <2>2. RecordFits(w)' /\ ClientFits(w)' /\ Forward(w)
    BY <2>1, <1>w, <1>q, <1>f
       DEF RecordFits, ClientFits, Forward, HasId, Visited, Listed, New, Setup, Past
  <2> QED BY <2>1, <2>2, OneWorker
<1>5. CASE AskForClient(w)
  <2>n. spawner[w].n + 1 \in 0 .. MaxAttempts
    <3>1. spawner[w].n \in 0 .. MaxAttempts /\ MaxAttempts \in Nat
      BY <1>t, ClientsAssumption DEF SpawnerRecord, ClientsAssumption
    <3>2. spawner[w].n < MaxAttempts
      BY <1>5 DEF AskForClient, IInv, Types, Counted
    <3> QED BY <3>1, <3>2
  <2>r. [spawner[w] EXCEPT !.pc = "wait", !.n = @ + 1] \in SpawnerRecord
    BY <2>n, <1>t DEF SpawnerRecord, SpawnerPcs
  <2> DEFINE r == [cmd |-> "new", w |-> w, by |-> "spawner", n |-> spawner[w].n + 1]
  <2>1. /\ r \in Request /\ requests' = Append(requests, r)
        /\ spawner[w].pc = "ask" /\ spawner'[w].pc = "wait"
        /\ \A v \in Worker \ {w} : spawner'[v] = spawner[v]
        /\ UNCHANGED <<store, proc, clients, apim, clientg, health>>
    BY <1>5, <1>t, <2>n, <2>r, <1>b
       DEF AskForClient, workerVars, spawnerRest, clientVars, Request, SpawnerRecord
  <2>2. RecordFits(w)' /\ ClientFits(w)' /\ Forward(w)
    BY <2>1, <1>f DEF RecordFits, ClientFits, Forward, HasId, Visited, Listed, New, Setup
  <2>3. PICK e \in Request : e = r
    BY <2>1
  <2>4. e.cmd = "new" /\ e.by = "spawner" /\ e.w = w
    BY <2>3
  <2> HIDE DEF r
  <2>5. RequestFits(e)'
    BY <2>1, <2>4 DEF RequestFits, New
  <2> QED BY <2>1, <2>2, <2>3, <2>5, OneWorker
<1>6. CASE Granted(w)
  <2>1. [spawner[w] EXCEPT !.pc = "start", !.client = TRUE] \in SpawnerRecord
    BY <1>t DEF SpawnerRecord, SpawnerPcs
  <2>2. [spawner[w] EXCEPT !.pc = "start", !.client = TRUE].pc = "start"
    BY <1>t DEF SpawnerRecord
  <2> QED BY <1>6, <2>1, <2>2, <1>b, <1>2
          DEF Granted, workerVars, spawnerRest, clientVars, Setup
<1>7. ASSUME TryAgain(w), spawner[w].pc \in {"wait", "refused"},
             UNCHANGED <<proc, clients, apim, clientg, health, requests>>
      PROVE  Rest'
  <2>1. CASE spawner[w].n = MaxAttempts
    <3>1. /\ store'[w] = Absent /\ \A v \in Worker \ {w} : store'[v] = store[v]
          /\ spawner'[w].pc = "failed" /\ \A v \in Worker \ {w} : spawner'[v] = spawner[v]
      BY <1>7, <2>1, <1>t, <1>g DEF TryAgain, SpawnerPcs
    <3>2. RecordFits(w)' /\ ClientFits(w)' /\ Forward(w)
      BY <3>1, <1>7, <1>w, <1>f
         DEF RecordFits, ClientFits, Forward, HasId, Visited, Listed, New, Setup, Past
    <3> QED BY <1>7, <3>1, <3>2, OneWorker
  <2>2. CASE spawner[w].n # MaxAttempts
    <3>1. [spawner[w] EXCEPT !.pc = "ask", !.heard = TRUE] \in SpawnerRecord
      BY <1>t DEF SpawnerRecord, SpawnerPcs
    <3>2. [spawner[w] EXCEPT !.pc = "ask", !.heard = TRUE].pc = "ask"
      BY <1>t DEF SpawnerRecord
    <3> QED BY <1>7, <2>2, <3>1, <3>2, <1>b, <1>2 DEF TryAgain, Setup
  <2> QED BY <2>1, <2>2
<1>8. CASE Refused(w)
  BY <1>8, <1>7 DEF Refused, workerVars, spawnerRest, clientVars
<1>9. CASE AskTimesOut(w)
  <2>1. CASE TryAgain(w)
    BY <1>9, <2>1, <1>7 DEF AskTimesOut, workerVars, spawnerRest, clientVars
  <2>2. CASE Goto(w, "failed") /\ UNCHANGED store
    BY <1>9, <2>2, <1>g, <1>1
       DEF AskTimesOut, workerVars, spawnerRest, clientVars, SpawnerPcs, New, Setup
  <2> QED BY <1>9, <2>1, <2>2 DEF AskTimesOut
<1>10. CASE StartProcess(w)
  <2>1. /\ store'[w] = UpdateWorkerStatus(UpdateWorkerStatus(store[w], "PULLING_IMAGE"),
                                          "CREATING_CONTAINER")
        /\ \A v \in Worker \ {w} : store'[v] = store[v] /\ proc'[v] = proc[v]
        /\ proc'[w] = "waiting"
        /\ spawner[w].pc = "start" /\ spawner'[w].pc = "confirm"
        /\ \A v \in Worker \ {w} : spawner'[v] = spawner[v]
        /\ UNCHANGED <<clients, apim, clientg, health, requests>>
    BY <1>10, <1>t, <1>g DEF StartProcess, SpawnerPcs, workerVars, spawnerRest, clientVars
  <2>2. /\ store'[w].owned = store[w].owned /\ store'[w].hosted = store[w].hosted
        /\ store[w].exists => store'[w].exists
    <3>1. PICK d \in Doc : d = UpdateWorkerStatus(store[w], "PULLING_IMAGE")
      BY <1>w, <1>q
    <3>2. store'[w] = UpdateWorkerStatus(d, "CREATING_CONTAINER")
      BY <2>1, <3>1
    <3>3. /\ store'[w].owned = d.owned /\ store'[w].hosted = d.hosted
          /\ d.exists => store'[w].exists
      BY <3>2, <1>q, Writes
    <3> QED BY <3>1, <3>3, <1>w, <1>q
  <2>3. RecordFits(w)' /\ ClientFits(w)' /\ Forward(w)
    BY <2>1, <2>2, <1>f
       DEF RecordFits, ClientFits, Forward, HasId, Visited, Listed, New, Setup, Past
  <2> QED BY <2>1, <2>3, OneWorker
<1>11. CASE StartFails(w)
  <2>1. /\ store'[w] = UpdateWorkerStatus(store[w], "PULLING_IMAGE")
        /\ \A v \in Worker \ {w} : store'[v] = store[v]
        /\ spawner[w].pc = "start" /\ spawner'[w].pc = "errActor"
        /\ \A v \in Worker \ {w} : spawner'[v] = spawner[v]
        /\ UNCHANGED <<proc, clients, apim, clientg, health, requests>>
    BY <1>11, <1>t, <1>g DEF StartFails, SpawnerPcs, workerVars, spawnerRest, clientVars
  <2>2. RecordFits(w)' /\ ClientFits(w)' /\ Forward(w)
    BY <2>1, <1>w, <1>q, <1>f
       DEF RecordFits, ClientFits, Forward, HasId, Visited, Listed, New, Setup, Past
  <2> QED BY <2>1, <2>2, OneWorker
<1>12. CASE ConfirmFails(w)
  BY <1>12, <1>g, <1>1
     DEF ConfirmFails, workerVars, spawnerRest, clientVars, SpawnerPcs, New, Setup
<1>13. CASE ErrorOutActor(w)
  <2>1. /\ store'[w] \in {Absent, store[w]} /\ \A v \in Worker \ {w} : store'[v] = store[v]
        /\ spawner[w].pc = "errActor" /\ spawner'[w].pc = "revoke"
        /\ \A v \in Worker \ {w} : spawner'[v] = spawner[v]
        /\ UNCHANGED <<proc, clients, apim, clientg, health, requests>>
    BY <1>13, <1>t, <1>g DEF ErrorOutActor, SpawnerPcs, workerVars, spawnerRest, clientVars
  <2>2. RecordFits(w)' /\ ClientFits(w)' /\ Forward(w)
    BY <2>1, <1>w, <1>f
       DEF RecordFits, ClientFits, Forward, HasId, Visited, Listed, New, Setup, Past
  <2> QED BY <2>1, <2>2, OneWorker
<1>14. CASE RevokeClient(w)
  <2> DEFINE r == [cmd |-> "delete", w |-> w, by |-> "spawner", n |-> spawner[w].n]
  <2>1. /\ r \in Request /\ requests' = Append(requests, r)
        /\ spawner[w].pc = "revoke" /\ spawner'[w].pc = "revoking"
        /\ \A v \in Worker \ {w} : spawner'[v] = spawner[v]
        /\ UNCHANGED <<store, proc, clients, apim, clientg, health>>
    BY <1>14, <1>t, <1>g
       DEF RevokeClient, workerVars, spawnerRest, clientVars, Request, SpawnerRecord, SpawnerPcs
  <2>2. RecordFits(w)' /\ ClientFits(w)' /\ Forward(w)
    BY <2>1, <1>f DEF RecordFits, ClientFits, Forward, HasId, Visited, Listed, New, Setup
  <2>3. PICK e \in Request : e = r
    BY <2>1
  <2>4. e.cmd = "delete" /\ e.by = "spawner" /\ e.w = w
    BY <2>3
  <2> HIDE DEF r
  <2>5. RequestFits(e)'
    BY <2>1, <2>4 DEF RequestFits, New
  <2> QED BY <2>1, <2>2, <2>3, <2>5, OneWorker
<1>15. CASE RevokeTimesOut(w)
  BY <1>15, <1>g, <1>1
     DEF RevokeTimesOut, workerVars, spawnerRest, clientVars, SpawnerPcs, New, Setup
<1>16. CASE AddRunningWorker(w)
  <2>1. /\ store'[w] = AddWorker(store[w]) /\ \A v \in Worker \ {w} : store'[v] = store[v]
        /\ spawner[w].pc = "confirm" /\ spawner'[w].pc = "signal"
        /\ \A v \in Worker \ {w} : spawner'[v] = spawner[v]
        /\ UNCHANGED <<proc, clients, apim, clientg, health, requests>>
    BY <1>16, <1>t, <1>g
       DEF AddRunningWorker, SpawnerPcs, workerVars, spawnerRest, clientVars
  <2>2. RecordFits(w)' /\ ClientFits(w)' /\ Forward(w)
    BY <2>1, <1>w, <1>f
       DEF RecordFits, ClientFits, Forward, HasId, Visited, Listed, New, Setup, Past
  <2> QED BY <2>1, <2>2, OneWorker
<1>17. CASE SignalReady(w)
  <2>1. /\ \A v \in Worker \ {w} : proc'[v] = proc[v]
        /\ proc'[w] = IF proc[w] = "waiting" THEN "listen" ELSE proc[w]
        /\ spawner[w].pc = "signal" /\ spawner'[w].pc = "done"
        /\ \A v \in Worker \ {w} : spawner'[v] = spawner[v]
        /\ UNCHANGED <<store, clients, apim, clientg, health, requests>>
    BY <1>17, <1>t, <1>g DEF SignalReady, SpawnerPcs, workerVars, spawnerRest, clientVars
  <2>2. RecordFits(w)' /\ ClientFits(w)' /\ Forward(w)
    BY <2>1, <1>w, <1>f
       DEF RecordFits, ClientFits, Forward, HasId, Visited, Listed, New, Setup, Past
  <2> QED BY <2>1, <2>2, OneWorker
<1> QED BY <1>3, <1>4, <1>5, <1>6, <1>8, <1>9, <1>10, <1>11, <1>12, <1>13, <1>14, <1>15,
           <1>16, <1>17 DEF SpawnerStep

LEMMA WorkerInv ==
    ASSUME IInv, NEW w \in Worker,
           \/ MarkWorker(w) \/ SendStop(w) \/ ToggleBusy(w) \/ WorkerStep(w)
           \/ DeletionTimesOut(w) \/ Die(w)
    PROVE  Rest'
<1>t. /\ store \in [Worker -> Doc] /\ store[w] \in Doc /\ proc \in [Worker -> ProcPcs]
  BY DEF IInv, Types, TypeOK
<1>f. RecordFits(w) /\ ClientFits(w)
  BY DEF IInv
<1>w. /\ ~Absent.owned /\ ~Absent.hosted
      /\ \A s \in {"SHUTDOWN_REQUESTED", "SHUTTING_DOWN"} :
            /\ UpdateWorkerStatus(store[w], s).owned = store[w].owned
            /\ UpdateWorkerStatus(store[w], s).hosted = store[w].hosted
            /\ store[w].exists => UpdateWorkerStatus(store[w], s).exists
  BY <1>t, Writes DEF Statuses
(* A step of the process, or of one that stops it.                          *)
<1>1. ASSUME UNCHANGED <<apim, clients, clientg, health, spawner>>,
             \A v \in Worker \ {w} : store'[v] = store[v] /\ proc'[v] = proc[v],
             \/ /\ store'[w].owned = store[w].owned /\ store'[w].hosted = store[w].hosted
                /\ store[w].exists => store'[w].exists
             \/ ~store'[w].owned /\ ~store'[w].hosted /\ proc[w] = "unlist",
             \/ proc'[w] = proc[w]
             \/ proc[w] = "listen" /\ proc'[w] = "ask"
             \/ /\ proc[w] \notin {"none", "gone"} /\ proc'[w] \in Past
                /\ proc[w] = "waiting" => proc'[w] = "gone",
             \/ requests' = requests
             \/ \E r \in Request : RequestFits(r)' /\ requests' = Append(requests, r)
      PROVE  Rest'
  <2>1. RecordFits(w)'
    BY <1>1, <1>f DEF RecordFits, Visited, New, Setup
  <2>2. HasId(store'[w]) => HasId(store[w])
    BY <1>1, <1>f DEF HasId, RecordFits
  <2>3. ClientFits(w)'
    BY <1>1, <2>2, <1>f DEF ClientFits, Listed, Past
  <2>4. Forward(w)
    BY <1>1 DEF Forward, Past, New, Setup
  <2> QED BY <1>1, <2>1, <2>3, <2>4, OneWorker
<1>2. CASE MarkWorker(w)
  BY <1>2, <1>1, <1>t, <1>w DEF MarkWorker, workerRest, clientVars
<1>3. CASE SendStop(w)
  BY <1>3, <1>1 DEF SendStop, workerRest, clientVars
<1>4. CASE ToggleBusy(w)
  <2>1. /\ \A v \in Worker \ {w} : store'[v] = store[v]
        /\ store'[w].owned = store[w].owned /\ store'[w].hosted = store[w].hosted
        /\ store'[w].exists = store[w].exists
    BY <1>4, <1>t DEF ToggleBusy, Doc
  <2> QED BY <1>4, <2>1, <1>1 DEF ToggleBusy, workerRest, workerVars, clientVars
<1>5. CASE TakeStop(w)
  <2>1. /\ store'[w] = UpdateWorkerStatus(store[w], "SHUTTING_DOWN")
        /\ \A v \in Worker \ {w} : store'[v] = store[v] /\ proc'[v] = proc[v]
        /\ proc[w] = "listen" /\ proc'[w] = "ask"
    BY <1>5, <1>t DEF TakeStop
  <2> QED BY <1>5, <2>1, <1>1, <1>w DEF TakeStop, workerRest, clientVars
<1>6. CASE AskForDeletion(w)
  <2> DEFINE r == [cmd |-> "delete", w |-> w, by |-> "worker", n |-> 0]
  <2>1. /\ r \in Request /\ requests' = Append(requests, r)
        /\ proc[w] = "ask" /\ proc'[w] = "await"
        /\ \A v \in Worker \ {w} : proc'[v] = proc[v]
    BY <1>6, <1>t, ClientsAssumption DEF AskForDeletion, Request, ClientsAssumption
  <2>2. PICK e \in Request : e = r
    BY <2>1
  <2>3. e.cmd = "delete" /\ e.by = "worker" /\ e.w = w
    BY <2>2
  <2> HIDE DEF r
  <2>4. RequestFits(e)'
    BY <1>6, <2>1, <2>3, <1>f
       DEF AskForDeletion, workerRest, RequestFits, New, Past, RecordFits, Setup
  <2>5. UNCHANGED <<store, apim, clients, clientg, health, spawner>>
    BY <1>6 DEF AskForDeletion, workerRest, clientVars
  <2> QED BY <2>1, <2>2, <2>4, <2>5, <1>1 DEF Past
<1>7. CASE DeletionTimesOut(w) \/ MainLoopEnds(w) \/ Die(w)
  <2>1. /\ \A v \in Worker \ {w} : proc'[v] = proc[v]
        /\ proc[w] \notin {"none", "gone"} /\ proc'[w] \in Past
        /\ proc[w] = "waiting" => proc'[w] = "gone"
        /\ UNCHANGED <<store, requests, apim, clients, clientg, health, spawner>>
    BY <1>7, <1>t DEF DeletionTimesOut, MainLoopEnds, Die, Alive, Past, workerRest, clientVars
  <2> QED BY <2>1, <1>1
<1>8. CASE DeleteRecord(w)
  <2>1. /\ \A v \in Worker \ {w} : store'[v] = store[v] /\ proc'[v] = proc[v]
        /\ proc[w] = "unlist" /\ proc'[w] \in Past /\ store'[w] = Absent
    BY <1>8, <1>t DEF DeleteRecord, Past
  <2> QED BY <1>8, <2>1, <1>1, <1>w DEF DeleteRecord, workerRest, clientVars
<1>9. CASE Leave(w)
  <2>1. /\ \A v \in Worker \ {w} : proc'[v] = proc[v]
        /\ proc[w] = "leave" /\ proc'[w] \in Past
    BY <1>9, <1>t DEF Leave, Past
  <2> QED BY <1>9, <2>1, <1>1 DEF Leave, workerRest, clientVars
<1> QED BY <1>2, <1>3, <1>4, <1>5, <1>6, <1>7, <1>8, <1>9 DEF WorkerStep

-----------------------------------------------------------------------------
(* The health agent.                                                        *)

LEMMA HealthInv == ASSUME IInv, HealthStep PROVE Rest'
<1>t. /\ store \in [Worker -> Doc] /\ proc \in [Worker -> ProcPcs]
      /\ health.todo \subseteq Worker /\ health.at \subseteq Worker
      /\ health \in [pc : HealthPcs, todo : SUBSET Worker, busy : SUBSET Worker,
                     at : SUBSET Worker]
  BY DEF IInv, Types, TypeOK
<1>f. \A v \in Worker : RecordFits(v) /\ ClientFits(v)
  BY DEF IInv
<1>q. ASSUME UNCHANGED healthRest,
             \A v \in Worker : RecordFits(v)' /\ ClientFits(v)' /\ Forward(v),
             \A v \in Worker : spawner[v].pc \in Setup /\ v \in apim => v \in apim'
      PROVE  Rest'
  <2>1. AllFit'
    BY <1>q, SameRequests DEF healthRest
  <2>2. GeneratorFits'
    BY <1>q, SameGenerator DEF healthRest
  <2> QED BY <1>q, <2>1, <2>2 DEF Rest, AllFit
(* The agent only reads.                                                    *)
<1>1. ASSUME UNCHANGED <<store, apim, proc, healthRest>>,
             \A v \in Worker : spawner[v].pc \in {"confirm"} \cup New \cup Setup => v \notin Visited',
             \A v \in Worker : spawner[v].pc \in New => v \notin Listed',
             health'.pc = "revoke" => \A v \in health'.at : ~HasId(store[v])
      PROVE  Rest'
  <2>1. \A v \in Worker : RecordFits(v)'
    BY <1>1, <1>f DEF RecordFits, healthRest
  <2>2. \A v \in Worker : ClientFits(v)'
    BY <1>1, <1>f DEF ClientFits, healthRest
  <2>3. \A v \in Worker : Forward(v)
    BY <1>1 DEF Forward, healthRest, New, Setup
  <2> QED BY <1>1, <2>1, <2>2, <2>3, <1>q
(* It writes what it knows of a worker that it visits.                      *)
<1>2. ASSUME UNCHANGED <<apim, healthRest>>,
             Visited' \subseteq Visited, Listed' = {}, health'.pc # "revoke",
             \A v \in Worker \ Visited : store'[v] = store[v] /\ proc'[v] = proc[v],
             \A v \in Worker : proc'[v] \in {proc[v], "gone"},
             \A v \in Worker :
                \/ /\ store'[v].owned = store[v].owned /\ store'[v].hosted = store[v].hosted
                   /\ store[v].exists => store'[v].exists
                \/ ~store'[v].owned /\ ~store'[v].hosted
      PROVE  Rest'
  <2>1. ASSUME NEW v \in Worker PROVE RecordFits(v)' /\ ClientFits(v)' /\ Forward(v)
    <3>f. RecordFits(v) /\ ClientFits(v)
      BY <1>f
    <3>1. v \in Visited => spawner[v].pc \notin {"confirm"} \cup New \cup Setup
      BY <3>f DEF RecordFits
    <3>2. /\ spawner'[v] = spawner[v] /\ (v \in clients' <=> v \in clients)
          /\ (v \in apim' <=> v \in apim)
      BY <1>2 DEF healthRest
    <3>3. RecordFits(v)'
      BY <1>2, <3>f, <3>1, <3>2 DEF RecordFits, New, Setup
    <3>4. HasId(store'[v]) => HasId(store[v])
      BY <1>2, <3>f DEF HasId, RecordFits
    <3>5. ClientFits(v)'
      BY <1>2, <3>f, <3>2, <3>4 DEF ClientFits
    <3>6. Forward(v)
      BY <1>2, <3>2 DEF Forward, Past, New, Setup
    <3> QED BY <3>3, <3>5, <3>6
  <2> QED BY <1>2, <2>1, <1>q
<1>g. \A pc \in HealthPcs : HealthGoes(pc) => /\ health'.pc = pc /\ health'.todo = health.todo
                                              /\ health'.at = health.at
  BY <1>t DEF HealthGoes
<1>a. \A pc \in HealthPcs : HealthAt(pc, {}) => /\ health'.pc = pc /\ health'.at = {}
  BY <1>t DEF HealthAt
<1>p. HealthPcs = {"idle", "check", "ping", "remove", "channel", "touch", "ttl", "send",
                   "list", "clients", "revoke"}
  BY DEF HealthPcs
<1>3. CASE ListWorkers
  <2>1. /\ Visited' = {w \in Worker : Checkable(w)} /\ Listed' = {} /\ health'.pc = "check"
        /\ UNCHANGED <<store, apim, proc, healthRest>>
    BY <1>3 DEF ListWorkers, Visited, Listed
  <2>2. \A v \in Worker : spawner[v].pc \in {"confirm"} \cup New \cup Setup => ~Checkable(v)
    BY <1>f DEF RecordFits, Checkable
  <2> QED BY <2>1, <2>2, <1>1
<1>4. CASE NextWorker
  <2>1. /\ UNCHANGED <<store, apim, proc, healthRest>> /\ health'.pc \in {"ping", "list"}
        /\ Visited' \subseteq Visited /\ Listed' = {}
    <3>1. ASSUME NEW w \in health.todo,
                 health' = [health EXCEPT !.pc = "ping", !.at = {w}, !.todo = @ \ {w}]
          PROVE  health'.pc = "ping" /\ health'.at = {w} /\ health'.todo = health.todo \ {w}
      BY <3>1, <1>t
    <3> QED BY <1>4, <3>1, <1>a, <1>p DEF NextWorker, Visited, Listed
  <2> QED BY <2>1, <1>1, <1>f DEF RecordFits
<1>5. CASE PingAnswered
  <2>1. /\ UNCHANGED <<store, apim, proc, healthRest>> /\ health'.pc = "touch"
        /\ Visited' = Visited /\ Listed' = {}
    BY <1>5, <1>g, <1>p DEF PingAnswered, Visited, Listed
  <2> QED BY <2>1, <1>1, <1>f DEF RecordFits
<1>v. health.pc \in {"ping", "remove", "touch", "ttl", "channel", "send"}
          => health.at \subseteq Visited
  BY DEF Visited
<1>6. CASE PingTimesOut
  <2>1. /\ UNCHANGED <<store, apim, healthRest>> /\ health'.pc = "remove"
        /\ Visited' = Visited /\ Listed' = {}
    BY <1>6, <1>g, <1>p DEF PingTimesOut, Visited, Listed
  <2>2. \A v \in Worker : proc'[v] = proc[v] \/ (v \in Visited /\ proc'[v] = "gone")
    BY <1>6, <1>t, <1>v DEF PingTimesOut
  <2> QED BY <2>1, <2>2, <1>2
<1>7. CASE RemoveRecord
  <2>1. /\ UNCHANGED <<apim, proc, healthRest>> /\ health'.pc = "channel"
        /\ Visited' = Visited /\ Listed' = {}
    BY <1>7, <1>g, <1>p DEF RemoveRecord, Visited, Listed
  <2>2. \A v \in Worker : store'[v] = store[v] \/ (v \in Visited /\ store'[v] = Absent)
    BY <1>7, <1>t, <1>v DEF RemoveRecord
  <2>3. ~Absent.owned /\ ~Absent.hosted
    BY DEF Absent
  <2> QED BY <2>1, <2>2, <2>3, <1>2
<1>8. CASE RemoveChannel
  <2>1. /\ UNCHANGED <<store, apim, proc, healthRest>> /\ health'.pc = "touch"
        /\ Visited' = Visited /\ Listed' = {}
    BY <1>8, <1>g, <1>p DEF RemoveChannel, Visited, Listed
  <2> QED BY <2>1, <1>1, <1>f DEF RecordFits
<1>9. CASE TouchChecked
  <2>1. /\ UNCHANGED <<apim, proc, healthRest>> /\ health'.pc \in {"list", "ttl"}
        /\ Visited' \subseteq Visited /\ Listed' = {}
    BY <1>9, <1>g, <1>a, <1>p DEF TouchChecked, Visited, Listed
  <2>2. \A v \in Worker : \/ store'[v] = store[v]
                          \/ v \in Visited /\ store'[v] = TouchUpsert(store[v])
    BY <1>9, <1>t, <1>v DEF TouchChecked
  <2>3. ASSUME NEW v \in Worker
        PROVE  /\ store'[v].owned = store[v].owned /\ store'[v].hosted = store[v].hosted
               /\ store[v].exists => store'[v].exists
    BY <2>2, <1>t, Writes
  <2> QED BY <2>1, <2>2, <2>3, <1>2
<1>10. CASE ExpireWorker
  <2>1. /\ UNCHANGED <<apim, proc, healthRest>> /\ health'.pc \in {"send", "check"}
        /\ Visited' \subseteq Visited /\ Listed' = {}
    BY <1>10, <1>g, <1>p DEF ExpireWorker, Visited, Listed
  <2>2. \A v \in Worker :
           \/ store'[v] = store[v]
           \/ v \in Visited /\ store'[v] = UpdateWorkerStatus(store[v], "SHUTDOWN_REQUESTED")
    BY <1>10, <1>t, <1>v DEF ExpireWorker
  <2>3. ASSUME NEW v \in Worker
        PROVE  /\ store'[v].owned = store[v].owned /\ store'[v].hosted = store[v].hosted
               /\ store[v].exists => store'[v].exists
    BY <2>2, <1>t, Writes DEF Statuses
  <2> QED BY <2>1, <2>2, <2>3, <1>2
<1>11. CASE SendExpired
  <2>1. /\ UNCHANGED <<store, apim, proc, healthRest>> /\ health'.pc = "check"
        /\ Visited' = Visited /\ Listed' = {}
    BY <1>11, <1>g, <1>p DEF SendExpired, Visited, Listed
  <2> QED BY <2>1, <1>1, <1>f DEF RecordFits
<1>12. CASE ListClients
  <2>1. /\ UNCHANGED <<store, apim, proc, healthRest>> /\ health'.pc \in {"clients", "idle"}
        /\ Visited' = {} /\ Listed' \subseteq apim
    <3>1. CASE health' = [health EXCEPT !.pc = "clients", !.todo = apim, !.at = {}]
      <4>1. health'.pc = "clients" /\ health'.todo = apim /\ health'.at = {}
        BY <3>1, <1>t
      <4> QED BY <1>12, <4>1 DEF ListClients, Visited, Listed
    <3>2. CASE HealthAt("idle", {})
      BY <1>12, <3>2, <1>a, <1>p DEF ListClients, Visited, Listed
    <3> QED BY <1>12, <3>1, <3>2 DEF ListClients
  <2> QED BY <2>1, <1>1, <1>f DEF ClientFits
<1>13. CASE NextClient
  <2>1. /\ UNCHANGED <<store, apim, proc, healthRest>> /\ Visited' = {}
        /\ Listed' \subseteq Listed
        /\ health'.pc = "revoke" => \A v \in health'.at : ~HasId(store[v])
    <3>1. ASSUME NEW w \in health.todo,
                 health' = [health EXCEPT !.pc = "revoke", !.at = {w}, !.todo = @ \ {w}]
          PROVE  health'.pc = "revoke" /\ health'.at = {w} /\ health'.todo = health.todo \ {w}
      BY <3>1, <1>t
    <3>2. ASSUME health' = [pc |-> "idle", todo |-> {}, busy |-> {}, at |-> {}]
          PROVE  health'.pc = "idle"
      BY <3>2
    <3> QED BY <1>13, <3>1, <3>2, <1>a, <1>p DEF NextClient, Visited, Listed
  <2> QED BY <2>1, <1>1, <1>f DEF ClientFits
<1>14. CASE RevokeRetired
  <2>1. /\ health.pc = "revoke" /\ health'.pc = "clients" /\ health'.at = health.at
        /\ Visited' = {} /\ Listed' = Listed /\ UNCHANGED <<store, proc, healthRest>>
    BY <1>14, <1>g, <1>p DEF RevokeRetired, Visited, Listed
  <2>2. apim \ health.at \subseteq apim' /\ apim' \subseteq apim
    BY <1>14 DEF RevokeRetired
  <2>3. ASSUME NEW v \in Worker, v \in health.at
        PROVE  ~HasId(store[v]) /\ spawner[v].pc \notin Setup
    BY <2>1, <2>3, <1>f DEF ClientFits, RecordFits, HasId
  <2>4. ASSUME NEW v \in Worker PROVE RecordFits(v)' /\ ClientFits(v)' /\ Forward(v)
    <3>1. RecordFits(v)' /\ Forward(v)
      BY <2>1, <1>f DEF RecordFits, Forward, New, Setup, healthRest
    <3>2. ClientFits(v)'
      BY <2>1, <2>2, <2>3, <1>f DEF ClientFits, Setup, healthRest
    <3> QED BY <3>1, <3>2
  <2> QED BY <2>1, <2>2, <2>3, <2>4, <1>q
<1> QED BY <1>3, <1>4, <1>5, <1>6, <1>7, <1>8, <1>9, <1>10, <1>11, <1>12, <1>13, <1>14
        DEF HealthStep

-----------------------------------------------------------------------------
LEMMA IInvInit == Init => IInv
<1> SUFFICES ASSUME Init PROVE Rest
  BY TypesInit DEF IInv, Rest
<1> QED BY DEF Init, Rest, RecordFits, ClientFits, GeneratorFits, Visited, Listed, Absent,
               IdleSpawner, New, Setup

LEMMA IInvNext == IInv /\ [Next]_vars => IInv'
<1> SUFFICES ASSUME IInv, [Next]_vars PROVE Rest'
  BY TypesNext DEF IInv, Rest
<1>1. CASE UNCHANGED vars
  <2>1. \A v \in Worker : RecordFits(v)' /\ ClientFits(v)' /\ Forward(v)
    BY <1>1, ClientOnly DEF vars, clientVars, workerVars, IInv
  <2>2. AllFit' /\ GeneratorFits'
    BY <1>1, <2>1, SameRequests, SameGenerator DEF vars, clientVars
  <2> QED BY <2>1, <2>2 DEF Rest, AllFit
<1> QED BY <1>1, ClientgInv, HealthInv, SpawnerInv, WorkerInv DEF Next

(* A worker at work has a client that clients_store knows of, whatever is   *)
(* late, lost or done twice (clients.py:104-121, spawner.py:258-327).       *)
THEOREM StoredClients == Spec => []WorkingClientIsStored
<1>1. IInv => WorkingClientIsStored
  BY DEF IInv, ClientFits, WorkingClientIsStored
<1> QED BY <1>1, IInvInit, IInvNext, PTL DEF Spec

(* As long as it is on record, the client stays registered with the API     *)
(* manager, in spite of the clean-up of the health agent                    *)
(* (health.py:125-153).                                                     *)
THEOREM RegisteredClients == Spec => []WorkingClientIsRegistered
<1>1. IInv => WorkingClientIsRegistered
  BY DEF IInv, ClientFits, WorkingClientIsRegistered
<1> QED BY <1>1, IInvInit, IInvNext, PTL DEF Spec

(* What a spawner takes for a grant is one: no late answer to an attempt    *)
(* that was given up stands in for it (channels.py:50-58).                  *)
THEOREM GenuineGrants == Spec => []GrantIsGenuine
<1>1. IInv => GrantIsGenuine
  BY DEF IInv, ClientFits, GrantIsGenuine
<1> QED BY <1>1, IInvInit, IInvNext, PTL DEF Spec
=============================================================================
