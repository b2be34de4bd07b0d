-------------------------- MODULE ExecutionsProofs --------------------------
(* Proofs about executions, for every number of workers, callers and        *)
(* executions, every budget of requests and every set of failures: the      *)
(* types, one container per worker, one announcement per execution, COMPLETE *)
(* is final, and the abstract life of a message.                            *)
EXTENDS Executions, TLAPS

(* The main thread has taken a message and not yet acknowledged it, has     *)
(* acknowledged it and not yet announced the execution, has a container of  *)
(* the execution that may run, or may have left one behind.                 *)
TakenPcs == {"got", "assign", "enter", "create", "started", "loop", "check",
             "stop", "after", "ack"}
DonePcs  == {"status", "publish"}
RunPcs   == {"started", "loop", "check", "stop"}
LeftPcs  == {"after", "ack", "status", "publish", "logs", "top"}

WorkerFits(w) ==
    /\ w \in held => main[w] \in TakenPcs \cup {"error"}
    /\ main[w] \in TakenPcs \cup DonePcs \cup {"error", "limit", "logs"} => cur[w] \in Execution
    /\ main[w] \in TakenPcs /\ w \notin held => Closed(w)
    /\ w \in force => w \notin keep
    /\ main[w] = "off" => thread[w].pc = "off" /\ w \notin force

(* A container that runs is the one its worker supervises, or the worker    *)
(* takes no other message.                                                  *)
ContainerFits(w, x) ==
    <<w, x>> \in running =>
        \/ main[w] \in RunPcs /\ x = cur[w]
        \/ main[w] \in {"error", "ended", "exited"}
        \/ main[w] \in LeftPcs /\ w \notin keep

(* At most one container of w runs, and what ContainerFits says of it.      *)
OneOf(w) ==
    /\ \A x, y \in Execution : <<w, x>> \in running /\ <<w, y>> \in running => x = y
    /\ \A x \in Execution : ContainerFits(w, x)

(* The message of x has not been put yet.                                   *)
Fresh(x) ==
    \/ doc[x].status = "NULL"
    \/ \E c \in Caller : caller[c].pc = "put" /\ caller[c].x = x

(* The worker answers for the completion of its execution.                  *)
Busy(w) == w \in held \/ main[w] \in DonePcs

CallerFits(c) ==
    caller[c].pc = "put" =>
        /\ caller[c].x \in Execution
        /\ doc[caller[c].x].status # "NULL"
        /\ \A d \in Caller : caller[d].pc = "put" /\ caller[d].x = caller[c].x => d = c

FreshFits(x) ==
    Fresh(x) =>
        /\ x \notin inbox
        /\ published[x] = 0
        /\ doc[x].status # "COMPLETE"
        /\ \A w \in Worker : cur[w] # x

WaitingFits(x) == x \in inbox => published[x] = 0 /\ doc[x].status # "COMPLETE"

BusyFits(w) ==
    Busy(w) =>
        /\ cur[w] \notin inbox
        /\ published[cur[w]] = 0
        /\ main[w] # "publish" => doc[cur[w]].status # "COMPLETE"
        /\ \A v \in Worker : Busy(v) /\ cur[v] = cur[w] => v = w

WorkersFit    == \A w \in Worker : WorkerFits(w)
ContainersFit == \A w \in Worker : OneOf(w)
MessagesFit   ==
    /\ \A c \in Caller : CallerFits(c)
    /\ \A x \in Execution : FreshFits(x) /\ WaitingFits(x)
    /\ \A w \in Worker : BusyFits(w)
    /\ AnnouncedOnce

IInv == TypeOK /\ WorkersFit /\ ContainersFit /\ MessagesFit

-----------------------------------------------------------------------------
(* Types.                                                                   *)

Messages == StopMsgs \cup {"force_quit"}

LEMMA SentType ==
    ASSUME TypeOK, NEW w, NEW m \in Messages
    PROVE  Sent(w, m) \in [Worker -> Seq(Messages)]
  BY DEF Sent, TypeOK, Messages

LEMMA UseType ==
    ASSUME TypeOK, NEW k \in RequestKinds, Use(k)
    PROVE  used' \in [RequestKinds -> Nat]
  BY DEF Use, TypeOK

LEMMA CallerTypes ==
    ASSUME TypeOK, NEW c \in Caller, CallerFits(c), CallerStep(c)
    PROVE  TypeOK'
<1> USE DEF docVars, mainVars, threadVars, Becomes
<1>0. /\ caller[c] \in CallerRecord /\ IdleCaller \in CallerRecord
      /\ [caller EXCEPT ![c] = IdleCaller] \in [Caller -> CallerRecord]
      /\ \A pc \in CallerPcs : [caller[c] EXCEPT !.pc = pc] \in CallerRecord
  <2>1. caller \in [Caller -> CallerRecord] /\ caller[c] \in CallerRecord
    BY DEF TypeOK
  <2>2. IdleCaller \in CallerRecord
    BY DEF CallerRecord, IdleCaller, CallerPcs
  <2>3. \A pc \in CallerPcs : [caller[c] EXCEPT !.pc = pc] \in CallerRecord
    BY <2>1 DEF CallerRecord
  <2>4. [caller EXCEPT ![c] = IdleCaller] \in [Caller -> CallerRecord]
    BY <2>1, <2>2
  <2> QED BY <2>1, <2>2, <2>3, <2>4
<1>1. CASE AddExecution(c)
  <2>1. PICK x \in Execution, sync \in BOOLEAN :
          /\ doc' = [doc EXCEPT ![x].status = "SUBMITTED"]
          /\ caller' = [caller EXCEPT ![c] = [IdleCaller EXCEPT !.pc = "put", !.x = x, !.sync = sync]]
          /\ IF sync THEN Use("sync") ELSE UNCHANGED used
    BY <1>1 DEF AddExecution
  <2>2. used' \in [RequestKinds -> Nat]
    BY <2>1, UseType DEF TypeOK, RequestKinds
  <2>3. [IdleCaller EXCEPT !.pc = "put", !.x = x, !.sync = sync] \in CallerRecord
    BY DEF IdleCaller, CallerRecord, CallerPcs
  <2>4. caller' \in [Caller -> CallerRecord]
    BY <2>1, <2>3 DEF TypeOK
  <2>5. doc' \in [Execution -> [status : {"NULL", "SUBMITTED", "RUNNING", "COMPLETE"},
                                worker : Worker \cup {NoWorker}]]
    <3>1. doc[x] \in [status : {"NULL", "SUBMITTED", "RUNNING", "COMPLETE"},
                     worker : Worker \cup {NoWorker}]
      BY DEF TypeOK
    <3>2. [doc[x] EXCEPT !.status = "SUBMITTED"]
             \in [status : {"NULL", "SUBMITTED", "RUNNING", "COMPLETE"},
                 worker : Worker \cup {NoWorker}]
      BY <3>1
    <3>3. doc' = [doc EXCEPT ![x] = [doc[x] EXCEPT !.status = "SUBMITTED"]]
      BY <2>1
    <3> QED BY <3>2, <3>3 DEF TypeOK
  <2> QED BY <1>1, <2>2, <2>4, <2>5 DEF AddExecution, TypeOK
<1>2. CASE PutMessage(c)
  <2>1. caller[c].x \in Execution
    BY <1>2 DEF PutMessage, CallerFits
  <2>2. caller' \in [Caller -> CallerRecord]
    BY <1>0, <1>2 DEF PutMessage, TypeOK, CallerPcs
  <2> QED BY <1>2, <2>1, <2>2 DEF PutMessage, TypeOK
<1>3. CASE PollResults(c)
  BY <1>0, <1>3 DEF PollResults, TypeOK
<1>4. CASE PollStatus(c)
  BY <1>0, <1>4 DEF PollStatus, TypeOK, CallerPcs
<1>5. CASE Reply(c)
  BY <1>0, <1>5 DEF Reply, TypeOK
<1>6. CASE GetResult(c)
  BY <1>6 DEF GetResult, TypeOK
<1>7. CASE ReadForHalt(c)
  <2>1. PICK x \in Execution :
          caller' = [caller EXCEPT ![c] = [IdleCaller EXCEPT !.pc = "halt", !.x = x, !.w = doc[x].worker]]
    BY <1>7 DEF ReadForHalt
  <2>2. doc[x].worker \in Worker \cup {NoWorker}
    BY DEF TypeOK
  <2>3. [IdleCaller EXCEPT !.pc = "halt", !.x = x, !.w = doc[x].worker] \in CallerRecord
    BY <2>2 DEF IdleCaller, CallerRecord, CallerPcs
  <2>4. caller' \in [Caller -> CallerRecord]
    BY <2>1, <2>3 DEF TypeOK
  <2>5. used' \in [RequestKinds -> Nat]
    BY <1>7, UseType DEF ReadForHalt, RequestKinds
  <2> QED BY <1>7, <2>4, <2>5 DEF ReadForHalt, TypeOK
<1>8. CASE PutForceQuit(c)
  <2>1. wch' \in [Worker -> Seq(Messages)]
    BY <1>8, SentType DEF PutForceQuit, Messages
  <2> QED BY <1>0, <1>8, <2>1 DEF PutForceQuit, TypeOK, Messages
<1>9. CASE PurgeInbox(c)
  <2>1. used' \in [RequestKinds -> Nat]
    BY <1>9, UseType DEF PurgeInbox, RequestKinds
  <2> QED BY <1>9, <2>1 DEF PurgeInbox, TypeOK
<1> QED BY <1>1, <1>2, <1>3, <1>4, <1>5, <1>6, <1>7, <1>8, <1>9 DEF CallerStep

\* A write of one field leaves a function of documents: Execution.assign_worker and
\* Execution.update_status change one field of one stored document.
LEMMA DocWritten ==
    ASSUME NEW E, NEW S, NEW W, NEW e \in E, NEW s \in S, NEW v \in W,
           NEW d \in [E -> [status : S, worker : W]]
    PROVE  /\ [d EXCEPT ![e].status = s] \in [E -> [status : S, worker : W]]
           /\ [d EXCEPT ![e].worker = v] \in [E -> [status : S, worker : W]]
<1>1. d[e] \in [status : S, worker : W]
  OBVIOUS
<1>2. [d[e] EXCEPT !.status = s] \in [status : S, worker : W]
  BY <1>1
<1>3. [d[e] EXCEPT !.worker = v] \in [status : S, worker : W]
  BY <1>1
<1> DEFINE Docs == [status : S, worker : W]
<1>4. d \in [E -> Docs]
  OBVIOUS
<1>5. \A r \in Docs : [d EXCEPT ![e] = r] \in [E -> Docs]
  <2> HIDE DEF Docs
  <2> QED BY <1>4
<1> QED BY <1>2, <1>3, <1>5

LEMMA MainTypes ==
    ASSUME TypeOK, NEW w \in Worker, WorkerFits(w), MainStep(w)
    PROVE  TypeOK'
<1> USE DEF docVars, threadVars, shared, Goto
<1>0. \A pc \in MainPcs : [main EXCEPT ![w] = pc] \in [Worker -> MainPcs]
  BY DEF TypeOK
<1>1. CASE Top(w)
  BY <1>0, <1>1 DEF Top, TypeOK, MainPcs
<1>2. CASE Get(w)
  <2>1. main' \in [Worker -> MainPcs]
    BY <1>0, <1>2 DEF Get, MainPcs
  <2> QED BY <1>2, <2>1 DEF Get, TypeOK
<1>3. CASE Got(w) \/ PrepFails(w)
  <2>1. cur[w] \in Execution
    BY <1>3 DEF Got, PrepFails, WorkerFits, TakenPcs
  <2>2. main' \in [Worker -> MainPcs]
    BY <1>0, <1>3 DEF Got, PrepFails, MainPcs
  <2> QED BY <1>3, <2>1, <2>2 DEF Got, PrepFails, Requeue, TypeOK
<1>4. CASE Assign(w)
  <2>1. cur[w] \in Execution
    BY <1>4 DEF Assign, WorkerFits, TakenPcs
  <2>2. doc' \in [Execution -> [status : {"NULL", "SUBMITTED", "RUNNING", "COMPLETE"},
                                worker : Worker \cup {NoWorker}]]
    <3>1. doc' = [doc EXCEPT ![cur[w]].worker = w]
      BY <1>4 DEF Assign
    <3> QED BY <2>1, <3>1, DocWritten DEF TypeOK
  <2> QED BY <1>0, <1>4, <2>2 DEF Assign, TypeOK, MainPcs
<1>5. CASE Enter(w) \/ AfterLoop(w)
  <2>1. main' \in [Worker -> MainPcs]
    BY <1>0, <1>5 DEF Enter, AfterLoop, MainPcs
  <2> QED BY <1>5, <2>1 DEF Enter, AfterLoop, TypeOK
<1>6. CASE StartFails(w)
  <2>1. cur[w] \in Execution
    BY <1>6 DEF StartFails, WorkerFits, TakenPcs
  <2>2. main' \in [Worker -> MainPcs]
    BY <1>0, <1>6 DEF StartFails, MainPcs
  <2>3. errors' \in [Worker -> Nat]
    <3>1. errors[w] + 1 \in Nat
      BY DEF TypeOK
    <3>2. errors' \in {errors, [errors EXCEPT ![w] = errors[w] + 1]}
      BY <1>6 DEF StartFails
    <3> QED BY <3>1, <3>2 DEF TypeOK
  <2> QED BY <1>6, <2>1, <2>2, <2>3 DEF StartFails, Requeue, TypeOK
<1>7. CASE CreateFails(w) \/ LoopHead(w) \/ CheckContainer(w)
  <2>1. main' \in [Worker -> MainPcs]
    BY <1>0, <1>7 DEF CreateFails, LoopHead, CheckContainer, MainPcs
  <2> QED BY <1>7, <2>1 DEF CreateFails, LoopHead, CheckContainer, TypeOK
<1>8. CASE StartContainer(w)
  <2>1. cur[w] \in Execution
    BY <1>8 DEF StartContainer, WorkerFits, TakenPcs
  <2> QED BY <1>0, <1>8, <2>1 DEF StartContainer, TypeOK, MainPcs
<1>9. CASE MarkRunning(w)
  <2>1. cur[w] \in Execution
    BY <1>9 DEF MarkRunning, WorkerFits, TakenPcs
  <2>2. doc' \in [Execution -> [status : {"NULL", "SUBMITTED", "RUNNING", "COMPLETE"},
                                worker : Worker \cup {NoWorker}]]
    <3>1. doc' = [doc EXCEPT ![cur[w]].status = "RUNNING"]
      BY <1>9 DEF MarkRunning
    <3> QED BY <2>1, <3>1, DocWritten DEF TypeOK
  <2> QED BY <1>0, <1>9, <2>2 DEF MarkRunning, TypeOK, MainPcs
<1>10. CASE StopContainer(w)
  <2>1. main' \in [Worker -> MainPcs]
    BY <1>0, <1>10 DEF StopContainer, MainPcs
  <2>2. running' \subseteq Worker \X Execution
    BY <1>10 DEF StopContainer, TypeOK
  <2> QED BY <1>10, <2>1, <2>2 DEF StopContainer, TypeOK
<1>11. CASE Ack(w)
  <2>1. main' \in [Worker -> MainPcs]
    BY <1>0, <1>11 DEF Ack, MainPcs
  <2> QED BY <1>11, <2>1 DEF Ack, TypeOK
<1>12. CASE MarkComplete(w)
  <2>1. cur[w] \in Execution
    BY <1>12 DEF MarkComplete, WorkerFits, DonePcs
  <2>2. doc' \in [Execution -> [status : {"NULL", "SUBMITTED", "RUNNING", "COMPLETE"},
                                worker : Worker \cup {NoWorker}]]
    <3>1. doc' = [doc EXCEPT ![cur[w]].status = "COMPLETE"]
      BY <1>12 DEF MarkComplete
    <3> QED BY <2>1, <3>1, DocWritten DEF TypeOK
  <2> QED BY <1>0, <1>12, <2>2 DEF MarkComplete, TypeOK, MainPcs
<1>13. CASE Publish(w)
  <2>1. published' \in [Execution -> Nat]
    <3>1. published[cur[w]] + 1 \in Nat
      BY <1>13 DEF Publish, WorkerFits, DonePcs, TypeOK
    <3> QED BY <1>13, <3>1 DEF Publish, TypeOK
  <2> QED BY <1>0, <1>13, <2>1 DEF Publish, TypeOK, MainPcs
<1>14. CASE Finish(w)
  BY <1>0, <1>14 DEF Finish, TypeOK, MainPcs
<1>15. CASE GiveUp(w)
  <2>1. \A v \in Worker : Sent(v, "stop-no-delete")[v] \in Seq(Messages)
    BY SentType DEF Messages, StopMsgs
  <2>2. [v \in Worker |-> Sent(v, "stop-no-delete")[v]] \in [Worker -> Seq(Messages)]
    BY <2>1
  <2>3. wch' \in [Worker -> Seq(Messages)]
    BY <1>15, <2>2 DEF GiveUp, TypeOK, Messages
  <2> QED BY <1>0, <1>15, <2>3 DEF GiveUp, TypeOK, MainPcs, Messages
<1> QED BY <1>1, <1>2, <1>3, <1>4, <1>5, <1>6, <1>7, <1>8, <1>9, <1>10, <1>11,
           <1>12, <1>13, <1>14, <1>15 DEF MainStep

(* The process ends, by itself or not.                                      *)
LEMMA EndsTypes ==
    ASSUME TypeOK, NEW w \in Worker, WorkerFits(w), Ends(w), used' \in [RequestKinds -> Nat]
    PROVE  TypeOK'
<1>1. inbox' \subseteq Execution /\ held' \subseteq Worker
  BY DEF Ends, Requeue, WorkerFits, TypeOK
<1>2. main' \in [Worker -> MainPcs]
  BY DEF Ends, TypeOK, MainPcs
<1>3. thread' \in [Worker -> [pc : ThreadPcs, msg : StopMsgs]]
  BY DEF Ends, TypeOK, ThreadPcs, StopMsgs
<1>4. wch' \in [Worker -> Seq(Messages)]
  BY DEF Ends, TypeOK, Messages
<1> QED BY <1>1, <1>2, <1>3, <1>4 DEF Ends, TypeOK, docVars, Messages

LEMMA OtherTypes ==
    ASSUME TypeOK, NEW w \in Worker, WorkerFits(w),
           ThreadStep(w) \/ ForwardResult(w) \/ Start(w) \/ SendStop(w) \/ KillProcess(w)
    PROVE  TypeOK'
<1> USE DEF docVars, mainVars
<1>0. /\ wch \in [Worker -> Seq(Messages)]
      /\ wch[w] # <<>> => Tail(wch[w]) \in Seq(Messages)
  BY DEF TypeOK, Messages
<1>1. CASE TakeForceQuit(w)
  BY <1>0, <1>1 DEF TakeForceQuit, TypeOK, Messages
<1>2. CASE TakeStop(w)
  <2>1. thread' \in [Worker -> [pc : ThreadPcs, msg : StopMsgs]]
    BY <1>2 DEF TakeStop, TypeOK, ThreadPcs
  <2>2. wch' \in [Worker -> Seq(Messages)]
    BY <1>0, <1>2 DEF TakeStop
  <2>3. force' \subseteq Worker /\ keep' \subseteq Worker
    BY <1>2 DEF TakeStop, TypeOK
  <2> QED BY <1>2, <2>1, <2>2, <2>3 DEF TakeStop, TypeOK, Messages
<1>3. CASE CloseChannels(w)
  <2>1. thread' \in [Worker -> [pc : ThreadPcs, msg : StopMsgs]]
    BY <1>3 DEF CloseChannels, TypeOK, ThreadPcs
  <2>2. inbox' \subseteq Execution /\ held' \subseteq Worker
    BY <1>3 DEF CloseChannels, Requeue, WorkerFits, TypeOK
  <2>3. wch' \in [Worker -> Seq(Messages)]
    BY <1>0, <1>3 DEF CloseChannels
  <2> QED BY <1>3, <2>1, <2>2, <2>3 DEF CloseChannels, TypeOK, Messages
<1>4. CASE ExitProcess(w)
  BY <1>4, EndsTypes DEF ExitProcess, TypeOK
<1>5. CASE KillProcess(w)
  BY <1>5, EndsTypes, UseType DEF KillProcess, RequestKinds
<1>6. CASE ForwardResult(w)
  <2>1. used' \in [RequestKinds -> Nat] /\ cur[w] \in Execution
    BY <1>6, UseType DEF ForwardResult, RequestKinds, WorkerFits, TakenPcs
  <2> QED BY <1>6, <2>1 DEF ForwardResult, TypeOK, threadVars
<1>7. CASE Start(w)
  <2>1. main' \in [Worker -> MainPcs]
    BY <1>7 DEF Start, Goto, TypeOK, MainPcs
  <2>2. thread' \in [Worker -> [pc : ThreadPcs, msg : StopMsgs]]
    BY <1>7 DEF Start, TypeOK, ThreadPcs
  <2> QED BY <1>7, <2>1, <2>2 DEF Start, TypeOK
<1>8. CASE SendStop(w)
  <2>1. wch' \in [Worker -> Seq(Messages)]
    BY <1>8, SentType DEF SendStop, Messages
  <2>2. used' \in [RequestKinds -> Nat]
    BY <1>8, UseType DEF SendStop, RequestKinds
  <2> QED BY <1>8, <2>1, <2>2 DEF SendStop, TypeOK, Messages
<1> QED BY <1>1, <1>2, <1>3, <1>4, <1>5, <1>6, <1>7, <1>8 DEF ThreadStep

-----------------------------------------------------------------------------
(* The worker and its containers: what the step of one worker leaves alone. *)

WorkerStep(w) == MainStep(w) \/ ThreadStep(w) \/ ForwardResult(w) \/ Start(w)
                   \/ SendStop(w) \/ KillProcess(w)

Same(v) ==
    /\ main'[v] = main[v] /\ cur'[v] = cur[v] /\ thread'[v] = thread[v]
    /\ v \in held' <=> v \in held
    /\ v \in keep' <=> v \in keep
    /\ v \in force' <=> v \in force

SameContainers(v) == \A x \in Execution : <<v, x>> \in running' <=> <<v, x>> \in running

LEMMA OthersStay ==
    ASSUME TypeOK, NEW w \in Worker, NEW v \in Worker, v # w, WorkerStep(w)
    PROVE  Same(v) /\ SameContainers(v)
<1> USE DEF docVars, mainVars, threadVars, shared, Goto, Same, SameContainers
<1>0. main \in [Worker -> MainPcs] /\ DOMAIN cur = Worker /\ DOMAIN thread = Worker
  BY DEF TypeOK
<1>1. CASE Top(w) \/ Get(w) \/ Assign(w) \/ Enter(w) \/ CreateFails(w) \/ MarkRunning(w)
            \/ LoopHead(w) \/ CheckContainer(w) \/ AfterLoop(w) \/ Ack(w)
            \/ MarkComplete(w) \/ Publish(w) \/ Finish(w) \/ GiveUp(w)
  BY <1>0, <1>1
     DEF Top, Get, Assign, Enter, CreateFails, MarkRunning, LoopHead, CheckContainer,
         AfterLoop, Ack, MarkComplete, Publish, Finish, GiveUp
<1>2. CASE Got(w) \/ PrepFails(w) \/ StartFails(w)
  BY <1>0, <1>2 DEF Got, PrepFails, StartFails, Requeue
<1>3. CASE StartContainer(w) \/ StopContainer(w)
  BY <1>0, <1>3 DEF StartContainer, StopContainer
<1>4. CASE TakeForceQuit(w) \/ TakeStop(w)
  BY <1>0, <1>4 DEF TakeForceQuit, TakeStop
<1>5. CASE CloseChannels(w) \/ ExitProcess(w) \/ KillProcess(w)
  BY <1>0, <1>5 DEF CloseChannels, ExitProcess, KillProcess, Ends, Requeue
<1>6. CASE ForwardResult(w) \/ Start(w) \/ SendStop(w)
  BY <1>0, <1>6 DEF ForwardResult, Start, SendStop
<1> QED BY <1>1, <1>2, <1>3, <1>4, <1>5, <1>6 DEF WorkerStep, MainStep, ThreadStep

LEMMA SameFits ==
    ASSUME NEW v \in Worker, WorkerFits(v), Same(v)
    PROVE  WorkerFits(v)'
  BY DEF WorkerFits, Same, Closed

LEMMA OwnFits ==
    ASSUME TypeOK, NEW w \in Worker, WorkerFits(w), WorkerStep(w)
    PROVE  WorkerFits(w)'
<1> USE DEF docVars, mainVars, threadVars, shared, Goto, WorkerFits, Closed,
            TakenPcs, DonePcs
<1>0. /\ main \in [Worker -> MainPcs] /\ cur \in [Worker -> Execution \cup {NoExecution}]
      /\ thread \in [Worker -> [pc : ThreadPcs, msg : StopMsgs]]
      /\ inbox \subseteq Execution
  BY DEF TypeOK
<1>1. CASE Top(w) \/ Get(w) \/ Assign(w) \/ Enter(w) \/ CreateFails(w) \/ MarkRunning(w)
  BY <1>0, <1>1 DEF Top, Get, Assign, Enter, CreateFails, MarkRunning
<1>2. CASE LoopHead(w) \/ CheckContainer(w) \/ AfterLoop(w) \/ Ack(w)
  BY <1>0, <1>2 DEF LoopHead, CheckContainer, AfterLoop, Ack
<1>3. CASE MarkComplete(w) \/ Publish(w) \/ Finish(w) \/ GiveUp(w)
  BY <1>0, <1>3 DEF MarkComplete, Publish, Finish, GiveUp
<1>4. CASE Got(w) \/ PrepFails(w) \/ StartFails(w)
  BY <1>0, <1>4 DEF Got, PrepFails, StartFails, Requeue
<1>5. CASE StartContainer(w) \/ StopContainer(w)
  BY <1>0, <1>5 DEF StartContainer, StopContainer
<1>6. CASE TakeForceQuit(w)
  BY <1>0, <1>6 DEF TakeForceQuit
<1>7. CASE TakeStop(w)
  BY <1>0, <1>7 DEF TakeStop
<1>8. CASE CloseChannels(w)
  <2>1. thread'[w] = [pc |-> "exit", msg |-> thread[w].msg]
    BY <1>0, <1>8 DEF CloseChannels
  <2>2. thread[w].pc # "exit"
    BY <1>8 DEF CloseChannels
  <2> QED BY <1>0, <1>8, <2>1, <2>2 DEF CloseChannels, Requeue
<1>9. CASE ExitProcess(w) \/ KillProcess(w)
  BY <1>0, <1>9 DEF ExitProcess, KillProcess, Ends, Requeue
<1>10. CASE ForwardResult(w) \/ Start(w) \/ SendStop(w)
  BY <1>0, <1>10 DEF ForwardResult, Start, SendStop
<1> QED BY <1>1, <1>2, <1>3, <1>4, <1>5, <1>6, <1>7, <1>8, <1>9, <1>10
        DEF WorkerStep, MainStep, ThreadStep

LEMMA SameContainer ==
    ASSUME NEW v \in Worker, OneOf(v), Same(v), SameContainers(v)
    PROVE  OneOf(v)'
  BY DEF OneOf, ContainerFits, Same, SameContainers

LEMMA OwnContainer ==
    ASSUME TypeOK, NEW w \in Worker, WorkerFits(w), OneOf(w), WorkerStep(w)
    PROVE  OneOf(w)'
<1> USE DEF docVars, mainVars, threadVars, shared, Goto, OneOf, ContainerFits,
            RunPcs, LeftPcs
<1>0. /\ main \in [Worker -> MainPcs] /\ DOMAIN cur = Worker
      /\ w \in force => w \notin keep
  BY DEF TypeOK, WorkerFits
<1>1. CASE Top(w) \/ Get(w) \/ Assign(w) \/ Enter(w) \/ CreateFails(w) \/ MarkRunning(w)
  BY <1>0, <1>1 DEF Top, Get, Assign, Enter, CreateFails, MarkRunning
<1>2. CASE LoopHead(w) \/ CheckContainer(w)
  BY <1>0, <1>2 DEF LoopHead, CheckContainer
<1>3. CASE AfterLoop(w) \/ Ack(w) \/ MarkComplete(w) \/ Publish(w) \/ Finish(w) \/ GiveUp(w)
  BY <1>0, <1>3 DEF AfterLoop, Ack, MarkComplete, Publish, Finish, GiveUp
<1>4. CASE Got(w) \/ PrepFails(w) \/ StartFails(w)
  BY <1>0, <1>4 DEF Got, PrepFails, StartFails, Requeue
<1>5. CASE StartContainer(w)
  <2>1. \A x \in Execution : <<w, x>> \notin running
    BY <1>5 DEF StartContainer
  <2>2. \A x \in Execution : <<w, x>> \in running' => x = cur[w]
    BY <1>5, <2>1 DEF StartContainer
  <2> QED BY <1>0, <1>5, <2>2 DEF StartContainer
<1>6. CASE StopContainer(w)
  <2>1. \A x \in Execution : <<w, x>> \in running => x = cur[w]
    BY <1>6 DEF StopContainer
  <2> QED BY <1>0, <1>6, <2>1 DEF StopContainer
<1>7. CASE TakeForceQuit(w) \/ TakeStop(w)
  BY <1>0, <1>7 DEF TakeForceQuit, TakeStop
<1>8. CASE CloseChannels(w) \/ ForwardResult(w) \/ Start(w) \/ SendStop(w)
  BY <1>0, <1>8 DEF CloseChannels, ForwardResult, Start, SendStop, Requeue
<1>9. CASE ExitProcess(w) \/ KillProcess(w)
  BY <1>0, <1>9 DEF ExitProcess, KillProcess, Ends
<1> QED BY <1>1, <1>2, <1>3, <1>4, <1>5, <1>6, <1>7, <1>8, <1>9
        DEF WorkerStep, MainStep, ThreadStep

-----------------------------------------------------------------------------
(* Where the message of an execution is.                                    *)

(* A step that creates, puts, takes, returns and completes nothing.         *)
Calm ==
    /\ \A x \in Execution : doc'[x].status = doc[x].status
    /\ published' = published
    /\ inbox' \subseteq inbox
    /\ \A c \in Caller : caller'[c].pc = "put" =>
                           caller[c].pc = "put" /\ caller'[c].x = caller[c].x
    /\ \A v \in Worker :
          /\ cur'[v] \in {cur[v], NoExecution}
          /\ Busy(v)' => /\ Busy(v) /\ cur'[v] = cur[v] /\ cur[v] \in Execution
                         /\ main[v] = "publish" => main'[v] = "publish"

LEMMA CalmFits == ASSUME MessagesFit, Calm PROVE MessagesFit'
<1> USE DEF Calm
<1>1. ASSUME NEW x \in Execution PROVE Fresh(x)' => Fresh(x)
  BY DEF Fresh
<1>2. ASSUME NEW c \in Caller PROVE CallerFits(c)'
  BY DEF MessagesFit, CallerFits
<1>3. ASSUME NEW x \in Execution PROVE FreshFits(x)'
  BY <1>1, ExecutionsAssumption DEF MessagesFit, FreshFits
<1>4. ASSUME NEW x \in Execution PROVE WaitingFits(x)'
  BY DEF MessagesFit, WaitingFits
<1>5. ASSUME NEW w \in Worker PROVE BusyFits(w)'
  BY DEF MessagesFit, BusyFits
<1>6. AnnouncedOnce'
  BY DEF MessagesFit, AnnouncedOnce
<1> QED BY <1>2, <1>3, <1>4, <1>5, <1>6 DEF MessagesFit

(* Everything but the inbox and the worker w stays.                         *)
Keeping(w) ==
    /\ UNCHANGED <<doc, published, caller>>
    /\ \A v \in Worker \ {w} : Same(v)

(* The message that w holds goes back to the inbox.                         *)
LEMMA ReturnFits ==
    ASSUME TypeOK, MessagesFit, NEW w \in Worker, WorkerFits(w), Keeping(w), w \in held,
           inbox' = inbox \cup {cur[w]}, ~Busy(w)', cur'[w] \in {cur[w], NoExecution}
    PROVE  MessagesFit'
<1> USE DEF Keeping
<1>0. /\ Busy(w) /\ cur[w] \in Execution /\ main[w] # "publish"
      /\ \A v \in Worker : Busy(v)' => v # w /\ Busy(v) /\ cur'[v] = cur[v] /\ main'[v] = main[v]
  BY DEF Busy, WorkerFits, TakenPcs, DonePcs, Same
<1>1. ASSUME NEW x \in Execution PROVE Fresh(x)' <=> Fresh(x)
  BY DEF Fresh
<1>2. ASSUME NEW c \in Caller PROVE CallerFits(c)'
  BY DEF MessagesFit, CallerFits
<1>3. ASSUME NEW x \in Execution PROVE FreshFits(x)'
  BY <1>0, <1>1, ExecutionsAssumption DEF MessagesFit, FreshFits, Same
<1>4. ASSUME NEW x \in Execution PROVE WaitingFits(x)'
  BY <1>0 DEF MessagesFit, WaitingFits, BusyFits
<1>5. ASSUME NEW v \in Worker PROVE BusyFits(v)'
  BY <1>0 DEF MessagesFit, BusyFits
<1>6. AnnouncedOnce'
  BY DEF MessagesFit, AnnouncedOnce
<1> QED BY <1>2, <1>3, <1>4, <1>5, <1>6 DEF MessagesFit

LEMMA CallerMessages ==
    ASSUME TypeOK, WorkersFit, MessagesFit, NEW c \in Caller, CallerStep(c)
    PROVE  MessagesFit'
<1> USE DEF docVars, mainVars, threadVars, Becomes
<1>0. /\ caller \in [Caller -> CallerRecord] /\ IdleCaller.pc = "idle"
      /\ \A v \in Worker : Busy(v) => cur[v] \in Execution
  BY DEF TypeOK, IdleCaller, WorkersFit, WorkerFits, Busy, TakenPcs, DonePcs
<1>1. CASE AddExecution(c)
  <2>1. PICK x \in Execution, sync \in BOOLEAN :
          /\ doc[x].status = "NULL"
          /\ doc' = [doc EXCEPT ![x].status = "SUBMITTED"]
          /\ caller' = [caller EXCEPT ![c] = [IdleCaller EXCEPT !.pc = "put", !.x = x, !.sync = sync]]
    BY <1>1 DEF AddExecution
  <2>2. /\ UNCHANGED <<published, inbox, main, cur, held>>
        /\ caller[c].pc = "idle"
    BY <1>1 DEF AddExecution
  <2>3. \A y \in Execution : doc'[y].status = IF y = x THEN "SUBMITTED" ELSE doc[y].status
    BY <2>1 DEF TypeOK
  <2>4. /\ caller'[c].pc = "put" /\ caller'[c].x = x
        /\ \A d \in Caller \ {c} : caller'[d] = caller[d]
    BY <1>0, <2>1 DEF CallerRecord, IdleCaller
  <2>5. \A y \in Execution : Fresh(y)' => Fresh(y)
    BY <2>1, <2>3, <2>4 DEF Fresh
  <2>6. ASSUME NEW d \in Caller PROVE CallerFits(d)'
    BY <2>1, <2>2, <2>3, <2>4 DEF MessagesFit, CallerFits
  <2>7. ASSUME NEW y \in Execution PROVE FreshFits(y)' /\ WaitingFits(y)'
    BY <2>2, <2>3, <2>5 DEF MessagesFit, FreshFits, WaitingFits
  <2>8. ASSUME NEW v \in Worker PROVE BusyFits(v)'
    BY <1>0, <2>2, <2>3 DEF MessagesFit, BusyFits, Busy
  <2> QED BY <2>2, <2>6, <2>7, <2>8 DEF MessagesFit, AnnouncedOnce
<1>2. CASE PutMessage(c)
  <2>0. PICK x \in Execution : x = caller[c].x
    BY <1>2 DEF PutMessage, MessagesFit, CallerFits
  <2>1. /\ UNCHANGED <<doc, published, main, cur, held>>
        /\ caller[c].pc = "put" /\ inbox' = inbox \cup {x}
    BY <1>2, <2>0 DEF PutMessage
  <2>2. /\ caller'[c].pc # "put"
        /\ \A d \in Caller \ {c} : caller'[d] = caller[d]
    BY <1>0, <1>2 DEF PutMessage, CallerRecord
  <2>3. /\ x \in Execution /\ doc[x].status # "NULL" /\ Fresh(x)
        /\ \A d \in Caller : caller[d].pc = "put" /\ caller[d].x = x => d = c
    BY <2>0, <2>1 DEF MessagesFit, CallerFits, Fresh
  <2>4. ~Fresh(x)'
    BY <2>1, <2>2, <2>3 DEF Fresh
  <2>5. \A y \in Execution : Fresh(y)' => Fresh(y)
    BY <2>1, <2>2 DEF Fresh
  <2>6. ASSUME NEW d \in Caller PROVE CallerFits(d)'
    BY <2>1, <2>2 DEF MessagesFit, CallerFits
  <2>7. ASSUME NEW y \in Execution PROVE FreshFits(y)' /\ WaitingFits(y)'
    BY <2>1, <2>3, <2>4, <2>5 DEF MessagesFit, FreshFits, WaitingFits
  <2>8. ASSUME NEW v \in Worker PROVE BusyFits(v)'
    BY <2>1, <2>3 DEF MessagesFit, BusyFits, Busy, FreshFits
  <2> QED BY <2>1, <2>6, <2>7, <2>8 DEF MessagesFit, AnnouncedOnce
<1>3. CASE PollResults(c) \/ PollStatus(c) \/ Reply(c) \/ GetResult(c)
  <2>1. Calm
    BY <1>0, <1>3 DEF PollResults, PollStatus, Reply, GetResult, Calm, Busy, CallerRecord
  <2> QED BY <2>1, CalmFits
<1>4. CASE ReadForHalt(c) \/ PutForceQuit(c) \/ PurgeInbox(c)
  <2>1. caller'[c].pc # "put" /\ \A d \in Caller \ {c} : caller'[d] = caller[d]
    BY <1>0, <1>4 DEF ReadForHalt, PutForceQuit, PurgeInbox, IdleCaller, CallerRecord
  <2>2. UNCHANGED <<doc, published, main, cur, held>> /\ inbox' \subseteq inbox
    BY <1>4 DEF ReadForHalt, PutForceQuit, PurgeInbox
  <2>3. Calm
    BY <1>0, <2>1, <2>2 DEF Calm, Busy
  <2> QED BY <2>3, CalmFits
<1> QED BY <1>1, <1>2, <1>3, <1>4 DEF CallerStep

LEMMA MainMessages ==
    ASSUME TypeOK, WorkersFit, MessagesFit, NEW w \in Worker, MainStep(w)
    PROVE  MessagesFit'
<1> USE DEF docVars, threadVars, shared, Goto
<1>0. /\ main \in [Worker -> MainPcs] /\ DOMAIN cur = Worker
      /\ \A v \in Worker : Busy(v) => cur[v] \in Execution
      /\ WorkerFits(w)
  BY DEF TypeOK, WorkersFit, WorkerFits, Busy, TakenPcs, DonePcs
<1>1. ASSUME NEW v \in Worker, v # w PROVE Same(v)
  BY <1>1, OthersStay DEF WorkerStep
<1>2. CASE Top(w) \/ Enter(w) \/ CreateFails(w) \/ StartContainer(w) \/ LoopHead(w)
            \/ CheckContainer(w) \/ StopContainer(w) \/ AfterLoop(w) \/ Ack(w)
            \/ Finish(w) \/ GiveUp(w) \/ Assign(w)
  <2>1. \A x \in Execution : doc'[x].status = doc[x].status
    <3>1. CASE Assign(w)
      BY <3>1 DEF Assign, TypeOK
    <3>2. CASE ~Assign(w)
      BY <1>2, <3>2
         DEF Top, Enter, CreateFails, StartContainer, LoopHead, CheckContainer,
             StopContainer, AfterLoop, Ack, Finish, GiveUp
    <3> QED BY <3>1, <3>2
  <2>2. UNCHANGED <<published, inbox, caller>>
    BY <1>2 DEF Top, Enter, CreateFails, StartContainer, LoopHead, CheckContainer,
                StopContainer, AfterLoop, Ack, Finish, GiveUp, Assign
  <2>3. cur'[w] \in {cur[w], NoExecution}
    BY <1>0, <1>2 DEF Top, Enter, CreateFails, StartContainer, LoopHead, CheckContainer,
                StopContainer, AfterLoop, Ack, Finish, GiveUp, Assign
  <2>4. Busy(w)' => Busy(w) /\ cur'[w] = cur[w] /\ main[w] # "publish"
    BY <1>0, <1>2 DEF Top, Enter, CreateFails, StartContainer, LoopHead, CheckContainer,
                StopContainer, AfterLoop, Ack, Finish, GiveUp, Assign,
                Busy, DonePcs, WorkerFits, TakenPcs
  <2>5. Calm
    BY <1>0, <1>1, <2>1, <2>2, <2>3, <2>4 DEF Calm, Same, Busy
  <2> QED BY <2>5, CalmFits
<1>3. CASE Get(w)
  <2>1. PICK x \in inbox : inbox' = inbox \ {x} /\ cur' = [cur EXCEPT ![w] = x]
    BY <1>3 DEF Get
  <2>2. /\ UNCHANGED <<doc, published, caller>> /\ held' = held \cup {w}
        /\ x \in Execution /\ cur'[w] = x /\ main'[w] = "got"
    BY <1>0, <1>3, <2>1 DEF Get, TypeOK
  <2>3. ASSUME NEW y \in Execution PROVE Fresh(y)' <=> Fresh(y)
    BY <2>2 DEF Fresh
  <2>4. ASSUME NEW c \in Caller PROVE CallerFits(c)'
    BY <2>2 DEF MessagesFit, CallerFits
  <2>5. ASSUME NEW y \in Execution PROVE FreshFits(y)' /\ WaitingFits(y)'
    BY <1>1, <2>1, <2>2, <2>3 DEF MessagesFit, FreshFits, WaitingFits, Same
  <2>6. \A v \in Worker : v # w =>
            (Busy(v)' <=> Busy(v)) /\ cur'[v] = cur[v] /\ main'[v] = main[v]
    BY <1>1 DEF Busy, Same
  <2>7. ASSUME NEW v \in Worker PROVE BusyFits(v)'
    BY <2>1, <2>2, <2>6 DEF MessagesFit, BusyFits, WaitingFits
  <2> QED BY <2>2, <2>4, <2>5, <2>7 DEF MessagesFit, AnnouncedOnce
<1>4. CASE Got(w) \/ PrepFails(w) \/ StartFails(w)
  <2>1. /\ UNCHANGED <<doc, published, caller, cur>>
        /\ main'[w] \notin DonePcs /\ main[w] \notin DonePcs
    BY <1>0, <1>4 DEF Got, PrepFails, StartFails, DonePcs
  <2>2. CASE Got(w) /\ w \in keep
    <3>1. Calm
      BY <1>0, <1>1, <2>1, <2>2 DEF Got, Calm, Same, Busy, DonePcs
    <3> QED BY <3>1, CalmFits
  <2>3. CASE ~(Got(w) /\ w \in keep)
    <3>1. Requeue(w)
      BY <1>4, <2>3 DEF Got, PrepFails, StartFails
    <3>2. CASE w \in held
      BY <1>0, <1>1, <2>1, <3>1, <3>2, ReturnFits DEF Requeue, Keeping, Busy
    <3>3. CASE w \notin held
      <4>1. Calm
        BY <1>0, <1>1, <2>1, <3>1, <3>3 DEF Requeue, Calm, Same, Busy
      <4> QED BY <4>1, CalmFits
    <3> QED BY <3>2, <3>3
  <2> QED BY <2>2, <2>3
<1>5. CASE MarkRunning(w) \/ MarkComplete(w)
  <2> DEFINE x == cur[w]
  <2>1. /\ x \in Execution /\ UNCHANGED <<published, inbox, caller, cur, held>>
        /\ \A v \in Worker : Busy(v)' <=> Busy(v)
    BY <1>0, <1>1, <1>5 DEF MarkRunning, MarkComplete, WorkerFits, TakenPcs, DonePcs, Busy, Same
  <2>2. /\ \A y \in Execution \ {x} : doc'[y] = doc[y]
        /\ doc'[x].status # "NULL"
        /\ doc'[x].status = "COMPLETE" => MarkComplete(w)
    BY <1>5, <2>1 DEF MarkRunning, MarkComplete, TypeOK
  <2>3. ~Fresh(x)
    BY <2>1 DEF MessagesFit, FreshFits
  <2>4. ASSUME NEW y \in Execution PROVE Fresh(y)' => Fresh(y) /\ y # x
    BY <2>1, <2>2, <2>3 DEF Fresh
  <2>5. ASSUME NEW c \in Caller PROVE CallerFits(c)'
    BY <2>1, <2>2 DEF MessagesFit, CallerFits
  <2>6. ASSUME NEW y \in Execution PROVE FreshFits(y)'
    BY <2>1, <2>2, <2>4 DEF MessagesFit, FreshFits
  <2>7. MarkComplete(w) => Busy(w) /\ main'[w] = "publish"
    BY <1>0 DEF MarkComplete, Busy, DonePcs
  <2>8. ASSUME NEW y \in Execution PROVE WaitingFits(y)'
    BY <2>1, <2>2, <2>7 DEF MessagesFit, WaitingFits, BusyFits
  <2>9. ASSUME NEW v \in Worker PROVE BusyFits(v)'
    <3>1. CASE v = w
      BY <1>0, <1>5, <2>1, <2>2, <2>7, <3>1 DEF MessagesFit, BusyFits
    <3>2. CASE v # w
      BY <1>0, <1>1, <2>1, <2>2, <2>7, <3>2 DEF MessagesFit, BusyFits, Same
    <3> QED BY <3>1, <3>2
  <2> QED BY <2>1, <2>5, <2>6, <2>8, <2>9 DEF MessagesFit, AnnouncedOnce
<1>6. CASE Publish(w)
  <2> DEFINE x == cur[w]
  <2>1. /\ UNCHANGED <<doc, inbox, caller, cur, held>> /\ x \in Execution
        /\ Busy(w) /\ w \notin held /\ main'[w] = "logs"
    BY <1>0, <1>6 DEF Publish, Busy, WorkerFits, TakenPcs, DonePcs
  <2>2. /\ published'[x] = published[x] + 1
        /\ \A y \in Execution \ {x} : published'[y] = published[y]
    BY <1>6, <2>1 DEF Publish, TypeOK
  <2>3. published[x] = 0 /\ x \notin inbox /\ ~Fresh(x)
    BY <2>1 DEF MessagesFit, BusyFits, FreshFits
  <2>4. \A y \in Execution : Fresh(y)' <=> Fresh(y)
    BY <2>1 DEF Fresh
  <2>5. \A v \in Worker : Busy(v)' => Busy(v) /\ v # w /\ main'[v] = main[v]
    BY <1>1, <2>1 DEF Busy, DonePcs, Same
  <2>6. ASSUME NEW c \in Caller PROVE CallerFits(c)'
    BY <2>1 DEF MessagesFit, CallerFits
  <2>7. ASSUME NEW y \in Execution PROVE FreshFits(y)' /\ WaitingFits(y)'
    BY <2>1, <2>2, <2>3, <2>4 DEF MessagesFit, FreshFits, WaitingFits
  <2>8. ASSUME NEW v \in Worker PROVE BusyFits(v)'
    BY <1>0, <2>1, <2>2, <2>5 DEF MessagesFit, BusyFits
  <2>9. AnnouncedOnce'
    BY <2>2, <2>3 DEF MessagesFit, AnnouncedOnce
  <2> QED BY <2>6, <2>7, <2>8, <2>9 DEF MessagesFit
<1> QED BY <1>2, <1>3, <1>4, <1>5, <1>6 DEF MainStep

LEMMA OtherMessages ==
    ASSUME TypeOK, WorkersFit, MessagesFit, NEW w \in Worker,
           ThreadStep(w) \/ ForwardResult(w) \/ Start(w) \/ SendStop(w) \/ KillProcess(w)
    PROVE  MessagesFit'
<1> USE DEF docVars, mainVars, threadVars, Goto
<1>0. /\ main \in [Worker -> MainPcs] /\ DOMAIN cur = Worker
      /\ \A v \in Worker : Busy(v) => cur[v] \in Execution
      /\ WorkerFits(w)
  BY DEF TypeOK, WorkersFit, WorkerFits, Busy, TakenPcs, DonePcs
<1>1. ASSUME NEW v \in Worker, v # w PROVE Same(v)
  BY <1>1, OthersStay DEF WorkerStep
<1>2. CASE TakeForceQuit(w) \/ TakeStop(w) \/ ForwardResult(w) \/ Start(w) \/ SendStop(w)
  <2>1. Calm
    BY <1>0, <1>1, <1>2
       DEF TakeForceQuit, TakeStop, ForwardResult, Start, SendStop, Calm, Same, Busy,
           WorkerFits, DonePcs, TakenPcs
  <2> QED BY <2>1, CalmFits
<1>3. CASE CloseChannels(w)
  <2>1. UNCHANGED <<doc, published, caller, cur, main>>
    BY <1>3 DEF CloseChannels
  <2>2. CASE thread[w].msg = "stop" /\ w \in held
    <3>1. main[w] \notin DonePcs /\ Requeue(w)
      BY <1>0, <1>3, <2>2 DEF CloseChannels, WorkerFits, DonePcs, TakenPcs
    <3> QED BY <1>0, <1>1, <2>1, <2>2, <3>1, ReturnFits DEF Requeue, Keeping, Busy
  <2>3. CASE ~(thread[w].msg = "stop" /\ w \in held)
    <3>1. Calm
      BY <1>0, <1>1, <1>3, <2>1, <2>3 DEF CloseChannels, Requeue, Calm, Same, Busy
    <3> QED BY <3>1, CalmFits
  <2> QED BY <2>2, <2>3
<1>4. CASE ExitProcess(w) \/ KillProcess(w)
  <2>1. /\ UNCHANGED <<doc, published, caller>> /\ Requeue(w)
        /\ cur'[w] = NoExecution /\ main'[w] = "exited"
    BY <1>0, <1>4 DEF ExitProcess, KillProcess, Ends
  <2>2. ~Busy(w)'
    BY <2>1 DEF Requeue, Busy, DonePcs
  <2>3. CASE w \in held
    BY <1>0, <1>1, <2>1, <2>2, <2>3, ReturnFits DEF Requeue, Keeping
  <2>4. CASE w \notin held
    <3>1. Calm
      BY <1>0, <1>1, <2>1, <2>2, <2>4 DEF Requeue, Calm, Same, Busy
    <3> QED BY <3>1, CalmFits
  <2> QED BY <2>3, <2>4
<1> QED BY <1>2, <1>3, <1>4 DEF ThreadStep

-----------------------------------------------------------------------------
(* The inductive invariant.                                                 *)

LEMMA InitFits == Init => IInv
<1> SUFFICES ASSUME Init PROVE IInv
  OBVIOUS
<1>1. TypeOK
  <2>1. wch \in [Worker -> Seq(StopMsgs \cup {"force_quit"})]
    BY DEF Init
  <2>2. caller \in [Caller -> CallerRecord]
    BY DEF Init, IdleCaller, CallerRecord, CallerPcs
  <2> QED BY <2>1, <2>2 DEF Init, TypeOK, MainPcs, ThreadPcs, StopMsgs
<1>2. WorkersFit /\ ContainersFit
  BY DEF Init, WorkersFit, WorkerFits, ContainersFit, OneOf, ContainerFits, Closed, TakenPcs, DonePcs
<1>3. MessagesFit
  BY ExecutionsAssumption
  DEF Init, MessagesFit, CallerFits, FreshFits, WaitingFits, BusyFits, Busy,
      AnnouncedOnce, IdleCaller, DonePcs
<1> QED BY <1>1, <1>2, <1>3 DEF IInv

LEMMA CallerSteps == ASSUME IInv, NEW c \in Caller, CallerStep(c) PROVE IInv'
<1>1. UNCHANGED <<mainVars, thread, keep, force>>
  BY DEF CallerStep, AddExecution, PutMessage, PollResults, PollStatus, Reply, GetResult,
         ReadForHalt, PutForceQuit, PurgeInbox, threadVars
<1>2. TypeOK' /\ MessagesFit'
  BY CallerTypes, CallerMessages DEF IInv, MessagesFit
<1>3. WorkersFit' /\ ContainersFit'
  BY <1>1 DEF IInv, WorkersFit, WorkerFits, ContainersFit, OneOf, ContainerFits, Closed, mainVars
<1> QED BY <1>2, <1>3 DEF IInv

LEMMA WorkerSteps == ASSUME IInv, NEW w \in Worker, WorkerStep(w) PROVE IInv'
<1> USE DEF IInv
<1>1. TypeOK'
  BY MainTypes, OtherTypes DEF WorkerStep, WorkersFit
<1>2. MessagesFit'
  BY MainMessages, OtherMessages DEF WorkerStep
<1>3. ASSUME NEW v \in Worker PROVE WorkerFits(v)' /\ OneOf(v)'
  <2>1. WorkerFits(v) /\ OneOf(v)
    BY DEF WorkersFit, ContainersFit
  <2>2. CASE v = w
    BY <2>1, <2>2, OwnFits, OwnContainer
  <2>3. CASE v # w
    BY <2>1, <2>3, OthersStay, SameFits, SameContainer
  <2> QED BY <2>2, <2>3
<1> QED BY <1>1, <1>2, <1>3 DEF WorkersFit, ContainersFit

LEMMA ContainerStep == ASSUME IInv, ContainerEnds PROVE IInv'
<1> USE DEF IInv
<1>1. /\ UNCHANGED <<docVars, inbox, caller, used, main, cur, held, errors, thread, wch, keep, force>>
      /\ running' \subseteq running
  BY DEF ContainerEnds, threadVars
<1>2. TypeOK'
  BY <1>1 DEF TypeOK, docVars
<1>3. WorkersFit'
  BY <1>1 DEF WorkersFit, WorkerFits, Closed
<1>4. ContainersFit'
  BY <1>1 DEF ContainersFit, OneOf, ContainerFits
<1>5. MessagesFit'
  BY <1>1 DEF MessagesFit, CallerFits, FreshFits, Fresh, WaitingFits, BusyFits, Busy,
              AnnouncedOnce, docVars
<1> QED BY <1>2, <1>3, <1>4, <1>5

LEMMA StutterFits == ASSUME IInv, UNCHANGED vars PROVE IInv'
<1> USE DEF vars, docVars, mainVars, threadVars, IInv
<1>1. TypeOK'
  BY DEF TypeOK
<1>2. WorkersFit' /\ ContainersFit'
  BY DEF WorkersFit, WorkerFits, Closed, ContainersFit, OneOf, ContainerFits
<1>3. MessagesFit'
  BY DEF MessagesFit, CallerFits, FreshFits, Fresh, WaitingFits, BusyFits, Busy, AnnouncedOnce
<1> QED BY <1>1, <1>2, <1>3

LEMMA StepFits == IInv /\ [Next]_vars => IInv'
  BY CallerSteps, WorkerSteps, ContainerStep, StutterFits DEF Next, WorkerStep

LEMMA Inductive == Spec => []IInv
  BY InitFits, StepFits, PTL DEF Spec

(* Every variable of Executions keeps its type.                             *)
THEOREM TypeCorrect == Spec => []TypeOK
<1>1. IInv => TypeOK
  BY DEF IInv
<1> QED BY <1>1, Inductive, PTL

(* One actor container per worker: execute_actor() may leave a container    *)
(* behind, and then subscribe() takes no other message.                     *)
THEOREM OneContainerPerWorker == Spec => []OneContainer
<1>1. IInv => OneContainer
  <2> SUFFICES ASSUME IInv, NEW r1 \in running, NEW r2 \in running, r1[1] = r2[1]
               PROVE  r1 = r2
    BY DEF OneContainer
  <2>1. PICK w \in Worker, x \in Execution, y \in Execution : r1 = <<w, x>> /\ r2 = <<w, y>>
    BY DEF IInv, TypeOK
  <2> QED BY <2>1 DEF IInv, ContainersFit, OneOf
<1> QED BY <1>1, Inductive, PTL

(* finalize_execution() announces an execution once at most, however often  *)
(* its message is delivered.                                                *)
THEOREM Announcements == Spec => []AnnouncedOnce
<1>1. IInv => AnnouncedOnce
  BY DEF IInv, MessagesFit
<1> QED BY <1>1, Inductive, PTL

(* Only a worker whose connection a stop has closed takes COMPLETE back.    *)
LEMMA CompleteStays ==
    ASSUME IInv, Next, NEW x \in Execution, doc[x].status = "COMPLETE",
           doc'[x].status # "COMPLETE"
    PROVE  \E w \in Worker : cur[w] = x /\ Closed(w)
<1> USE DEF docVars, mainVars, threadVars, shared, Goto
<1>0. \A y \in Execution : doc[y] = [status |-> doc[y].status, worker |-> doc[y].worker]
  BY DEF IInv, TypeOK
<1>1. ASSUME NEW c \in Caller, CallerStep(c) PROVE FALSE
  <2>1. CASE AddExecution(c)
    BY <2>1 DEF AddExecution, IInv, TypeOK
  <2>2. CASE ~AddExecution(c)
    BY <1>1, <2>2 DEF CallerStep, PutMessage, PollResults, PollStatus, Reply, GetResult,
                      ReadForHalt, PutForceQuit, PurgeInbox
  <2> QED BY <2>1, <2>2
<1>2. ASSUME NEW w \in Worker, MainStep(w) PROVE cur[w] = x /\ Closed(w)
  <2>1. CASE Assign(w)
    BY <2>1 DEF Assign, IInv, TypeOK
  <2>2. CASE MarkComplete(w)
    BY <2>2 DEF MarkComplete, IInv, TypeOK
  <2>3. CASE MarkRunning(w)
    <3>1. cur[w] = x
      BY <2>3 DEF MarkRunning, IInv, TypeOK
    <3>2. w \notin held
      BY <2>3, <3>1 DEF MarkRunning, IInv, MessagesFit, BusyFits, Busy
    <3> QED BY <2>3, <3>1, <3>2 DEF MarkRunning, IInv, WorkersFit, WorkerFits, TakenPcs
  <2>4. CASE ~(Assign(w) \/ MarkComplete(w) \/ MarkRunning(w))
    BY <1>2, <2>4
       DEF MainStep, Top, Get, Got, PrepFails, Enter, StartFails, CreateFails,
           StartContainer, LoopHead, CheckContainer, StopContainer, AfterLoop, Ack,
           Publish, Finish, GiveUp
  <2> QED BY <2>1, <2>2, <2>3, <2>4
<1>3. ASSUME NEW w \in Worker,
             ThreadStep(w) \/ ForwardResult(w) \/ Start(w) \/ SendStop(w) \/ KillProcess(w)
      PROVE  FALSE
  BY <1>3 DEF ThreadStep, TakeForceQuit, TakeStop, CloseChannels, ExitProcess, KillProcess,
              Ends, ForwardResult, Start, SendStop
<1>4. ~ContainerEnds
  BY DEF ContainerEnds
<1> QED BY <1>1, <1>2, <1>3, <1>4 DEF Next

(* COMPLETE is final but for the late write of a worker that was cut off.   *)
THEOREM CompleteFinal == Spec => CompleteIsFinal
<1>1. IInv /\ [Next]_vars =>
        [\A x \in Execution :
            doc[x].status = "COMPLETE" /\ doc'[x].status # "COMPLETE" =>
                \E w \in Worker : cur[w] = x /\ Closed(w)]_vars
  BY CompleteStays
<1> QED BY <1>1, Inductive, PTL DEF Spec, CompleteIsFinal

-----------------------------------------------------------------------------
(* The abstract life of a message.                                          *)

InHand(x) == \E w \in held : cur[w] = x

Stays(x) ==
    /\ x \in inbox' <=> x \in inbox
    /\ InHand(x)' <=> InHand(x)
    /\ Fresh(x)' <=> Fresh(x)

PhaseOf(x) == IF x \in inbox THEN "waiting" ELSE IF InHand(x) THEN "taken"
              ELSE IF Fresh(x) THEN "new" ELSE "consumed"

LEMMA PhaseIs == phase = [x \in Execution |-> PhaseOf(x)]
  BY DEF phase, PhaseOf, HeldBy, InHand, Unsent, Fresh

LEMMA PhaseWillBe == phase' = [x \in Execution |-> PhaseOf(x)']
  BY DEF phase, PhaseOf, HeldBy, InHand, Unsent, Fresh

LEMMA NoneMoves ==
    ASSUME \A x \in Execution : Stays(x), published' = published
    PROVE  UNCHANGED <<phase, announced>>
<1>1. \A x \in Execution : PhaseOf(x)' = PhaseOf(x)
  BY DEF PhaseOf, Stays
<1> QED BY <1>1, PhaseIs, PhaseWillBe DEF announced

LEMMA OneMoves ==
    ASSUME NEW x \in Execution, \A y \in Execution \ {x} : Stays(y), published' = published,
           NEW from, NEW to, PhaseOf(x) = from, PhaseOf(x)' = to
    PROVE  Life!Move(x, from, to)
<1>1. \A y \in Execution \ {x} : PhaseOf(y)' = PhaseOf(y)
  BY DEF PhaseOf, Stays
<1>2. phase[x] = from
  BY PhaseIs
<1>3. phase' = [phase EXCEPT ![x] = to]
  BY <1>1, PhaseIs, PhaseWillBe
<1> QED BY <1>2, <1>3 DEF Life!Move, announced

LEMMA InitLives == Init => Life!Init
<1> SUFFICES ASSUME Init PROVE Life!Init
  OBVIOUS
<1>1. \A x \in Execution : PhaseOf(x) = "new"
  BY DEF Init, PhaseOf, InHand, Fresh
<1>2. announced = {}
  BY DEF Init, announced
<1> QED BY <1>1, <1>2, PhaseIs DEF Life!Init

(* What of the messages can be seen from outside has not changed.           *)
LEMMA CalmStays ==
    ASSUME \A x \in Execution : doc'[x].status = doc[x].status,
           UNCHANGED <<inbox, caller, published, held>>,
           \A w \in held : cur'[w] = cur[w]
    PROVE  UNCHANGED <<phase, announced>>
<1>1. ASSUME NEW x \in Execution PROVE Stays(x)
  BY DEF Stays, InHand, Fresh
<1> QED BY <1>1, NoneMoves

LEMMA CallerLives ==
    ASSUME IInv, NEW c \in Caller, CallerStep(c)
    PROVE  Life!Next \/ UNCHANGED <<phase, announced>>
<1> USE DEF docVars, mainVars, threadVars, Becomes
<1>0. /\ caller \in [Caller -> CallerRecord] /\ IdleCaller.pc = "idle"
      /\ MessagesFit /\ TypeOK
      /\ \A y \in Execution : Fresh(y) => y \notin inbox /\ ~InHand(y)
  BY DEF IInv, TypeOK, IdleCaller, MessagesFit, FreshFits, InHand
<1>1. CASE AddExecution(c)
  <2>1. PICK x \in Execution, sync \in BOOLEAN :
          /\ doc[x].status = "NULL"
          /\ doc' = [doc EXCEPT ![x].status = "SUBMITTED"]
          /\ caller' = [caller EXCEPT ![c] = [IdleCaller EXCEPT !.pc = "put", !.x = x, !.sync = sync]]
    BY <1>1 DEF AddExecution
  <2>2. UNCHANGED <<published, inbox, cur, held>> /\ caller[c].pc = "idle"
    BY <1>1 DEF AddExecution
  <2>3. \A y \in Execution : doc'[y].status = IF y = x THEN "SUBMITTED" ELSE doc[y].status
    BY <1>0, <2>1 DEF TypeOK
  <2>4. /\ caller'[c].pc = "put" /\ caller'[c].x = x
        /\ \A d \in Caller \ {c} : caller'[d] = caller[d]
    BY <1>0, <2>1 DEF CallerRecord, IdleCaller
  <2>5. ASSUME NEW y \in Execution PROVE Fresh(y)' <=> Fresh(y)
    BY <2>1, <2>2, <2>3, <2>4 DEF Fresh
  <2>6. ASSUME NEW y \in Execution PROVE Stays(y)
    BY <2>2, <2>5 DEF Stays, InHand
  <2> QED BY <2>2, <2>6, NoneMoves
<1>2. CASE PutMessage(c)
  <2>0. PICK x \in Execution : x = caller[c].x
    BY <1>0, <1>2 DEF PutMessage, MessagesFit, CallerFits
  <2>1. /\ UNCHANGED <<doc, published, cur, held>>
        /\ caller[c].pc = "put" /\ inbox' = inbox \cup {x}
    BY <1>2, <2>0 DEF PutMessage
  <2>2. /\ caller'[c].pc # "put"
        /\ \A d \in Caller \ {c} : caller'[d] = caller[d]
    BY <1>0, <1>2 DEF PutMessage, CallerRecord
  <2>3. ASSUME NEW y \in Execution \ {x} PROVE Stays(y)
    BY <2>0, <2>1, <2>2 DEF Stays, InHand, Fresh
  <2>4. Fresh(x)
    BY <2>0, <2>1 DEF Fresh
  <2>5. PhaseOf(x) = "new" /\ PhaseOf(x)' = "waiting"
    BY <1>0, <2>1, <2>4 DEF PhaseOf
  <2>6. Life!Send(x)
    BY <2>1, <2>3, <2>5, OneMoves DEF Life!Send
  <2> QED BY <2>6 DEF Life!Next
<1>3. CASE PollResults(c) \/ PollStatus(c) \/ Reply(c) \/ GetResult(c) \/ ReadForHalt(c)
            \/ PutForceQuit(c)
  <2>1. /\ UNCHANGED <<doc, published, inbox, cur, held>>
        /\ \A d \in Caller : caller[d] # caller'[d] => caller[d].pc # "put" /\ caller'[d].pc # "put"
    BY <1>0, <1>3
       DEF PollResults, PollStatus, Reply, GetResult, ReadForHalt, PutForceQuit, CallerRecord,
           IdleCaller
  <2>2. ASSUME NEW y \in Execution PROVE Stays(y)
    BY <2>1 DEF Stays, InHand, Fresh
  <2> QED BY <2>1, <2>2, NoneMoves
<1>4. CASE PurgeInbox(c)
  <2>1. UNCHANGED <<doc, published, caller, cur, held>> /\ inbox' = {}
    BY <1>4 DEF PurgeInbox
  <2>2. ASSUME NEW x \in Execution
        PROVE  PhaseOf(x)' = IF PhaseOf(x) = "waiting" THEN "consumed" ELSE PhaseOf(x)
    <3>1. (InHand(x)' <=> InHand(x)) /\ (Fresh(x)' <=> Fresh(x))
      BY <2>1 DEF InHand, Fresh
    <3>2. x \in inbox => ~InHand(x) /\ ~Fresh(x)
      BY <1>0 DEF InHand, MessagesFit, BusyFits, Busy, TypeOK
    <3> QED BY <2>1, <3>1, <3>2 DEF PhaseOf
  <2>3. phase' = [x \in Execution |-> IF phase[x] = "waiting" THEN "consumed" ELSE phase[x]]
    BY <2>2, PhaseIs, PhaseWillBe
  <2>4. UNCHANGED announced
    BY <2>1 DEF announced
  <2> QED BY <2>3, <2>4 DEF Life!Next, Life!Purge
<1> QED BY <1>1, <1>2, <1>3, <1>4 DEF CallerStep

(* A message that is handed back.                                           *)
LEMMA ReturnLives ==
    ASSUME IInv, NEW w \in Worker, Keeping(w), Requeue(w), w \in held
    PROVE  Life!Next
<1> DEFINE x == cur[w]
<1> USE DEF Keeping, Requeue
<1>1. x \in Execution /\ Busy(w)
  BY DEF IInv, WorkersFit, WorkerFits, TakenPcs, Busy
<1>2. x \notin inbox /\ \A v \in held : cur[v] = x => v = w
  BY <1>1 DEF IInv, MessagesFit, BusyFits, Busy, TypeOK
<1> HIDE DEF x
<1>3. PhaseOf(x) = "taken"
  BY <1>2 DEF PhaseOf, InHand, x
<1>4. x \in inbox'
  BY DEF x
<1>5. ASSUME NEW y \in Execution \ {x} PROVE Stays(y)
  <2>1. \A v \in held : v # w => cur'[v] = cur[v]
    BY DEF Same, IInv, TypeOK
  <2>2. InHand(y)' <=> InHand(y)
    BY <2>1 DEF InHand, x
  <2>3. Fresh(y)' <=> Fresh(y)
    BY DEF Fresh
  <2> QED BY <2>2, <2>3 DEF Stays, x
<1>6. published' = published
  OBVIOUS
<1>7. PICK y \in Execution : y = x /\ y \in inbox' /\ PhaseOf(y) = "taken"
                          /\ \A z \in Execution \ {y} : Stays(z)
  BY <1>1, <1>3, <1>4, <1>5 DEF x
<1>8. PhaseOf(y)' = "waiting"
  BY <1>7 DEF PhaseOf
<1>9. Life!Return(y)
  BY <1>6, <1>7, <1>8, OneMoves DEF Life!Return
<1> QED BY <1>9 DEF Life!Next

(* A message that its worker acknowledges.                                  *)
LEMMA AckLives ==
    ASSUME IInv, NEW w \in Worker, UNCHANGED <<doc, published, caller, inbox, cur>>,
           held' = held \ {w}, w \in held
    PROVE  Life!Next
<1>1. PICK x \in Execution : x = cur[w]
  BY DEF IInv, WorkersFit, WorkerFits, TakenPcs
<1>2. x \notin inbox /\ ~Fresh(x) /\ \A v \in held : cur[v] = x => v = w
  BY <1>1 DEF IInv, MessagesFit, BusyFits, FreshFits, Busy, TypeOK
<1>3. InHand(x) /\ ~InHand(x)'
  BY <1>1, <1>2 DEF InHand
<1>4. ~Fresh(x)'
  BY <1>2 DEF Fresh
<1>5. PhaseOf(x) = "taken" /\ PhaseOf(x)' = "consumed"
  BY <1>2, <1>3, <1>4 DEF PhaseOf
<1>6. ASSUME NEW y \in Execution \ {x} PROVE Stays(y)
  BY <1>1 DEF Stays, InHand, Fresh
<1>7. Life!Consume(x)
  BY <1>5, <1>6, OneMoves DEF Life!Consume
<1> QED BY <1>7 DEF Life!Next

LEMMA MainLives ==
    ASSUME IInv, NEW w \in Worker, MainStep(w)
    PROVE  Life!Next \/ UNCHANGED <<phase, announced>>
<1> USE DEF docVars, threadVars, shared, Goto
<1>0. TypeOK /\ WorkerFits(w) /\ MessagesFit
  BY DEF IInv, WorkersFit
<1>1. ASSUME NEW v \in Worker, v # w PROVE Same(v)
  BY <1>0, <1>1, OthersStay DEF WorkerStep
<1>2. CASE Top(w) \/ Enter(w) \/ CreateFails(w) \/ StartContainer(w) \/ LoopHead(w)
            \/ CheckContainer(w) \/ StopContainer(w) \/ AfterLoop(w)
  <2>1. UNCHANGED <<doc, inbox, caller, published, held, cur>>
    BY <1>2 DEF Top, Enter, CreateFails, StartContainer, LoopHead, CheckContainer,
                StopContainer, AfterLoop
  <2> QED BY <2>1, CalmStays
<1>3. CASE Assign(w)
  <2>1. UNCHANGED <<inbox, caller, published, held, cur>>
    BY <1>3 DEF Assign
  <2>2. \A x \in Execution : doc'[x].status = doc[x].status
    BY <1>0, <1>3 DEF Assign, TypeOK
  <2> QED BY <2>1, <2>2, CalmStays
<1>4. CASE Finish(w)
  <2>1. w \notin held /\ UNCHANGED <<doc, inbox, caller, published, held>>
    BY <1>0, <1>4 DEF Finish, WorkerFits, TakenPcs
  <2>2. \A v \in held : cur'[v] = cur[v]
    BY <1>0, <1>1, <2>1 DEF Same, TypeOK
  <2> QED BY <2>1, <2>2, CalmStays
<1>5. CASE Ack(w) \/ GiveUp(w)
  <2>1. UNCHANGED <<doc, published, caller, inbox, cur>> /\ held' = held \ {w}
    BY <1>5 DEF Ack, GiveUp
  <2>2. CASE w \in held
    BY <2>1, <2>2, AckLives
  <2>3. CASE w \notin held
    BY <2>1, <2>3, CalmStays
  <2> QED BY <2>2, <2>3
<1>6. CASE Get(w)
  <2>1. PICK x \in inbox : inbox' = inbox \ {x} /\ cur' = [cur EXCEPT ![w] = x]
    BY <1>6 DEF Get
  <2>2. /\ UNCHANGED <<doc, published, caller>> /\ held' = held \cup {w}
        /\ x \in Execution /\ cur'[w] = x /\ w \notin held
    BY <1>0, <1>6, <2>1 DEF Get, TypeOK, WorkerFits, TakenPcs
  <2>3. PhaseOf(x) = "waiting"
    BY DEF PhaseOf
  <2>4. PhaseOf(x)' = "taken"
    BY <2>1, <2>2 DEF PhaseOf, InHand
  <2>5. ASSUME NEW y \in Execution \ {x} PROVE Stays(y)
    <3>1. \A v \in held : cur'[v] = cur[v]
      BY <1>0, <1>1, <2>2 DEF Same, TypeOK
    <3>2. InHand(y)' <=> InHand(y)
      BY <2>2, <3>1 DEF InHand
    <3> QED BY <2>1, <2>2, <3>2 DEF Stays, Fresh
  <2>6. Life!Take(x)
    BY <2>2, <2>3, <2>4, <2>5, OneMoves DEF Life!Take
  <2> QED BY <2>2, <2>6 DEF Life!Next
<1>7. CASE Got(w) \/ PrepFails(w) \/ StartFails(w)
  <2>1. UNCHANGED <<doc, published, caller, cur>>
    BY <1>7 DEF Got, PrepFails, StartFails
  <2>2. CASE Requeue(w) /\ w \in held
    BY <1>1, <2>1, <2>2, ReturnLives DEF Keeping
  <2>3. CASE ~(Requeue(w) /\ w \in held)
    <3>1. UNCHANGED <<inbox, held>>
      BY <1>7, <2>3 DEF Got, PrepFails, StartFails, Requeue
    <3> QED BY <2>1, <3>1, CalmStays
  <2> QED BY <2>2, <2>3
<1>8. CASE MarkRunning(w) \/ MarkComplete(w)
  <2>1. PICK x \in Execution : x = cur[w]
    BY <1>0, <1>8 DEF MarkRunning, MarkComplete, WorkerFits, TakenPcs, DonePcs
  <2>2. UNCHANGED <<published, inbox, caller, cur, held>>
    BY <1>8 DEF MarkRunning, MarkComplete
  <2>3. doc'[x].status # "NULL" /\ \A y \in Execution \ {x} : doc'[y] = doc[y]
    BY <1>0, <1>8, <2>1 DEF MarkRunning, MarkComplete, TypeOK
  <2>4. ~Fresh(x)
    BY <1>0, <2>1 DEF MessagesFit, FreshFits
  <2>5. ASSUME NEW y \in Execution PROVE Stays(y)
    BY <2>2, <2>3, <2>4 DEF Stays, InHand, Fresh
  <2> QED BY <2>2, <2>5, NoneMoves
<1>9. CASE Publish(w)
  <2>1. PICK x \in Execution : x = cur[w]
    BY <1>0, <1>9 DEF Publish, WorkerFits, DonePcs
  <2>2. UNCHANGED <<doc, inbox, caller, cur, held>> /\ Busy(w) /\ w \notin held
    BY <1>0, <1>9 DEF Publish, Busy, WorkerFits, TakenPcs, DonePcs
  <2>3. /\ published'[x] = published[x] + 1
        /\ \A y \in Execution \ {x} : published'[y] = published[y]
    BY <1>0, <1>9, <2>1 DEF Publish, TypeOK
  <2>4. published[x] = 0 /\ x \notin inbox /\ ~Fresh(x) /\ ~InHand(x)
    BY <1>0, <2>1, <2>2 DEF MessagesFit, BusyFits, FreshFits, Busy, InHand, TypeOK
  <2>5. phase[x] = "consumed"
    BY <2>4, PhaseIs DEF PhaseOf
  <2>6. \A y \in Execution : PhaseOf(y)' = PhaseOf(y)
    BY <2>2 DEF PhaseOf, InHand, Fresh
  <2>7. phase' = phase
    BY <2>6, PhaseIs, PhaseWillBe
  <2>8. x \notin announced /\ announced' = announced \cup {x}
    BY <2>3, <2>4 DEF announced
  <2>9. Life!Announce(x)
    BY <2>5, <2>7, <2>8 DEF Life!Announce
  <2> QED BY <2>9 DEF Life!Next
<1> QED BY <1>2, <1>3, <1>4, <1>5, <1>6, <1>7, <1>8, <1>9 DEF MainStep

LEMMA OtherLives ==
    ASSUME IInv, NEW w \in Worker,
           ThreadStep(w) \/ ForwardResult(w) \/ Start(w) \/ SendStop(w) \/ KillProcess(w)
    PROVE  Life!Next \/ UNCHANGED <<phase, announced>>
<1> USE DEF docVars, mainVars, threadVars, Goto
<1>0. TypeOK
  BY DEF IInv
<1>1. ASSUME NEW v \in Worker, v # w PROVE Same(v)
  BY <1>0, <1>1, OthersStay DEF WorkerStep
<1>2. CASE TakeForceQuit(w) \/ TakeStop(w) \/ ForwardResult(w) \/ Start(w) \/ SendStop(w)
  <2>1. UNCHANGED <<doc, inbox, caller, published, held, cur>>
    BY <1>2 DEF TakeForceQuit, TakeStop, ForwardResult, Start, SendStop
  <2> QED BY <2>1, CalmStays
<1>3. CASE CloseChannels(w) \/ ExitProcess(w) \/ KillProcess(w)
  <2>1. UNCHANGED <<doc, published, caller>>
    BY <1>3 DEF CloseChannels, ExitProcess, KillProcess, Ends
  <2>2. CASE Requeue(w) /\ w \in held
    BY <1>1, <2>1, <2>2, ReturnLives DEF Keeping
  <2>3. CASE ~(Requeue(w) /\ w \in held)
    <3>1. UNCHANGED <<inbox, held>>
      BY <1>3, <2>3 DEF CloseChannels, ExitProcess, KillProcess, Ends, Requeue
    <3>2. w \in held => cur'[w] = cur[w]
      BY <1>3, <2>3 DEF CloseChannels, ExitProcess, KillProcess, Ends, Requeue
    <3>3. \A v \in held : cur'[v] = cur[v]
      BY <1>0, <1>1, <3>2 DEF Same, TypeOK
    <3> QED BY <2>1, <3>1, <3>3, CalmStays
  <2> QED BY <2>2, <2>3
<1> QED BY <1>2, <1>3 DEF ThreadStep

LEMMA StepLives == IInv /\ [Next]_vars => [Life!Next]_<<phase, announced>>
<1> SUFFICES ASSUME IInv, [Next]_vars PROVE Life!Next \/ UNCHANGED <<phase, announced>>
  OBVIOUS
<1>1. CASE ContainerEnds \/ UNCHANGED vars
  <2>1. UNCHANGED <<doc, inbox, caller, published, held, cur>>
    BY <1>1 DEF ContainerEnds, vars, docVars, mainVars
  <2> QED BY <2>1, CalmStays
<1> QED BY <1>1, CallerLives, MainLives, OtherLives DEF Next

(* add_execution(), put_msg(), get_one(), ack(), nack() and the closing of  *)
(* connections implement the abstract life of a message.                    *)
THEOREM LifeOfMessages == Spec => ImplementsLife
  BY InitLives, StepLives, Inductive, PTL DEF Spec, ImplementsLife, Life!Spec
=============================================================================
