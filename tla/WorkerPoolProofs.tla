-------------------------- MODULE WorkerPoolProofs --------------------------
(* Proofs about WorkerPool for every value of its constants: types and the  *)
(* shape of the records, the process behind a record, the one pair of hands *)
(* a worker id is in, the stop that is on its way, the capacity of a host,  *)
(* and the refinement of WorkerLife.                                        *)
EXTENDS WorkerPoolLife, FiniteSetTheorems, TLAPS

-----------------------------------------------------------------------------
(* What the store operations return.                                        *)

LEMMA UpdateStatus ==
    ASSUME NEW doc \in Doc, NEW s \in Statuses
    PROVE  LET new == UpdateWorkerStatus(doc, s)
           IN  /\ new \in Doc
               /\ new.owned = doc.owned
               /\ new.hosted = doc.hosted
               /\ new.status \in {s, doc.status}
  BY DEF UpdateWorkerStatus, StatusUpsert, Doc

LEMMA OtherWrites ==
    ASSUME NEW doc \in Doc
    PROVE  /\ AddWorker(doc) \in Doc
           /\ AddWorker(doc).owned = doc.owned
           /\ TouchUpsert(doc) \in Doc
           /\ TouchUpsert(doc).owned = doc.owned
           /\ TouchUpsert(doc).hosted = doc.hosted
           /\ TouchUpsert(doc).status = doc.status
           /\ Absent \in Doc
           /\ RequestedDoc \in Doc
  BY DEF AddWorker, TouchUpsert, Absent, RequestedDoc, Doc, Statuses

-----------------------------------------------------------------------------
(* Callers and spawners.                                                    *)

(* A caller that is about to put a command or a message names a worker, and *)
(* one that is about to save the actor has read a status of an actor.       *)
JobFits(j) ==
    /\ j.pc \in {"put", "send"} => j.w \in Worker
    /\ j.pc = "save" => j.seen \in ActorStatuses \cup {"NULL"}
JobShape == \A a \in Agent : JobFits(job[a])

(* A spawner has a worker exactly while it is at work on a command.         *)
SpawnerShape ==
    \A s \in Spawner :
        IF spawner[s].pc \in {"check", "get"} THEN spawner[s].w = NoWorker
        ELSE spawner[s].w \in Worker

Shape == TypeOK /\ JobShape /\ SpawnerShape

LEMMA SetJob ==
    ASSUME job \in [Agent -> JobRecord], JobShape,
           NEW a \in Agent, NEW j \in JobRecord, Continue(a, j), JobFits(j)
    PROVE  job' \in [Agent -> JobRecord] /\ JobShape'
  BY DEF Continue, JobShape

LEMMA JobSame == ASSUME JobShape, UNCHANGED job PROVE JobShape'
  BY DEF JobShape

LEMMA SpawnerSame == ASSUME SpawnerShape, UNCHANGED spawner PROVE SpawnerShape'
  BY DEF SpawnerShape

LEMMA BecomeShape ==
    ASSUME spawner \in [Spawner -> SpawnerRecord], SpawnerShape,
           NEW s \in Spawner, NEW r \in SpawnerRecord, Become(s, r),
           IF r.pc \in {"check", "get"} THEN r.w = NoWorker ELSE r.w \in Worker
    PROVE  spawner' \in [Spawner -> SpawnerRecord] /\ SpawnerShape'
  BY DEF Become, SpawnerShape

LEMMA GotoShape ==
    ASSUME spawner \in [Spawner -> SpawnerRecord], SpawnerShape,
           NEW s \in Spawner, NEW pc \in SpawnerPcs, Goto(s, pc),
           pc \in {"check", "get"} <=> spawner[s].pc \in {"check", "get"}
    PROVE  spawner' \in [Spawner -> SpawnerRecord] /\ SpawnerShape'
  BY DEF Goto, Become, SpawnerRecord, SpawnerShape

LEMMA ReleaseShape ==
    ASSUME spawner \in [Spawner -> SpawnerRecord], SpawnerShape,
           NEW s \in Spawner, Release(s)
    PROVE  spawner' \in [Spawner -> SpawnerRecord] /\ SpawnerShape'
  BY PoolAssumption
  DEF Release, Become, IdleSpawner, SpawnerRecord, SpawnerShape, SpawnerPcs

LEMMA RequeueType ==
    ASSUME inbox \in Nat, held \subseteq Worker, NEW w \in Worker, Requeue(w)
    PROVE  inbox' \in Nat /\ held' \subseteq Worker
<1>1. Cardinality(held \cap {w}) \in Nat
  <2>1. IsFiniteSet(held \cap {w})
    BY FS_Singleton, FS_Intersection
  <2> QED  BY <2>1, FS_CardinalityType
<1> QED  BY <1>1 DEF Requeue

LEMMA CountOwned == Cardinality(Owned) \in Nat
<1>1. IsFiniteSet(Owned)
  BY PoolAssumption, FS_Subset DEF Owned
<1> QED  BY <1>1, FS_CardinalityType


LEMMA AppendType ==
    ASSUME NEW S, NEW q \in Seq(S), NEW e \in S PROVE Append(q, e) \in Seq(S)
  OBVIOUS

LEMMA CountWorker == Cardinality(Worker) \in Nat
  BY PoolAssumption, FS_CardinalityType

LEMMA BeginJob ==
    ASSUME Shape, NEW c \in Client, NEW op \in RequestKinds, NEW j \in JobRecord,
           Begin(c, op, j), JobFits(j)
    PROVE  /\ job' \in [Agent -> JobRecord] /\ JobShape'
           /\ used' \in [RequestKinds -> Nat]
<1>1. job' \in [Agent -> JobRecord] /\ JobShape'
  BY SetJob DEF Begin, Shape, TypeOK, Agent
<1>2. used[op] + 1 \in Nat /\ used' = [used EXCEPT ![op] = @ + 1]
  BY DEF Begin, Shape, TypeOK
<1> QED  BY <1>1, <1>2 DEF Shape, TypeOK

-----------------------------------------------------------------------------
(* One lemma per kind of thread, one step per action.                       *)

LEMMA NewRequestShape ==
    ASSUME Shape, NEW c \in Client, NewRequest(c) PROVE Shape'
<1>1. CASE PostMessage(c)
  <2> DEFINE j == [IdleJob EXCEPT !.pc = "check", !.op = "message", !.left = 1]
  <2>1. j \in JobRecord /\ JobFits(j)
    BY DEF IdleJob, JobRecord, JobPcs, JobOps, RequestKinds, JobFits,
           Statuses
  <2>2. Begin(c, "message", j)
    BY <1>1 DEF PostMessage
  <2>3. /\ job' \in [Agent -> JobRecord] /\ JobShape'
        /\ used' \in [RequestKinds -> Nat]
    BY <2>1, <2>2, BeginJob DEF RequestKinds
  <2> QED
    BY <1>1, <2>3, SpawnerSame DEF PostMessage, Shape, TypeOK
<1>2. CASE RequestWorkers(c)
  <2>1. PICK n \in 1..Cardinality(Worker) :
          Begin(c, "workers",
                [IdleJob EXCEPT !.pc = "count", !.op = "workers", !.left = n])
    BY <1>2 DEF RequestWorkers
  <2>0. n \in Nat
    BY CountWorker
  <2> DEFINE j == [IdleJob EXCEPT !.pc = "count", !.op = "workers", !.left = n]
  <2>2. j \in JobRecord /\ JobFits(j)
    BY <2>0 DEF IdleJob, JobRecord, JobPcs, JobOps, RequestKinds, JobFits,
           Statuses
  <2> QED
    BY <1>2, <2>1, <2>2, BeginJob, SpawnerSame
    DEF RequestWorkers, Shape, TypeOK, RequestKinds, processVars
<1>3. CASE UpdateActor(c)
  <2>1. PICK op \in {"update", "put"} :
          Begin(c, op, [IdleJob EXCEPT !.pc = "save", !.op = op,
                                       !.left = 1, !.seen = actor.status])
    BY <1>3 DEF UpdateActor
  <2> DEFINE j == [IdleJob EXCEPT !.pc = "save", !.op = op,
                                  !.left = 1, !.seen = actor.status]
  <2>2. j \in JobRecord /\ JobFits(j)
    BY DEF Shape, TypeOK, ActorDoc, IdleJob, JobRecord, JobPcs, JobOps, RequestKinds, JobFits,
           Statuses
  <2> QED
    BY <1>3, <2>1, <2>2, BeginJob, SpawnerSame
    DEF UpdateActor, Shape, TypeOK, RequestKinds, processVars
<1>4. CASE StopWorker(c)
  <2>1. PICK w \in Worker :
          Begin(c, "stop", [IdleJob EXCEPT !.pc = "mark", !.op = "stop", !.todo = {w}])
    BY <1>4 DEF StopWorker
  <2> DEFINE j == [IdleJob EXCEPT !.pc = "mark", !.op = "stop", !.todo = {w}]
  <2>2. j \in JobRecord /\ JobFits(j)
    BY DEF IdleJob, JobRecord, JobPcs, JobOps, RequestKinds, JobFits,
           Statuses
  <2> QED
    BY <1>4, <2>1, <2>2, BeginJob, SpawnerSame
    DEF StopWorker, Shape, TypeOK, RequestKinds, processVars
<1>5. CASE CheckHealth(c)
  <2>1. PICK w \in Worker :
          Begin(c, "expire", [IdleJob EXCEPT !.pc = "touch", !.op = "expire",
                                             !.todo = {w}, !.seen = store[w].status])
    BY <1>5 DEF CheckHealth, Owned
  <2> DEFINE j == [IdleJob EXCEPT !.pc = "touch", !.op = "expire",
                                  !.todo = {w}, !.seen = store[w].status]
  <2>2. j \in JobRecord /\ JobFits(j)
    <3>1. store[w].status \in Statuses
      BY DEF Shape, TypeOK, Doc
    <3> QED
      BY <3>1 DEF IdleJob, JobRecord, JobPcs, JobOps, RequestKinds, JobFits,
           Statuses
  <2> QED
    BY <1>5, <2>1, <2>2, BeginJob, SpawnerSame
    DEF CheckHealth, Shape, TypeOK, RequestKinds, processVars
<1>6. CASE ForceQuit(c)
  <2>1. PICK w \in Worker :
          Begin(c, "force", [IdleJob EXCEPT !.pc = "send", !.op = "force",
                                            !.w = w, !.todo = {w}])
    BY <1>6 DEF ForceQuit
  <2> DEFINE j == [IdleJob EXCEPT !.pc = "send", !.op = "force",
                                  !.w = w, !.todo = {w}]
  <2>2. j \in JobRecord /\ JobFits(j)
    BY DEF IdleJob, JobRecord, JobPcs, JobOps, RequestKinds, JobFits,
           Statuses
  <2> QED
    BY <1>6, <2>1, <2>2, BeginJob, SpawnerSame
    DEF ForceQuit, Shape, TypeOK, RequestKinds, processVars
<1>7. CASE DeleteActor(c)
  <2> DEFINE j == [IdleJob EXCEPT !.pc = IF ActorFull THEN "retire" ELSE "list",
                                  !.op = "delete"]
  <2>1. j \in JobRecord /\ JobFits(j)
    BY DEF IdleJob, JobRecord, JobPcs, JobOps, RequestKinds, JobFits,
           Statuses
  <2> QED
    BY <1>7, <2>1, BeginJob, SpawnerSame
    DEF DeleteActor, Shape, TypeOK, RequestKinds, processVars
<1> QED
  BY <1>1, <1>2, <1>3, <1>4, <1>5, <1>6, <1>7 DEF NewRequest

LEMMA JobStepShape ==
    ASSUME Shape, NEW a \in Agent, JobStep(a) PROVE Shape'
<1>0. /\ IdleJob \in JobRecord /\ JobFits(IdleJob)
      /\ job[a] \in JobRecord
  BY DEF IdleJob, JobRecord, JobPcs, JobOps, JobFits, Statuses, Shape, TypeOK
<1>1. CASE CheckActor(a)
  <2> DEFINE j == IF ActorFull THEN [job[a] EXCEPT !.pc = "count"] ELSE IdleJob
  <2>1. j \in JobRecord /\ JobFits(j)
    BY <1>0 DEF JobRecord, JobPcs, JobFits
  <2> QED
    BY <1>1, <2>1, SetJob, SpawnerSame DEF CheckActor, Shape, TypeOK, processVars
<1>2. CASE CountWorkers(a)
  <2> DEFINE current == Cardinality(Owned)
             j == IF current < job[a].left
                  THEN [job[a] EXCEPT !.pc = "add", !.left = @ - current]
                  ELSE IdleJob
  <2>1. j \in JobRecord /\ JobFits(j)
    <3>1. CASE current < job[a].left
      <4>1. job[a].left - current \in Nat
        BY <1>0, <3>1, CountOwned DEF JobRecord
      <4> QED  BY <1>0, <3>1, <4>1 DEF JobRecord, JobPcs, JobFits
    <3>2. CASE ~(current < job[a].left)
      BY <1>0, <3>2
    <3> QED  BY <3>1, <3>2
  <2> QED
    BY <1>2, <2>1, SetJob, SpawnerSame DEF CountWorkers, Shape, TypeOK, processVars
<1>3. CASE AddRecord(a)
  <2>1. CASE issued = Worker /\ Continue(a, IdleJob) /\ UNCHANGED <<store, issued>>
    BY <1>0, <1>3, <2>1, SetJob, SpawnerSame DEF AddRecord, Shape, TypeOK, processVars
  <2>2. ASSUME NEW w \in Worker \ issued,
               store' = [store EXCEPT ![w] = RequestedDoc],
               issued' = issued \cup {w},
               Continue(a, [job[a] EXCEPT !.pc = "put", !.w = w])
        PROVE  Shape'
    <3> DEFINE j == [job[a] EXCEPT !.pc = "put", !.w = w]
    <3>1. j \in JobRecord /\ JobFits(j)
      BY <1>0 DEF JobRecord, JobPcs, JobFits
    <3> QED
      BY <1>3, <2>2, <3>1, SetJob, SpawnerSame, OtherWrites
      DEF AddRecord, Shape, TypeOK, processVars
  <2> QED  BY <1>3, <2>1, <2>2 DEF AddRecord
<1>4. CASE PutCommand(a)
  <2> DEFINE j == IF job[a].left > 1
                  THEN [job[a] EXCEPT !.pc = "add", !.w = NoWorker, !.left = @ - 1]
                  ELSE IdleJob
  <2>1. j \in JobRecord /\ JobFits(j)
    <3>1. CASE job[a].left > 1
      <4>1. job[a].left - 1 \in Nat
        BY <1>0, <3>1 DEF JobRecord
      <4> QED  BY <1>0, <3>1, <4>1 DEF JobRecord, JobPcs, JobFits
    <3>2. CASE ~(job[a].left > 1)
      BY <1>0, <3>2
    <3> QED  BY <3>1, <3>2
  <2>2. [w |-> job[a].w, stop |-> job[a].op = "update"] \in Command
    BY <1>4 DEF PutCommand, Shape, JobShape, JobFits, Command
  <2>3. cmd' \in Seq(Command)
    BY <1>4, <2>2, AppendType DEF PutCommand, Shape, TypeOK
  <2>4. Continue(a, j)
    BY <1>4 DEF PutCommand
  <2> HIDE DEF j
  <2> QED
    BY <1>4, <2>1, <2>3, <2>4, SetJob, SpawnerSame DEF PutCommand, Shape, TypeOK, processVars
<1>5. CASE SaveActor(a)
  <2>1. CASE job[a].op = "update"
    <3> DEFINE j == [job[a] EXCEPT !.pc = "add"]
    <3>1. j \in JobRecord /\ JobFits(j)
      BY <1>0 DEF JobRecord, JobPcs, JobFits
    <3>2. [kind |-> "full", status |-> "SUBMITTED"] \in ActorDoc
      BY DEF ActorDoc, ActorStatuses
    <3> QED
      BY <1>0, <1>5, <2>1, <3>1, <3>2, SetJob, SpawnerSame
      DEF SaveActor, Shape, TypeOK, processVars
  <2>2. CASE job[a].op # "update"
    <3>1. [kind |-> "full", status |-> job[a].seen] \in ActorDoc
      BY <1>5 DEF SaveActor, Shape, JobShape, JobFits, ActorDoc
    <3> QED
      BY <1>0, <1>5, <2>2, <3>1, SetJob, SpawnerSame
      DEF SaveActor, Shape, TypeOK, processVars
  <2> QED  BY <2>1, <2>2
<1>6. CASE RetireActor(a)
  <2> DEFINE j == [job[a] EXCEPT !.pc = "list"]
  <2>1. j \in JobRecord /\ JobFits(j)
    BY <1>0 DEF JobRecord, JobPcs, JobFits
  <2> QED
    BY <1>6, <2>1, SetJob, SpawnerSame
    DEF RetireActor, Shape, TypeOK, processVars, SetActorStatus, ActorDoc, ActorStatuses
<1>7. CASE ListWorkers(a)
  <2> DEFINE idle == AfterStops(job[a])
             busy == [job[a] EXCEPT !.pc = "mark", !.todo = Owned]
  <2>1. idle \in JobRecord /\ JobFits(idle)
    <3>1. CASE job[a].op = "delete"
      <4> DEFINE waiting == [job[a] EXCEPT !.pc = "wait", !.w = NoWorker]
      <4>1. waiting \in JobRecord /\ JobFits(waiting)
        BY <1>0 DEF JobRecord, JobPcs, JobFits
      <4> QED
        BY <3>1, <4>1 DEF AfterStops
    <3>2. CASE job[a].op # "delete"
      BY <1>0, <3>2 DEF AfterStops
    <3> QED  BY <3>1, <3>2
  <2>2. busy \in JobRecord /\ JobFits(busy)
    <3>1. Owned \in SUBSET Worker
      BY DEF Owned
    <3> QED
      BY <1>0, <3>1 DEF JobRecord, JobPcs, JobFits
  <2>3. Continue(a, idle) \/ Continue(a, busy)
    BY <1>7 DEF ListWorkers
  <2> HIDE DEF idle, busy
  <2>4. job' \in [Agent -> JobRecord] /\ JobShape'
    BY <2>1, <2>2, <2>3, SetJob DEF Shape, TypeOK
  <2> QED
    BY <1>7, <2>4, SpawnerSame DEF ListWorkers, Shape, TypeOK, processVars
<1>8. CASE MarkWorker(a)
  <2>1. PICK w \in job[a].todo :
          /\ store' = [store EXCEPT ![w] = UpdateWorkerStatus(@, "SHUTDOWN_REQUESTED")]
          /\ Continue(a, [job[a] EXCEPT !.pc = "send", !.w = w])
    BY <1>8 DEF MarkWorker
  <2> DEFINE j == [job[a] EXCEPT !.pc = "send", !.w = w]
  <2>2. w \in Worker /\ j \in JobRecord /\ JobFits(j)
    BY <1>0 DEF JobRecord, JobPcs, JobFits
  <2>3. store' \in [Worker -> Doc]
    <3>1. store \in [Worker -> Doc] /\ "SHUTDOWN_REQUESTED" \in Statuses
      BY DEF Shape, TypeOK, Statuses
    <3>2. UpdateWorkerStatus(store[w], "SHUTDOWN_REQUESTED") \in Doc
      BY <2>2, <3>1, UpdateStatus
    <3> QED BY <2>1, <2>2, <3>1, <3>2
  <2>4. job' \in [Agent -> JobRecord] /\ JobShape'
    <3>1. Continue(a, j)
      BY <2>1
    <3> HIDE DEF j
    <3> QED BY <2>2, <3>1, SetJob DEF Shape, TypeOK
  <2> QED
    BY <1>8, <2>3, <2>4, SpawnerSame DEF MarkWorker, Shape, TypeOK, processVars
<1>9. CASE SendStop(a)
  <2> DEFINE rest == job[a].todo \ {job[a].w}
             j == IF rest = {} THEN AfterStops([job[a] EXCEPT !.todo = {}])
                  ELSE [job[a] EXCEPT !.pc = "mark", !.w = NoWorker, !.todo = rest]
  <2>1. j \in JobRecord /\ JobFits(j)
    <3>1. rest \in SUBSET Worker
      BY <1>0 DEF JobRecord
    <3>2. CASE rest = {}
      <4> DEFINE done == [job[a] EXCEPT !.todo = {}]
      <4>1. /\ [done EXCEPT !.pc = "wait", !.w = NoWorker] \in JobRecord
            /\ JobFits([done EXCEPT !.pc = "wait", !.w = NoWorker])
        BY <1>0 DEF JobRecord, JobPcs, JobFits
      <4>2. AfterStops(done) \in {[done EXCEPT !.pc = "wait", !.w = NoWorker], IdleJob}
        BY DEF AfterStops
      <4> HIDE DEF done
      <4>3. AfterStops(done) \in JobRecord /\ JobFits(AfterStops(done))
        BY <1>0, <4>1, <4>2
      <4> QED BY <3>2, <4>3 DEF done
    <3>3. CASE rest # {}
      <4> DEFINE next == [job[a] EXCEPT !.pc = "mark", !.w = NoWorker, !.todo = rest]
      <4>1. next \in JobRecord /\ JobFits(next)
        <5> HIDE DEF rest
        <5> QED BY <1>0, <3>1 DEF JobRecord, JobPcs, JobFits
      <4> QED BY <3>3, <4>1
    <3> QED BY <3>2, <3>3
  <2>2. StopMsgOf(job[a].op) \in WorkerMsg
    BY DEF StopMsgOf, WorkerMsg, StopMsgs
  <2>3. wch' \in [Worker -> Seq(WorkerMsg)]
    BY <1>9, <2>2, AppendType DEF SendStop, Shape, JobShape, TypeOK
  <2>4. Continue(a, j)
    BY <1>9 DEF SendStop
  <2> HIDE DEF j
  <2> QED
    BY <1>9, <2>1, <2>3, <2>4, SetJob, SpawnerSame DEF SendStop, Shape, TypeOK, processVars
<1>10. CASE EraseActor(a)
  BY <1>0, <1>10, SetJob, SpawnerSame
  DEF EraseActor, Shape, TypeOK, processVars, NoActor, ActorDoc
<1>11. CASE TouchWorker(a)
  <2>1. PICK w \in job[a].todo : store' = [store EXCEPT ![w] = TouchUpsert(@)]
    BY <1>11 DEF TouchWorker
  <2>2. store' \in [Worker -> Doc]
    BY <1>0, <2>1, OtherWrites DEF JobRecord, Shape, TypeOK
  <2> DEFINE j == [job[a] EXCEPT !.pc = "mark"]
  <2>3. j \in JobRecord /\ JobFits(j)
    BY <1>0 DEF JobRecord, JobPcs, JobFits
  <2>4. Continue(a, IdleJob) \/ Continue(a, j)
    BY <1>11 DEF TouchWorker
  <2> HIDE DEF j
  <2> QED
    BY <1>0, <1>11, <2>2, <2>3, <2>4, SetJob, SpawnerSame
    DEF TouchWorker, Shape, TypeOK, processVars
<1> QED
  BY <1>1, <1>2, <1>3, <1>4, <1>5, <1>6, <1>7, <1>8, <1>9, <1>10, <1>11 DEF JobStep

LEMMA SpawnerStepShape ==
    ASSUME Shape, NEW s \in Spawner, SpawnerStep(s) PROVE Shape'
<1>1. CASE SpawnerCheck(s)
  BY <1>1, JobSame, PoolAssumption, GotoShape, ReleaseShape
  DEF SpawnerCheck, Shape, TypeOK, SpawnerPcs, processVars, callerVars
<1>2. CASE SpawnerGet(s)
  <2> DEFINE r == [spawner[s] EXCEPT !.pc = "actor", !.w = Head(cmd).w,
                                     !.stop = Head(cmd).stop]
  <2>1. Head(cmd) \in Command /\ cmd' \in Seq(Command)
    BY <1>2 DEF SpawnerGet, Shape, TypeOK
  <2>2. r \in SpawnerRecord /\ r.pc = "actor" /\ r.w \in Worker
    <3>1. Head(cmd).w \in Worker /\ Head(cmd).stop \in BOOLEAN
      BY <2>1 DEF Command
    <3>2. spawner[s] \in SpawnerRecord
      BY DEF Shape, TypeOK
    <3> QED
      BY <3>1, <3>2 DEF SpawnerRecord, SpawnerPcs
  <2>3. Become(s, r)
    BY <1>2 DEF SpawnerGet
  <2> HIDE DEF r
  <2>4. spawner' \in [Spawner -> SpawnerRecord] /\ SpawnerShape'
    BY <2>2, <2>3, BecomeShape DEF Shape, TypeOK
  <2> QED
    BY <1>2, <2>1, <2>4, JobSame
    DEF SpawnerGet, Shape, TypeOK, callerVars, processVars
<1>3. CASE SpawnerReadActor(s)
  <2> DEFINE r == [spawner[s] EXCEPT !.pc = "worker", !.bad = (actor.status = "ERROR")]
  <2>1. CASE ActorFull
    <3>1. r \in SpawnerRecord /\ r.pc = "worker" /\ r.w \in Worker
      <4>1. spawner[s].pc = "actor"
        BY <1>3 DEF SpawnerReadActor
      <4>2. spawner[s] \in SpawnerRecord /\ spawner[s].w \in Worker
        BY <4>1 DEF Shape, TypeOK, SpawnerShape
      <4>3. (actor.status = "ERROR") \in BOOLEAN
        OBVIOUS
      <4> QED
        BY <4>2, <4>3 DEF SpawnerRecord, SpawnerPcs
    <3>2. Become(s, r)
      BY <1>3, <2>1 DEF SpawnerReadActor
    <3> HIDE DEF r
    <3>3. spawner' \in [Spawner -> SpawnerRecord] /\ SpawnerShape'
      BY <3>1, <3>2, BecomeShape DEF Shape, TypeOK
    <3> QED
      BY <1>3, <3>3, JobSame
      DEF SpawnerReadActor, Shape, TypeOK, callerVars, processVars
  <2>2. CASE ~ActorFull
    BY <1>3, <2>2, ReleaseShape, JobSame
    DEF SpawnerReadActor, Shape, TypeOK, callerVars, processVars
  <2> QED  BY <2>1, <2>2
<1>4. CASE SpawnerReadWorker(s)
  BY <1>4, JobSame, PoolAssumption, GotoShape, ReleaseShape
  DEF SpawnerReadWorker, Shape, TypeOK, SpawnerPcs, processVars, callerVars
<1>5. CASE SpawnerDrop(s)
  BY <1>5, JobSame, PoolAssumption, GotoShape, ReleaseShape, OtherWrites
  DEF SpawnerDrop, Shape, TypeOK, SpawnerPcs, processVars, callerVars
<1>6. CASE SpawnerSetup(s)
  <2>1. spawner' \in [Spawner -> SpawnerRecord] /\ SpawnerShape'
    <3>1. spawner[s].pc = "setup" /\ (Goto(s, "pull") \/ Goto(s, "drop"))
      BY <1>6 DEF SpawnerSetup
    <3>2. spawner \in [Spawner -> SpawnerRecord] /\ SpawnerShape
      BY DEF Shape, TypeOK
    <3>3. "pull" \in SpawnerPcs /\ "drop" \in SpawnerPcs
      BY DEF SpawnerPcs
    <3> QED BY <3>1, <3>2, <3>3, GotoShape
  <2>2. store' \in [Worker -> Doc]
    <3>1. store' = [store EXCEPT ![spawner[s].w] =
                       UpdateWorkerStatus(store[spawner[s].w], "SPAWNER_SETUP")]
      BY <1>6 DEF SpawnerSetup
    <3>2. "SPAWNER_SETUP" \in Statuses
      BY DEF Statuses
    <3> QED BY <3>1, <3>2, UpdateStatus DEF Shape, TypeOK
  <2> QED
    BY <1>6, <2>1, <2>2, JobSame DEF SpawnerSetup, Shape, TypeOK, processVars, callerVars
<1>7. CASE SpawnerPull(s)
  <2>1. spawner' \in [Spawner -> SpawnerRecord] /\ SpawnerShape'
    <3>1. spawner[s].pc = "pull" /\ (Goto(s, "create") \/ Goto(s, "errActor"))
      BY <1>7 DEF SpawnerPull
    <3>2. spawner \in [Spawner -> SpawnerRecord] /\ SpawnerShape
      BY DEF Shape, TypeOK
    <3>3. "create" \in SpawnerPcs /\ "errActor" \in SpawnerPcs
      BY DEF SpawnerPcs
    <3> QED BY <3>1, <3>2, <3>3, GotoShape
  <2>2. store' \in [Worker -> Doc]
    <3>1. store' = [store EXCEPT ![spawner[s].w] =
                       UpdateWorkerStatus(store[spawner[s].w], "PULLING_IMAGE")]
      BY <1>7 DEF SpawnerPull
    <3>2. "PULLING_IMAGE" \in Statuses
      BY DEF Statuses
    <3> QED BY <3>1, <3>2, UpdateStatus DEF Shape, TypeOK
  <2> QED BY <1>7, <2>1, <2>2, JobSame DEF SpawnerPull, Shape, TypeOK, processVars, callerVars
<1>8. CASE SpawnerCreate(s)
  <2>1. spawner' \in [Spawner -> SpawnerRecord] /\ SpawnerShape'
    <3>1. spawner[s].pc = "create" /\ Goto(s, "run")
      BY <1>8 DEF SpawnerCreate
    <3>2. spawner \in [Spawner -> SpawnerRecord] /\ SpawnerShape
      BY DEF Shape, TypeOK
    <3>3. "run" \in SpawnerPcs
      BY DEF SpawnerPcs
    <3> QED BY <3>1, <3>2, <3>3, GotoShape
  <2>2. store' \in [Worker -> Doc]
    <3>1. store' = [store EXCEPT ![spawner[s].w] =
                       UpdateWorkerStatus(store[spawner[s].w], "CREATING_CONTAINER")]
      BY <1>8 DEF SpawnerCreate
    <3>2. "CREATING_CONTAINER" \in Statuses
      BY DEF Statuses
    <3> QED BY <3>1, <3>2, UpdateStatus DEF Shape, TypeOK
  <2> QED
    BY <1>8, <2>1, <2>2, JobSame DEF SpawnerCreate, Shape, TypeOK, processVars, callerVars
<1>9. CASE SpawnerRun(s)
  BY <1>9, JobSame, PoolAssumption, GotoShape, ReleaseShape
  DEF SpawnerRun, Shape, TypeOK, SpawnerPcs, processVars, callerVars,
      MainPcs
<1>10. CASE SpawnerRunTimeout(s)
  BY <1>10, JobSame, PoolAssumption, GotoShape, ReleaseShape
  DEF SpawnerRunTimeout, Shape, TypeOK, SpawnerPcs, processVars, callerVars,
      MainPcs
<1>11. CASE SpawnerRunError(s)
  BY <1>11, JobSame, PoolAssumption, GotoShape, ReleaseShape
  DEF SpawnerRunError, Shape, TypeOK, SpawnerPcs, processVars, callerVars
<1>12. CASE SpawnerKill(s)
  BY <1>12, JobSame, PoolAssumption, GotoShape, ReleaseShape, OtherWrites
  DEF SpawnerKill, Shape, TypeOK, SpawnerPcs, processVars, callerVars
<1>13. CASE SpawnerConfirm(s)
  BY <1>13, JobSame, PoolAssumption, GotoShape, ReleaseShape
  DEF SpawnerConfirm, Shape, TypeOK, SpawnerPcs, processVars, callerVars
<1>14. CASE SpawnerReady(s)
  BY <1>14, JobSame, PoolAssumption, GotoShape, ReleaseShape
  DEF SpawnerReady, Shape, TypeOK, SpawnerPcs, processVars, callerVars,
      SetActorStatus, ActorDoc, ActorStatuses, NoActor
<1>15. CASE SpawnerAdd(s)
  BY <1>15, JobSame, PoolAssumption, GotoShape, ReleaseShape, OtherWrites
  DEF SpawnerAdd, Shape, TypeOK, SpawnerPcs, processVars, callerVars
<1>16. CASE SpawnerSignal(s)
  <2>1. signal' \subseteq Worker
    BY <1>16 DEF SpawnerSignal, Shape, TypeOK, SpawnerShape
  <2>2. spawner' \in [Spawner -> SpawnerRecord] /\ SpawnerShape'
    BY <1>16, GotoShape, ReleaseShape
    DEF SpawnerSignal, Shape, TypeOK, SpawnerPcs
  <2> QED
    BY <1>16, <2>1, <2>2, JobSame DEF SpawnerSignal, Shape, TypeOK, callerVars
<1>17. CASE SpawnerStopList(s)
  <2>1. PICK others \in SUBSET Worker :
          \/ Release(s)
          \/ Become(s, [spawner[s] EXCEPT !.pc = "stopEach", !.todo = others])
    BY <1>17 DEF SpawnerStopList, Owned
  <2> DEFINE r == [spawner[s] EXCEPT !.pc = "stopEach", !.todo = others]
  <2>2. r \in SpawnerRecord /\ r.pc = "stopEach" /\ r.w \in Worker
    <3>1. spawner[s].pc \in {"stopList", "errStop"}
      BY <1>17 DEF SpawnerStopList
    <3>2. spawner[s] \in SpawnerRecord /\ spawner[s].w \in Worker
      BY <3>1 DEF Shape, TypeOK, SpawnerShape
    <3> QED
      BY <3>2 DEF SpawnerRecord, SpawnerPcs
  <2>3. Release(s) \/ Become(s, r)
    BY <2>1
  <2> HIDE DEF r
  <2>4. spawner' \in [Spawner -> SpawnerRecord] /\ SpawnerShape'
    BY <2>2, <2>3, BecomeShape, ReleaseShape DEF Shape, TypeOK
  <2>5. UNCHANGED <<actor, store, callerVars, cmd, wch, processVars>>
    BY <1>17 DEF SpawnerStopList
  <2> QED
    BY <2>4, <2>5, JobSame DEF Shape, TypeOK, callerVars, processVars
<1>18. CASE SpawnerStopEach(s)
  <2>1. PICK w \in Worker :
          /\ wch' = [wch EXCEPT ![w] = Append(@, "stop-no-delete")]
          /\ \/ Release(s)
             \/ Become(s, [spawner[s] EXCEPT !.todo = @ \ {w}])
    BY <1>18 DEF SpawnerStopEach, Shape, TypeOK, SpawnerRecord
  <2> DEFINE r == [spawner[s] EXCEPT !.todo = @ \ {w}]
  <2>2. r \in SpawnerRecord /\ r.pc = "stopEach" /\ r.w \in Worker
    <3>1. /\ spawner[s] \in SpawnerRecord
          /\ spawner[s].pc = "stopEach" /\ spawner[s].w \in Worker
      BY <1>18 DEF SpawnerStopEach, Shape, TypeOK, SpawnerShape
    <3> QED  BY <3>1 DEF SpawnerRecord
  <2>3. Release(s) \/ Become(s, r)
    BY <2>1
  <2> HIDE DEF r
  <2>4. spawner' \in [Spawner -> SpawnerRecord] /\ SpawnerShape'
    BY <2>2, <2>3, BecomeShape, ReleaseShape DEF Shape, TypeOK
  <2>5. wch' \in [Worker -> Seq(WorkerMsg)]
    BY <2>1, AppendType DEF Shape, TypeOK, WorkerMsg, StopMsgs
  <2> QED
    BY <1>18, <2>4, <2>5, JobSame
    DEF SpawnerStopEach, Shape, TypeOK, callerVars, processVars
<1>19. CASE SpawnerErrActor(s)
  BY <1>19, JobSame, PoolAssumption, GotoShape, ReleaseShape
  DEF SpawnerErrActor, Shape, TypeOK, SpawnerPcs, processVars, callerVars,
      SetActorStatus, ActorDoc, ActorStatuses, NoActor
<1>20. CASE SpawnerErrWorker(s)
  BY <1>20, JobSame, PoolAssumption, GotoShape, ReleaseShape
  DEF SpawnerErrWorker, Shape, TypeOK, SpawnerPcs, processVars, callerVars
<1> QED
  BY <1>1, <1>2, <1>3, <1>4, <1>5, <1>6, <1>7, <1>8, <1>9, <1>10, <1>11,
      <1>12, <1>13, <1>14, <1>15, <1>16, <1>17, <1>18, <1>19, <1>20 DEF
      SpawnerStep

LEMMA MainStepShape ==
    ASSUME Shape, NEW w \in Worker, MainStep(w) PROVE Shape'
<1>1. CASE MainStart(w)
  BY <1>1, SpawnerSame, JobSame
  DEF MainStart, Shape, TypeOK, MainPcs, sharedVars, ThreadPcs, StopMsgs
<1>2. CASE MainKeep(w)
  BY <1>2, SpawnerSame, JobSame
  DEF MainKeep, Shape, TypeOK, MainPcs, sharedVars
<1>3. CASE MainTop(w)
  <2>1. store' \in [Worker -> Doc]
    <3>1. UpdateWorkerStatus(store[w], "READY") \in Doc
      BY UpdateStatus DEF Shape, TypeOK, Statuses
    <3> QED  BY <1>3, <3>1 DEF MainTop, Shape, TypeOK
  <2>2. main' \in [Worker -> MainPcs]
    BY <1>3 DEF MainTop, Shape, TypeOK, MainPcs
  <2> QED
    BY <1>3, <2>1, <2>2, SpawnerSame, JobSame DEF MainTop, Shape, TypeOK, sharedVars
<1>4. CASE MainGet(w)
  BY <1>4, SpawnerSame, JobSame
  DEF MainGet, Shape, TypeOK, MainPcs, sharedVars
<1>5. CASE MainGot(w)
  <2>1. store' \in [Worker -> Doc]
    <3>1. store \in [Worker -> Doc] /\ "BUSY" \in Statuses
      BY DEF Shape, TypeOK, Statuses
    <3>2. UpdateWorkerStatus(store[w], "BUSY") \in Doc
      BY <3>1, UpdateStatus
    <3>3. store' \in {store, [store EXCEPT ![w] = UpdateWorkerStatus(store[w], "BUSY")]}
      BY <1>5 DEF MainGot
    <3> QED BY <3>1, <3>2, <3>3
  <2>2. main' \in [Worker -> MainPcs]
    BY <1>5 DEF MainGot, Shape, TypeOK, MainPcs
  <2>3. inbox' \in Nat /\ held' \subseteq Worker
    BY <1>5, RequeueType DEF MainGot, Shape, TypeOK
  <2> QED
    BY <1>5, <2>1, <2>2, <2>3, SpawnerSame, JobSame
    DEF MainGot, Shape, TypeOK, sharedVars
<1>6. CASE MainReadActor(w)
  BY <1>6, SpawnerSame, JobSame, RequeueType
  DEF MainReadActor, Shape, TypeOK, MainPcs, sharedVars
<1>7. CASE MainDone(w)
  BY <1>7, SpawnerSame, JobSame
  DEF MainDone, Shape, TypeOK, MainPcs, sharedVars
<1>8. CASE MainTouch(w)
  BY <1>8, SpawnerSame, JobSame, OtherWrites
  DEF MainTouch, Shape, TypeOK, MainPcs, sharedVars
<1>9. CASE MainStartError(w)
  BY <1>9, SpawnerSame, JobSame, RequeueType
  DEF MainStartError, Shape, TypeOK, MainPcs, sharedVars
<1>10. CASE MainSetError(w)
  BY <1>10, SpawnerSame, JobSame
  DEF MainSetError, Shape, TypeOK, MainPcs, sharedVars, SetActorStatus,
      ActorDoc, ActorStatuses, NoActor
<1>11. CASE MainAckError(w)
  BY <1>11, SpawnerSame, JobSame
  DEF MainAckError, Shape, TypeOK, MainPcs, sharedVars
<1>12. CASE MainGiveUp(w)
  <2> DEFINE j == [IdleJob EXCEPT !.pc = "list", !.op = "giveup"]
  <2>1. j \in JobRecord /\ JobFits(j) /\ w \in Agent
    BY DEF IdleJob, JobRecord, JobPcs, JobOps, JobFits, Statuses, Agent
  <2>2. Continue(w, j)
    BY <1>12 DEF MainGiveUp
  <2> HIDE DEF j
  <2> QED
    BY <1>12, <2>1, <2>2, SpawnerSame, SetJob
    DEF MainGiveUp, Shape, TypeOK, MainPcs, sharedVars
<1> QED
  BY <1>1, <1>2, <1>3, <1>4, <1>5, <1>6, <1>7, <1>8, <1>9, <1>10, <1>11,
      <1>12 DEF MainStep

LEMMA ThreadStepShape ==
    ASSUME Shape, NEW w \in Worker, ThreadStep(w) PROVE Shape'
<1>1. CASE ThreadGet(w)
  BY <1>1, SpawnerSame, JobSame
  DEF ThreadGet, Shape, TypeOK, MainPcs, ThreadPcs, StopMsgs, sharedVars,
      WorkerMsg
<1>2. CASE ThreadMark(w)
  <2>1. store' \in [Worker -> Doc]
    BY <1>2, UpdateStatus DEF ThreadMark, Shape, TypeOK, Statuses
  <2> QED
    BY <1>2, <2>1, SpawnerSame, JobSame
    DEF ThreadMark, Shape, TypeOK, ThreadPcs, sharedVars
<1>3. CASE ThreadDelete(w)
  BY <1>3, SpawnerSame, JobSame, OtherWrites
  DEF ThreadDelete, Shape, TypeOK, MainPcs, ThreadPcs, StopMsgs, sharedVars
<1>4. CASE ThreadClose(w)
  BY <1>4, SpawnerSame, JobSame, RequeueType
  DEF ThreadClose, Shape, TypeOK, MainPcs, ThreadPcs, StopMsgs, sharedVars
<1>5. CASE ThreadExit(w)
  <2>1. inbox' \in Nat /\ held' \subseteq Worker
    BY <1>5, RequeueType DEF ThreadExit, Shape, TypeOK
  <2>2. /\ main' \in [Worker -> MainPcs]
        /\ thread' \in [Worker -> [pc : ThreadPcs, msg : StopMsgs]]
    BY <1>5 DEF ThreadExit, Shape, TypeOK, MainPcs, ThreadPcs
  <2> QED
    BY <1>5, <2>1, <2>2, SpawnerSame, JobSame DEF ThreadExit, Shape, TypeOK, sharedVars
<1> QED
  BY <1>1, <1>2, <1>3, <1>4, <1>5 DEF ThreadStep

-----------------------------------------------------------------------------
LEMMA InitShape == Init => Shape
<1> SUFFICES ASSUME Init PROVE Shape
  OBVIOUS
<1>1. job \in [Agent -> JobRecord] /\ JobShape
  <2>1. /\ IdleJob \in JobRecord /\ JobFits(IdleJob)
        /\ [IdleJob EXCEPT !.pc = "count", !.op = "create", !.left = 1] \in JobRecord
        /\ JobFits([IdleJob EXCEPT !.pc = "count", !.op = "create", !.left = 1])
    BY DEF IdleJob, JobRecord, JobPcs, JobOps, JobFits, Statuses
  <2> QED  BY <2>1 DEF Init, JobShape
<1>2. spawner \in [Spawner -> SpawnerRecord] /\ SpawnerShape
  <2>1. /\ IdleSpawner \in SpawnerRecord
        /\ IdleSpawner.pc = "check" /\ IdleSpawner.w = NoWorker
    BY DEF IdleSpawner, SpawnerRecord, SpawnerPcs
  <2> QED  BY <2>1 DEF Init, SpawnerShape
<1>3. actor \in ActorDoc /\ store \in [Worker -> Doc]
  <2>1. Absent \in Doc
    BY DEF Absent, Doc, Statuses
  <2>2. [kind |-> "full", status |-> "SUBMITTED"] \in ActorDoc
    BY DEF ActorDoc, ActorStatuses
  <2> QED  BY <2>1, <2>2 DEF Init
<1>4. cmd \in Seq(Command) /\ wch \in [Worker -> Seq(WorkerMsg)]
  BY DEF Init
<1> QED
  BY <1>1, <1>2, <1>3, <1>4
  DEF Init, Shape, TypeOK, MainPcs, ThreadPcs, StopMsgs

LEMMA NextShape == Shape /\ [Next]_vars => Shape'
<1> SUFFICES ASSUME Shape, [Next]_vars PROVE Shape'
  OBVIOUS
<1>1. CASE Next
  BY <1>1, NewRequestShape, JobStepShape, SpawnerStepShape, MainStepShape,
     ThreadStepShape DEF Next
<1>2. CASE UNCHANGED vars
  BY <1>2, JobSame, SpawnerSame DEF vars, Shape, TypeOK
<1> QED  BY <1>1, <1>2

(* In every reachable state every variable holds a value of its kind, and   *)
(* whoever is about to write to a worker's record, to its channel or to the *)
(* command channel has a worker in its hands.                               *)
THEOREM ShapeCorrect == Spec => []Shape
  BY InitShape, NextShape, PTL DEF Spec

(* The type invariant of the runs.                                          *)
THEOREM TypeCorrect == Spec => []TypeOK
<1>1. Shape => TypeOK
  BY DEF Shape
<1> QED  BY <1>1, ShapeCorrect, PTL

-----------------------------------------------------------------------------
(* A record that offers a worker has a process behind it: the inductive     *)
(* invariant.  Whoever holds a worker id holds one that was generated...    *)
JobsIssued == \A a \in Agent : job[a].pc = "put" => job[a].w \in issued
CmdsIssued == \A i \in DOMAIN cmd : cmd[i].w \in issued
SpawnersIssued ==
    \A s \in Spawner :
        spawner[s].pc \notin {"check", "get"} => spawner[s].w \in issued

(* ... nothing exists of an id that was not generated yet...                *)
Unissued ==
    \A w \in Worker \ issued :
        ~store[w].owned /\ main[w] = "none" /\ thread[w].pc = "off"

(* ... a spawner that is about to write READY has started the process...    *)
Launched == {"confirm", "ready", "add"}
StartedFirst ==
    \A s \in Spawner : spawner[s].pc \in Launched => main[spawner[s].w] # "none"

(* ... and a process exits only after its record was removed.               *)
GoneUnlisted ==
    \A w \in Worker :
        main[w] = "exited" \/ thread[w].pc \in {"close", "exit"} => ~store[w].owned

Hands    == JobsIssued /\ CmdsIssued /\ SpawnersIssued /\ StartedFirst
Records  == Unissued /\ GoneUnlisted /\ ReadyHasProcess
Grounded == Hands /\ Records

-----------------------------------------------------------------------------
(* What disturbs each part.                                                 *)

LEMMA JobHands ==
    ASSUME Shape, JobsIssued, issued \subseteq issued',
           NEW a \in Agent, NEW j, Continue(a, j), j.pc = "put" => j.w \in issued'
    PROVE  JobsIssued'
  BY DEF Shape, TypeOK, JobsIssued, Continue

LEMMA BecomeHands ==
    ASSUME Shape, SpawnersIssued, StartedFirst, UNCHANGED issued,
           \A w \in Worker : main[w] # "none" => main'[w] # "none",
           NEW s \in Spawner, NEW r, Become(s, r),
           r.pc \notin {"check", "get"} => r.w \in issued,
           r.pc \in Launched => main'[r.w] # "none"
    PROVE  SpawnersIssued' /\ StartedFirst'
<1>1. \A t \in Spawner \ {s} : spawner'[t] = spawner[t]
  BY DEF Become, Shape, TypeOK
<1>2. spawner'[s] = r
  BY DEF Become, Shape, TypeOK
<1>3. \A t \in Spawner : spawner[t].pc \in Launched => spawner[t].w \in Worker
  BY DEF Shape, SpawnerShape, Launched
<1> QED  BY <1>1, <1>2, <1>3 DEF SpawnersIssued, StartedFirst

LEMMA GotoHands ==
    ASSUME Shape, SpawnersIssued, StartedFirst, UNCHANGED issued,
           \A w \in Worker : main[w] # "none" => main'[w] # "none",
           NEW s \in Spawner, NEW pc, Goto(s, pc),
           pc \in {"check", "get"} \/ spawner[s].pc \notin {"check", "get"},
           pc \in Launched => main'[spawner[s].w] # "none"
    PROVE  SpawnersIssued' /\ StartedFirst'
<1> DEFINE r == [spawner[s] EXCEPT !.pc = pc]
<1>1. r.pc = pc /\ r.w = spawner[s].w
  BY DEF Shape, TypeOK, SpawnerRecord
<1>2. Become(s, r)
  BY DEF Goto
<1> HIDE DEF r
<1> QED  BY <1>1, <1>2, BecomeHands DEF SpawnersIssued

LEMMA ReleaseHands ==
    ASSUME Shape, SpawnersIssued, StartedFirst, UNCHANGED <<issued, main>>,
           NEW s \in Spawner, Release(s)
    PROVE  SpawnersIssued' /\ StartedFirst'
  BY BecomeHands DEF Release, IdleSpawner, Launched

(* No write to a record, but those of AddRecord, SpawnerAdd, MainTop and    *)
(* MainGot, offers a worker that was not offered before.                    *)
NoNewOffer ==
    \A w \in Worker :
        store'[w].owned =>
            /\ store[w].owned
            /\ store'[w].status \in {"READY", "BUSY"} =>
                  store[w].status \in {"READY", "BUSY"} \/ Alive(w)

LEMMA RecordsKept ==
    ASSUME Records, NoNewOffer, UNCHANGED <<issued, main, thread>>
    PROVE  Records'
  BY DEF Records, Unissued, GoneUnlisted, ReadyHasProcess, NoNewOffer, Alive

LEMMA UpdateOffers ==
    ASSUME Shape, NEW w \in Worker, NEW s \in Statuses,
           store' = [store EXCEPT ![w] = UpdateWorkerStatus(@, s)],
           s \notin {"READY", "BUSY"} \/ Alive(w)
    PROVE  NoNewOffer
<1> DEFINE new == UpdateWorkerStatus(store[w], s)
<1>1. new.owned = store[w].owned /\ new.status \in {s, store[w].status}
  BY UpdateStatus DEF Shape, TypeOK
<1>2. store'[w] = new /\ \A v \in Worker \ {w} : store'[v] = store[v]
  BY DEF Shape, TypeOK
<1> HIDE DEF new
<1> QED  BY <1>1, <1>2 DEF NoNewOffer

LEMMA RemoveOffers ==
    ASSUME Shape, NEW w \in Worker, store' = [store EXCEPT ![w] = Absent]
    PROVE  NoNewOffer /\ ~store'[w].owned
  BY DEF Shape, TypeOK, NoNewOffer, Absent

-----------------------------------------------------------------------------
(* One lemma per kind of thread, one step per action.                       *)

LEMMA QuietJob ==
    ASSUME Shape, Grounded, UNCHANGED <<issued, cmd, spawner, main, thread>>,
           NEW a \in Agent, NEW j, Continue(a, j), j.pc # "put", NoNewOffer
    PROVE  Grounded'
<1>1. JobsIssued'
  BY JobHands DEF Grounded, Hands
<1>2. CmdsIssued' /\ SpawnersIssued' /\ StartedFirst'
  BY DEF Grounded, Hands, CmdsIssued, SpawnersIssued, StartedFirst
<1> QED  BY <1>1, <1>2, RecordsKept DEF Grounded, Hands

LEMMA NewRequestGrounded ==
    ASSUME Shape, Grounded, NEW c \in Client, NewRequest(c) PROVE Grounded'
<1>1. \E j : j.pc # "put" /\ Continue(c, j)
  BY DEF NewRequest, PostMessage, RequestWorkers, UpdateActor, StopWorker,
         CheckHealth, ForceQuit, DeleteActor, Begin, IdleJob
<1>2. UNCHANGED <<store, issued, cmd, spawner, main, thread>>
  BY DEF NewRequest, PostMessage, RequestWorkers, UpdateActor, StopWorker,
         CheckHealth, ForceQuit, DeleteActor, processVars
<1> QED  BY <1>1, <1>2, QuietJob DEF Agent, NoNewOffer

LEMMA JobStepGrounded ==
    ASSUME Shape, Grounded, NEW a \in Agent, JobStep(a) PROVE Grounded'
<1>0. job[a] \in JobRecord /\ IdleJob.pc = "idle"
  BY DEF Shape, TypeOK, IdleJob
<1>1. CASE \/ CheckActor(a) \/ CountWorkers(a) \/ SaveActor(a) \/ RetireActor(a)
           \/ ListWorkers(a) \/ SendStop(a) \/ EraseActor(a)
  <2>1. \E j : j.pc # "put" /\ Continue(a, j)
    BY <1>0, <1>1
    DEF CheckActor, CountWorkers, SaveActor, RetireActor, ListWorkers, SendStop,
        EraseActor, AfterStops, JobRecord
  <2>2. UNCHANGED <<store, issued, cmd, spawner, main, thread>>
    BY <1>1
    DEF CheckActor, CountWorkers, SaveActor, RetireActor, ListWorkers, SendStop,
        EraseActor, processVars
  <2> QED  BY <2>1, <2>2, QuietJob DEF NoNewOffer
<1>2. CASE AddRecord(a)
  <2>1. CASE Continue(a, IdleJob) /\ UNCHANGED <<store, issued>>
    BY <1>0, <1>2, <2>1, QuietJob DEF AddRecord, NoNewOffer, processVars
  <2>2. ASSUME NEW w \in Worker \ issued,
               store' = [store EXCEPT ![w] = RequestedDoc],
               issued' = issued \cup {w},
               Continue(a, [job[a] EXCEPT !.pc = "put", !.w = w])
        PROVE  Grounded'
    <3>1. JobsIssued'
      BY <1>0, <2>2, JobHands DEF Grounded, Hands, JobRecord
    <3>2. CmdsIssued' /\ SpawnersIssued' /\ StartedFirst'
      BY <1>2, <2>2
      DEF AddRecord, Grounded, Hands, CmdsIssued, SpawnersIssued, StartedFirst,
          processVars
    <3>3. Records'
      BY <1>2, <2>2
      DEF AddRecord, Shape, TypeOK, Grounded, Records, Unissued, GoneUnlisted,
          ReadyHasProcess, Alive, RequestedDoc, processVars
    <3> QED  BY <3>1, <3>2, <3>3 DEF Grounded, Hands
  <2> QED  BY <1>2, <2>1, <2>2 DEF AddRecord
<1>3. CASE PutCommand(a)
  <2>1. JobsIssued'
    BY <1>0, <1>3, JobHands DEF PutCommand, Grounded, Hands, JobRecord
  <2>2. CmdsIssued'
    <3>1. job[a].w \in issued
      BY <1>3 DEF PutCommand, Grounded, Hands, JobsIssued
    <3> QED
      BY <1>3, <3>1 DEF PutCommand, Shape, TypeOK, Grounded, Hands, CmdsIssued
  <2>3. SpawnersIssued' /\ StartedFirst'
    BY <1>3
    DEF PutCommand, Grounded, Hands, SpawnersIssued, StartedFirst, processVars
  <2>4. Records'
    BY <1>3, RecordsKept DEF PutCommand, Grounded, NoNewOffer, processVars
  <2> QED  BY <2>1, <2>2, <2>3, <2>4 DEF Grounded, Hands
<1>4. CASE MarkWorker(a)
  <2>1. PICK w \in job[a].todo :
          /\ store' = [store EXCEPT ![w] = UpdateWorkerStatus(@, "SHUTDOWN_REQUESTED")]
          /\ Continue(a, [job[a] EXCEPT !.pc = "send", !.w = w])
    BY <1>4 DEF MarkWorker
  <2>2. NoNewOffer
    BY <1>0, <2>1, UpdateOffers DEF JobRecord, Statuses
  <2>3. [job[a] EXCEPT !.pc = "send", !.w = w].pc # "put"
    BY <1>0 DEF JobRecord
  <2> QED  BY <1>4, <2>1, <2>2, <2>3, QuietJob DEF MarkWorker, processVars
<1>5. CASE TouchWorker(a)
  <2>1. NoNewOffer
    BY <1>0, <1>5, OtherWrites
    DEF TouchWorker, NoNewOffer, JobRecord, Shape, TypeOK
  <2>2. \E j : j.pc # "put" /\ Continue(a, j)
    BY <1>0, <1>5 DEF TouchWorker, JobRecord
  <2> QED  BY <1>5, <2>1, <2>2, QuietJob DEF TouchWorker, processVars
<1> QED  BY <1>1, <1>2, <1>3, <1>4, <1>5 DEF JobStep

(* The steps of a spawner other than SpawnerGet, Run and RunTimeout.        *)
LEMMA QuietSpawner ==
    ASSUME Shape, Grounded, UNCHANGED <<issued, job, cmd, main, thread>>, NoNewOffer,
           SpawnersIssued' /\ StartedFirst'
    PROVE  Grounded'
<1>1. JobsIssued' /\ CmdsIssued'
  BY DEF Grounded, Hands, JobsIssued, CmdsIssued
<1> QED  BY <1>1, RecordsKept DEF Grounded, Hands

LEMMA SpawnerStepGrounded ==
    ASSUME Shape, Grounded, NEW s \in Spawner, SpawnerStep(s) PROVE Grounded'
<1>0. /\ spawner[s] \in SpawnerRecord
      /\ spawner[s].pc \notin {"check", "get"} =>
           spawner[s].w \in Worker /\ spawner[s].w \in issued
      /\ SpawnersIssued /\ StartedFirst
      /\ \A w \in Worker : main[w] # "none" => main[w] # "none"
  BY DEF Shape, TypeOK, SpawnerShape, Grounded, Hands, SpawnersIssued
<1>1. CASE SpawnerCheck(s) \/ SpawnerReadWorker(s) \/ SpawnerRunError(s)
           \/ SpawnerErrActor(s) \/ SpawnerErrWorker(s)
  <2>1. SpawnersIssued' /\ StartedFirst'
    BY <1>0, <1>1, GotoHands, ReleaseHands
    DEF SpawnerCheck, SpawnerReadWorker, SpawnerRunError, SpawnerErrActor,
        SpawnerErrWorker, Launched, callerVars, processVars
  <2> QED
    BY <1>1, <2>1, QuietSpawner
    DEF SpawnerCheck, SpawnerReadWorker, SpawnerRunError, SpawnerErrActor,
        SpawnerErrWorker, NoNewOffer, callerVars, processVars
<1>2. CASE SpawnerConfirm(s) \/ SpawnerReady(s) \/ SpawnerSignal(s)
  <2>1. SpawnersIssued' /\ StartedFirst'
    BY <1>0, <1>2, GotoHands, ReleaseHands
    DEF SpawnerConfirm, SpawnerReady, SpawnerSignal, Launched, StartedFirst,
        callerVars, processVars
  <2> QED
    BY <1>2, <2>1, QuietSpawner
    DEF SpawnerConfirm, SpawnerReady, SpawnerSignal, NoNewOffer, callerVars,
        processVars
<1>3. CASE SpawnerSetup(s) \/ SpawnerPull(s) \/ SpawnerCreate(s)
  <2>1. SpawnersIssued' /\ StartedFirst'
    BY <1>0, <1>3, GotoHands
    DEF SpawnerSetup, SpawnerPull, SpawnerCreate, Launched, callerVars, processVars
  <2>2. NoNewOffer
    BY <1>0, <1>3, UpdateOffers
    DEF SpawnerSetup, SpawnerPull, SpawnerCreate, Statuses
  <2> QED
    BY <1>3, <2>1, <2>2, QuietSpawner
    DEF SpawnerSetup, SpawnerPull, SpawnerCreate, callerVars, processVars
<1>4. CASE SpawnerDrop(s) \/ SpawnerKill(s)
  <2>1. SpawnersIssued' /\ StartedFirst'
    BY <1>0, <1>4, GotoHands, ReleaseHands
    DEF SpawnerDrop, SpawnerKill, Launched, callerVars, processVars
  <2>2. NoNewOffer
    BY <1>0, <1>4, RemoveOffers DEF SpawnerDrop, SpawnerKill
  <2> QED
    BY <1>4, <2>1, <2>2, QuietSpawner
    DEF SpawnerDrop, SpawnerKill, callerVars, processVars
<1>5. CASE SpawnerReadActor(s) \/ SpawnerStopList(s) \/ SpawnerStopEach(s)
  <2>1. \/ Release(s)
        \/ \E r : Become(s, r) /\ r.w = spawner[s].w /\ r.pc \in {"worker", "stopEach"}
    <3>2. CASE SpawnerReadActor(s)
      <4> DEFINE r == [spawner[s] EXCEPT !.pc = "worker", !.bad = (actor.status = "ERROR")]
      <4>1. r.w = spawner[s].w /\ r.pc = "worker"
        BY <1>0 DEF SpawnerRecord
      <4>2. Release(s) \/ Become(s, r)
        BY <3>2 DEF SpawnerReadActor
      <4> QED  BY <4>1, <4>2
    <3>3. CASE SpawnerStopList(s)
      <4>1. PICK others : \/ Release(s)
                          \/ Become(s, [spawner[s] EXCEPT !.pc = "stopEach", !.todo = others])
        BY <3>3 DEF SpawnerStopList
      <4> DEFINE r == [spawner[s] EXCEPT !.pc = "stopEach", !.todo = others]
      <4>2. r.w = spawner[s].w /\ r.pc = "stopEach"
        BY <1>0 DEF SpawnerRecord
      <4> QED  BY <4>1, <4>2
    <3>4. CASE SpawnerStopEach(s)
      <4>1. PICK v \in spawner[s].todo :
              \/ Release(s)
              \/ Become(s, [spawner[s] EXCEPT !.todo = @ \ {v}])
        BY <3>4 DEF SpawnerStopEach
      <4> DEFINE r == [spawner[s] EXCEPT !.todo = @ \ {v}]
      <4>2. r.w = spawner[s].w /\ r.pc = "stopEach"
        BY <1>0, <3>4 DEF SpawnerStopEach, SpawnerRecord
      <4> QED  BY <4>1, <4>2
    <3> QED  BY <1>5, <3>2, <3>3, <3>4
  <2>2. /\ spawner[s].w \in issued
        /\ UNCHANGED <<store, issued, job, cmd, main, thread>>
    BY <1>0, <1>5
    DEF SpawnerReadActor, SpawnerStopList, SpawnerStopEach, callerVars, processVars
  <2>3. SpawnersIssued' /\ StartedFirst'
    BY <1>0, <2>1, <2>2, BecomeHands, ReleaseHands DEF Launched
  <2> QED  BY <2>2, <2>3, QuietSpawner DEF NoNewOffer
<1>6. CASE SpawnerGet(s)
  <2> DEFINE r == [spawner[s] EXCEPT !.pc = "actor", !.w = Head(cmd).w,
                                     !.stop = Head(cmd).stop]
  <2>1. r.pc = "actor" /\ r.w = Head(cmd).w
    BY <1>0 DEF SpawnerRecord
  <2>2. Head(cmd).w \in issued /\ CmdsIssued'
    <3>1. cmd \in Seq(Command) /\ cmd # <<>> /\ cmd' = Tail(cmd) /\ UNCHANGED issued
      BY <1>6 DEF SpawnerGet, Shape, TypeOK, callerVars
    <3>2. Head(cmd) = cmd[1] /\ 1 \in DOMAIN cmd
      BY <3>1
    <3>3. \A i \in DOMAIN cmd' : cmd'[i] = cmd[i + 1] /\ i + 1 \in DOMAIN cmd
      BY <3>1
    <3> QED  BY <3>1, <3>2, <3>3 DEF Grounded, Hands, CmdsIssued
  <2>3. Become(s, r) /\ UNCHANGED <<store, issued, job, main, thread>>
    BY <1>6 DEF SpawnerGet, callerVars, processVars
  <2> HIDE DEF r
  <2>4. SpawnersIssued' /\ StartedFirst'
    BY <1>0, <2>1, <2>2, <2>3, BecomeHands DEF Launched
  <2>5. JobsIssued'
    BY <2>3 DEF Grounded, Hands, JobsIssued
  <2>6. Records'
    BY <2>3, RecordsKept DEF Grounded, NoNewOffer
  <2> QED  BY <2>2, <2>4, <2>5, <2>6 DEF Grounded, Hands
<1>7. CASE SpawnerRun(s) \/ SpawnerRunTimeout(s)
  <2> DEFINE w == spawner[s].w
  <2>1. /\ w \in Worker /\ w \in issued
        /\ UNCHANGED <<store, issued, job, cmd, thread>>
    BY <1>0, <1>7 DEF SpawnerRun, SpawnerRunTimeout, callerVars
  <2>2. main' = main \/ (main[w] = "none" /\ main' = [main EXCEPT ![w] = "waiting"])
    BY <1>7 DEF SpawnerRun, SpawnerRunTimeout
  <2>3. \A v \in Worker : main[v] # "none" => main'[v] # "none"
    BY <2>1, <2>2 DEF Shape, TypeOK
  <2>4. \/ Goto(s, "confirm") /\ main'[w] # "none"
        \/ Goto(s, "run")
        \/ Goto(s, "errActor")
    BY <1>7, <2>1 DEF SpawnerRun, SpawnerRunTimeout, Shape, TypeOK
  <2>5. spawner[s].pc = "run"
    BY <1>7 DEF SpawnerRun, SpawnerRunTimeout
  <2>6. SpawnersIssued' /\ StartedFirst'
    BY <1>0, <2>1, <2>3, <2>4, <2>5, GotoHands DEF Launched
  <2>7. Records'
    BY <2>1, <2>2
    DEF Shape, TypeOK, Grounded, Records, Unissued, GoneUnlisted,
        ReadyHasProcess, Alive
  <2>8. JobsIssued' /\ CmdsIssued'
    BY <2>1 DEF Grounded, Hands, JobsIssued, CmdsIssued
  <2> QED  BY <2>6, <2>7, <2>8 DEF Grounded, Hands
<1>8. CASE SpawnerAdd(s)
  <2> DEFINE w == spawner[s].w
  <2>1. w \in Worker /\ main[w] # "none"
    BY <1>0, <1>8 DEF SpawnerAdd, StartedFirst, Launched
  <2>2. NoNewOffer
    <3>1. AddWorker(store[w]).owned = store[w].owned
      BY <2>1, OtherWrites DEF Shape, TypeOK
    <3>2. store[w].owned => Alive(w)
      BY <2>1 DEF Grounded, Records, GoneUnlisted, Alive
    <3>3. /\ store'[w] = AddWorker(store[w])
          /\ \A v \in Worker \ {w} : store'[v] = store[v]
      BY <1>8, <2>1 DEF SpawnerAdd, Shape, TypeOK
    <3> QED  BY <3>1, <3>2, <3>3 DEF NoNewOffer
  <2>3. SpawnersIssued' /\ StartedFirst'
    BY <1>0, <1>8, GotoHands DEF SpawnerAdd, Launched, callerVars, processVars
  <2> QED
    BY <1>8, <2>2, <2>3, QuietSpawner DEF SpawnerAdd, callerVars, processVars
<1> QED
  BY <1>1, <1>2, <1>3, <1>4, <1>5, <1>6, <1>7, <1>8 DEF SpawnerStep

LEMMA MainStepGrounded ==
    ASSUME Shape, Grounded, NEW w \in Worker, MainStep(w) PROVE Grounded'
<1>1. /\ Alive(w) /\ Alive(w)'
      /\ \A v \in Worker \ {w} : main'[v] = main[v]
  BY DEF MainStep, MainStart, MainKeep, MainTop, MainGet, MainGot, MainReadActor,
         MainDone, MainTouch, MainStartError, MainSetError, MainAckError,
         MainGiveUp, Alive, Shape, TypeOK
<1>2. /\ UNCHANGED <<issued, cmd, spawner>>
      /\ \/ UNCHANGED job
         \/ Continue(w, [IdleJob EXCEPT !.pc = "list", !.op = "giveup"])
  BY DEF MainStep, MainStart, MainKeep, MainTop, MainGet, MainGot, MainReadActor,
         MainDone, MainTouch, MainStartError, MainSetError, MainAckError,
         MainGiveUp, sharedVars
<1>3. JobsIssued'
  <2>1. CASE UNCHANGED job
    BY <1>2, <2>1 DEF Grounded, Hands, JobsIssued
  <2>2. CASE Continue(w, [IdleJob EXCEPT !.pc = "list", !.op = "giveup"])
    BY <1>2, <2>2, JobHands DEF Grounded, Hands, IdleJob, Agent
  <2> QED  BY <1>2, <2>1, <2>2
<1>4. CmdsIssued' /\ SpawnersIssued' /\ StartedFirst'
  <2>1. \A s \in Spawner : spawner[s].pc \in Launched => spawner[s].w \in Worker
    BY DEF Shape, SpawnerShape, Launched
  <2> QED
    BY <1>1, <1>2, <2>1
    DEF Grounded, Hands, CmdsIssued, SpawnersIssued, StartedFirst, Alive
<1>5. \A v \in Worker : thread'[v].pc = thread[v].pc \/ (v = w /\ thread'[v].pc = "listen")
  BY DEF MainStep, MainStart, MainKeep, MainTop, MainGet, MainGot, MainReadActor,
         MainDone, MainTouch, MainStartError, MainSetError, MainAckError,
         MainGiveUp, Shape, TypeOK
<1>6. NoNewOffer
  <2>1. CASE UNCHANGED store
    BY <2>1 DEF NoNewOffer
  <2>2. CASE \E s \in {"READY", "BUSY"} :
               store' = [store EXCEPT ![w] = UpdateWorkerStatus(@, s)]
    BY <1>1, <2>2, UpdateOffers DEF Statuses
  <2>3. CASE store' = [store EXCEPT ![w] = TouchUpsert(@)]
    BY <2>3, OtherWrites DEF NoNewOffer, Shape, TypeOK
  <2> QED
    BY <2>1, <2>2, <2>3
    DEF MainStep, MainStart, MainKeep, MainTop, MainGet, MainGot, MainReadActor,
        MainDone, MainTouch, MainStartError, MainSetError, MainAckError, MainGiveUp
<1>7. Records'
  BY <1>1, <1>2, <1>5, <1>6
  DEF Grounded, Records, Unissued, GoneUnlisted, ReadyHasProcess, NoNewOffer, Alive
<1> QED  BY <1>3, <1>4, <1>7 DEF Grounded, Hands

LEMMA ThreadStepGrounded ==
    ASSUME Shape, Grounded, NEW w \in Worker, ThreadStep(w) PROVE Grounded'
<1>1. /\ UNCHANGED <<issued, cmd, spawner>>
      /\ \A v \in Worker \ {w} : main'[v] = main[v] /\ thread'[v] = thread[v]
      /\ main'[w] \in {main[w], "exited"}
      /\ thread[w].pc # "off"
  BY DEF ThreadStep, ThreadGet, ThreadMark, ThreadDelete, ThreadClose, ThreadExit,
         sharedVars, Shape, TypeOK
<1>2. w \in issued
  BY <1>1 DEF Grounded, Records, Unissued
<1>3. JobsIssued'
  <2>1. UNCHANGED job
    BY DEF ThreadStep, ThreadGet, ThreadMark, ThreadDelete, ThreadClose, ThreadExit
  <2> QED  BY <1>1, <2>1 DEF Grounded, Hands, JobsIssued
<1>4. CmdsIssued' /\ SpawnersIssued' /\ StartedFirst'
  <2>1. \A s \in Spawner : spawner[s].pc \in Launched => spawner[s].w \in Worker
    BY DEF Shape, SpawnerShape, Launched
  <2> QED
    BY <1>1, <2>1
    DEF Grounded, Hands, CmdsIssued, SpawnersIssued, StartedFirst
<1>5. NoNewOffer
  <2>1. CASE ThreadMark(w)
    BY <2>1, UpdateOffers DEF ThreadMark, Statuses
  <2>2. CASE ThreadDelete(w)
    BY <2>2, RemoveOffers DEF ThreadDelete
  <2>3. CASE ThreadGet(w) \/ ThreadClose(w) \/ ThreadExit(w)
    BY <2>3 DEF ThreadGet, ThreadClose, ThreadExit, NoNewOffer
  <2> QED  BY <2>1, <2>2, <2>3 DEF ThreadStep
<1>6. main'[w] = "exited" \/ thread'[w].pc \in {"close", "exit"} => ~store'[w].owned
  <2>1. CASE ThreadGet(w) \/ ThreadMark(w)
    <3>1. UNCHANGED main /\ thread'[w].pc \in {"listen", "mark", "delete"}
      BY <2>1 DEF ThreadGet, ThreadMark, Shape, TypeOK
    <3> QED
      BY <1>5, <3>1 DEF Grounded, Records, GoneUnlisted, NoNewOffer
  <2>2. CASE ThreadDelete(w)
    BY <2>2, RemoveOffers DEF ThreadDelete
  <2>3. CASE ThreadClose(w) \/ ThreadExit(w)
    BY <2>3
    DEF ThreadClose, ThreadExit, Shape, TypeOK, Grounded, Records, GoneUnlisted
  <2> QED  BY <2>1, <2>2, <2>3 DEF ThreadStep
<1>7. Records'
  BY <1>1, <1>2, <1>5, <1>6
  DEF Grounded, Records, Unissued, GoneUnlisted, ReadyHasProcess, NoNewOffer, Alive
<1> QED  BY <1>3, <1>4, <1>7 DEF Grounded, Hands

LEMMA InitGrounded == Init => Grounded
<1> SUFFICES ASSUME Init PROVE Grounded
  OBVIOUS
<1>1. Hands
  BY DEF Init, Hands, JobsIssued, CmdsIssued, SpawnersIssued, StartedFirst,
         Launched, IdleJob, IdleSpawner
<1>2. Records
  BY DEF Init, Records, Unissued, GoneUnlisted, ReadyHasProcess, Absent
<1> QED  BY <1>1, <1>2 DEF Grounded

LEMMA NextGrounded == Shape /\ Grounded /\ [Next]_vars => Grounded'
<1> SUFFICES ASSUME Shape, Grounded, [Next]_vars PROVE Grounded'
  OBVIOUS
<1>1. CASE Next
  BY <1>1, NewRequestGrounded, JobStepGrounded, SpawnerStepGrounded,
     MainStepGrounded, ThreadStepGrounded DEF Next
<1>2. CASE UNCHANGED vars
  BY <1>2 DEF vars, Grounded, Hands, Records, JobsIssued, CmdsIssued,
              SpawnersIssued, Unissued, StartedFirst, GoneUnlisted,
              ReadyHasProcess, Alive
<1> QED  BY <1>1, <1>2

(* Every record of the actor in status READY or BUSY has a live process, in *)
(* every reachable state, whatever fails and however many requests race.    *)
THEOREM ReadyHasProcessCorrect == Spec => []ReadyHasProcess
<1>1. Init => Shape /\ Grounded
  BY InitShape, InitGrounded
<1>2. Shape /\ Grounded /\ [Next]_vars => Shape' /\ Grounded'
  BY NextShape, NextGrounded
<1>3. Grounded => ReadyHasProcess
  BY DEF Grounded, Records
<1> QED  BY <1>1, <1>2, <1>3, PTL DEF Spec

-----------------------------------------------------------------------------
(* One pair of hands: the places that OneHandler counts, taken two by two.  *)
TwoJobs     == \A a, b \in Agent :
                  job[a].pc = "put" /\ job[b].pc = "put" /\ job[a].w = job[b].w => a = b
TwoCmds     == \A i, j \in DOMAIN cmd : cmd[i].w = cmd[j].w => i = j
TwoSpawners == \A s, t \in Spawner :
                  spawner[s].w \in Worker /\ spawner[s].w = spawner[t].w => s = t
JobOrCmd    == \A a \in Agent, i \in DOMAIN cmd : job[a].pc = "put" => cmd[i].w # job[a].w
JobOrSpawner == \A a \in Agent, s \in Spawner : job[a].pc = "put" => spawner[s].w # job[a].w
CmdOrSpawner == \A i \in DOMAIN cmd, s \in Spawner : spawner[s].w # cmd[i].w

OneHolder == TwoJobs /\ TwoCmds /\ TwoSpawners /\ JobOrCmd /\ JobOrSpawner /\ CmdOrSpawner

LEMMA FewerHolders ==
    ASSUME Shape, OneHolder, UNCHANGED cmd,
           \A a \in Agent : job'[a].pc = "put" => job[a].pc = "put" /\ job'[a].w = job[a].w,
           \A s \in Spawner : spawner'[s].w \in {spawner[s].w, NoWorker}
    PROVE  OneHolder'
<1>1. /\ \A a \in Agent : job[a].pc = "put" => job[a].w \in Worker
      /\ \A i \in DOMAIN cmd : cmd[i].w \in Worker
      /\ NoWorker \notin Worker
  <2>1. \A i \in DOMAIN cmd : cmd[i] \in Command
    BY DEF Shape, TypeOK
  <2>2. \A a \in Agent : job[a].pc = "put" => job[a].w \in Worker
    BY DEF Shape, JobShape, JobFits
  <2> QED  BY <2>1, <2>2, PoolAssumption DEF Command
<1>2. TwoJobs' /\ TwoCmds' /\ TwoSpawners'
  BY <1>1 DEF OneHolder, TwoJobs, TwoCmds, TwoSpawners
<1>3. JobOrCmd' /\ JobOrSpawner' /\ CmdOrSpawner'
  BY <1>1 DEF OneHolder, JobOrCmd, JobOrSpawner, CmdOrSpawner
<1> QED  BY <1>2, <1>3 DEF OneHolder

(* The caller goes on to something other than putting a command.            *)
LEMMA QuietJobHolders ==
    ASSUME Shape, OneHolder, UNCHANGED <<cmd, spawner>>,
           NEW a \in Agent, NEW j, Continue(a, j), j.pc # "put"
    PROVE  OneHolder'
<1>1. \A b \in Agent : job'[b].pc = "put" => job[b].pc = "put" /\ job'[b].w = job[b].w
  BY DEF Continue, Shape, TypeOK
<1> QED  BY <1>1, FewerHolders

LEMMA JobStepHolders ==
    ASSUME Shape, Grounded, OneHolder, NEW a \in Agent, JobStep(a) PROVE OneHolder'
<1>0. job[a] \in JobRecord /\ IdleJob.pc = "idle"
  BY DEF Shape, TypeOK, IdleJob
<1>1. CASE \/ CheckActor(a) \/ CountWorkers(a) \/ SaveActor(a) \/ RetireActor(a)
           \/ ListWorkers(a) \/ SendStop(a) \/ EraseActor(a)
  <2>1. \E j : j.pc # "put" /\ Continue(a, j)
    BY <1>0, <1>1
    DEF CheckActor, CountWorkers, SaveActor, RetireActor, ListWorkers, SendStop,
        EraseActor, AfterStops, JobRecord
  <2>2. UNCHANGED <<cmd, spawner>>
    BY <1>1
    DEF CheckActor, CountWorkers, SaveActor, RetireActor, ListWorkers, SendStop,
        EraseActor
  <2> QED  BY <2>1, <2>2, QuietJobHolders
<1>2. CASE MarkWorker(a) \/ TouchWorker(a)
  <2>1. \E j : j.pc # "put" /\ Continue(a, j)
    BY <1>0, <1>2 DEF MarkWorker, TouchWorker, JobRecord
  <2>2. UNCHANGED <<cmd, spawner>>
    BY <1>2 DEF MarkWorker, TouchWorker
  <2> QED  BY <2>1, <2>2, QuietJobHolders
<1>3. CASE AddRecord(a)
  <2>1. CASE Continue(a, IdleJob)
    BY <1>0, <1>3, <2>1, QuietJobHolders DEF AddRecord
  <2>2. ASSUME NEW w \in Worker \ issued, Continue(a, [job[a] EXCEPT !.pc = "put", !.w = w])
        PROVE  OneHolder'
    <3>1. /\ job'[a].w = w /\ \A b \in Agent \ {a} : job'[b] = job[b]
          /\ UNCHANGED <<cmd, spawner>>
      BY <1>0, <1>3, <2>2 DEF AddRecord, Continue, Shape, TypeOK, JobRecord
    <3>2. /\ \A b \in Agent : job[b].pc = "put" => job[b].w # w
          /\ \A i \in DOMAIN cmd : cmd[i].w # w
          /\ \A s \in Spawner : spawner[s].w # w
      BY <2>2, PoolAssumption
      DEF Grounded, Hands, JobsIssued, CmdsIssued, SpawnersIssued, Shape, SpawnerShape
    <3>3. TwoJobs' /\ JobOrCmd' /\ JobOrSpawner'
      BY <3>1, <3>2 DEF OneHolder, TwoJobs, JobOrCmd, JobOrSpawner
    <3>4. TwoCmds' /\ TwoSpawners' /\ CmdOrSpawner'
      BY <3>1 DEF OneHolder, TwoCmds, TwoSpawners, CmdOrSpawner
    <3> QED  BY <3>3, <3>4 DEF OneHolder
  <2> QED  BY <1>3, <2>1, <2>2 DEF AddRecord
<1>4. CASE PutCommand(a)
  <2> DEFINE new == [w |-> job[a].w, stop |-> job[a].op = "update"]
  <2>1. /\ job[a].pc = "put" /\ cmd' = Append(cmd, new) /\ UNCHANGED spawner
        /\ cmd \in Seq(Command) /\ new.w = job[a].w /\ job[a].w \in Worker
    BY <1>4 DEF PutCommand, Shape, TypeOK, JobShape, JobFits
  <2>2. job'[a].pc # "put" /\ \A b \in Agent \ {a} : job'[b] = job[b]
    BY <1>0, <1>4 DEF PutCommand, Continue, Shape, TypeOK, JobRecord
  <2> HIDE DEF new
  <2>3. PICK w \in Worker : w = job[a].w
    BY <2>1
  <2>4. \A i \in DOMAIN cmd' : \/ i \in DOMAIN cmd /\ cmd'[i].w = cmd[i].w
                               \/ i = Len(cmd) + 1 /\ cmd'[i].w = w
    BY <2>1, <2>3
  <2>5. /\ \A b \in Agent \ {a} : job[b].pc = "put" => job[b].w # w
        /\ \A i \in DOMAIN cmd : cmd[i].w # w
        /\ \A s \in Spawner : spawner[s].w # w
    BY <2>1, <2>3 DEF OneHolder, TwoJobs, JobOrCmd, JobOrSpawner
  <2>6. TwoJobs' /\ TwoSpawners' /\ JobOrSpawner'
    BY <2>1, <2>2 DEF OneHolder, TwoJobs, TwoSpawners, JobOrSpawner
  <2>7. TwoCmds' /\ JobOrCmd' /\ CmdOrSpawner'
    BY <2>1, <2>2, <2>4, <2>5 DEF OneHolder, TwoCmds, JobOrCmd, CmdOrSpawner
  <2> QED  BY <2>6, <2>7 DEF OneHolder
<1> QED  BY <1>1, <1>2, <1>3, <1>4 DEF JobStep

LEMMA SpawnerStepHolders ==
    ASSUME Shape, OneHolder, NEW s \in Spawner, SpawnerStep(s) PROVE OneHolder'
<1>0. spawner \in [Spawner -> SpawnerRecord] /\ IdleSpawner.w = NoWorker
  BY DEF Shape, TypeOK, IdleSpawner
<1>1. ASSUME UNCHANGED <<cmd, job>>, NEW r, Become(s, r), r.w \in {spawner[s].w, NoWorker}
      PROVE  OneHolder'
  BY <1>0, <1>1, FewerHolders DEF Become
<1>2. CASE SpawnerGet(s)
  <2> DEFINE r == [spawner[s] EXCEPT !.pc = "actor", !.w = Head(cmd).w,
                                     !.stop = Head(cmd).stop]
  <2>1. /\ cmd \in Seq(Command) /\ cmd # <<>> /\ cmd' = Tail(cmd) /\ UNCHANGED job
        /\ Become(s, r)
    BY <1>2 DEF SpawnerGet, Shape, TypeOK, callerVars
  <2>2. r.w = cmd[1].w
    BY <1>0, <2>1 DEF SpawnerRecord
  <2>3. spawner'[s].w = cmd[1].w /\ \A t \in Spawner \ {s} : spawner'[t] = spawner[t]
    BY <1>0, <2>1, <2>2 DEF Become
  <2>4. /\ 1 \in DOMAIN cmd
        /\ \A i \in DOMAIN cmd' : i \in Nat /\ cmd'[i] = cmd[i + 1] /\ i + 1 \in DOMAIN cmd /\ i + 1 # 1
    BY <2>1
  <2>5. TwoJobs' /\ JobOrCmd'
    BY <2>1, <2>4 DEF OneHolder, TwoJobs, JobOrCmd
  <2>6. TwoCmds'
    <3>1. SUFFICES ASSUME NEW i \in DOMAIN cmd', NEW j \in DOMAIN cmd', cmd'[i].w = cmd'[j].w
                   PROVE  i = j
      BY DEF TwoCmds
    <3>2. i + 1 = j + 1
      BY <2>4, <3>1 DEF OneHolder, TwoCmds
    <3> QED  BY <2>4, <3>2
  <2>7. TwoSpawners' /\ JobOrSpawner'
    BY <2>1, <2>3, <2>4 DEF OneHolder, TwoSpawners, JobOrSpawner, CmdOrSpawner, JobOrCmd
  <2>8. CmdOrSpawner'
    BY <2>3, <2>4 DEF OneHolder, CmdOrSpawner, TwoCmds
  <2> QED  BY <2>5, <2>6, <2>7, <2>8 DEF OneHolder
<1>3. CASE ~SpawnerGet(s)
  <2>1. UNCHANGED <<cmd, job>>
    BY <1>3 DEF SpawnerStep, SpawnerCheck, SpawnerReadActor, SpawnerReadWorker, SpawnerDrop,
       SpawnerSetup, SpawnerPull, SpawnerCreate, SpawnerRun, SpawnerRunTimeout,
       SpawnerRunError, SpawnerKill, SpawnerConfirm, SpawnerReady, SpawnerAdd,
       SpawnerSignal, SpawnerStopList, SpawnerStopEach, SpawnerErrActor,
       SpawnerErrWorker, callerVars
  <2>2. ASSUME NEW pc, Goto(s, pc) PROVE OneHolder'
    <3>1. [spawner[s] EXCEPT !.pc = pc].w = spawner[s].w
      BY <1>0 DEF SpawnerRecord
    <3> QED  BY <1>1, <2>1, <2>2, <3>1 DEF Goto
  <2>3. ASSUME Release(s) PROVE OneHolder'
    BY <1>0, <1>1, <2>1, <2>3 DEF Release
  <2>4. CASE \E pc : Goto(s, pc)
    BY <2>2, <2>4
  <2>5. CASE SpawnerReadActor(s)
    <3>1. [spawner[s] EXCEPT !.pc = "worker", !.bad = (actor.status = "ERROR")].w = spawner[s].w
      BY <1>0 DEF SpawnerRecord
    <3> QED  BY <1>1, <2>1, <2>3, <2>5, <3>1 DEF SpawnerReadActor
  <2>6. CASE SpawnerStopList(s)
    <3>1. PICK others : \/ Release(s)
                        \/ Become(s, [spawner[s] EXCEPT !.pc = "stopEach", !.todo = others])
      BY <2>6 DEF SpawnerStopList
    <3>2. [spawner[s] EXCEPT !.pc = "stopEach", !.todo = others].w = spawner[s].w
      BY <1>0 DEF SpawnerRecord
    <3> QED  BY <1>1, <2>1, <2>3, <3>1, <3>2
  <2>7. CASE SpawnerStopEach(s)
    <3>1. PICK v \in spawner[s].todo :
            Release(s) \/ Become(s, [spawner[s] EXCEPT !.todo = @ \ {v}])
      BY <2>7 DEF SpawnerStopEach
    <3>2. [spawner[s] EXCEPT !.todo = @ \ {v}].w = spawner[s].w
      BY <1>0 DEF SpawnerRecord
    <3> QED  BY <1>1, <2>1, <2>3, <3>1, <3>2
  <2>8. CASE ~(SpawnerReadActor(s) \/ SpawnerStopList(s) \/ SpawnerStopEach(s))
    <3>1. Release(s) \/ \E pc : Goto(s, pc)
      BY <1>3, <2>8 DEF SpawnerStep, SpawnerCheck, SpawnerReadWorker, SpawnerDrop,
         SpawnerSetup, SpawnerPull, SpawnerCreate, SpawnerRun, SpawnerRunTimeout,
         SpawnerRunError, SpawnerKill, SpawnerConfirm, SpawnerReady, SpawnerAdd,
         SpawnerSignal, SpawnerErrActor, SpawnerErrWorker
    <3> QED  BY <2>3, <2>4, <3>1
  <2> QED  BY <2>5, <2>6, <2>7, <2>8
<1> QED  BY <1>2, <1>3

LEMMA NextHolders == Shape /\ Grounded /\ OneHolder /\ [Next]_vars => OneHolder'
<1> SUFFICES ASSUME Shape, Grounded, OneHolder, [Next]_vars PROVE OneHolder'
  OBVIOUS
<1>1. ASSUME NEW c \in Client, NewRequest(c) PROVE OneHolder'
  <2>1. \E j : j.pc # "put" /\ Continue(c, j)
    BY <1>1
    DEF NewRequest, PostMessage, RequestWorkers, UpdateActor, StopWorker, CheckHealth,
        ForceQuit, DeleteActor, Begin, IdleJob
  <2>2. UNCHANGED <<cmd, spawner>>
    BY <1>1
    DEF NewRequest, PostMessage, RequestWorkers, UpdateActor, StopWorker, CheckHealth,
        ForceQuit, DeleteActor
  <2> QED  BY <2>1, <2>2, QuietJobHolders DEF Agent
<1>2. ASSUME NEW w \in Worker, MainStep(w) \/ ThreadStep(w) PROVE OneHolder'
  <2>1. UNCHANGED job \/ \E j : j.pc # "put" /\ Continue(w, j)
    BY <1>2
    DEF MainStep, MainStart, MainKeep, MainTop, MainGet, MainGot, MainReadActor,
        MainDone, MainTouch, MainStartError, MainSetError, MainAckError, MainGiveUp,
        ThreadStep, ThreadGet, ThreadMark, ThreadDelete, ThreadClose, ThreadExit, IdleJob
  <2>2. UNCHANGED <<cmd, spawner>>
    BY <1>2
    DEF MainStep, MainStart, MainKeep, MainTop, MainGet, MainGot, MainReadActor,
        MainDone, MainTouch, MainStartError, MainSetError, MainAckError, MainGiveUp,
        ThreadStep, ThreadGet, ThreadMark, ThreadDelete, ThreadClose, ThreadExit, sharedVars
  <2> QED  BY <2>1, <2>2, QuietJobHolders, FewerHolders DEF Agent
<1>3. CASE UNCHANGED vars
  BY <1>3, FewerHolders DEF vars
<1> QED  BY <1>1, <1>2, <1>3, JobStepHolders, SpawnerStepHolders DEF Next

LEMMA InitHolders == Init => OneHolder
<1> SUFFICES ASSUME Init PROVE OneHolder
  OBVIOUS
<1>1. /\ \A a \in Agent : job[a].pc # "put"
      /\ DOMAIN cmd = {} /\ \A s \in Spawner : spawner[s].w = NoWorker
  BY DEF Init, IdleJob, IdleSpawner
<1> QED
  BY <1>1, PoolAssumption
  DEF OneHolder, TwoJobs, TwoCmds, TwoSpawners, JobOrCmd, JobOrSpawner, CmdOrSpawner

(* A set all of whose members are equal.                                    *)
LEMMA AtMostOne ==
    ASSUME NEW S, \A x, y \in S : x = y
    PROVE  Cardinality(S) = IF S = {} THEN 0 ELSE 1
<1>1. CASE S = {}
  BY <1>1, FS_EmptySet
<1>2. CASE S # {}
  <2>1. PICK x : S = {x}
    BY <1>2
  <2> QED  BY <1>2, <2>1, FS_Singleton
<1> QED  BY <1>1, <1>2

LEMMA HoldersCounted == OneHolder => OneHandler
<1> SUFFICES ASSUME OneHolder, NEW w \in Worker
             PROVE  Cardinality(Putting(w)) + Cardinality(Queued(w))
                      + Cardinality(HandledBy(w)) <= 1
  BY DEF OneHandler
<1>1. Cardinality(Putting(w)) = IF Putting(w) = {} THEN 0 ELSE 1
  BY AtMostOne DEF Putting, OneHolder, TwoJobs
<1>2. Cardinality(Queued(w)) = IF Queued(w) = {} THEN 0 ELSE 1
  BY AtMostOne DEF Queued, OneHolder, TwoCmds
<1>3. Cardinality(HandledBy(w)) = IF HandledBy(w) = {} THEN 0 ELSE 1
  BY AtMostOne DEF HandledBy, OneHolder, TwoSpawners
<1>4. /\ Putting(w) = {} \/ Queued(w) = {}
      /\ Putting(w) = {} \/ HandledBy(w) = {}
      /\ Queued(w) = {} \/ HandledBy(w) = {}
  BY DEF Putting, Queued, HandledBy, OneHolder, JobOrCmd, JobOrSpawner, CmdOrSpawner
<1> QED  BY <1>1, <1>2, <1>3, <1>4

(* No two spawners, commands or handlers ever hold the same worker id,      *)
(* whatever fails and however many of them there are.                       *)
THEOREM OneHandlerCorrect == Spec => []OneHandler
<1>1. Init => Shape /\ Grounded /\ OneHolder
  BY InitShape, InitGrounded, InitHolders
<1>2. Shape /\ Grounded /\ OneHolder /\ [Next]_vars => Shape' /\ Grounded' /\ OneHolder'
  BY NextShape, NextGrounded, NextHolders
<1> QED  BY <1>1, <1>2, HoldersCounted, PTL DEF Spec

-----------------------------------------------------------------------------
(* A stop is on its way: the inductive invariant.  A caller that is about   *)
(* to send a message, a force_quit excepted, has marked the worker...       *)
Sends(a, w) == job[a].pc = "send" /\ job[a].w = w /\ job[a].op # "force"
Told(w)     == \E i \in DOMAIN wch[w] : wch[w][i] \in StopMsgs
Marked(w)   == store[w].status = "SHUTDOWN_REQUESTED" /\ main[w] # "exited"
Heard(w)    == Marked(w) => (\E a \in Agent : Sends(a, w)) \/ Told(w) \/ Stopping(w)

(* ... a force_quit goes to one worker, that was not marked for it...       *)
ForceSends == \A a \in Agent :
    job[a].op = "force" => job[a].pc = "send" /\ job[a].todo = {job[a].w}

(* ... a worker calls the worker API at its end only...                     *)
Callers == \A w \in Worker : job[w].pc # "idle" => main[w] \in {"ended", "exited"}

(* ... and the channel thread does not run before the main thread starts it.*)
Unthreaded == \A w \in Worker :
    main[w] \in {"none", "waiting", "exited"} => thread[w].pc = "off"

StopsHeard == ForceSends /\ Callers /\ Unthreaded /\ \A w \in Worker : Heard(w)

(* What leaves the way of a stop message as it is, or one step further.     *)
LEMMA StillHeard ==
    ASSUME NEW w \in Worker, Heard(w), Marked(w)' => Marked(w),
           \A a \in Agent : Sends(a, w) => Sends(a, w)' \/ Told(w)',
           Told(w) => Told(w)' \/ Stopping(w)',
           Stopping(w) => Stopping(w)' \/ main'[w] = "exited"
    PROVE  Heard(w)'
BY DEF Heard, Marked

(* No status but SHUTDOWN_REQUESTED marks a worker.                         *)
NoNewMark == \A w \in Worker : Marked(w)' => Marked(w)
ExitIsFinal == \A w \in Worker : main[w] = "exited" => main'[w] = "exited"

LEMMA UpdateMarks ==
    ASSUME Shape, NEW w \in Worker, NEW s \in Statuses \ {"SHUTDOWN_REQUESTED"},
           store' = [store EXCEPT ![w] = UpdateWorkerStatus(@, s)],
           ExitIsFinal
    PROVE  NoNewMark
<1>1. store[w] \in Doc /\ store \in [Worker -> Doc]
  BY DEF Shape, TypeOK
<1>2. UpdateWorkerStatus(store[w], s).status \in {s, store[w].status}
  BY <1>1, UpdateStatus
<1> QED BY <1>1, <1>2 DEF NoNewMark, Marked, ExitIsFinal

LEMMA OtherMarks ==
    ASSUME Shape, NEW w \in Worker,
           NEW doc, doc.status \in {store[w].status} \cup (Statuses \ {"SHUTDOWN_REQUESTED"}),
           store' = [store EXCEPT ![w] = doc],
           ExitIsFinal
    PROVE  NoNewMark
<1>1. store[w] \in Doc /\ store \in [Worker -> Doc]
  BY DEF Shape, TypeOK
<1> QED BY <1>1 DEF NoNewMark, Marked, ExitIsFinal

(* A step of a caller that sends no message.                                *)
LEMMA QuietJobHeard ==
    ASSUME Shape, StopsHeard, NEW a \in Agent, \E j : Continue(a, j), job[a].pc # "send",
           job'[a].op = "force" => job'[a].pc = "send" /\ job'[a].todo = {job'[a].w},
           a \in Worker => job[a].pc # "idle",
           NoNewMark, UNCHANGED <<wch, main, thread>>
    PROVE  StopsHeard'
<1> USE DEF StopsHeard
<1>1. job \in [Agent -> JobRecord] /\ \A b \in Agent \ {a} : job'[b] = job[b]
  BY DEF Shape, TypeOK, Continue
<1>2. ForceSends' /\ Callers' /\ Unthreaded'
  BY <1>1 DEF ForceSends, Callers, Unthreaded, Agent
<1>3. ASSUME NEW w \in Worker PROVE Heard(w)'
  <2>1. \A b \in Agent : Sends(b, w) => Sends(b, w)'
    BY <1>1 DEF Sends
  <2> QED BY <2>1, StillHeard DEF NoNewMark, Told, Stopping
<1> QED BY <1>2, <1>3

LEMMA NewRequestHeard ==
    ASSUME Shape, StopsHeard, NEW c \in Client, NewRequest(c) PROVE StopsHeard'
<1>1. UNCHANGED <<store, wch, main, thread>> /\ c \in Agent /\ c \notin Worker
  BY PoolAssumption
  DEF NewRequest, PostMessage, RequestWorkers, UpdateActor, StopWorker, CheckHealth, ForceQuit,
      DeleteActor, processVars, Agent
<1>2. job[c].pc = "idle" /\ \E j : Continue(c, j)
  BY DEF NewRequest, PostMessage, RequestWorkers, UpdateActor, StopWorker, CheckHealth, ForceQuit,
         DeleteActor, Begin
<1>3. job'[c].op = "force" => job'[c].pc = "send" /\ job'[c].todo = {job'[c].w}
  <2>1. job \in [Agent -> JobRecord] /\ c \in Agent
    BY <1>1 DEF Shape, TypeOK
  <2>2. CASE ForceQuit(c)
    BY <2>1, <2>2 DEF ForceQuit, Begin, Continue, IdleJob
  <2>3. CASE ~ForceQuit(c)
    <3>1. \A j : Continue(c, j) => job'[c] = j
      BY <2>1 DEF Continue
    <3>2. CASE PostMessage(c) \/ RequestWorkers(c)
      BY <3>1, <3>2 DEF PostMessage, RequestWorkers, Begin, IdleJob
    <3>3. CASE UpdateActor(c)
      BY <3>1, <3>3 DEF UpdateActor, Begin, IdleJob
    <3>4. CASE StopWorker(c) \/ CheckHealth(c)
      BY <3>1, <3>4 DEF StopWorker, CheckHealth, Begin, IdleJob
    <3>5. CASE DeleteActor(c)
      BY <3>1, <3>5 DEF DeleteActor, Begin, IdleJob
    <3> QED BY <2>3, <3>2, <3>3, <3>4, <3>5 DEF NewRequest
  <2> QED BY <2>2, <2>3
<1> QED BY <1>1, <1>2, <1>3, QuietJobHeard DEF NoNewMark, Marked

LEMMA JobStepHeard ==
    ASSUME Shape, StopsHeard, NEW a \in Agent, JobStep(a) PROVE StopsHeard'
<1> USE DEF StopsHeard
<1>0. /\ job \in [Agent -> JobRecord] /\ job[a] \in JobRecord
      /\ IdleJob.pc = "idle" /\ IdleJob.op = "none"
      /\ job[a].pc # "send" => job[a].op # "force"
  BY DEF Shape, TypeOK, IdleJob, ForceSends
<1>1. CASE CheckActor(a) \/ CountWorkers(a) \/ PutCommand(a) \/ SaveActor(a) \/ RetireActor(a)
           \/ ListWorkers(a) \/ EraseActor(a)
  <2>1. UNCHANGED <<store, wch, main, thread>>
    BY <1>1 DEF CheckActor, CountWorkers, PutCommand, SaveActor, RetireActor, ListWorkers,
                EraseActor, processVars
  <2>2. job[a].pc \notin {"idle", "send"} /\ \E j : Continue(a, j)
    BY <1>1 DEF CheckActor, CountWorkers, PutCommand, SaveActor, RetireActor, ListWorkers,
                EraseActor
  <2>3. job'[a].op # "force"
    <3>1. /\ job[a].op # "force" /\ IdleJob.op # "force"
          /\ DOMAIN job[a] = {"pc", "op", "w", "todo", "left", "seen"}
      BY <1>0, <2>2 DEF JobRecord
    <3>2. \A j : Continue(a, j) => job'[a] = j
      BY <1>0 DEF Continue
    <3>3. CASE CheckActor(a) \/ CountWorkers(a)
      BY <3>1, <3>2, <3>3 DEF CheckActor, CountWorkers
    <3>4. CASE PutCommand(a) \/ EraseActor(a)
      BY <3>1, <3>2, <3>4 DEF PutCommand, EraseActor
    <3>5. CASE SaveActor(a) \/ RetireActor(a)
      BY <3>1, <3>2, <3>5 DEF SaveActor, RetireActor
    <3>6. CASE ListWorkers(a)
      BY <3>1, <3>2, <3>6 DEF ListWorkers, AfterStops
    <3> QED BY <1>1, <3>3, <3>4, <3>5, <3>6
  <2> QED BY <2>1, <2>2, <2>3, QuietJobHeard DEF NoNewMark, Marked
<1>2. CASE AddRecord(a)
  <2>1. /\ UNCHANGED <<wch, main, thread>> /\ job[a].pc \notin {"idle", "send"}
        /\ \E j : Continue(a, j)
    BY <1>2 DEF AddRecord, processVars
  <2>2. job'[a].op # "force"
    <3>1. /\ job[a].op # "force" /\ IdleJob.op # "force"
          /\ DOMAIN job[a] = {"pc", "op", "w", "todo", "left", "seen"}
      BY <1>0, <2>1 DEF JobRecord
    <3>2. \A j : Continue(a, j) => job'[a] = j
      BY <1>0 DEF Continue
    <3> QED BY <1>2, <3>1, <3>2 DEF AddRecord
  <2>3. UNCHANGED store \/ \E w \in Worker : store' = [store EXCEPT ![w] = RequestedDoc]
    BY <1>2 DEF AddRecord
  <2>4. NoNewMark
    <3>1. RequestedDoc.status \in Statuses \ {"SHUTDOWN_REQUESTED"}
      BY DEF RequestedDoc, Statuses
    <3>2. CASE UNCHANGED store
      BY <2>1, <3>2 DEF NoNewMark, Marked
    <3> QED BY <2>1, <2>3, <3>1, <3>2, OtherMarks DEF ExitIsFinal
  <2> QED BY <2>1, <2>2, <2>4, QuietJobHeard
<1>3. CASE TouchWorker(a)
  <2>1. /\ UNCHANGED <<wch, main, thread>> /\ job[a].pc \notin {"idle", "send"}
        /\ \E j : Continue(a, j)
    BY <1>3 DEF TouchWorker, processVars
  <2>2. job'[a].op # "force"
    BY <1>0, <1>3 DEF TouchWorker, JobRecord, Continue
  <2>3. PICK w \in job[a].todo : store' = [store EXCEPT ![w] = TouchUpsert(@)]
    BY <1>3 DEF TouchWorker
  <2>4. w \in Worker
    BY <1>0, <2>3 DEF JobRecord
  <2>5. TouchUpsert(store[w]).status = store[w].status
    BY <2>4, OtherWrites DEF Shape, TypeOK
  <2>6. NoNewMark
    BY <2>1, <2>3, <2>4, <2>5, OtherMarks DEF ExitIsFinal
  <2> QED BY <2>1, <2>2, <2>6, QuietJobHeard
<1>4. CASE MarkWorker(a)
  <2>1. PICK w \in job[a].todo :
            /\ store' = [store EXCEPT ![w] = UpdateWorkerStatus(@, "SHUTDOWN_REQUESTED")]
            /\ Continue(a, [job[a] EXCEPT !.pc = "send", !.w = w])
    BY <1>4 DEF MarkWorker
  <2>2. UNCHANGED <<wch, main, thread>> /\ job[a].pc = "mark" /\ w \in Worker
    BY <1>0, <1>4 DEF MarkWorker, processVars, JobRecord
  <2>3. /\ job'[a].pc = "send" /\ job'[a].w = w /\ job'[a].op = job[a].op /\ job[a].op # "force"
        /\ \A b \in Agent \ {a} : job'[b] = job[b]
    BY <1>0, <2>1, <2>2 DEF Continue, JobRecord
  <2>4. ForceSends' /\ Callers' /\ Unthreaded'
    BY <2>2, <2>3 DEF ForceSends, Callers, Unthreaded, Agent
  <2>5. Heard(w)'
    BY <2>3 DEF Heard, Sends
  <2>6. ASSUME NEW v \in Worker \ {w} PROVE Heard(v)'
    <3>1. Marked(v)' => Marked(v)
      BY <2>1, <2>2 DEF Marked, Shape, TypeOK
    <3>2. \A b \in Agent : Sends(b, v) => Sends(b, v)'
      BY <2>2, <2>3 DEF Sends
    <3> QED BY <2>2, <3>1, <3>2, StillHeard DEF Told, Stopping
  <2> QED BY <2>4, <2>5, <2>6
<1>5. CASE SendStop(a)
  <2> DEFINE w == job[a].w
             m == StopMsgOf(job[a].op)
  <2>1. /\ UNCHANGED <<store, main, thread>> /\ job[a].pc = "send" /\ w \in Worker
        /\ wch' = [wch EXCEPT ![w] = Append(@, m)]
    BY <1>5 DEF SendStop, processVars, Shape, JobShape, JobFits
  <2>2. job'[a].op # "force"
    <3>1. job[a].op = "force" => job[a].todo \ {w} = {}
      BY DEF ForceSends
    <3> QED BY <1>0, <1>5, <3>1 DEF SendStop, AfterStops, JobRecord, Continue
  <2>3. \A b \in Agent \ {a} : job'[b] = job[b]
    BY <1>0, <1>5 DEF SendStop, Continue
  <2>4. ForceSends' /\ Callers' /\ Unthreaded'
    BY <2>1, <2>2, <2>3 DEF ForceSends, Callers, Unthreaded, Agent
  <2>5. ASSUME NEW v \in Worker PROVE Heard(v)'
    <3>1. wch[v] \in Seq(WorkerMsg)
      BY DEF Shape, TypeOK
    <3>2. Told(v) => Told(v)'
      <4>1. CASE v = w
        <5>1. wch'[v] = Append(wch[v], m)
          BY <2>1, <4>1 DEF Shape, TypeOK
        <5>2. \A i \in DOMAIN wch[v] : i \in DOMAIN wch'[v] /\ wch'[v][i] = wch[v][i]
          BY <3>1, <5>1
        <5> QED BY <5>2 DEF Told
      <4>2. CASE v # w
        BY <2>1, <4>2 DEF Told, Shape, TypeOK
      <4> QED BY <4>1, <4>2
    <3>3. Sends(a, v) => Told(v)'
      <4> SUFFICES ASSUME Sends(a, v) PROVE Told(v)'
        OBVIOUS
      <4>1. v = w /\ m \in StopMsgs
        BY DEF Sends, StopMsgOf, StopMsgs
      <4>2. wch'[v] = Append(wch[v], m)
        BY <2>1, <4>1 DEF Shape, TypeOK
      <4>3. Len(wch[v]) + 1 \in DOMAIN wch'[v] /\ wch'[v][Len(wch[v]) + 1] = m
        BY <3>1, <4>2
      <4> QED BY <4>1, <4>3 DEF Told
    <3>4. \A b \in Agent : Sends(b, v) => Sends(b, v)' \/ Told(v)'
      BY <2>3, <3>3 DEF Sends
    <3> QED BY <2>1, <3>2, <3>4, StillHeard DEF Marked, Stopping
  <2> QED BY <2>4, <2>5
<1> QED BY <1>1, <1>2, <1>3, <1>4, <1>5 DEF JobStep

LEMMA SpawnerStepHeard ==
    ASSUME Shape, StopsHeard, NEW s \in Spawner, SpawnerStep(s) PROVE StopsHeard'
<1> USE DEF StopsHeard
<1>0. UNCHANGED main \/ \E w \in Worker : main[w] = "none" /\ main' = [main EXCEPT ![w] = "waiting"]
  <2>1. spawner[s].pc = "run" => spawner[s].w \in Worker
    BY DEF Shape, SpawnerShape
  <2>2. CASE SpawnerRun(s)
    BY <2>1, <2>2 DEF SpawnerRun
  <2>3. CASE SpawnerRunTimeout(s)
    BY <2>1, <2>3 DEF SpawnerRunTimeout
  <2> QED
    BY <2>2, <2>3
    DEF SpawnerStep, SpawnerCheck, SpawnerGet, SpawnerReadActor, SpawnerReadWorker,
        SpawnerDrop, SpawnerSetup, SpawnerPull, SpawnerCreate, SpawnerRunError, SpawnerKill,
        SpawnerConfirm, SpawnerReady, SpawnerAdd, SpawnerSignal, SpawnerStopList,
        SpawnerStopEach, SpawnerErrActor, SpawnerErrWorker, processVars
<1>1. /\ UNCHANGED <<job, thread>>
      /\ \A w \in Worker : main'[w] = main[w] \/ (main[w] = "none" /\ main'[w] = "waiting")
      /\ ExitIsFinal
  <2>1. UNCHANGED <<job, thread>>
    BY DEF SpawnerStep, SpawnerCheck, SpawnerGet, SpawnerReadActor, SpawnerReadWorker,
           SpawnerDrop, SpawnerSetup, SpawnerPull, SpawnerCreate, SpawnerRun,
           SpawnerRunTimeout, SpawnerRunError, SpawnerKill, SpawnerConfirm, SpawnerReady,
           SpawnerAdd, SpawnerSignal, SpawnerStopList, SpawnerStopEach, SpawnerErrActor,
           SpawnerErrWorker, callerVars, processVars
  <2>2. \A w \in Worker : main'[w] = main[w] \/ (main[w] = "none" /\ main'[w] = "waiting")
    <3>1. main \in [Worker -> MainPcs]
      BY DEF Shape, TypeOK
    <3>2. ASSUME NEW v \in Worker, main[v] = "none", main' = [main EXCEPT ![v] = "waiting"]
          PROVE  \A w \in Worker : main'[w] = main[w] \/ (main[w] = "none" /\ main'[w] = "waiting")
      BY <3>1, <3>2
    <3> QED BY <1>0, <3>2
  <2> QED BY <2>1, <2>2 DEF ExitIsFinal
<1>2. NoNewMark
  <2>0. spawner[s].pc \notin {"check", "get"} => spawner[s].w \in Worker
    BY DEF Shape, SpawnerShape
  <2>1. CASE SpawnerSetup(s) \/ SpawnerPull(s) \/ SpawnerCreate(s)
    <3>1. spawner[s].w \in Worker
      BY <2>0, <2>1 DEF SpawnerSetup, SpawnerPull, SpawnerCreate
    <3>2. \E t \in {"SPAWNER_SETUP", "PULLING_IMAGE", "CREATING_CONTAINER"} :
            store' = [store EXCEPT ![spawner[s].w] = UpdateWorkerStatus(@, t)]
      BY <2>1 DEF SpawnerSetup, SpawnerPull, SpawnerCreate
    <3> QED BY <1>1, <3>1, <3>2, UpdateMarks DEF Statuses
  <2>2. CASE SpawnerDrop(s) \/ SpawnerKill(s) \/ SpawnerAdd(s)
    <3>1. spawner[s].w \in Worker
      BY <2>0, <2>2 DEF SpawnerDrop, SpawnerKill, SpawnerAdd
    <3>2. store[spawner[s].w] \in Doc
      BY <3>1 DEF Shape, TypeOK
    <3>3. \E doc : /\ doc.status \in Statuses \ {"SHUTDOWN_REQUESTED"}
                   /\ store' = [store EXCEPT ![spawner[s].w] = doc]
      <4>1. /\ Absent.status \in Statuses \ {"SHUTDOWN_REQUESTED"}
            /\ AddWorker(store[spawner[s].w]).status \in Statuses \ {"SHUTDOWN_REQUESTED"}
        BY <3>2 DEF Absent, AddWorker, Doc, Statuses
      <4> QED BY <2>2, <4>1 DEF SpawnerDrop, SpawnerKill, SpawnerAdd
    <3> QED BY <1>1, <3>1, <3>3, OtherMarks
  <2>3. CASE UNCHANGED store
    BY <1>1, <2>3 DEF NoNewMark, Marked
  <2> QED
    BY <2>1, <2>2, <2>3
    DEF SpawnerStep, SpawnerCheck, SpawnerGet, SpawnerReadActor, SpawnerReadWorker, SpawnerRun,
        SpawnerRunTimeout, SpawnerRunError, SpawnerConfirm, SpawnerReady, SpawnerSignal,
        SpawnerStopList, SpawnerStopEach, SpawnerErrActor, SpawnerErrWorker
<1>3. ASSUME NEW v \in Worker, Told(v) PROVE Told(v)'
  <2>1. UNCHANGED wch \/ \E w \in Worker : wch' = [wch EXCEPT ![w] = Append(@, "stop-no-delete")]
    BY DEF SpawnerStep, SpawnerCheck, SpawnerGet, SpawnerReadActor, SpawnerReadWorker,
        SpawnerDrop, SpawnerSetup, SpawnerPull, SpawnerCreate, SpawnerRun,
        SpawnerRunTimeout, SpawnerRunError, SpawnerKill, SpawnerConfirm, SpawnerReady,
        SpawnerAdd, SpawnerSignal, SpawnerStopList, SpawnerStopEach, SpawnerErrActor,
        SpawnerErrWorker, Shape, TypeOK, SpawnerRecord
  <2>2. wch \in [Worker -> Seq(WorkerMsg)]
    BY DEF Shape, TypeOK
  <2>3. \A i \in DOMAIN wch[v] : i \in DOMAIN wch'[v] /\ wch'[v][i] = wch[v][i]
    <3>1. \A c \in Seq(WorkerMsg) : \A m : \A i \in DOMAIN c :
             i \in DOMAIN Append(c, m) /\ Append(c, m)[i] = c[i]
      OBVIOUS
    <3>2. wch'[v] \in {wch[v], Append(wch[v], "stop-no-delete")}
      BY <2>1, <2>2
    <3>3. wch[v] \in Seq(WorkerMsg)
      BY <2>2
    <3> QED BY <3>1, <3>2, <3>3
  <2> QED BY <1>3, <2>3 DEF Told
<1>4. ForceSends' /\ Callers' /\ Unthreaded'
  BY <1>1 DEF ForceSends, Callers, Unthreaded
<1>6. ASSUME NEW w \in Worker PROVE Heard(w)'
  BY <1>1, <1>2, <1>3, StillHeard DEF Sends, Stopping, NoNewMark
<1> QED BY <1>4, <1>6

LEMMA MainStepHeard ==
    ASSUME Shape, StopsHeard, NEW w \in Worker, MainStep(w) PROVE StopsHeard'
<1> USE DEF StopsHeard
<1>1. /\ UNCHANGED wch
      /\ main[w] \notin {"none", "exited"} /\ main'[w] \notin {"none", "waiting", "exited"}
      /\ \A v \in Worker \ {w} : main'[v] = main[v] /\ thread'[v] = thread[v]
      /\ thread'[w] = thread[w] \/ thread[w].pc = "off"
      /\ main[w] # "ended"
  BY DEF MainStep, MainStart, MainKeep, MainTop, MainGet, MainGot, MainReadActor, MainDone,
         MainTouch, MainStartError, MainSetError, MainAckError, MainGiveUp, Shape, TypeOK,
         Unthreaded
<1>2. /\ job \in [Agent -> JobRecord] /\ w \in Agent
      /\ job[w].pc = "idle"
      /\ \/ UNCHANGED job
         \/ /\ job' = [job EXCEPT ![w] = [IdleJob EXCEPT !.pc = "list", !.op = "giveup"]]
            /\ main'[w] = "ended"
  BY <1>1
  DEF MainStep, MainStart, MainKeep, MainTop, MainGet, MainGot, MainReadActor, MainDone,
      MainTouch, MainStartError, MainSetError, MainAckError, MainGiveUp, Shape, TypeOK,
      Callers, Continue, Agent
<1>3. /\ \A b \in Agent \ {w} : job'[b] = job[b]
      /\ job'[w].pc # "idle" => main'[w] = "ended"
      /\ job'[w].op = "force" => job'[w] = job[w]
  BY <1>2 DEF IdleJob
<1>4. NoNewMark
  <2>1. ExitIsFinal
    BY <1>1 DEF ExitIsFinal
  <2>2. \/ UNCHANGED store
        \/ store' = [store EXCEPT ![w] = TouchUpsert(@)]
        \/ \E s \in {"READY", "BUSY"} : store' = [store EXCEPT ![w] = UpdateWorkerStatus(@, s)]
    BY DEF MainStep, MainStart, MainKeep, MainTop, MainGet, MainGot, MainReadActor, MainDone,
           MainTouch, MainStartError, MainSetError, MainAckError, MainGiveUp
  <2>3. CASE UNCHANGED store
    BY <2>1, <2>3 DEF NoNewMark, Marked, ExitIsFinal
  <2>4. CASE store' = [store EXCEPT ![w] = TouchUpsert(@)]
    <3>1. TouchUpsert(store[w]).status = store[w].status
      BY OtherWrites DEF Shape, TypeOK
    <3> QED BY <2>1, <2>4, <3>1, OtherMarks
  <2>5. CASE \E s \in {"READY", "BUSY"} : store' = [store EXCEPT ![w] = UpdateWorkerStatus(@, s)]
    BY <2>1, <2>5, UpdateMarks DEF Statuses
  <2> QED BY <2>2, <2>3, <2>4, <2>5
<1>5. ForceSends'
  BY <1>3 DEF ForceSends
<1>6. Callers' /\ Unthreaded'
  BY <1>1, <1>3 DEF Callers, Unthreaded, Agent
<1>7. ASSUME NEW v \in Worker PROVE Heard(v)'
  <2>1. \A b \in Agent : Sends(b, v) => Sends(b, v)'
    BY <1>2, <1>3 DEF Sends
  <2>2. Stopping(v) => Stopping(v)'
    BY <1>1 DEF Stopping
  <2> QED BY <1>1, <1>4, <2>1, <2>2, StillHeard DEF Told, NoNewMark
<1> QED BY <1>5, <1>6, <1>7

LEMMA ThreadStepHeard ==
    ASSUME Shape, StopsHeard, NEW w \in Worker, ThreadStep(w) PROVE StopsHeard'
<1> USE DEF StopsHeard
<1>1. /\ \A v \in Worker \ {w} : /\ main'[v] = main[v] /\ thread'[v] = thread[v]
                                 /\ wch'[v] = wch[v]
      /\ thread[w].pc # "off"
      /\ \/ main'[w] = main[w]
         \/ main'[w] = "exited" /\ thread'[w].pc = "off"
  BY DEF ThreadStep, ThreadGet, ThreadMark, ThreadDelete, ThreadClose, ThreadExit, Shape, TypeOK,
         ThreadPcs
<1>2. main[w] \notin {"none", "waiting", "exited"}
  BY <1>1 DEF Unthreaded
<1>3. UNCHANGED job
  BY DEF ThreadStep, ThreadGet, ThreadMark, ThreadDelete, ThreadClose, ThreadExit
<1>5. NoNewMark
  <2>0. ExitIsFinal
    BY <1>1 DEF ExitIsFinal
  <2>1. CASE ThreadMark(w)
    BY <2>0, <2>1, UpdateMarks DEF ThreadMark, Statuses
  <2>2. CASE ThreadDelete(w)
    <3>1. Absent.status \in Statuses \ {"SHUTDOWN_REQUESTED"}
      BY DEF Absent, Statuses
    <3> QED BY <2>0, <2>2, <3>1, OtherMarks DEF ThreadDelete
  <2>3. CASE ThreadGet(w) \/ ThreadClose(w) \/ ThreadExit(w)
    BY <2>0, <2>3 DEF ThreadGet, ThreadClose, ThreadExit, NoNewMark, Marked, ExitIsFinal
  <2> QED BY <2>1, <2>2, <2>3 DEF ThreadStep
<1>6. ForceSends' /\ Callers' /\ Unthreaded'
  BY <1>1, <1>2, <1>3 DEF ForceSends, Callers, Unthreaded
<1>8. Stopping(w) => Stopping(w)' \/ main'[w] = "exited"
  BY DEF ThreadStep, ThreadGet, ThreadMark, ThreadDelete, ThreadClose, ThreadExit, Shape, TypeOK,
         Stopping
<1>9. Told(w) => Told(w)' \/ Stopping(w)' \/ main'[w] = "exited"
  <2>1. CASE ThreadGet(w)
    <3> SUFFICES ASSUME Told(w), ~Stopping(w)' PROVE Told(w)'
      OBVIOUS
    <3>1. wch[w] \in Seq(WorkerMsg) /\ wch[w] # <<>> /\ wch'[w] = Tail(wch[w])
      BY <2>1 DEF ThreadGet, Shape, TypeOK
    <3>2. Head(wch[w]) = "force_quit"
      BY <2>1 DEF ThreadGet, Stopping, Shape, TypeOK
    <3>3. PICK i \in DOMAIN wch[w] : wch[w][i] \in StopMsgs
      BY DEF Told
    <3>4. i # 1
      BY <3>1, <3>2, <3>3 DEF StopMsgs
    <3>5. i - 1 \in DOMAIN wch'[w] /\ wch'[w][i - 1] = wch[w][i]
      BY <3>1, <3>3, <3>4
    <3> QED BY <3>3, <3>5 DEF Told
  <2>2. CASE ThreadMark(w) \/ ThreadDelete(w)
    BY <2>2 DEF ThreadMark, ThreadDelete, Told
  <2>3. CASE ThreadClose(w) \/ ThreadExit(w)
    BY <2>3 DEF ThreadClose, ThreadExit, Stopping, Shape, TypeOK
  <2> QED BY <2>1, <2>2, <2>3 DEF ThreadStep
<1>10. ASSUME NEW v \in Worker PROVE Heard(v)'
  <2>1. \A b \in Agent : Sends(b, v) => Sends(b, v)'
    BY <1>3 DEF Sends
  <2>2. CASE main'[v] = "exited"
    BY <2>2 DEF Heard, Marked
  <2>3. CASE main'[v] # "exited"
    <3>1. Told(v) => Told(v)' \/ Stopping(v)'
      BY <1>1, <1>9, <2>3 DEF Told
    <3>2. Stopping(v) => Stopping(v)'
      BY <1>1, <1>8, <2>3 DEF Stopping
    <3> QED BY <1>5, <2>1, <3>1, <3>2, StillHeard DEF NoNewMark
  <2> QED BY <2>2, <2>3
<1> QED BY <1>6, <1>10

LEMMA InitHeard == Init => StopsHeard
<1> SUFFICES ASSUME Init PROVE StopsHeard
  OBVIOUS
<1>1. \A a \in Agent : job[a].op # "force" /\ (a \in Worker => job[a].pc = "idle")
  BY PoolAssumption DEF Init, IdleJob, Agent
<1>2. ForceSends /\ Callers /\ Unthreaded
  BY <1>1 DEF Init, ForceSends, Callers, Unthreaded, Agent
<1>3. \A w \in Worker : Heard(w)
  BY DEF Init, Heard, Marked, Absent
<1> QED BY <1>2, <1>3 DEF StopsHeard

LEMMA NextHeard == Shape /\ StopsHeard /\ [Next]_vars => StopsHeard'
<1> SUFFICES ASSUME Shape, StopsHeard, [Next]_vars PROVE StopsHeard'
  OBVIOUS
<1>1. CASE Next
  BY <1>1, NewRequestHeard, JobStepHeard, SpawnerStepHeard, MainStepHeard, ThreadStepHeard
  DEF Next
<1>2. CASE UNCHANGED vars
  BY <1>2 DEF vars, StopsHeard, ForceSends, Callers, Unthreaded, Heard, Marked, Sends, Told,
              Stopping
<1> QED BY <1>1, <1>2

(* A worker that was asked to stop hears of it as long as its process can,  *)
(* whatever fails, unless the worker that asked it exited between the       *)
(* status and the message (worker.py:38-50).                                *)
THEOREM StopOnTheWayCorrect == Spec => []StopOnTheWay
<1>1. Init => Shape /\ StopsHeard
  BY InitShape, InitHeard
<1>2. Shape /\ StopsHeard /\ [Next]_vars => Shape' /\ StopsHeard'
  BY NextShape, NextHeard
<1>3. StopsHeard => StopOnTheWay
  BY DEF StopsHeard, StopOnTheWay, Heard, Marked, Sends, Told
<1> QED BY <1>1, <1>2, <1>3, PTL DEF Spec

-----------------------------------------------------------------------------
(* The capacity of a host.                                                  *)

(* The spawners that passed overloaded() and may still add a record.        *)
MayAdd == {"get", "actor", "worker", "setup", "pull", "create", "run",
           "confirm", "ready", "add"}
Admitted == {s \in Spawner : spawner[s].pc \in MayAdd}

(* HostCapacity is not inductive: it says nothing of the spawners that were *)
(* let through and have not added their record yet.                         *)
Capacity ==
    Cardinality(Hosted) + Cardinality(Admitted) <= MaxWorkers - 1 + Cardinality(Spawner)

LEMMA Counts ==
    /\ IsFiniteSet(Hosted) /\ Cardinality(Hosted) \in Nat
    /\ IsFiniteSet(Admitted) /\ Cardinality(Admitted) \in Nat
    /\ Cardinality(Spawner) \in Nat /\ Cardinality(Admitted) <= Cardinality(Spawner)
    /\ MaxWorkers \in Nat \ {0}
<1>1. Hosted \subseteq Worker /\ Admitted \subseteq Spawner
  BY DEF Hosted, Admitted
<1> QED  BY <1>1, PoolAssumption, FS_Subset, FS_CardinalityType

LEMMA CountsAfter ==
    /\ IsFiniteSet(Hosted') /\ Cardinality(Hosted') \in Nat
    /\ IsFiniteSet(Admitted') /\ Cardinality(Admitted') \in Nat
    /\ Cardinality(Admitted') <= Cardinality(Spawner)
<1>1. Hosted' \subseteq Worker /\ Admitted' \subseteq Spawner
  BY DEF Hosted, Admitted
<1> QED  BY <1>1, PoolAssumption, FS_Subset, FS_CardinalityType

(* A step that neither adds a record of the host nor lets a spawner through.*)
LEMMA NoGrowth ==
    ASSUME Capacity, Hosted' \subseteq Hosted, Admitted' \subseteq Admitted
    PROVE  Capacity'
<1>1. /\ Cardinality(Hosted') <= Cardinality(Hosted)
      /\ Cardinality(Admitted') <= Cardinality(Admitted)
  BY Counts, FS_Subset
<1> QED  BY <1>1, Counts, CountsAfter DEF Capacity

(* No write to a record but SpawnerAdd's sets its host.                     *)
LEMMA UpdateHosts ==
    ASSUME Shape, NEW w \in Worker, NEW s \in Statuses,
           store' = [store EXCEPT ![w] = UpdateWorkerStatus(@, s)]
    PROVE  Hosted' \subseteq Hosted
  BY UpdateStatus DEF Shape, TypeOK, Hosted

LEMMA OtherHosts ==
    ASSUME Shape, NEW w \in Worker,
           \/ store' = [store EXCEPT ![w] = Absent]
           \/ store' = [store EXCEPT ![w] = RequestedDoc]
           \/ store' = [store EXCEPT ![w] = TouchUpsert(@)]
           \/ UNCHANGED store
    PROVE  Hosted' \subseteq Hosted
<1>1. /\ ~Absent.hosted /\ ~RequestedDoc.hosted
      /\ TouchUpsert(store[w]).hosted = store[w].hosted
  BY OtherWrites DEF Absent, RequestedDoc, Shape, TypeOK
<1>2. \A new : store' = [store EXCEPT ![w] = new] =>
          store'[w] = new /\ \A v \in Worker \ {w} : store'[v] = store[v]
  BY DEF Shape, TypeOK
<1> QED  BY <1>1, <1>2 DEF Hosted

LEMMA BecomeAdmits ==
    ASSUME Shape, NEW s \in Spawner, NEW r, Become(s, r),
           r.pc \in MayAdd => spawner[s].pc \in MayAdd
    PROVE  Admitted' \subseteq Admitted
  BY DEF Shape, TypeOK, Become, Admitted

LEMMA GotoAdmits ==
    ASSUME Shape, NEW s \in Spawner, NEW pc, Goto(s, pc),
           pc \in MayAdd => spawner[s].pc \in MayAdd
    PROVE  Admitted' \subseteq Admitted
<1> DEFINE r == [spawner[s] EXCEPT !.pc = pc]
<1>1. r.pc = pc /\ Become(s, r)
  BY DEF Shape, TypeOK, SpawnerRecord, Goto
<1> HIDE DEF r
<1> QED  BY <1>1, BecomeAdmits

LEMMA ReleaseAdmits ==
    ASSUME Shape, NEW s \in Spawner, Release(s) PROVE Admitted' \subseteq Admitted
  BY BecomeAdmits DEF Release, IdleSpawner, MayAdd

LEMMA OthersCapacity ==
    ASSUME Shape, Capacity, UNCHANGED spawner, Hosted' \subseteq Hosted
    PROVE  Capacity'
  BY NoGrowth DEF Admitted

-----------------------------------------------------------------------------
(* One lemma per kind of thread.                                            *)

LEMMA JobStepCapacity ==
    ASSUME Shape, Capacity, NEW a \in Agent, JobStep(a) PROVE Capacity'
<1>1. UNCHANGED spawner
  BY DEF JobStep, CheckActor, CountWorkers, AddRecord, PutCommand, SaveActor,
         RetireActor, ListWorkers, TouchWorker, MarkWorker, SendStop,
         EraseActor
<1>2. Hosted' \subseteq Hosted
  <2>1. CASE AddRecord(a)
    <3>1. \/ \E w \in Worker : store' = [store EXCEPT ![w] = RequestedDoc]
          \/ UNCHANGED store
      BY <2>1 DEF AddRecord
    <3> QED  BY <3>1, OtherHosts DEF Hosted
  <2>2. CASE MarkWorker(a)
    BY <2>2, UpdateHosts DEF MarkWorker, Shape, TypeOK, JobRecord, Statuses
  <2>3. CASE TouchWorker(a)
    BY <2>3, OtherHosts DEF TouchWorker, Shape, TypeOK, JobRecord
  <2>4. CASE ~AddRecord(a) /\ ~MarkWorker(a) /\ ~TouchWorker(a)
    BY <2>4
    DEF JobStep, CheckActor, CountWorkers, PutCommand, SaveActor, RetireActor,
        ListWorkers, SendStop, EraseActor, Hosted
  <2> QED  BY <2>1, <2>2, <2>3, <2>4
<1> QED  BY <1>1, <1>2, OthersCapacity

LEMMA SpawnerStepCapacity ==
    ASSUME Shape, Capacity, NEW s \in Spawner, SpawnerStep(s) PROVE Capacity'
<1>0. /\ spawner[s] \in SpawnerRecord
      /\ spawner[s].pc \notin {"check", "get"} => spawner[s].w \in Worker
  BY DEF Shape, TypeOK, SpawnerShape
<1>1. CASE SpawnerCheck(s)
  <2>1. Cardinality(Hosted) < MaxWorkers /\ Hosted' = Hosted
    BY <1>1 DEF SpawnerCheck, Hosted
  <2> QED  BY <2>1, Counts, CountsAfter DEF Capacity
<1>2. CASE SpawnerAdd(s)
  <2> DEFINE w == spawner[s].w
  <2>1. Admitted' = Admitted \ {s} /\ s \in Admitted
    BY <1>0, <1>2
    DEF SpawnerAdd, Goto, Become, Admitted, MayAdd, Shape, TypeOK, SpawnerRecord
  <2>2. Hosted' \subseteq Hosted \cup {w}
    BY <1>0, <1>2 DEF SpawnerAdd, Shape, TypeOK, Hosted
  <2>3. Cardinality(Admitted') = Cardinality(Admitted) - 1
    BY <2>1, Counts, FS_RemoveElement
  <2>4. Cardinality(Hosted') <= Cardinality(Hosted) + 1
    <3>1. /\ IsFiniteSet(Hosted \cup {w})
          /\ Cardinality(Hosted \cup {w}) <= Cardinality(Hosted) + 1
      <4> DEFINE H == Hosted
      <4>1. IsFiniteSet(H) /\ Cardinality(H) \in Nat
        BY Counts
      <4> HIDE DEF H, w
      <4>2. /\ IsFiniteSet(H \cup {w})
            /\ Cardinality(H \cup {w}) =
                   IF w \in H THEN Cardinality(H) ELSE Cardinality(H) + 1
        BY <4>1, FS_AddElement, Zenon
      <4>3. Cardinality(H \cup {w}) <= Cardinality(H) + 1
        BY <4>1, <4>2
      <4> QED BY <4>2, <4>3 DEF H
    <3>2. Cardinality(Hosted') <= Cardinality(Hosted \cup {w})
      BY <2>2, <3>1, FS_Subset
    <3>3. Cardinality(Hosted \cup {w}) \in Nat
      BY <3>1, FS_CardinalityType
    <3> QED  BY <3>1, <3>2, <3>3, Counts, CountsAfter
  <2> QED  BY <2>3, <2>4, Counts, CountsAfter DEF Capacity
<1>3. CASE ~SpawnerCheck(s) /\ ~SpawnerAdd(s)
  <2>1. Hosted' \subseteq Hosted
    <3>1. CASE SpawnerSetup(s) \/ SpawnerPull(s) \/ SpawnerCreate(s)
      BY <1>0, <3>1, UpdateHosts
      DEF SpawnerSetup, SpawnerPull, SpawnerCreate, Statuses
    <3>2. CASE SpawnerDrop(s) \/ SpawnerKill(s)
      BY <1>0, <3>2, OtherHosts DEF SpawnerDrop, SpawnerKill
    <3>3. UNCHANGED store => Hosted' \subseteq Hosted
      BY DEF Hosted
    <3> QED
      BY <1>3, <3>1, <3>2, <3>3
      DEF SpawnerStep, SpawnerGet, SpawnerReadActor, SpawnerReadWorker, SpawnerRun,
          SpawnerRunTimeout, SpawnerRunError, SpawnerConfirm, SpawnerReady,
          SpawnerSignal, SpawnerStopList, SpawnerStopEach, SpawnerErrActor,
          SpawnerErrWorker
  <2>2. Admitted' \subseteq Admitted
    <3>1. CASE SpawnerGet(s) \/ SpawnerReadActor(s)
      <4>1. spawner[s].pc \in MayAdd
        BY <3>1 DEF SpawnerGet, SpawnerReadActor, MayAdd
      <4>2. \A t \in Spawner \ {s} : spawner'[t] = spawner[t]
        BY <3>1
        DEF SpawnerGet, SpawnerReadActor, Release, Become, Shape, TypeOK
      <4> QED  BY <4>1, <4>2 DEF Admitted
    <3>2. CASE SpawnerStopList(s)
      <4>1. PICK others : \/ Release(s)
                          \/ Become(s, [spawner[s] EXCEPT !.pc = "stopEach", !.todo = others])
        BY <3>2 DEF SpawnerStopList
      <4> DEFINE r == [spawner[s] EXCEPT !.pc = "stopEach", !.todo = others]
      <4>2. r.pc = "stopEach"
        BY <1>0 DEF SpawnerRecord
      <4> QED  BY <4>1, <4>2, BecomeAdmits, ReleaseAdmits DEF MayAdd
    <3>3. CASE SpawnerStopEach(s)
      <4>1. PICK v : Release(s) \/ Become(s, [spawner[s] EXCEPT !.todo = @ \ {v}])
        BY <3>3 DEF SpawnerStopEach
      <4> DEFINE r == [spawner[s] EXCEPT !.todo = @ \ {v}]
      <4>2. r.pc = "stopEach"
        BY <1>0, <3>3 DEF SpawnerStopEach, SpawnerRecord
      <4> QED  BY <4>1, <4>2, BecomeAdmits, ReleaseAdmits DEF MayAdd
    <3>4. CASE ~SpawnerGet(s) /\ ~SpawnerReadActor(s) /\ ~SpawnerStopList(s)
               /\ ~SpawnerStopEach(s)
      BY <1>3, <3>4, GotoAdmits, ReleaseAdmits
      DEF SpawnerStep, SpawnerReadWorker, SpawnerDrop, SpawnerSetup, SpawnerPull,
          SpawnerCreate, SpawnerRun, SpawnerRunTimeout, SpawnerRunError, SpawnerKill,
          SpawnerConfirm, SpawnerReady, SpawnerSignal, SpawnerErrActor,
          SpawnerErrWorker, MayAdd
    <3> QED  BY <3>1, <3>2, <3>3, <3>4
  <2> QED  BY <2>1, <2>2, NoGrowth
<1> QED  BY <1>1, <1>2, <1>3

LEMMA ProcessCapacity ==
    ASSUME Shape, Capacity, NEW w \in Worker, MainStep(w) \/ ThreadStep(w)
    PROVE  Capacity'
<1>1. UNCHANGED spawner
  BY DEF MainStep, MainStart, MainKeep, MainTop, MainGet, MainGot, MainReadActor,
         MainDone, MainTouch, MainStartError, MainSetError, MainAckError, MainGiveUp,
         ThreadStep, ThreadGet, ThreadMark, ThreadDelete, ThreadClose, ThreadExit,
         sharedVars
<1>2. \/ \E s \in Statuses : store' = [store EXCEPT ![w] = UpdateWorkerStatus(@, s)]
      \/ store' = [store EXCEPT ![w] = Absent]
      \/ store' = [store EXCEPT ![w] = TouchUpsert(@)]
      \/ UNCHANGED store
  BY DEF MainStep, MainStart, MainKeep, MainTop, MainGet, MainGot, MainReadActor,
         MainDone, MainTouch, MainStartError, MainSetError, MainAckError, MainGiveUp,
         ThreadStep, ThreadGet, ThreadMark, ThreadDelete, ThreadClose, ThreadExit,
         Statuses
<1> QED  BY <1>1, <1>2, UpdateHosts, OtherHosts, OthersCapacity

LEMMA NextCapacity == Shape /\ Capacity /\ [Next]_vars => Capacity'
<1> SUFFICES ASSUME Shape, Capacity, [Next]_vars PROVE Capacity'
  OBVIOUS
<1>1. ASSUME NEW c \in Client, NewRequest(c) PROVE Capacity'
  <2>1. UNCHANGED <<store, spawner>>
    BY <1>1 DEF NewRequest, PostMessage, RequestWorkers, UpdateActor, StopWorker,
                CheckHealth, ForceQuit, DeleteActor
  <2> QED  BY <2>1, OthersCapacity DEF Hosted
<1>2. CASE UNCHANGED vars
  BY <1>2, OthersCapacity DEF vars, Hosted
<1> QED
  BY <1>1, <1>2, JobStepCapacity, SpawnerStepCapacity, ProcessCapacity DEF Next

LEMMA InitCapacity == Init => Capacity
<1> SUFFICES ASSUME Init PROVE Capacity
  OBVIOUS
<1>1. Hosted = {} /\ Admitted = {}
  BY DEF Init, Hosted, Admitted, Absent, IdleSpawner, MayAdd
<1>2. Cardinality({}) = 0
  BY FS_EmptySet
<1> QED  BY <1>1, <1>2, Counts DEF Capacity

(* However many spawners read the count at once, and however many commands  *)
(* are waiting, the records of the host stay within MAX_WORKERS and one     *)
(* more for each further spawner.                                           *)
THEOREM HostCapacityCorrect == Spec => []HostCapacity
<1>1. Init => Shape /\ Capacity
  BY InitShape, InitCapacity
<1>2. Shape /\ Capacity /\ [Next]_vars => Shape' /\ Capacity'
  BY NextShape, NextCapacity
<1>3. Capacity => HostCapacity
  BY Counts DEF Capacity, HostCapacity
<1> QED  BY <1>1, <1>2, <1>3, PTL DEF Spec

-----------------------------------------------------------------------------
(* The life of a worker id.  Besides Grounded and OneHolder the mapping     *)
(* needs that a channel thread runs in a process that exists, and that what *)
(* a worker process is in the middle of when it exits is no command.        *)
ThreadLives == \A w \in Worker : thread[w].pc # "off" => Alive(w)
WorkersStop ==
    \A w \in Worker : job[w].op # "delete" /\ job[w].pc \in {"idle", "list", "mark", "send"}

Living == ThreadLives /\ WorkersStop

LEMMA InitLiving == Init => Living
  BY PoolAssumption DEF Init, Living, ThreadLives, WorkersStop, IdleJob, Agent

(* A step that only sets the job of a, to one that fits if a is a worker.   *)
LEMMA JobLiving ==
    ASSUME Shape, Living, UNCHANGED <<main, thread>>, NEW a \in Agent, NEW j, Continue(a, j),
           a \in Worker => j.op # "delete" /\ j.pc \in {"idle", "list", "mark", "send"}
    PROVE  Living'
<1>1. job' = [job EXCEPT ![a] = j] /\ job \in [Agent -> JobRecord]
  BY DEF Continue, Shape, TypeOK
<1>2. \A w \in Worker : w \in Agent /\ job'[w] = IF w = a THEN j ELSE job[w]
  BY <1>1 DEF Agent
<1>3. WorkersStop'
  BY <1>2 DEF Living, WorkersStop
<1> QED  BY <1>3 DEF Living, ThreadLives, Alive

LEMMA JobStepLiving ==
    ASSUME Shape, Living, NEW a \in Agent, JobStep(a) PROVE Living'
<1>0. job[a] \in JobRecord /\ IdleJob.pc = "idle" /\ IdleJob.op = "none"
  BY DEF Shape, TypeOK, IdleJob
<1>1. UNCHANGED <<main, thread>>
  BY DEF JobStep, CheckActor, CountWorkers, AddRecord, PutCommand, SaveActor, RetireActor,
         ListWorkers, TouchWorker, MarkWorker, SendStop, EraseActor, processVars
<1>2. \E j : Continue(a, j)
  BY DEF JobStep, CheckActor, CountWorkers, AddRecord, PutCommand, SaveActor, RetireActor,
         ListWorkers, TouchWorker, MarkWorker, SendStop, EraseActor
<1>3. CASE a \notin Worker
  BY <1>1, <1>2, <1>3, JobLiving
<1>4. CASE a \in Worker
  <2>1. job[a].op # "delete" /\ job[a].pc \in {"list", "mark", "send"}
    BY <1>4 DEF Living, WorkersStop, JobStep, CheckActor, CountWorkers, AddRecord, PutCommand,
                SaveActor, RetireActor, ListWorkers, TouchWorker, MarkWorker, SendStop,
                EraseActor
  <2>2. CASE ListWorkers(a)
    BY <1>0, <1>1, <2>1, <2>2, JobLiving DEF ListWorkers, AfterStops, JobRecord
  <2>3. CASE MarkWorker(a)
    <3>1. PICK w \in job[a].todo : Continue(a, [job[a] EXCEPT !.pc = "send", !.w = w])
      BY <2>3 DEF MarkWorker
    <3> QED  BY <1>0, <1>1, <2>1, <3>1, JobLiving DEF JobRecord
  <2>4. CASE SendStop(a)
    BY <1>0, <1>1, <2>1, <2>4, JobLiving DEF SendStop, AfterStops, JobRecord
  <2> QED
    BY <2>1, <2>2, <2>3, <2>4
    DEF JobStep, CheckActor, CountWorkers, AddRecord, PutCommand, SaveActor, RetireActor,
        TouchWorker, EraseActor
<1> QED  BY <1>3, <1>4

LEMMA NextLiving == Shape /\ Living /\ [Next]_vars => Living'
<1> SUFFICES ASSUME Shape, Living, [Next]_vars PROVE Living'
  OBVIOUS
<1>1. ASSUME NEW c \in Client, NewRequest(c) PROVE Living'
  <2>1. c \in Agent /\ c \notin Worker
    BY PoolAssumption DEF Agent
  <2>2. UNCHANGED <<main, thread>> /\ \E j : Continue(c, j)
    BY <1>1
    DEF NewRequest, PostMessage, RequestWorkers, UpdateActor, StopWorker, CheckHealth,
        ForceQuit, DeleteActor, Begin, processVars
  <2> QED  BY <2>1, <2>2, JobLiving
<1>2. ASSUME NEW s \in Spawner, SpawnerStep(s) PROVE Living'
  <2>1. UNCHANGED <<job, thread>>
    BY <1>2
    DEF SpawnerStep, SpawnerCheck, SpawnerGet, SpawnerReadActor, SpawnerReadWorker,
        SpawnerDrop, SpawnerSetup, SpawnerPull, SpawnerCreate, SpawnerRun,
        SpawnerRunTimeout, SpawnerRunError, SpawnerKill, SpawnerConfirm, SpawnerReady,
        SpawnerAdd, SpawnerSignal, SpawnerStopList, SpawnerStopEach, SpawnerErrActor,
        SpawnerErrWorker, callerVars, processVars
  <2>2. \A w \in Worker : Alive(w) => Alive(w)'
    BY <1>2
    DEF SpawnerStep, SpawnerCheck, SpawnerGet, SpawnerReadActor, SpawnerReadWorker,
        SpawnerDrop, SpawnerSetup, SpawnerPull, SpawnerCreate, SpawnerRun,
        SpawnerRunTimeout, SpawnerRunError, SpawnerKill, SpawnerConfirm, SpawnerReady,
        SpawnerAdd, SpawnerSignal, SpawnerStopList, SpawnerStopEach, SpawnerErrActor,
        SpawnerErrWorker, processVars, Alive, Shape, TypeOK
  <2> QED  BY <2>1, <2>2 DEF Living, ThreadLives, WorkersStop
<1>3. ASSUME NEW w \in Worker, MainStep(w) PROVE Living'
  <2>1. /\ Alive(w)' /\ \A v \in Worker \ {w} : main'[v] = main[v] /\ thread'[v] = thread[v]
        /\ job' = job \/ job' = [job EXCEPT ![w] = [IdleJob EXCEPT !.pc = "list", !.op = "giveup"]]
    BY <1>3
    DEF MainStep, MainStart, MainKeep, MainTop, MainGet, MainGot, MainReadActor, MainDone,
        MainTouch, MainStartError, MainSetError, MainAckError, MainGiveUp, Alive, Shape,
        TypeOK, Continue
  <2>2. ThreadLives'
    BY <2>1 DEF Living, ThreadLives, Alive
  <2>3. \A v \in Worker :
          job'[v] \in {job[v], [IdleJob EXCEPT !.pc = "list", !.op = "giveup"]}
    BY <2>1 DEF Shape, TypeOK, Agent
  <2>4. WorkersStop'
    <3> DEFINE stopping == [IdleJob EXCEPT !.pc = "list", !.op = "giveup"]
    <3>1. stopping.op = "giveup" /\ stopping.pc = "list"
      BY DEF IdleJob
    <3>2. \A v \in Worker : job[v].op # "delete" /\ job[v].pc \in {"idle", "list", "mark", "send"}
      BY DEF Living, WorkersStop
    <3>3. \A v \in Worker : job'[v] \in {job[v], stopping}
      BY <2>3
    <3> HIDE DEF stopping
    <3> QED BY <3>1, <3>2, <3>3 DEF WorkersStop
  <2> QED  BY <2>2, <2>4 DEF Living
<1>4. ASSUME NEW w \in Worker, ThreadStep(w) PROVE Living'
  <2>1. /\ \A v \in Worker \ {w} : main'[v] = main[v] /\ thread'[v] = thread[v]
        /\ thread'[w].pc = "off" \/ (main' = main /\ thread[w].pc # "off")
        /\ job' = job
    BY <1>4
    DEF ThreadStep, ThreadGet, ThreadMark, ThreadDelete, ThreadClose, ThreadExit, Shape,
        TypeOK
  <2> QED  BY <2>1 DEF Living, ThreadLives, WorkersStop, Alive
<1>5. CASE UNCHANGED vars
  BY <1>5 DEF vars, Living, ThreadLives, WorkersStop, Alive
<1> QED  BY <1>1, <1>2, <1>3, <1>4, <1>5, JobStepLiving DEF Next

-----------------------------------------------------------------------------
(* The refinement: how far a worker id has come, and what changes it.       *)
PhaseOf(w) == IF main[w] = "exited" THEN "exited"
              ELSE IF Alive(w) THEN "running"
              ELSE IF InHand(w) THEN "pending"
              ELSE IF w \in issued THEN "dropped"
              ELSE "new"

LEMMA PhaseIs == phase = [w \in Worker |-> PhaseOf(w)]
  BY DEF phase, PhaseOf

LEMMA PhaseWillBe == phase' = [w \in Worker |-> PhaseOf(w)']
  BY DEF phase, PhaseOf

LEMMA InHandIs ==
    ASSUME NEW w
    PROVE  InHand(w) <=> \/ \E a \in Agent : job[a].pc = "put" /\ job[a].w = w
                         \/ \E i \in DOMAIN cmd : cmd[i].w = w
                         \/ \E s \in Spawner : spawner[s].w = w
  BY DEF InHand, Putting, Queued, HandledBy

LEMMA InHandWillBe ==
    ASSUME NEW w
    PROVE  InHand(w)' <=> \/ \E a \in Agent : job'[a].pc = "put" /\ job'[a].w = w
                          \/ \E i \in DOMAIN cmd' : cmd'[i].w = w
                          \/ \E s \in Spawner : spawner'[s].w = w
  BY DEF InHand, Putting, Queued, HandledBy

LEMMA OneMoves ==
    ASSUME NEW w \in Worker, NEW from, NEW to, PhaseOf(w) = from, PhaseOf(w)' = to,
           \A v \in Worker \ {w} : PhaseOf(v)' = PhaseOf(v)
    PROVE  Life!Move(w, from, to)
<1>1. phase[w] = from
  BY PhaseIs
<1>2. phase' = [phase EXCEPT ![w] = to]
  BY PhaseIs, PhaseWillBe
<1> QED  BY <1>1, <1>2 DEF Life!Move

(* Nothing but the list of workers changes, if that.                        *)
LEMMA NoneMoves ==
    ASSUME \A v \in Worker : PhaseOf(v)' = PhaseOf(v),
           Owned' = Owned \/ \E w \in Worker : Owned' = Owned \ {w}
    PROVE  Life!Next \/ UNCHANGED <<phase, Owned>>
<1>1. phase' = phase
  BY PhaseIs, PhaseWillBe
<1>2. ASSUME NEW w \in Worker, Owned' = Owned \ {w} PROVE Life!Next
  BY <1>1, <1>2 DEF Life!Next, Life!Delist
<1> QED  BY <1>1, <1>2

(* The ids stay in the hands they are in, and the processes in their lives. *)
LEMMA QuietPhases ==
    ASSUME UNCHANGED <<issued, cmd>>,
           \A a \in Agent : (job[a].pc = "put" \/ job'[a].pc = "put") => job'[a] = job[a],
           \A s \in Spawner : spawner'[s].w = spawner[s].w,
           \A w \in Worker : /\ Alive(w)' <=> Alive(w)
                             /\ main'[w] = "exited" <=> main[w] = "exited"
    PROVE  \A w \in Worker : PhaseOf(w)' = PhaseOf(w)
<1>1. ASSUME NEW w \in Worker PROVE InHand(w)' <=> InHand(w)
  BY InHandIs, InHandWillBe
<1> QED  BY <1>1 DEF PhaseOf

(* Every write but add, delete and those of AddRecord keeps the actor_id.   *)
LEMMA UpdateOwned ==
    ASSUME Shape, NEW w \in Worker, NEW s \in Statuses,
           store' = [store EXCEPT ![w] = UpdateWorkerStatus(@, s)]
    PROVE  Owned' = Owned
<1>1. UpdateWorkerStatus(store[w], s).owned = store[w].owned
  BY UpdateStatus DEF Shape, TypeOK
<1>2. store'[w] = UpdateWorkerStatus(store[w], s) /\ \A v \in Worker \ {w} : store'[v] = store[v]
  BY DEF Shape, TypeOK
<1>3. \A v \in Worker : store'[v].owned = store[v].owned
  BY <1>1, <1>2
<1> QED  BY <1>3 DEF Owned

LEMMA OtherOwned ==
    ASSUME Shape, NEW w \in Worker,
           \/ store' = [store EXCEPT ![w] = TouchUpsert(@)]
           \/ store' = [store EXCEPT ![w] = AddWorker(@)]
    PROVE  Owned' = Owned
<1>1. /\ TouchUpsert(store[w]).owned = store[w].owned
      /\ AddWorker(store[w]).owned = store[w].owned
  BY OtherWrites DEF Shape, TypeOK
<1>2. /\ store'[w] \in {TouchUpsert(store[w]), AddWorker(store[w])}
      /\ \A v \in Worker \ {w} : store'[v] = store[v]
  BY DEF Shape, TypeOK
<1>3. \A v \in Worker : store'[v].owned = store[v].owned
  BY <1>1, <1>2
<1> QED  BY <1>3 DEF Owned

LEMMA RemoveOwned ==
    ASSUME Shape, NEW w \in Worker, store' = [store EXCEPT ![w] = Absent]
    PROVE  Owned' = Owned \ {w}
<1>1. \A v \in Worker : store'[v] = IF v = w THEN Absent ELSE store[v]
  BY DEF Shape, TypeOK
<1> QED  BY <1>1 DEF Owned, Absent

LEMMA SameOwned == ASSUME UNCHANGED store PROVE Owned' = Owned
  BY DEF Owned

-----------------------------------------------------------------------------
(* The steps of the callers.                                                *)

LEMMA NewRequestLives ==
    ASSUME Shape, NEW c \in Client, NewRequest(c) PROVE UNCHANGED <<phase, Owned>>
<1>1. /\ UNCHANGED <<store, issued, cmd, spawner, main>>
      /\ job[c].pc = "idle" /\ \E j : j.pc # "put" /\ Continue(c, j)
  BY DEF NewRequest, PostMessage, RequestWorkers, UpdateActor, StopWorker, CheckHealth,
         ForceQuit, DeleteActor, Begin, IdleJob, processVars
<1>2. \A a \in Agent : (job[a].pc = "put" \/ job'[a].pc = "put") => job'[a] = job[a]
  BY <1>1 DEF Continue, Shape, TypeOK
<1>3. \A w \in Worker : PhaseOf(w)' = PhaseOf(w)
  BY <1>1, <1>2, QuietPhases DEF Alive
<1> QED  BY <1>1, <1>3, PhaseIs, PhaseWillBe, SameOwned

LEMMA QuietJobLives ==
    ASSUME Shape, UNCHANGED <<issued, cmd, spawner, main>>, Owned' = Owned,
           NEW a \in Agent, NEW j, Continue(a, j), job[a].pc # "put", j.pc # "put"
    PROVE  UNCHANGED <<phase, Owned>>
<1>1. \A b \in Agent : (job[b].pc = "put" \/ job'[b].pc = "put") => job'[b] = job[b]
  BY DEF Continue, Shape, TypeOK
<1>2. \A w \in Worker : PhaseOf(w)' = PhaseOf(w)
  BY <1>1, QuietPhases DEF Alive
<1> QED  BY <1>2, PhaseIs, PhaseWillBe

(* A record is written under an id that nobody had: the request.            *)
LEMMA RequestLives ==
    ASSUME Shape, Grounded, NEW a \in Agent, AddRecord(a), NEW w \in Worker \ issued,
           store' = [store EXCEPT ![w] = RequestedDoc], issued' = issued \cup {w},
           Continue(a, [job[a] EXCEPT !.pc = "put", !.w = w])
    PROVE  Life!Request(w)
<1>1. /\ job[a].pc = "add" /\ job'[a].pc = "put" /\ job'[a].w = w
      /\ \A b \in Agent \ {a} : job'[b] = job[b]
      /\ UNCHANGED <<cmd, spawner, main>>
  <2>1. job[a].pc = "add" /\ UNCHANGED <<cmd, spawner, main>>
    BY DEF AddRecord, processVars
  <2>2. job'[a].pc = "put" /\ job'[a].w = w /\ \A b \in Agent \ {a} : job'[b] = job[b]
    BY DEF Continue, Shape, TypeOK, JobRecord
  <2> QED  BY <2>1, <2>2
<1>2. ~InHand(w) /\ main[w] = "none"
  <2>1. /\ \A b \in Agent : job[b].pc = "put" => job[b].w # w
        /\ \A i \in DOMAIN cmd : cmd[i].w # w
        /\ \A s \in Spawner : spawner[s].w # w
    BY PoolAssumption
    DEF Grounded, Hands, JobsIssued, CmdsIssued, SpawnersIssued, Shape, SpawnerShape
  <2>2. main[w] = "none"
    BY DEF Grounded, Records, Unissued
  <2> QED  BY <2>1, <2>2, InHandIs
<1>3. InHand(w)'
  BY <1>1, InHandWillBe
<1>4. PhaseOf(w) = "new" /\ PhaseOf(w)' = "pending"
  BY <1>1, <1>2, <1>3 DEF PhaseOf, Alive
<1>5. ASSUME NEW v \in Worker \ {w} PROVE PhaseOf(v)' = PhaseOf(v)
  <2>1. InHand(v)' <=> InHand(v)
    BY <1>1, InHandIs, InHandWillBe
  <2> QED  BY <1>1, <2>1 DEF PhaseOf, Alive
<1>6. Owned' = Owned \cup {w}
  BY DEF Owned, Shape, TypeOK, RequestedDoc
<1>7. Life!Move(w, "new", "pending")
  BY <1>4, <1>5, OneMoves
<1> QED  BY <1>6, <1>7 DEF Life!Request

LEMMA JobStepLives ==
    ASSUME Shape, Grounded, NEW a \in Agent, JobStep(a)
    PROVE  Life!Next \/ UNCHANGED <<phase, Owned>>
<1>0. job[a] \in JobRecord /\ IdleJob.pc = "idle"
  BY DEF Shape, TypeOK, IdleJob
<1>1. CASE \/ CheckActor(a) \/ CountWorkers(a) \/ SaveActor(a) \/ RetireActor(a)
           \/ ListWorkers(a) \/ SendStop(a) \/ EraseActor(a)
  <2>1. job[a].pc # "put" /\ \E j : j.pc # "put" /\ Continue(a, j)
    BY <1>0, <1>1
    DEF CheckActor, CountWorkers, SaveActor, RetireActor, ListWorkers, SendStop,
        EraseActor, AfterStops, JobRecord
  <2>2. UNCHANGED <<store, issued, cmd, spawner, main>>
    BY <1>1
    DEF CheckActor, CountWorkers, SaveActor, RetireActor, ListWorkers, SendStop,
        EraseActor, processVars
  <2> QED  BY <2>1, <2>2, SameOwned, QuietJobLives
<1>2. CASE MarkWorker(a)
  <2>1. PICK w \in job[a].todo :
          /\ store' = [store EXCEPT ![w] = UpdateWorkerStatus(@, "SHUTDOWN_REQUESTED")]
          /\ Continue(a, [job[a] EXCEPT !.pc = "send", !.w = w])
    BY <1>2 DEF MarkWorker
  <2>2. Owned' = Owned
    BY <1>0, <2>1, UpdateOwned DEF JobRecord, Statuses
  <2>3. [job[a] EXCEPT !.pc = "send", !.w = w].pc # "put"
    BY <1>0 DEF JobRecord
  <2> QED  BY <1>2, <2>1, <2>2, <2>3, QuietJobLives DEF MarkWorker, processVars
<1>3. CASE TouchWorker(a)
  <2>1. Owned' = Owned
    BY <1>0, <1>3, OtherOwned DEF TouchWorker, JobRecord
  <2>2. job[a].pc # "put" /\ \E j : j.pc # "put" /\ Continue(a, j)
    BY <1>0, <1>3 DEF TouchWorker, JobRecord
  <2> QED  BY <1>3, <2>1, <2>2, QuietJobLives DEF TouchWorker, processVars
<1>4. CASE AddRecord(a)
  <2>1. CASE Continue(a, IdleJob) /\ UNCHANGED <<store, issued>>
    BY <1>0, <1>4, <2>1, SameOwned, QuietJobLives DEF AddRecord, processVars
  <2>2. ASSUME NEW w \in Worker \ issued, store' = [store EXCEPT ![w] = RequestedDoc],
               issued' = issued \cup {w}, Continue(a, [job[a] EXCEPT !.pc = "put", !.w = w])
        PROVE  Life!Next
    BY <1>4, <2>2, RequestLives DEF Life!Next
  <2> QED  BY <1>4, <2>1, <2>2 DEF AddRecord
<1>5. CASE PutCommand(a)
  <2> DEFINE new == [w |-> job[a].w, stop |-> job[a].op = "update"]
  <2>1. /\ job[a].pc = "put" /\ cmd' = Append(cmd, new) /\ new.w = job[a].w
        /\ cmd \in Seq(Command) /\ UNCHANGED <<store, issued, spawner, main>>
    BY <1>5 DEF PutCommand, Shape, TypeOK, processVars
  <2>2. job'[a].pc # "put" /\ \A b \in Agent \ {a} : job'[b] = job[b]
    BY <1>0, <1>5 DEF PutCommand, Continue, Shape, TypeOK, JobRecord
  <2>3. new \in Command
    BY <2>1 DEF Command, Shape, JobShape, JobFits
  <2> HIDE DEF new
  <2>4. ASSUME NEW w
        PROVE  (\E i \in DOMAIN cmd' : cmd'[i].w = w)
                 <=> (\E i \in DOMAIN cmd : cmd[i].w = w) \/ job[a].w = w
    <3>1. /\ DOMAIN cmd' = DOMAIN cmd \cup {Len(cmd) + 1}
          /\ cmd'[Len(cmd) + 1] = new /\ \A i \in DOMAIN cmd : cmd'[i] = cmd[i]
      BY <2>1, <2>3
    <3> QED  BY <2>1, <3>1
  <2>5. ASSUME NEW w \in Worker PROVE InHand(w)' <=> InHand(w)
    BY <2>1, <2>2, <2>4, InHandIs, InHandWillBe
  <2>6. \A w \in Worker : PhaseOf(w)' = PhaseOf(w)
    BY <2>1, <2>5 DEF PhaseOf, Alive
  <2> QED  BY <2>1, <2>6, PhaseIs, PhaseWillBe, SameOwned
<1> QED  BY <1>1, <1>2, <1>3, <1>4, <1>5 DEF JobStep

-----------------------------------------------------------------------------
(* The steps of the spawners.                                               *)

(* The spawner keeps its worker.                                            *)
LEMMA GotoLives ==
    ASSUME Shape, UNCHANGED <<issued, cmd, job, main>>,
           NEW s \in Spawner, NEW r, Become(s, r), r.w = spawner[s].w,
           Owned' = Owned \/ \E w \in Worker : Owned' = Owned \ {w}
    PROVE  Life!Next \/ UNCHANGED <<phase, Owned>>
<1>1. \A t \in Spawner : spawner'[t].w = spawner[t].w
  BY DEF Become, Shape, TypeOK
<1>2. \A v \in Worker : PhaseOf(v)' = PhaseOf(v)
  BY <1>1, QuietPhases DEF Alive
<1> QED  BY <1>2, NoneMoves

(* The spawner lets go of its worker, which nobody else has: if no process  *)
(* was started, the request has been dropped.                               *)
LEMMA ReleaseLives ==
    ASSUME Shape, Grounded, OneHolder, UNCHANGED <<issued, cmd, job, main>>,
           NEW s \in Spawner, spawner[s].pc \notin {"check", "get"}, Release(s),
           Owned' \in {Owned, Owned \ {spawner[s].w}}
    PROVE  Life!Next \/ UNCHANGED <<phase, Owned>>
<1>1. PICK w \in Worker : w = spawner[s].w
  BY DEF Shape, SpawnerShape
<1>2. /\ spawner'[s].w = NoWorker /\ NoWorker \notin Worker
      /\ \A t \in Spawner \ {s} : spawner'[t] = spawner[t]
  BY PoolAssumption DEF Release, Become, IdleSpawner, Shape, TypeOK
<1>3. InHand(w) /\ ~InHand(w)'
  <2>1. /\ \A a \in Agent : job[a].pc = "put" => job[a].w # w
        /\ \A i \in DOMAIN cmd : cmd[i].w # w
        /\ \A t \in Spawner \ {s} : spawner[t].w # w
    BY <1>1 DEF OneHolder, TwoSpawners, JobOrSpawner, CmdOrSpawner
  <2> QED  BY <1>1, <1>2, <2>1, InHandIs, InHandWillBe
<1>4. ASSUME NEW v \in Worker \ {w} PROVE PhaseOf(v)' = PhaseOf(v)
  <2>1. InHand(v)' <=> InHand(v)
    BY <1>1, <1>2, InHandIs, InHandWillBe
  <2> QED  BY <2>1 DEF PhaseOf, Alive
<1>5. CASE main[w] = "none"
  <2>1. w \in issued
    BY <1>1 DEF Grounded, Hands, SpawnersIssued
  <2>2. PhaseOf(w) = "pending" /\ PhaseOf(w)' = "dropped"
    BY <1>3, <1>5, <2>1 DEF PhaseOf, Alive
  <2>3. Life!Move(w, "pending", "dropped")
    BY <1>4, <2>2, OneMoves
  <2>4. Life!Drop(w)
    BY <1>1, <2>3 DEF Life!Drop
  <2> QED  BY <2>4 DEF Life!Next
<1>6. CASE main[w] # "none"
  <2>1. PhaseOf(w)' = PhaseOf(w)
    BY <1>6 DEF PhaseOf, Alive
  <2> QED  BY <1>1, <1>4, <2>1, NoneMoves
<1> QED  BY <1>5, <1>6

(* run_worker() starts the process of a worker that is in hand.             *)
LEMMA StartLives ==
    ASSUME Shape, NEW s \in Spawner, UNCHANGED <<store, issued, cmd, job>>,
           spawner[s].pc = "run", main[spawner[s].w] = "none",
           main' = [main EXCEPT ![spawner[s].w] = "waiting"],
           NEW pc, Goto(s, pc)
    PROVE  Life!Next
<1>1. PICK w \in Worker : w = spawner[s].w
  BY DEF Shape, SpawnerShape
<1>2. main'[w] = "waiting" /\ \A v \in Worker \ {w} : main'[v] = main[v]
  BY <1>1 DEF Shape, TypeOK
<1>3. \A t \in Spawner : spawner'[t].w = spawner[t].w
  BY DEF Goto, Become, Shape, TypeOK, SpawnerRecord
<1>4. ASSUME NEW v \in Worker PROVE InHand(v)' <=> InHand(v)
  BY <1>3, InHandIs, InHandWillBe
<1>5. InHand(w)
  BY <1>1, InHandIs
<1>6. PhaseOf(w) = "pending" /\ PhaseOf(w)' = "running"
  BY <1>1, <1>2, <1>5 DEF PhaseOf, Alive
<1>7. \A v \in Worker \ {w} : PhaseOf(v)' = PhaseOf(v)
  BY <1>2, <1>4 DEF PhaseOf, Alive
<1>8. Life!Start(w)
  BY <1>6, <1>7, OneMoves, SameOwned DEF Life!Start
<1> QED  BY <1>8 DEF Life!Next

(* A command goes from the channel into the hands of the spawner.           *)
LEMMA GetLives ==
    ASSUME Shape, NEW s \in Spawner, SpawnerGet(s) PROVE UNCHANGED <<phase, Owned>>
<1>1. /\ cmd \in Seq(Command) /\ cmd # <<>> /\ cmd' = Tail(cmd)
      /\ UNCHANGED <<store, issued, job, main>> /\ spawner[s].w = NoWorker
  BY DEF SpawnerGet, Shape, TypeOK, SpawnerShape, callerVars, processVars
<1>2. /\ 1 \in DOMAIN cmd
      /\ \A i \in DOMAIN cmd' : cmd'[i] = cmd[i + 1] /\ i + 1 \in DOMAIN cmd
      /\ \A i \in DOMAIN cmd : i = 1 \/ (i - 1 \in DOMAIN cmd' /\ cmd'[i - 1] = cmd[i])
  <2>1. /\ DOMAIN cmd = 1 .. Len(cmd) /\ Len(cmd) \in Nat /\ Len(cmd) > 0
        /\ DOMAIN cmd' = 1 .. (Len(cmd) - 1)
    BY <1>1
  <2>2. \A i \in DOMAIN cmd' : cmd'[i] = cmd[i + 1]
    BY <1>1
  <2> QED  BY <2>1, <2>2
<1>3. spawner'[s].w = cmd[1].w /\ \A t \in Spawner \ {s} : spawner'[t] = spawner[t]
  <2> DEFINE r == [spawner[s] EXCEPT !.pc = "actor", !.w = Head(cmd).w, !.stop = Head(cmd).stop]
  <2>1. Become(s, r)
    BY DEF SpawnerGet
  <2>2. r.w = cmd[1].w
    BY <1>1 DEF Shape, TypeOK, SpawnerRecord
  <2> HIDE DEF r
  <2> QED  BY <2>1, <2>2 DEF Become, Shape, TypeOK
<1>4. ASSUME NEW w \in Worker PROVE InHand(w)' <=> InHand(w)
  <2>1. (\E i \in DOMAIN cmd : cmd[i].w = w) <=> (cmd[1].w = w \/ \E i \in DOMAIN cmd' : cmd'[i].w = w)
    BY <1>2
  <2>2. w # NoWorker
    BY PoolAssumption
  <2>3. (\E t \in Spawner : spawner'[t].w = w) <=> (cmd[1].w = w \/ \E t \in Spawner : spawner[t].w = w)
    BY <1>1, <1>3, <2>2
  <2> QED  BY <1>1, <2>1, <2>3, InHandIs, InHandWillBe
<1>5. \A w \in Worker : PhaseOf(w)' = PhaseOf(w)
  BY <1>1, <1>4 DEF PhaseOf, Alive
<1> QED  BY <1>1, <1>5, PhaseIs, PhaseWillBe, SameOwned

LEMMA SpawnerStepLives ==
    ASSUME Shape, Grounded, OneHolder, NEW s \in Spawner, SpawnerStep(s)
    PROVE  Life!Next \/ UNCHANGED <<phase, Owned>>
<1>0. spawner[s] \in SpawnerRecord /\ (spawner[s].pc \notin {"check", "get"} => spawner[s].w \in Worker)
  BY DEF Shape, TypeOK, SpawnerShape
<1>1. ASSUME NEW pc, Goto(s, pc), UNCHANGED <<issued, cmd, job, main>>,
             Owned' = Owned \/ \E w \in Worker : Owned' = Owned \ {w}
      PROVE  Life!Next \/ UNCHANGED <<phase, Owned>>
  <2>1. [spawner[s] EXCEPT !.pc = pc].w = spawner[s].w
    BY <1>0 DEF SpawnerRecord
  <2> QED  BY <1>1, <2>1, GotoLives DEF Goto
<1>2. CASE \/ SpawnerCheck(s) \/ SpawnerReadWorker(s) \/ SpawnerRunError(s)
           \/ SpawnerConfirm(s) \/ SpawnerReady(s) \/ SpawnerSignal(s)
           \/ SpawnerErrActor(s) \/ SpawnerErrWorker(s)
  <2>1. UNCHANGED <<store, issued, cmd, job, main>>
    BY <1>2
    DEF SpawnerCheck, SpawnerReadWorker, SpawnerRunError, SpawnerConfirm, SpawnerReady,
        SpawnerSignal, SpawnerErrActor, SpawnerErrWorker, callerVars, processVars
  <2>2. \/ \E pc : Goto(s, pc)
        \/ Release(s) /\ spawner[s].pc \notin {"check", "get"}
    BY <1>2
    DEF SpawnerCheck, SpawnerReadWorker, SpawnerRunError, SpawnerConfirm, SpawnerReady,
        SpawnerSignal, SpawnerErrActor, SpawnerErrWorker
  <2> QED  BY <1>1, <2>1, <2>2, SameOwned, ReleaseLives
<1>3. CASE SpawnerReadActor(s) \/ SpawnerStopList(s) \/ SpawnerStopEach(s)
  <2>1. /\ UNCHANGED <<store, issued, cmd, job, main>>
        /\ spawner[s].pc \notin {"check", "get"}
    BY <1>3
    DEF SpawnerReadActor, SpawnerStopList, SpawnerStopEach, callerVars, processVars
  <2>2. Release(s) \/ \E r : Become(s, r) /\ r.w = spawner[s].w
    <3>1. CASE SpawnerReadActor(s)
      <4>1. [spawner[s] EXCEPT !.pc = "worker", !.bad = (actor.status = "ERROR")].w = spawner[s].w
        BY <1>0 DEF SpawnerRecord
      <4> QED  BY <3>1, <4>1 DEF SpawnerReadActor
    <3>2. CASE SpawnerStopList(s)
      <4>1. PICK others : \/ Release(s)
                          \/ Become(s, [spawner[s] EXCEPT !.pc = "stopEach", !.todo = others])
        BY <3>2 DEF SpawnerStopList
      <4>2. [spawner[s] EXCEPT !.pc = "stopEach", !.todo = others].w = spawner[s].w
        BY <1>0 DEF SpawnerRecord
      <4> QED  BY <4>1, <4>2
    <3>3. CASE SpawnerStopEach(s)
      <4>1. PICK v \in spawner[s].todo :
              Release(s) \/ Become(s, [spawner[s] EXCEPT !.todo = @ \ {v}])
        BY <3>3 DEF SpawnerStopEach
      <4>2. [spawner[s] EXCEPT !.todo = @ \ {v}].w = spawner[s].w
        BY <1>0 DEF SpawnerRecord
      <4> QED  BY <4>1, <4>2
    <3> QED  BY <1>3, <3>1, <3>2, <3>3
  <2> QED  BY <2>1, <2>2, SameOwned, GotoLives, ReleaseLives
<1>4. CASE SpawnerDrop(s)
  <2>1. /\ spawner[s].pc \notin {"check", "get"} /\ Release(s)
        /\ UNCHANGED <<issued, cmd, job, main>>
        /\ store' = [store EXCEPT ![spawner[s].w] = Absent]
    BY <1>4 DEF SpawnerDrop, callerVars, processVars
  <2> QED  BY <1>0, <2>1, RemoveOwned, ReleaseLives
<1>5. CASE SpawnerKill(s)
  <2>1. /\ spawner[s].w \in Worker /\ Goto(s, "errActor")
        /\ UNCHANGED <<issued, cmd, job, main>>
        /\ store' = [store EXCEPT ![spawner[s].w] = Absent]
    BY <1>0, <1>5 DEF SpawnerKill, callerVars, processVars
  <2> QED  BY <1>1, <2>1, RemoveOwned
<1>6. CASE SpawnerSetup(s) \/ SpawnerPull(s) \/ SpawnerCreate(s)
  <2>1. /\ spawner[s].w \in Worker /\ \E pc : Goto(s, pc)
        /\ UNCHANGED <<issued, cmd, job, main>>
        /\ \E st \in Statuses : store' = [store EXCEPT ![spawner[s].w] = UpdateWorkerStatus(@, st)]
    BY <1>0, <1>6
    DEF SpawnerSetup, SpawnerPull, SpawnerCreate, Statuses, callerVars, processVars
  <2> QED  BY <1>1, <2>1, UpdateOwned
<1>7. CASE SpawnerAdd(s)
  <2>1. /\ spawner[s].w \in Worker /\ Goto(s, "signal")
        /\ UNCHANGED <<issued, cmd, job, main>>
        /\ store' = [store EXCEPT ![spawner[s].w] = AddWorker(@)]
    BY <1>0, <1>7 DEF SpawnerAdd, callerVars, processVars
  <2> QED  BY <1>1, <2>1, OtherOwned
<1>8. CASE SpawnerRun(s) \/ SpawnerRunTimeout(s)
  <2>1. /\ spawner[s].pc = "run" /\ \E pc : Goto(s, pc)
        /\ UNCHANGED <<store, issued, cmd, job>>
        /\ \/ UNCHANGED main
           \/ /\ main[spawner[s].w] = "none"
              /\ main' = [main EXCEPT ![spawner[s].w] = "waiting"]
    BY <1>8 DEF SpawnerRun, SpawnerRunTimeout, callerVars
  <2> QED  BY <1>1, <2>1, SameOwned, StartLives
<1> QED
  BY <1>2, <1>3, <1>4, <1>5, <1>6, <1>7, <1>8, GetLives DEF SpawnerStep

-----------------------------------------------------------------------------
(* The steps of the worker processes.                                       *)

LEMMA MainStepLives ==
    ASSUME Shape, Living, NEW w \in Worker, MainStep(w) PROVE UNCHANGED <<phase, Owned>>
<1>1. /\ Alive(w) /\ Alive(w)' /\ \A v \in Worker \ {w} : main'[v] = main[v]
      /\ UNCHANGED <<issued, cmd, spawner>>
  BY DEF MainStep, MainStart, MainKeep, MainTop, MainGet, MainGot, MainReadActor,
         MainDone, MainTouch, MainStartError, MainSetError, MainAckError,
         MainGiveUp, Alive, Shape, TypeOK, sharedVars
<1>2. \A a \in Agent : (job[a].pc = "put" \/ job'[a].pc = "put") => job'[a] = job[a]
  <2>1. job' = job \/ job' = [job EXCEPT ![w] = [IdleJob EXCEPT !.pc = "list", !.op = "giveup"]]
    BY DEF MainStep, MainStart, MainKeep, MainTop, MainGet, MainGot, MainReadActor,
           MainDone, MainTouch, MainStartError, MainSetError, MainAckError,
           MainGiveUp, Continue
  <2>2. job[w].pc # "put"
    BY DEF Living, WorkersStop
  <2> QED  BY <2>1, <2>2 DEF IdleJob, Shape, TypeOK
<1>3. Owned' = Owned
  <2>1. CASE UNCHANGED store
    BY <2>1, SameOwned
  <2>2. CASE \E s \in {"READY", "BUSY"} :
               store' = [store EXCEPT ![w] = UpdateWorkerStatus(@, s)]
    BY <2>2, UpdateOwned DEF Statuses
  <2>3. CASE store' = [store EXCEPT ![w] = TouchUpsert(@)]
    BY <2>3, OtherOwned
  <2> QED
    BY <2>1, <2>2, <2>3
    DEF MainStep, MainStart, MainKeep, MainTop, MainGet, MainGot, MainReadActor,
        MainDone, MainTouch, MainStartError, MainSetError, MainAckError, MainGiveUp
<1>4. \A v \in Worker : PhaseOf(v)' = PhaseOf(v)
  BY <1>1, <1>2, QuietPhases DEF Alive
<1> QED  BY <1>3, <1>4, PhaseIs, PhaseWillBe

LEMMA ThreadStepLives ==
    ASSUME Shape, Grounded, Living, NEW w \in Worker, ThreadStep(w)
    PROVE  Life!Next \/ UNCHANGED <<phase, Owned>>
<1>1. CASE ~ThreadExit(w)
  <2>1. UNCHANGED <<main, job, issued, cmd, spawner>>
    BY <1>1 DEF ThreadStep, ThreadGet, ThreadMark, ThreadDelete, ThreadClose, sharedVars
  <2>2. Owned' = Owned \/ Owned' = Owned \ {w}
    <3>1. CASE ThreadMark(w)
      BY <3>1, UpdateOwned DEF ThreadMark, Statuses
    <3>2. CASE ThreadDelete(w)
      BY <3>2, RemoveOwned DEF ThreadDelete
    <3>3. CASE ThreadGet(w) \/ ThreadClose(w)
      BY <3>3, SameOwned DEF ThreadGet, ThreadClose
    <3> QED  BY <1>1, <3>1, <3>2, <3>3 DEF ThreadStep
  <2>3. \A v \in Worker : PhaseOf(v)' = PhaseOf(v)
    BY <2>1, QuietPhases DEF Alive
  <2> QED  BY <2>2, <2>3, NoneMoves
<1>2. CASE ThreadExit(w)
  <2>1. /\ thread[w].pc = "exit"
        /\ UNCHANGED <<store, job, issued, cmd, spawner>>
        /\ main' = [main EXCEPT ![w] = "exited"]
    BY <1>2 DEF ThreadExit, sharedVars
  <2>2. Alive(w) /\ w \notin Owned
    BY <2>1 DEF Living, ThreadLives, Grounded, Records, GoneUnlisted, Owned
  <2>4. ASSUME NEW v \in Worker PROVE InHand(v)' <=> InHand(v)
    BY <2>1, InHandIs, InHandWillBe
  <2>5. main'[w] = "exited" /\ \A v \in Worker \ {w} : main'[v] = main[v]
    BY <2>1 DEF Shape, TypeOK
  <2>6. PhaseOf(w) = "running" /\ PhaseOf(w)' = "exited"
    BY <2>2, <2>5 DEF PhaseOf, Alive
  <2>7. \A v \in Worker \ {w} : PhaseOf(v)' = PhaseOf(v)
    BY <2>1, <2>4, <2>5 DEF PhaseOf, Alive
  <2>8. Life!Exit(w)
    BY <2>1, <2>2, <2>6, <2>7, OneMoves, SameOwned DEF Life!Exit
  <2> QED  BY <2>8 DEF Life!Next
<1> QED  BY <1>1, <1>2

LEMMA InitLives == Init => Life!Init
<1> SUFFICES ASSUME Init PROVE Life!Init
  OBVIOUS
<1>1. \A w \in Worker : ~InHand(w)
  BY InHandIs, PoolAssumption DEF Init, IdleJob, IdleSpawner
<1>2. \A w \in Worker : PhaseOf(w) = "new"
  BY <1>1 DEF Init, PhaseOf, Alive
<1>3. Owned = {}
  BY DEF Init, Owned, Absent
<1> QED  BY <1>2, <1>3, PhaseIs DEF Life!Init

LEMMA NextLives ==
    Shape /\ Grounded /\ OneHolder /\ Living /\ [Next]_vars => [Life!Next]_<<phase, Owned>>
<1> SUFFICES ASSUME Shape, Grounded, OneHolder, Living, [Next]_vars
             PROVE  Life!Next \/ UNCHANGED <<phase, Owned>>
  OBVIOUS
<1>1. CASE UNCHANGED vars
  <2>1. UNCHANGED <<store, issued, cmd, spawner, main, job>>
    BY <1>1 DEF vars
  <2>2. \A w \in Worker : PhaseOf(w)' = PhaseOf(w)
    BY <2>1, QuietPhases DEF Alive
  <2> QED  BY <2>1, <2>2, PhaseIs, PhaseWillBe, SameOwned
<1> QED
  BY <1>1, NewRequestLives, JobStepLives, SpawnerStepLives, MainStepLives,
     ThreadStepLives DEF Next

(* The pool implements the life of a worker id: however handlers, spawners  *)
(* and both threads of the processes interleave and whatever fails, a       *)
(* worker is started at most once and from a request that is in hand, a     *)
(* dropped request stays dropped, and no process exits while it is listed.  *)
THEOREM LifeOfWorkers == Spec => ImplementsLife
<1>1. Init => Shape /\ Grounded /\ OneHolder /\ Living
  BY InitShape, InitGrounded, InitHolders, InitLiving
<1>2. Shape /\ Grounded /\ OneHolder /\ Living /\ [Next]_vars
        => Shape' /\ Grounded' /\ OneHolder' /\ Living'
  BY NextShape, NextGrounded, NextHolders, NextLiving
<1> QED  BY <1>1, <1>2, InitLives, NextLives, PTL DEF Spec, ImplementsLife, Life!Spec
=============================================================================
