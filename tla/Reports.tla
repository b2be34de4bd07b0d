------------------------------- MODULE Reports -------------------------------
(* What the API tells about actors and executions: the reports for admins,  *)
(* the summary of an actor's executions, and searches among them.  Each is  *)
(* put together from several accesses to stores that handlers and workers   *)
(* change meanwhile.  One thread makes reports, one after the other.        *)
EXTENDS Search, FiniteSets, FiniteSetsExt, Functions

CONSTANTS
    Actor,        \* ids that get_uuid() may generate
    Execution,    \* ids of executions
    NoActor,      \* the actor of an execution that was not asked for yet
    Cost,         \* what a finished execution is charged with
    Searches      \* the sequences of arguments that searches are tried with

ASSUME ReportsAssumption == NoActor \notin Actor /\ Cost \subseteq Nat

VARIABLES
    actors,      \* the documents in actors_store
    posted,      \* the ids generated so far
    uncounted,   \* those of them that are not in actor_total (yet)
    actorTotal,  \* the counter of that name in abaco_metrics_store
    permitted,   \* the actors with an entry of the user who searches in
                 \* permissions_store
    putting,     \* the actors that PUT handlers read and are going to write
    execs,       \* where each execution is ("none", "adding", "saved",
                 \* "complete", "final"), its actor and its cost (one for io,
                 \* cpu and runtime, each of which is written by itself)
    report       \* the report that is made

vars == <<actors, posted, uncounted, actorTotal, permitted, putting, execs, report>>
registry == <<actors, posted, uncounted, actorTotal, permitted, putting>>

NoExec == [pc |-> "none", actor |-> NoActor, cost |-> 0]
NoReport == [kind |-> "none", pc |-> "done"]
Fields == <<"list", "executions", "cost">>
NoSummary == [list |-> 0, executions |-> 0, cost |-> 0]

(* The documents in executions_store, which are never removed.              *)
Saved == {e \in Execution : execs[e].pc \notin {"none", "adding"}}
SavedOf(a) == {e \in Saved : execs[e].actor = a}
CostOf(E) == MapThenSumSet(LAMBDA e : execs[e].cost, E)

(* dict[key] = value                                                        *)
Assigned(dict, key, value) ==
    [k \in DOMAIN dict \cup {key} |-> IF k = key THEN value ELSE dict[k]]

(* What a search of the user can come upon: executions joined with the      *)
(* permissions of their actors.  An entry is enough, whatever its level.    *)
Secured == {e \in Saved : execs[e].actor \in permitted}

Init ==
    /\ actors = {} /\ posted = {} /\ uncounted = {} /\ permitted = {} /\ putting = {}
    /\ actorTotal = 0
    /\ execs = [e \in Execution |-> NoExec]
    /\ report = NoReport

-----------------------------------------------------------------------------
(* The handlers and workers that change what is reported.                   *)

(* Actor.get_derived_value(): an id that no document had before.            *)
Generated(a) == a \notin posted /\ posted' = posted \cup {a}

(* ActorsResource.post() saves the document, ...                            *)
PostActor(a) ==
    /\ Generated(a)
    /\ actors' = actors \cup {a}
    /\ uncounted' = uncounted \cup {a}
    /\ UNCHANGED <<actorTotal, permitted, putting, execs, report>>

(* ... counts it with $inc and grants the owner permission, unless the      *)
(* handler dies before.                                                     *)
CountActor(a) ==
    /\ a \in uncounted
    /\ uncounted' = uncounted \ {a}
    /\ actorTotal' = actorTotal + 1
    /\ permitted' = permitted \cup {a}
    /\ UNCHANGED <<actors, posted, putting, execs, report>>

PutActor(a) ==
    /\ a \in actors
    /\ putting' = putting \cup {a}
    /\ UNCHANGED <<actors, posted, uncounted, actorTotal, permitted, execs, report>>

(* The late write brings a document back that was deleted meanwhile.        *)
SaveActor(a) ==
    /\ a \in putting
    /\ putting' = putting \ {a}
    /\ actors' = actors \cup {a}
    /\ UNCHANGED <<posted, uncounted, actorTotal, permitted, execs, report>>

(* A walk over actors that is under way is told apart if one of its actors  *)
(* goes before it is visited.                                               *)
Crossed(a) ==
    IF report.kind \in {"actors", "summary", "mine"} /\ report.pc = "walk" /\ a \in report.todo
    THEN [report EXCEPT !.crossed = TRUE] ELSE report

(* Mutant of DeleteActor: the counter is taken back.                        *)
DeleteActorUncounts(a) ==
    /\ a \in actors
    /\ actors' = actors \ {a}
    /\ permitted' = permitted \ {a}
    /\ actorTotal' = IF a \in uncounted THEN actorTotal ELSE actorTotal - 1
    /\ report' = Crossed(a)
    /\ UNCHANGED <<posted, uncounted, putting, execs>>

(* ActorResource.delete(): neither executions nor the counter change.       *)
DeleteActor(a) ==
    /\ a \in actors
    /\ actors' = actors \ {a}
    /\ permitted' = permitted \ {a}
    /\ report' = Crossed(a)
    /\ UNCHANGED <<posted, uncounted, actorTotal, putting, execs>>

(* add_execution() reads the actor and then saves the execution.            *)
ReadActor(e, a) ==
    /\ execs[e].pc = "none"
    /\ a \in actors
    /\ execs' = [execs EXCEPT ![e] = [NoExec EXCEPT !.pc = "adding", !.actor = a]]
    /\ UNCHANGED <<registry, report>>

SaveExecution(e) ==
    /\ execs[e].pc = "adding"
    /\ execs' = [execs EXCEPT ![e].pc = "saved"]
    /\ UNCHANGED <<registry, report>>

(* finalize_execution() writes the status first and the rest one by one;    *)
(* an execution whose message is delivered again is finalized again.        *)
FinalizeStatus(e) ==
    /\ execs[e].pc \in {"saved", "final"}
    /\ execs' = [execs EXCEPT ![e].pc = "complete"]
    /\ UNCHANGED <<registry, report>>

FinalizeCost(e, c) ==
    /\ execs[e].pc = "complete"
    /\ execs' = [execs EXCEPT ![e].pc = "final", ![e].cost = c]
    /\ UNCHANGED <<registry, report>>

-----------------------------------------------------------------------------
(* AdminExecutionsResource.get()                                            *)

(* items() is a list: the executions with what they cost at that time.      *)
ReportExecutions ==
    /\ report = NoReport
    /\ report' = [kind |-> "executions", pc |-> "walk", todo |-> Saved,
                  cost |-> [e \in Saved |-> execs[e].cost],
                  stats |-> <<>>, gone |-> {},
                  with |-> 0, all |-> 0, allCost |-> 0,
                  existing |-> 0, existingCost |-> 0, actorsAll |-> 0, actorsExisting |-> 0]
    /\ UNCHANGED <<registry, execs>>

Visited == DOMAIN report.cost \ report.todo
Known(a) == a \in DOMAIN report.stats \/ a \in report.gone

(* Mutant of Found: nobody remembers which actors were not found.           *)
FoundAnew(a) == a \in DOMAIN report.stats \/ a \in actors

(* An actor is looked up once, at the first of its executions.              *)
Found(a) == a \notin report.gone /\ (a \in DOMAIN report.stats \/ a \in actors)

VisitExecution(e) ==
    LET a == execs[e].actor
        old == IF a \in DOMAIN report.stats THEN report.stats[a]
               ELSE [executions |-> 0, cost |-> 0]
        new == [executions |-> old.executions + 1, cost |-> old.cost + report.cost[e]]
        n == IF Found(a) THEN 1 ELSE 0
    IN  /\ report.kind = "executions" /\ report.pc = "walk"
        /\ e \in report.todo
        /\ report' = [report EXCEPT
              !.todo = @ \ {e},
              !.stats = IF Found(a) THEN Assigned(@, a, new) ELSE @,
              !.gone = IF Found(a) THEN @ ELSE @ \cup {a},
              !.with = @ + (IF Known(a) THEN 0 ELSE 1),
              !.all = @ + 1, !.allCost = @ + report.cost[e],
              !.existing = @ + n, !.existingCost = @ + n * report.cost[e]]
        /\ UNCHANGED <<registry, execs>>

(* The counter is read after the walk, the number of documents after that;  *)
(* there is no counter before the first actor is counted, and no report.    *)
ReadTotal ==
    /\ report.kind = "executions" /\ report.pc = "walk" /\ report.todo = {}
    /\ report' = IF actorTotal = 0 THEN NoReport
                 ELSE [report EXCEPT !.pc = "len", !.actorsAll = actorTotal]
    /\ UNCHANGED <<registry, execs>>

ReadLen ==
    /\ report.kind = "executions" /\ report.pc = "len"
    /\ report' = [report EXCEPT !.pc = "done", !.actorsExisting = Cardinality(actors)]
    /\ UNCHANGED <<registry, execs>>

-----------------------------------------------------------------------------
(* AdminActorsResource.get(), and ActorExecutionsResource.get() without     *)
(* arguments, which is the same for one actor.                              *)
Walk(kind, todo) == [kind |-> kind, pc |-> "walk", all |-> todo, todo |-> todo,
                     stats |-> <<>>, crossed |-> FALSE,
                     actor |-> NoActor, at |-> 0, sum |-> NoSummary]

ReportActors ==
    /\ report = NoReport
    /\ report' = Walk("actors", actors)
    /\ UNCHANGED <<registry, execs>>

GetExecutions(a) ==
    /\ report = NoReport
    /\ a \in actors
    /\ report' = Walk("summary", {a})
    /\ UNCHANGED <<registry, execs>>

(* Mutant of Summary: an actor needs an execution.                          *)
SummaryNeedsOne(a) ==
    IF SavedOf(a) # {}
    THEN <<[list |-> Cardinality(SavedOf(a)), executions |-> Cardinality(SavedOf(a)),
            cost |-> CostOf(SavedOf(a))]>>
    ELSE <<>>

(* compute_summary_stats(); <<>>: the actor is gone, which is an exception. *)
Summary(a) ==
    IF a \in actors
    THEN <<[list |-> Cardinality(SavedOf(a)), executions |-> Cardinality(SavedOf(a)),
            cost |-> CostOf(SavedOf(a))]>>
    ELSE <<>>

(* The fields of an ExecutionsSummary in their order; api_server comes      *)
(* before.  get_derived_value() takes what was computed for a field before, *)
(* and if that is nothing or zero computes everything again: for this field *)
(* and those that follow.  The fields from `at` to Taken are of one time.   *)
Taken(at, now) ==
    Min({k \in at .. Len(Fields) : k = Len(Fields) \/ now[Fields[k + 1]] = 0})

(* An exception ends the walk: what was collected so far is the answer.     *)
VisitActor(a) ==
    /\ report.kind \in {"actors", "summary"} /\ report.pc = "walk"
    /\ a \in report.todo
    /\ report.at > 0 => a = report.actor
    /\ report' =
         IF Summary(a) = <<>> THEN [report EXCEPT !.pc = "done"]
         ELSE LET now == Summary(a)[1]
                  to == Taken(report.at, now)
                  new == {Fields[i] : i \in 1 .. to} \ {Fields[i] : i \in 1 .. report.at - 1}
                  sum == [f \in DOMAIN NoSummary |-> IF f \in new THEN now[f] ELSE report.sum[f]]
              IN  IF to < Len(Fields)
                  THEN [report EXCEPT !.actor = a, !.at = to + 1, !.sum = sum]
                  ELSE [report EXCEPT !.actor = NoActor, !.at = 0, !.sum = NoSummary,
                                      !.todo = @ \ {a}, !.stats = Assigned(@, a, sum)]
    /\ UNCHANGED <<registry, execs>>

(* ActorsResource.get() without a search asks for a permission on each of   *)
(* the actors in turn; one without a permissions document, be it that its   *)
(* registration is under way or that it was deleted, fails the request.     *)
ListActors ==
    /\ report = NoReport
    /\ report' = [Walk("mine", actors) EXCEPT !.crossed = ~(actors \subseteq permitted)]
    /\ UNCHANGED <<registry, execs>>

CheckListed(a) ==
    /\ report.kind = "mine" /\ report.pc = "walk"
    /\ a \in report.todo
    /\ report' = IF a \in permitted
                 THEN [report EXCEPT !.todo = @ \ {a}, !.stats = Assigned(@, a, NoSummary)]
                 ELSE [report EXCEPT !.pc = "done"]
    /\ UNCHANGED <<registry, execs>>

EndActors ==
    /\ report.kind \in {"actors", "summary", "mine"} /\ report.pc = "walk" /\ report.todo = {}
    /\ report' = [report EXCEPT !.pc = "done"]
    /\ UNCHANGED <<registry, execs>>

-----------------------------------------------------------------------------
(* ActorUtilization: the number of documents and then the counter.          *)
ReportUtilization ==
    /\ report = NoReport
    /\ report' = [kind |-> "utilization", pc |-> "total", current |-> Cardinality(actors),
                  total |-> 0]
    /\ UNCHANGED <<registry, execs>>

ReadUtilizationTotal ==
    /\ report.kind = "utilization" /\ report.pc = "total"
    /\ report' = IF actorTotal = 0 THEN NoReport
                 ELSE [report EXCEPT !.pc = "done", !.total = actorTotal]
    /\ UNCHANGED <<registry, execs>>

(* ActorExecutionsResource.get() with arguments.  The text index and the    *)
(* query find some of the documents; which ones is up to the database.      *)
SearchExecutions(args) ==
    LET parsed == ArgParser(args)
    IN  /\ report = NoReport
        /\ \E found \in SUBSET Secured :
              report' = [kind |-> "search", pc |-> "done", args |-> args, parsed |-> parsed,
                         page |-> IF parsed.failed THEN Page(<<>>, parsed)
                                  ELSE Page(SetToSeq(found), parsed)]
        /\ UNCHANGED <<registry, execs>>

(* The answer is sent.                                                      *)
Answer ==
    /\ report.pc = "done" /\ report # NoReport
    /\ report' = NoReport
    /\ UNCHANGED <<registry, execs>>

Next ==
    \/ \E a \in Actor : \/ PostActor(a) \/ CountActor(a) \/ PutActor(a) \/ SaveActor(a)
                        \/ DeleteActor(a) \/ VisitActor(a) \/ GetExecutions(a)
                        \/ CheckListed(a)
    \/ \E e \in Execution : \/ \E a \in Actor : ReadActor(e, a)
                            \/ \E c \in Cost : FinalizeCost(e, c)
                            \/ SaveExecution(e) \/ FinalizeStatus(e) \/ VisitExecution(e)
    \/ ReportExecutions \/ ReadTotal \/ ReadLen
    \/ ReportActors \/ EndActors \/ ListActors
    \/ ReportUtilization \/ ReadUtilizationTotal
    \/ \E args \in Searches : SearchExecutions(args)
    \/ Answer

Spec == Init /\ [][Next]_vars

-----------------------------------------------------------------------------
(* What the report has of a field of its actors, and of executions' cost.   *)
SumOf(field) == FoldFunction(LAMBDA s, n : n + s[field], 0, report.stats)
CostSum(E) == MapThenSumSet(LAMBDA e : report.cost[e], E)

(* The report on executions adds up at every point of its walk, whatever is *)
(* deleted and brought back meanwhile: an actor is in it with all of its    *)
(* executions or with none, the totals are the sums of the actors', and     *)
(* each actor is counted once (controllers.py:259-300).                     *)
ReportAddsUp ==
    report.kind = "executions" =>
        /\ report.all = Cardinality(Visited)
        /\ report.allCost = CostSum(Visited)
        /\ report.existing = SumOf("executions")
        /\ report.existingCost = SumOf("cost")
        /\ DOMAIN report.stats \cap report.gone = {}
        /\ report.with = Cardinality(DOMAIN report.stats \cup report.gone)
        /\ \A a \in DOMAIN report.stats :
              LET mine == {e \in Visited : execs[e].actor = a}
              IN  report.stats[a] = [executions |-> Cardinality(mine),
                                     cost |-> CostSum(mine)]

(* A list of actors lacks one of those it started from only if one of them  *)
(* was deleted during the walk, which cuts the list short where it is       *)
(* (controllers.py:166-186); the list of GET /actors also if one of them    *)
(* had no permissions when it started (698).  The summaries, each of which  *)
(* may be put together from several computations (models.py:1551-1567),     *)
(* never tell of more executions than there are, nor list more than they    *)
(* count.                                                                   *)
ListCutByDeletion ==
    report.kind \in {"actors", "summary", "mine"} =>
        /\ report.pc = "done" => DOMAIN report.stats = report.all \/ report.crossed
        /\ \A a \in DOMAIN report.stats :
              /\ report.stats[a].list <= report.stats[a].executions
              /\ report.stats[a].executions <= Cardinality(SavedOf(a))

(* Because the counter is read last, no report tells of more actors, with   *)
(* executions or registered, than were ever counted: but for those whose    *)
(* handler has not come to the counter (controllers.py:302, 674-675).       *)
TotalsCoverReports ==
    [][/\ ReadTotal /\ report'.kind = "executions" =>
              report.with <= report'.actorsAll + Cardinality(uncounted)
       /\ ReadUtilizationTotal /\ report'.kind = "utilization" =>
              report.current <= report'.total + Cardinality(uncounted)]_vars

Special == {<<"x-nonce">>, <<"search">>, <<"exactsearch">>, <<"skip">>, <<"limit">>}
Asked(name, default) ==
    IF \E i \in DOMAIN report.args : report.args[i].key = <<name>>
    THEN Number[(CHOOSE arg \in ToSet(report.args) : arg.key = <<name>>).val[1]]
    ELSE default

(* A search asks for what each of its arguments spells, whatever stands     *)
(* beside them and in whatever order they come: one stage for each key that *)
(* is not special, with the operator that is the key's last segment, and    *)
(* the page between skip and skip + limit (models.py:171-309, 324).         *)
SearchMeansItsKeys ==
    report.kind = "search" =>
        LET parsed == report.parsed
            keys == {arg \in ToSet(report.args) : arg.key \notin Special}
        IN  /\ ArgParser(Reverse(report.args)).failed = parsed.failed
            /\ ~parsed.failed =>
                 /\ {[field |-> s.field, op |-> s.op] : s \in ToSet(parsed.query)}
                       = {Spelled(arg) : arg \in keys}
                 /\ Len(parsed.query) = Cardinality(keys)
                 /\ report.page.count_returned =
                       Cardinality({i \in 1 .. report.page.total_count :
                                      /\ i > Asked("skip", 0)
                                      /\ i <= Asked("skip", 0) + Asked("limit", 100)})
=============================================================================
