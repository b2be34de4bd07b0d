------------------------------- MODULE Search -------------------------------
(* Searches (models.Search): how the arguments of a request become the      *)
(* stages of a query on one of the stores, and what is answered of the      *)
(* documents that the query finds.  A key is the sequence of its segments   *)
(* between dots, a value the sequence of its parts between commas.          *)
EXTENDS Integers, Sequences, SequencesExt

(* The parts of values that requests are tried with, by what reads them:    *)
(* float() and int(), json.loads(), and broad_ISO_to_datetime(), for which  *)
(* a year alone is a time as well.                                          *)
Word == {"true", "false", "none"}
Number == [x \in {"-1", "0", "1", "20", "2000"} |->
              CASE x = "-1" -> -1 [] x = "0" -> 0 [] x = "1" -> 1
                [] x = "20" -> 20 [] x = "2000" -> 2000]
List == {"[1]"}
Time == {"2000", "2000-05"}

TimeKeys == {"start_time", "message_received_time", "last_execution_time",
             "last_update_time", "StartedAt", "FinishedAt", "create_time",
             "last_health_check_time"}

(* The operators in the order in which arg_parser() looks for them, which   *)
(* matters where one begins like another: .lte and .lt, .gte and .gt.       *)
Operators == <<"neq", "eq", "lte", "lt", "gte", "gt", "nin", "in",
               "between", "nlike", "like">>

(* The operators that a segment begins with: `input` stands for names that  *)
(* users choose, as in default_environment.input.                           *)
Begins(segment) ==
    {op \in ToSet(Operators) :
        \/ op = segment
        \/ <<op, segment>> \in {<<"lt", "lte">>, <<"gt", "gte">>, <<"in", "input">>}}

-----------------------------------------------------------------------------
(* `".op" in key`: the first segment does not come after a dot.             *)
Holds(key, op) == \E i \in 2 .. Len(key) : op \in Begins(key[i])

(* Mutant of UsedOper: shorter names are looked for before longer ones.     *)
UsedOperReversed(key) ==
    LET held == {i \in DOMAIN Operators : Holds(key, Operators[i])}
    IN  IF held = {} THEN "is" ELSE Operators[Max(held)]

(* The first of the operators that the key holds, or none.                  *)
UsedOper(key) ==
    LET held == {i \in DOMAIN Operators : Holds(key, Operators[i])}
    IN  IF held = {} THEN "is" ELSE Operators[Min(held)]

(* key.split(".op")[0]                                                      *)
Field(key, op) ==
    LET ends == {i \in 2 .. Len(key) : op \in Begins(key[i])}
    IN  IF ends = {} THEN key
        ELSE SubSeq(key, 1, (CHOOSE i \in ends : \A j \in ends : i <= j) - 1)

One(val, S) == Len(val) = 1 /\ val[1] \in S

(* Keys that hold .between need two times, all others one.                  *)
TimeKind(key, val) ==
    LET between == Holds(key, "between")
    IN  IF ToSet(val) \subseteq Time /\ Len(val) = (IF between THEN 2 ELSE 1)
        THEN IF between THEN "times" ELSE "time"
        ELSE "failed"

(* What a value is taken for: some words whatever the key is, then a time   *)
(* if a segment of the key is the name of one, else a number, a list, text. *)
Converted(key, val) ==
    IF One(val, Word) THEN "word"
    ELSE IF ToSet(key) \cap TimeKeys # {} THEN TimeKind(key, val)
    ELSE IF One(val, DOMAIN Number) THEN "number"
    ELSE IF One(val, List) THEN "list"
    ELSE "text"

(* The stage for a key that is not special, <<>> if it raises an exception: *)
(* .between needs two times or the text of two numbers.                     *)
Stage(key, val) ==
    LET op == UsedOper(key)
        kind == Converted(key, val)
    IN  IF \/ kind = "failed"
           \/ /\ op = "between" /\ kind # "times"
              /\ ~(kind = "text" /\ Len(val) = 2 /\ ToSet(val) \subseteq DOMAIN Number)
        THEN <<>>
        ELSE <<[field |-> Field(key, op), op |-> op, kind |-> kind, val |-> val]>>

NoQuery == [query |-> <<>>, text |-> <<>>, skip |-> 0, limit |-> 100, failed |-> FALSE]

(* One turn of the loop over the arguments.                                 *)
Parse(parsed, arg) ==
    CASE parsed.failed \/ arg.key = <<"x-nonce">> -> parsed
      [] ~parsed.failed /\ arg.key \in {<<"search">>, <<"exactsearch">>} ->
           [parsed EXCEPT !.text = Append(@, arg)]
      [] ~parsed.failed /\ arg.key \in {<<"skip">>, <<"limit">>} ->
           IF One(arg.val, {x \in DOMAIN Number : Number[x] >= 0})
           THEN [parsed EXCEPT ![arg.key[1]] = Number[arg.val[1]]]
           ELSE [parsed EXCEPT !.failed = TRUE]
      [] OTHER ->
           LET stage == Stage(arg.key, arg.val)
           IN  [parsed EXCEPT !.query = @ \o stage, !.failed = (stage = <<>>)]

(* arg_parser(): the arguments one after the other.                         *)
ArgParser(args) == FoldLeft(Parse, NoQuery, args)

(* post_processing(): the page that was asked for, and what it is a page of.*)
Page(found, parsed) ==
    LET page == SubSeq(found, parsed.skip + 1,
                       IF parsed.skip + parsed.limit < Len(found)
                       THEN parsed.skip + parsed.limit ELSE Len(found))
    IN  [total_count |-> Len(found), count_returned |-> Len(page), search |-> page]

-----------------------------------------------------------------------------
(* What the arguments say, each one for itself: the operator is the last    *)
(* segment of the key and the field is what comes before, but for names     *)
(* that only begin like an operator.                                        *)
Spelled(arg) ==
    LET last == arg.key[Len(arg.key)]
    IN  IF Len(arg.key) > 1 /\ last \in ToSet(Operators)
        THEN [field |-> Front(arg.key), op |-> last]
        ELSE [field |-> arg.key, op |-> "is"]

(* Arguments that are read as they are spelled: a dictionary, with a value  *)
(* for each key, no key of which has anything after a dot that is or only   *)
(* begins like an operator, but for an operator at its end.                 *)
Argument == [key : Seq(STRING) \ {<<>>}, val : Seq(STRING) \ {<<>>}]
Legible(args) ==
    /\ args \in Seq(Argument)
    /\ \A i, j \in DOMAIN args : args[i].key = args[j].key => i = j
    /\ \A arg \in ToSet(args) : \A k \in 2 .. Len(arg.key) :
          Begins(arg.key[k]) = {} \/ (k = Len(arg.key) /\ arg.key[k] \in ToSet(Operators))
=============================================================================
