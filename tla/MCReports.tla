----------------------------- MODULE MCReports ------------------------------
(* Small instances of Reports for TLC.                                      *)
EXTENDS Reports, TLC

Symmetry == Permutations(Actor) \cup Permutations(Execution)

Arg(key, val) == [key |-> key, val |-> val]

(* Every operator and every conversion ...                                  *)
Valid == <<Arg(<<"io", "neq">>, <<"20">>), Arg(<<"io", "eq">>, <<"none">>),
           Arg(<<"io", "lte">>, <<"2000">>), Arg(<<"io", "lt">>, <<"20">>),
           Arg(<<"limit">>, <<"1">>), Arg(<<"io", "gte">>, <<"1">>),
           Arg(<<"io", "gt">>, <<"0">>), Arg(<<"x-nonce">>, <<"1">>),
           Arg(<<"status", "nin">>, <<"[1]">>), Arg(<<"status", "in">>, <<"[1]">>),
           Arg(<<"io", "between">>, <<"1", "20">>), Arg(<<"search">>, <<"py3_func">>),
           Arg(<<"status", "nlike">>, <<"COMPLETE">>), Arg(<<"id", "like">>, <<"20">>),
           Arg(<<"final_state", "StartedAt", "between">>, <<"2000", "2000-05">>),
           Arg(<<"final_state", "FinishedAt", "lt">>, <<"2000-05">>),
           Arg(<<"skip">>, <<"1">>), Arg(<<"final_state", "Running">>, <<"true">>)>>

(* ... and the arguments that fail, each among others.                      *)
Invalid == {Arg(<<"skip">>, <<"-1">>), Arg(<<"limit">>, <<"COMPLETE">>),
            Arg(<<"io", "between">>, <<"20">>), Arg(<<"io", "between">>, <<"[1]">>),
            Arg(<<"start_time", "gt">>, <<"COMPLETE">>),
            Arg(<<"start_time", "between">>, <<"2000">>)}

SearchArgs == {Valid, SubSeq(Valid, 6, 18), <<Arg(<<"skip">>, <<"0">>)>>}
    \cup {<<Arg(<<"status">>, <<"COMPLETE">>), arg, Arg(<<"cpu", "gte">>, <<"20">>)>> : arg \in Invalid}

ASSUME SearchesAreLegible == \A args \in SearchArgs : Legible(args)
=============================================================================
