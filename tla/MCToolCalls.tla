---------------------------- MODULE MCToolCalls ----------------------------
(* A finite instance of ToolCalls for TLC. *)
EXTENDS ToolCalls

MCKind == [pg |-> "postgres", doc |-> "mongo", bare |-> "postgres"]
MCDatabases == [pg |-> {"app", "hr"}, doc |-> {"app"}, bare |-> {}]
MCTargets == {<<"pg", "app">>, <<"pg", "gone">>, <<"doc", "app">>, <<"nowhere", "app">>}

G(s, d, a, rows, timeout, reason) ==
    [server |-> s, database |-> d, action |-> a, row_limit |-> rows, timeout |-> timeout,
     reason |-> reason]

MCPermissions ==
    [readers |-> {G("pg", "app", "query_read", 1, None, FALSE), G("*", "hr", "query_read", 2, 1, TRUE)},
     writers |-> {G("pg", "*", "query_write", 3, 2, FALSE)}]

MCDbGrants ==
    {G("*", "*", "schema_read", 0, 1, FALSE), G("doc", "*", "history_read", None, None, FALSE),
     G("pg", "gone", "query_read", None, None, FALSE), G("doc", "app", "query_write", None, 9, FALSE),
     G("pg", "app", "query_read", None, 1, TRUE)}

\* Nothing, each thing alone, and a function that writes beside a statement that does.
Holds == {{}, {"statement"}, {"locks"}, {"into"}, {"denied"}, {"effects"}, {"statement", "effects"}}

Sql == [lang : {"sql"}, count : {1}, explain : {"none", "plan", "analyze"},
        kind : {"query", "write", "other"}, holds : Holds]
    \cup [lang : {"sql"}, count : {2}, explain : {"none", "plan"}, kind : {"query", "write"},
          holds : {{}}]
Json == [lang : {"json"}, count : {1}, explain : {"none"}, kind : {"query", "write"},
         holds : {{}, {"denied"}}]

\* Every text, and for two of them every limit and reason.
MCRequests == [text : Sql \cup Json, limit : {None}, reason : {TRUE}]
    \cup [text : {x \in Sql \cup Json : x.count = 1 /\ x.explain = "none" /\ x.kind = "query"
                                        /\ x.holds = {}},
          limit : {None, 0, 2, 9}, reason : BOOLEAN]
=============================================================================
