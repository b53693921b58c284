------------------------------ MODULE SqlGuard ------------------------------
(***************************************************************************)
(* The statement guards of src/exec/sql_guard.rs and                       *)
(* src/exec/mongo/rejector.rs over the shapes they tell apart. A text is   *)
(* [lang, count, explain, kind, holds]:                                    *)
(*   lang     "sql", or "json" for a Mongo command                         *)
(*   count    how many statements the text holds                           *)
(*   explain  "none", or how EXPLAIN wraps it: "plan" or "analyze"         *)
(*   kind     of the statement inside: "query", "write" (INSERT, UPDATE,   *)
(*            DELETE) or "other" (DDL, COPY, SET, transaction control, ...)*)
(*   holds    what lies in it at any depth: "statement" (one that writes,  *)
(*            in a CTE or a subquery), "locks" (FOR UPDATE), "into"        *)
(*            (SELECT INTO), "denied" (a function or $operator that the    *)
(*            gateway refuses by name) and "effects" (a call of any other  *)
(*            function that writes, as nextval does, or one of the users') *)
(***************************************************************************)
EXTENDS Naturals

Text ==
    [lang : {"sql"}, count : Nat, explain : {"none", "plan", "analyze"},
     kind : {"query", "write", "other"},
     holds : SUBSET {"statement", "locks", "into", "denied", "effects"}]
    \cup
    [lang : {"json"}, count : {1}, explain : {"none"}, kind : {"query", "write", "other"},
     holds : SUBSET {"denied"}]

\* Mutant: EXPLAIN is unwrapped without a look at ANALYZE.
ExplainUnwrapped(x) == TRUE

\* Unwrapping stops at ANALYZE, in either spelling: it executes what it wraps.
ExplainOk(x) == x.explain # "analyze"

\* check_statement_shape.
ShapeOk(x, access) == x.kind = "query" \/ (x.kind = "write" /\ access = "ReadWrite")

\* GuardVisitor. Of functions it knows the names it denies, and lets all others pass.
SubstructureOk(x) == x.holds \subseteq {"effects"}

check_sql(x, access) ==
    /\ x.lang = "sql" /\ x.count = 1
    /\ ExplainOk(x)
    /\ ShapeOk(x, access)
    /\ SubstructureOk(x)

is_read_only(x) == check_sql(x, "ReadOnly")

\* The rejector of Mongo commands.
validate_command(x) == x.lang = "json" /\ x.kind = "query" /\ "denied" \notin x.holds

-----------------------------------------------------------------------------
\* Does a statement of the text, at any depth, write when the target runs it? What a function
\* that it calls does ("effects") is not counted: no guard sees that, and the target decides it
\* by the privileges of the role the gateway connects with.
Writes(x) ==
    IF x.lang = "json" THEN x.kind # "query" \/ "denied" \in x.holds
    ELSE \/ x.count > 1
         \/ x.explain # "plan" /\ (x.kind # "query" \/ x.holds \cap {"statement", "into"} # {})
=============================================================================
