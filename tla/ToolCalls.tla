----------------------------- MODULE ToolCalls -----------------------------
(***************************************************************************)
(* The tools of src/tools up to the point where a statement leaves for its *)
(* target: which caller gets which answer under the grants in force, and   *)
(* under which limits a statement is sent. A caller's grants come from the *)
(* groups of their session, through the YAML permissions, and from the     *)
(* permissions store, where administrators change them at any time; they   *)
(* are read once per call, when it begins.                                 *)
(***************************************************************************)
EXTENDS Authz, SqlGuard

CONSTANTS
    Permissions,     \* YAML: group -> its grants
    DbGrants,        \* grants that administrators hand out and take back
    Targets,         \* (server, database) pairs that callers name
    Requests,        \* what they ask there: [text, limit, reason]
    RowCeiling,      \* GATEWAY_ROW_LIMIT_CEILING
    TimeoutCeiling,  \* DEFAULT_STATEMENT_TIMEOUT_MS
    DefaultRows      \* DEFAULT_ROW_LIMIT, DEFAULT_SAMPLE_LIMIT, DEFAULT_HISTORY_LIMIT

Groups == DOMAIN Permissions
Limit == Nat \cup {None}
Grant == [server : STRING, database : STRING, action : Actions,
          row_limit : Limit, timeout : Limit, reason : BOOLEAN]

ASSUME ToolAssumption ==
    /\ RowCeiling \in Nat /\ TimeoutCeiling \in Nat /\ DefaultRows \in Nat
    /\ None \notin Nat
    /\ DbGrants \subseteq Grant /\ \A g \in Groups : Permissions[g] \subseteq Grant
    /\ Requests \subseteq [text : Text, limit : Limit, reason : BOOLEAN]
    /\ Kind \in [Servers -> {"postgres", "mongo"}]   \* others are refused at boot

VARIABLES
    groups,      \* the groups of the caller's session
    granted,     \* the caller's grants in the permissions store
    call         \* the call being answered, or None

vars == <<groups, granted, call>>

\* The grants that hold for the caller.
Held == granted \cup (UNION {Permissions[g] : g \in groups})

Init == groups \in SUBSET Groups /\ granted = {} /\ call = None

Configured(s, d) == s \in Servers /\ d \in Databases[s]

-----------------------------------------------------------------------------
\* A call of tool t on s and d, answered with a code, or sent under limits.
Record(t, s, d, x, code, rows, timeout, reason) ==
    call' = [tool |-> t, server |-> s, database |-> d, text |-> x, code |-> code,
             row_limit |-> rows, timeout |-> timeout, reason |-> reason, grants |-> Held]

Refuse(t, s, d, code) == Record(t, s, d, None, code, None, None, FALSE)

\* The code a call ends with at the gate, or "pass". A database that is not configured is
\* answered like one without grants.
Gate(action, s, d, reason) ==
    IF ~Configured(s, d) \/ ~Allowed(Held, action, s, d) THEN "forbidden"
    ELSE IF Constraints(Held, action, s, d).reason /\ ~reason THEN "reason_required"
    ELSE "pass"

\* Adapter dispatch: a Mongo target has a guard of its own, which knows no SQL.
Accepts(s, x) == Kind[s] = "mongo" => validate_command(x)

\* A text that the gateway writes itself.
Generated == [lang |-> "sql", count |-> 1, explain |-> "none", kind |-> "query",
              holds |-> {}]

Timeout(action, s, d) == AtMost(Constraints(Held, action, s, d).timeout, TimeoutCeiling)

Send(t, action, s, d, x, rows, reason) ==
    IF Accepts(s, x) THEN Record(t, s, d, x, "sent", rows, Timeout(action, s, d), reason)
    ELSE Refuse(t, s, d, "forbidden_sql")

\* Rows for a caller who asks for `limit`.
effective_row_limit(limit, s, d) ==
    AtMost(IF limit = None THEN DefaultRows ELSE limit,
           AtMost(Constraints(Held, "query_read", s, d).row_limit, RowCeiling))

\* Mutant: a caller who may write is held to the constraints of the write grants alone.
RunQueryWriteMerge(s, d, r) ==
    /\ call = None
    /\ LET gate == Gate("query_read", s, d, r.reason)
           writer == Allowed(Held, "query_write", s, d)
           action == IF writer THEN "query_write" ELSE "query_read"
           rows == AtMost(IF r.limit = None THEN DefaultRows ELSE r.limit,
                          AtMost(Constraints(Held, action, s, d).row_limit, RowCeiling)) IN
        IF gate # "pass" THEN Refuse("run_query", s, d, gate)
        ELSE IF Kind[s] = "postgres"
                /\ ~check_sql(r.text, IF writer THEN "ReadWrite" ELSE "ReadOnly")
        THEN Refuse("run_query", s, d, "forbidden_sql")
        ELSE Send("run_query", action, s, d, r.text, rows, r.reason)
    /\ UNCHANGED <<groups, granted>>

\* run_query: the constraints are those of every grant that lets the caller read; whether
\* they may write is asked apart, and decides how the text is guarded.
RunQuery(s, d, r) ==
    /\ call = None
    /\ LET gate == Gate("query_read", s, d, r.reason)
           access == IF Allowed(Held, "query_write", s, d) THEN "ReadWrite" ELSE "ReadOnly" IN
        IF gate # "pass" THEN Refuse("run_query", s, d, gate)
        ELSE IF Kind[s] = "postgres" /\ ~check_sql(r.text, access)
        THEN Refuse("run_query", s, d, "forbidden_sql")
        ELSE Send("run_query", "query_read", s, d, r.text,
                  effective_row_limit(r.limit, s, d), r.reason)
    /\ UNCHANGED <<groups, granted>>

\* explain: the text must be read-only on its own, and is planned only.
Explain(s, d, r) ==
    /\ call = None
    /\ LET gate == Gate("query_read", s, d, r.reason) IN
        IF gate # "pass" THEN Refuse("explain", s, d, gate)
        ELSE IF ~is_read_only(r.text) THEN Refuse("explain", s, d, "forbidden_sql")
        ELSE Send("explain", "query_read", s, d, [r.text EXCEPT !.explain = "plan"], None, r.reason)
    /\ UNCHANGED <<groups, granted>>

\* sample_table: rows of a table whose name passes is_safe_identifier, or does not.
SampleTable(s, d, r, safe) ==
    /\ call = None
    /\ LET gate == Gate("query_read", s, d, r.reason) IN
        IF gate # "pass" THEN Refuse("sample_table", s, d, gate)
        ELSE IF ~safe THEN Refuse("sample_table", s, d, "invalid_argument")
        ELSE Send("sample_table", "query_read", s, d, Generated,
                  effective_row_limit(r.limit, s, d), r.reason)
    /\ UNCHANGED <<groups, granted>>

\* describe_schema: metadata only, for which no reason is asked.
DescribeSchema(s, d) ==
    /\ call = None
    /\ LET gate == Gate("schema_read", s, d, TRUE) IN
        IF gate # "pass" THEN Refuse("describe_schema", s, d, gate)
        ELSE Send("describe_schema", "schema_read", s, d, Generated, None, TRUE)
    /\ UNCHANGED <<groups, granted>>

\* Mutant: list_databases shows the whole of a server that the caller can see.
VisibleAll(gs, s) == {d \in Databases[s] : can_see_server_effective(gs, s)}

\* What list_databases and list_servers show to the holder of gs.
Visible(gs, s) == {d \in Databases[s] : Allowed(gs, "schema_read", s, d)}
Listed(gs) == {s \in Servers : can_see_server_effective(gs, s)}

\* list_databases and list_servers answer from the configuration.
ListDatabases(s) ==
    /\ call = None
    /\ Refuse("list_databases", s, None,
              IF s \in Servers /\ Visible(Held, s) # {} THEN "success" ELSE "forbidden")
    /\ UNCHANGED <<groups, granted>>

ListServers ==
    /\ call = None
    /\ Refuse("list_servers", None, None, "success")
    /\ UNCHANGED <<groups, granted>>

\* get_query_history: the caller's own audit rows for a database, under a grant of its own,
\* of which neither the limit nor the reason is asked. The state database may fail.
GetQueryHistory(s, d, limit, valid) ==
    /\ call = None
    /\ LET gate == Gate("history_read", s, d, TRUE) IN
        IF ~valid \/ limit = 0 THEN Refuse("get_query_history", s, d, "invalid_arguments")
        ELSE IF gate # "pass" THEN Refuse("get_query_history", s, d, gate)
        ELSE \/ Record("get_query_history", s, d, None, "success",
                       AtMost(IF limit = None THEN DefaultRows ELSE limit, RowCeiling), None, TRUE)
             \/ Refuse("get_query_history", s, d, "internal")
    /\ UNCHANGED <<groups, granted>>

\* load_or_empty fails: every tool answers the same.
LoadFails ==
    /\ call = None
    /\ Refuse("any", None, None, "internal")
    /\ UNCHANGED <<groups, granted>>

\* The call is over, whatever the target made of it.
Return == call # None /\ call' = None /\ UNCHANGED <<groups, granted>>

\* Administrators (see PermissionsStore).
AddGrant(g) == g \notin granted /\ granted' = granted \cup {g} /\ UNCHANGED <<groups, call>>
RemoveGrant(g) == granted' = granted \ {g} /\ UNCHANGED <<groups, call>>

Next ==
    \/ \E t \in Targets, r \in Requests :
        \/ RunQuery(t[1], t[2], r) \/ Explain(t[1], t[2], r)
        \/ \E safe \in BOOLEAN : SampleTable(t[1], t[2], r, safe)
    \/ \E t \in Targets : DescribeSchema(t[1], t[2]) \/ ListDatabases(t[1])
    \/ \E t \in Targets, limit \in {r.limit : r \in Requests}, valid \in BOOLEAN :
        GetQueryHistory(t[1], t[2], limit, valid)
    \/ ListServers \/ LoadFails \/ Return
    \/ \E g \in DbGrants : AddGrant(g)
    \/ \E g \in granted : RemoveGrant(g)

Spec == Init /\ [][Next]_vars

-----------------------------------------------------------------------------
Codes == {"success", "forbidden", "reason_required", "forbidden_sql", "invalid_argument",
          "invalid_arguments", "internal", "sent"}

\* Types. Nothing but configured databases is sent a statement or has its history read.
TypeOK ==
    /\ groups \subseteq Groups /\ granted \subseteq DbGrants
    /\ call # None =>
        /\ call.code \in Codes
        /\ call.grants \subseteq Grant
        /\ call.row_limit \in Limit /\ call.timeout \in Limit
        /\ call.code = "sent" \/ (call.code = "success" /\ call.tool = "get_query_history") =>
            Configured(call.server, call.database)

Sent == call # None /\ call.code = "sent"

\* A text whose statements write is sent only as one INSERT, UPDATE or DELETE of run_query, to
\* Postgres, for a caller who holds a query_write grant there; and no text is sent that holds a
\* further statement, a lock or a denied function at any depth (compute_outcome of the tools,
\* check_sql, validate_command). It says nothing of the functions that a text calls: a SELECT
\* of a function that writes and is not one of the six that are denied passes for a reader, and
\* run_query commits it.
OnlyGrantedWrites ==
    Sent =>
        /\ Writes(call.text) =>
            /\ call.tool = "run_query" /\ Kind[call.server] = "postgres"
            /\ call.text.count = 1 /\ call.text.kind = "write" /\ call.text.explain = "none"
            /\ \E g \in call.grants : /\ g.action = "query_write"
                                      /\ g.server \in {"*", call.server}
                                      /\ g.database \in {"*", call.database}
        /\ call.text.holds \subseteq {"effects"}

\* A statement that returns rows stays within the row limit and the timeout of every grant
\* that lets the caller read there, the grants that let them write and those that do not
\* alike, and has a reason if any of them asks for one (evaluate_effective, compute_outcome
\* of run_query, explain and sample_table). The order is that of the numbers, as in min_option: a
\* grant with timeout 0 is the tightest here, though a target reads 0 as no limit.
TightestGrantHolds ==
    Sent /\ call.tool \in {"run_query", "explain", "sample_table"} =>
        /\ call.timeout <= TimeoutCeiling
        /\ call.row_limit # None => call.row_limit <= RowCeiling
        /\ \A g \in Matches(call.grants, "query_read", call.server, call.database) :
            /\ g.timeout # None => call.timeout <= g.timeout
            /\ g.row_limit # None /\ call.row_limit # None => call.row_limit <= g.row_limit
            /\ g.reason => call.reason

\* describe_schema against list_databases, for the grants the call was judged by.
DescribedAsShown ==
    call # None /\ call.tool = "describe_schema" =>
        LET s == call.server
            shown == s \in Servers /\ call.database \in Visible(call.grants, s) IN
        /\ shown <=> call.code # "forbidden"
        /\ shown => call.code = IF Kind[s] = "postgres" THEN "sent" ELSE "forbidden_sql"

\* The listings agree with what the other tools answer. A server with databases is in
\* list_servers exactly if evaluate_effective allows the caller some action on one of them: two
\* tests of a grant, written apart, that must stay in step. And describe_schema refuses exactly
\* the databases that list_databases would not have shown at the time, with the same code as one
\* that does not exist; of those it shows it queries the catalog on Postgres and has no answer
\* but forbidden_sql on Mongo (can_see_server_effective, compute_outcome of list_databases and
\* describe_schema).
ListingsAgree ==
    /\ \A s \in Servers :
        Databases[s] # {} =>
            (s \in Listed(Held) <=>
                \E a \in Actions, d \in Databases[s] : Allowed(Held, a, s, d))
    /\ DescribedAsShown

\* Every right is kept, under constraints at least as tight as before.
NoLooser ==
    \A a \in Actions, s \in Servers : \A d \in Databases[s] :
        Allowed(Held, a, s, d) =>
            LET old == Constraints(Held, a, s, d)
                new == Constraints(Held', a, s, d) IN
            /\ Allowed(Held', a, s, d)
            /\ Tighter(new.row_limit, old.row_limit)
            /\ Tighter(new.timeout, old.timeout)
            /\ old.reason => new.reason

\* Another grant never loosens what the caller has: what was allowed stays allowed, and every
\* constraint on it is at least as tight as before (merge).
NeverLooser == [][granted \subseteq granted' => NoLooser]_vars
=============================================================================
