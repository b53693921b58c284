-------------------------- MODULE ToolCallsProofs --------------------------
(***************************************************************************)
(* What the tools send to a target, for every configuration, every set of  *)
(* grants, every text and every ceiling: only granted writes, within the   *)
(* tightest of the grants that match. What is needed beyond the types is   *)
(* that a non-empty set of limits has a least one, and that the least of a *)
(* larger set is no larger.                                                *)
(***************************************************************************)
EXTENDS ToolCalls, WellFoundedInduction, TLAPS

\* A set of natural numbers that is not empty has a least one.
LEMMA NatMin ==
    ASSUME NEW S \in SUBSET Nat, S # {}
    PROVE  \E x \in S : \A y \in S : x <= y
<1>1. PICK x \in S : \A y \in S : <<y, x>> \notin OpToRel(<, Nat)
  BY WFMin, NatLessThanWellFounded, Zenon
<1>2. \A y \in S : ~(y < x)
  BY <1>1, Zenon DEF OpToRel
<1> QED  BY <1>2

\* MinOption (min_option over all that match) is one of the values, and bounds them all.
LEMMA MinOptionLeast ==
    ASSUME NEW S \in SUBSET Limit
    PROVE  /\ MinOption(S) \in Limit
           /\ MinOption(S) # None => MinOption(S) \in S
           /\ \A y \in S : y # None => MinOption(S) \in Nat /\ MinOption(S) <= y
<1> None \notin Nat
  BY ToolAssumption
<1>1. CASE S \subseteq {None}
  BY <1>1, Zenon DEF MinOption, Limit
<1>2. CASE ~(S \subseteq {None})
  <2> DEFINE T == S \ {None}
  <2>1. T \in SUBSET Nat /\ T # {}
    BY <1>2, Zenon DEF Limit
  <2>2. \E x \in T : \A y \in T : x <= y
    BY <2>1, NatMin, Zenon
  <2>3. MinOption(S) = CHOOSE x \in T : \A y \in T : x <= y
    BY <1>2 DEF MinOption
  <2>4. MinOption(S) \in T /\ \A y \in T : MinOption(S) <= y
    BY <2>2, <2>3, Zenon
  <2> QED  BY <2>1, <2>4 DEF Limit
<1> QED  BY <1>1, <1>2, Zenon

\* The least of a larger set of values is at least as tight.
LEMMA MinOptionTighter ==
    ASSUME NEW T \in SUBSET Limit, NEW S \in SUBSET T
    PROVE  Tighter(MinOption(T), MinOption(S))
<1>1. CASE MinOption(S) = None
  BY <1>1, Zenon DEF Tighter
<1>2. CASE MinOption(S) # None
  <2>1. MinOption(S) \in T
    BY <1>2, MinOptionLeast, Zenon
  <2>2. MinOption(T) \in Nat /\ MinOption(T) <= MinOption(S)
    BY <1>2, <2>1, MinOptionLeast, Zenon
  <2> QED  BY <2>2, ToolAssumption, Zenon DEF Tighter
<1> QED  BY <1>1, <1>2, Zenon

\* AtMost (effective_timeout_ms) stays below the ceiling and below the value, if there is one.
LEMMA AtMostBounds ==
    ASSUME NEW v \in Limit, NEW c \in Nat
    PROVE  /\ AtMost(v, c) \in Nat /\ AtMost(v, c) <= c
           /\ v # None => AtMost(v, c) <= v
BY ToolAssumption DEF AtMost, Limit

-----------------------------------------------------------------------------
\* The grants that hold for a caller, from YAML and from the store, are grants.
LEMMA HeldAreGrants ==
    ASSUME groups \subseteq Groups, granted \subseteq DbGrants
    PROVE  Held \in SUBSET Grant
<1>1. ASSUME NEW h \in Held
      PROVE  h \in Grant
  <2>1. CASE h \in granted
    BY <2>1, ToolAssumption, Zenon
  <2>2. CASE \E g \in groups : h \in Permissions[g]
    BY <2>2, ToolAssumption
  <2>3. h \in UNION {Permissions[g] : g \in groups} \/ h \in granted
    BY DEF Held
  <2>4. h \in UNION {Permissions[g] : g \in groups} => \E g \in groups : h \in Permissions[g]
    BY Zenon
  <2> QED  BY <2>1, <2>2, <2>3, <2>4, Zenon
<1> QED  BY <1>1

\* The merged constraints of a set of grants are limits, and as tight as each of them (merge).
LEMMA ConstraintsTightest ==
    ASSUME NEW gs \in SUBSET Grant, NEW a, NEW s, NEW d
    PROVE  LET c == Constraints(gs, a, s, d) IN
           /\ c.row_limit \in Limit /\ c.timeout \in Limit
           /\ \A g \in Matches(gs, a, s, d) :
                /\ g.timeout # None => c.timeout \in Nat /\ c.timeout <= g.timeout
                /\ g.row_limit # None => c.row_limit \in Nat /\ c.row_limit <= g.row_limit
                /\ g.reason => c.reason
<1> DEFINE M == Matches(gs, a, s, d)
           c == Constraints(gs, a, s, d)
           R == {g.row_limit : g \in M}
           T == {g.timeout : g \in M}
<1>1. M \in SUBSET Grant
  BY DEF Matches
<1>2. R \in SUBSET Limit /\ T \in SUBSET Limit
  BY <1>1, Zenon DEF Grant
<1>3. c.row_limit = MinOption(R) /\ c.timeout = MinOption(T) /\ c.reason = (\E g \in M : g.reason)
  BY Zenon DEF Constraints, merge
<1>4. c.row_limit \in Limit /\ c.timeout \in Limit
  BY <1>2, <1>3, MinOptionLeast, Zenon
<1>5. ASSUME NEW g \in M, g.timeout # None
      PROVE  c.timeout \in Nat /\ c.timeout <= g.timeout
  BY <1>2, <1>3, <1>5, MinOptionLeast, Zenon
<1>6. ASSUME NEW g \in M, g.row_limit # None
      PROVE  c.row_limit \in Nat /\ c.row_limit <= g.row_limit
  BY <1>2, <1>3, <1>6, MinOptionLeast, Zenon
<1>7. ASSUME NEW g \in M, g.reason
      PROVE  c.reason
  BY <1>3, <1>7, Zenon
<1> QED  BY <1>4, <1>5, <1>6, <1>7, Zenon
-----------------------------------------------------------------------------
\* Nothing that the guards refuse lies in a text (GuardVisitor, denied_match).
Clean(x) == x.holds \subseteq {"effects"}

\* A text that check_sql lets through for a reader, once it is only planned, writes nothing.
LEMMA PlannedIsHarmless ==
    ASSUME NEW x \in Text, is_read_only(x)
    PROVE  LET y == [x EXCEPT !.explain = "plan"] IN
           y.lang = "sql" /\ ~Writes(y) /\ Clean(y)
BY DEF Text, is_read_only, check_sql, SubstructureOk, Writes, Clean

\* What check_sql lets through writes nothing, or is one plain write that access admits.
LEMMA GuardedSql ==
    ASSUME NEW x \in Text, NEW access, check_sql(x, access)
    PROVE  /\ Clean(x)
           /\ Writes(x) => /\ access = "ReadWrite" /\ x.count = 1
                            /\ x.kind = "write" /\ x.explain = "none"
<1>1. /\ x.lang = "sql" /\ x.count = 1 /\ x.holds \subseteq {"effects"}
      /\ x.explain \in {"none", "plan"}
  BY Zenon DEF Text, check_sql, ExplainOk, SubstructureOk
<1>2. x.kind = "query" \/ (x.kind = "write" /\ access = "ReadWrite")
  BY DEF check_sql, ShapeOk
<1> QED  BY <1>1, <1>2 DEF Writes, Clean

\* What validate_command lets through writes nothing.
LEMMA GuardedJson ==
    ASSUME NEW x \in Text, validate_command(x)
    PROVE  ~Writes(x) /\ Clean(x)
BY Zenon DEF Text, validate_command, Writes, Clean

-----------------------------------------------------------------------------
\* What the gate has checked when it lets a call pass.
LEMMA GatePasses ==
    ASSUME NEW a, NEW s, NEW d, NEW reason, Gate(a, s, d, reason) = "pass"
    PROVE  /\ Configured(s, d) /\ Allowed(Held, a, s, d)
           /\ Constraints(Held, a, s, d).reason => reason
BY Zenon DEF Gate

\* effective_row_limit stays below the ceiling and below every grant that matches.
LEMMA RowsBounded ==
    ASSUME groups \subseteq Groups, granted \subseteq DbGrants, NEW s, NEW d, NEW limit \in Limit
    PROVE  LET rows == effective_row_limit(limit, s, d) IN
           /\ rows \in Nat /\ rows <= RowCeiling
           /\ \A g \in Matches(Held, "query_read", s, d) :
                g.row_limit # None => rows <= g.row_limit
<1> DEFINE c == Constraints(Held, "query_read", s, d).row_limit
           top == AtMost(c, RowCeiling)
           asked == IF limit = None THEN DefaultRows ELSE limit
           rows == effective_row_limit(limit, s, d)
<1>1. c \in Limit /\ \A g \in Matches(Held, "query_read", s, d) :
        g.row_limit # None => c \in Nat /\ c <= g.row_limit
  BY HeldAreGrants, ConstraintsTightest, Zenon
<1>2. top \in Nat /\ top <= RowCeiling /\ (c # None => top <= c)
  BY <1>1, AtMostBounds, ToolAssumption, Zenon
<1>3. asked \in Limit
  BY ToolAssumption, Zenon DEF Limit
<1>4. rows = AtMost(asked, top)
  BY Zenon DEF effective_row_limit
<1>5. rows \in Nat /\ rows <= top
  BY <1>2, <1>3, <1>4, AtMostBounds, Zenon
<1>6. ASSUME NEW g \in Matches(Held, "query_read", s, d), g.row_limit # None
      PROVE  rows <= g.row_limit
  <2>1. c \in Nat /\ c <= g.row_limit /\ c # None
    BY <1>1, <1>6, ToolAssumption, Zenon
  <2>2. g.row_limit \in Nat
    BY <1>6, HeldAreGrants, Zenon DEF Matches, Grant, Limit
  <2> HIDE DEF c, top, rows
  <2> QED  BY <1>2, <1>5, <2>1, <2>2
<1> HIDE DEF c, top, rows
<1>7. rows <= RowCeiling
  BY <1>2, <1>5, ToolAssumption
<1> QED  BY <1>5, <1>6, <1>7, Zenon DEF rows

-----------------------------------------------------------------------------
\* The invariants together. Types are needed for the grants a call is judged by.
Inv == TypeOK /\ OnlyGrantedWrites /\ TightestGrantHolds

\* A call that is answered by the gateway itself keeps the invariants.
LEMMA AnsweredKeeps ==
    ASSUME TypeOK, UNCHANGED <<groups, granted>>, NEW t, NEW s, NEW d, NEW code \in Codes \ {"sent"},
           NEW rows \in Limit, NEW reason,
           Record(t, s, d, None, code, rows, None, reason),
           code = "success" /\ t = "get_query_history" => Configured(s, d)
    PROVE  Inv'
<1>1. /\ call'.tool = t /\ call'.server = s /\ call'.database = d /\ call'.code = code
      /\ call'.row_limit = rows /\ call'.timeout = None /\ call'.grants = Held
  BY Zenon DEF Record
<1>2. Held \in SUBSET Grant
  BY HeldAreGrants, Zenon DEF TypeOK
<1>3. TypeOK'
  BY <1>1, <1>2, Zenon DEF TypeOK, Limit, Configured
<1>4. ~Sent'
  BY <1>1, Zenon DEF Sent
<1> QED  BY <1>3, <1>4, Zenon DEF Inv, OnlyGrantedWrites, TightestGrantHolds

\* A call that the gate lets pass and that is sent keeps them, if its text and its limits are
\* what the properties ask for.
LEMMA SentKeeps ==
    ASSUME TypeOK, UNCHANGED <<groups, granted>>, NEW t, NEW a, NEW s, NEW d, NEW x,
           NEW rows \in Limit, NEW reason,
           Configured(s, d), Send(t, a, s, d, x, rows, reason),
           Accepts(s, x) =>
             /\ Clean(x)
             /\ Writes(x) =>
                 /\ t = "run_query" /\ Kind[s] = "postgres"
                 /\ x.count = 1 /\ x.kind = "write" /\ x.explain = "none"
                 /\ \E g \in Held : /\ g.action = "query_write" /\ g.server \in {"*", s}
                                    /\ g.database \in {"*", d},
           t \in {"run_query", "explain", "sample_table"} =>
             /\ a = "query_read" /\ (Constraints(Held, a, s, d).reason => reason)
             /\ rows # None =>
                 /\ rows <= RowCeiling
                 /\ \A g \in Matches(Held, a, s, d) : g.row_limit # None => rows <= g.row_limit
    PROVE  Inv'
<1>1. CASE ~Accepts(s, x)
  <2>1. Record(t, s, d, None, "forbidden_sql", None, None, FALSE)
    BY <1>1, Zenon DEF Send, Refuse
  <2>2. "forbidden_sql" \in Codes \ {"sent"} /\ None \in Limit
    BY Zenon DEF Codes, Limit
  <2> QED  BY <2>1, <2>2, AnsweredKeeps, Zenon
<1>2. CASE Accepts(s, x)
  <2> DEFINE c == Constraints(Held, a, s, d).timeout
             w == Timeout(a, s, d)
  <2>1. /\ call'.tool = t /\ call'.server = s /\ call'.database = d /\ call'.code = "sent"
        /\ call'.row_limit = rows /\ call'.timeout = w /\ call'.grants = Held
        /\ call'.text = x /\ call'.reason = reason
    BY <1>2 DEF Send, Record
  <2>2. Held \in SUBSET Grant
    BY HeldAreGrants, Zenon DEF TypeOK
  <2>3. c \in Limit /\ \A g \in Matches(Held, a, s, d) :
          /\ g.timeout # None => c \in Nat /\ c <= g.timeout
          /\ g.reason => Constraints(Held, a, s, d).reason
    BY <2>2, ConstraintsTightest, Zenon
  <2>4. w \in Nat /\ w <= TimeoutCeiling /\ (c # None => w <= c)
    BY <2>3, AtMostBounds, ToolAssumption, Zenon DEF Timeout
  <2>5. ASSUME NEW g \in Matches(Held, a, s, d), g.timeout # None
        PROVE  w <= g.timeout
    <3>1. c \in Nat /\ c <= g.timeout /\ c # None
      BY <2>3, <2>5, ToolAssumption, Zenon
    <3>2. g.timeout \in Nat
      BY <2>2, <2>5, Zenon DEF Matches, Grant, Limit
    <3> HIDE DEF c, w
    <3> QED  BY <2>4, <3>1, <3>2
  <2> HIDE DEF c, w
  <2>6. TypeOK'
    BY <2>1, <2>2, <2>4, Zenon DEF TypeOK, Limit, Codes, Configured
  <2>7. OnlyGrantedWrites'
    BY <1>2, <2>1, Zenon DEF OnlyGrantedWrites, Clean
  <2>8. TightestGrantHolds'
    BY <2>1, <2>3, <2>4, <2>5, Zenon DEF TightestGrantHolds
  <2> QED  BY <2>6, <2>7, <2>8, Zenon DEF Inv
<1> QED  BY <1>1, <1>2, Zenon

\* A refusal at the gate, or later, keeps them.
LEMMA RefuseKeeps ==
    ASSUME TypeOK, UNCHANGED <<groups, granted>>, NEW t, NEW s, NEW d,
           NEW code \in Codes \ {"sent"}, Refuse(t, s, d, code),
           code = "success" => t # "get_query_history"
    PROVE  Inv'
<1>1. None \in Limit
  BY Zenon DEF Limit
<1> QED  BY <1>1, AnsweredKeeps, Zenon DEF Refuse

\* The gate refuses with codes of its own.
LEMMA GateCodes ==
    ASSUME NEW a, NEW s, NEW d, NEW reason, Gate(a, s, d, reason) # "pass"
    PROVE  Gate(a, s, d, reason) \in Codes \ {"sent", "success"}
BY Zenon DEF Gate, Codes

\* run_query keeps them: check_sql and the rejector judge the text, and a write passes only
\* with a query_write grant.
LEMMA RunQueryKeeps ==
    ASSUME TypeOK, NEW s, NEW d, NEW r \in Requests, RunQuery(s, d, r)
    PROVE  Inv'
<1> DEFINE gate == Gate("query_read", s, d, r.reason)
           access == IF Allowed(Held, "query_write", s, d) THEN "ReadWrite" ELSE "ReadOnly"
           rows == effective_row_limit(r.limit, s, d)
<1>0. UNCHANGED <<groups, granted>> /\ r.text \in Text /\ r.limit \in Limit
  BY ToolAssumption, Zenon DEF RunQuery
<1>1. CASE gate # "pass"
  <2>1. Refuse("run_query", s, d, gate)
    BY <1>1, Zenon DEF RunQuery
  <2>2. gate \in Codes \ {"sent"}
    BY <1>1, GateCodes, Zenon
  <2> QED  BY <1>0, <2>1, <2>2, RefuseKeeps, Zenon
<1>2. CASE gate = "pass" /\ Kind[s] = "postgres" /\ ~check_sql(r.text, access)
  <2>1. Refuse("run_query", s, d, "forbidden_sql")
    BY <1>2, Zenon DEF RunQuery
  <2>2. "forbidden_sql" \in Codes \ {"sent"}
    BY Zenon DEF Codes
  <2> QED  BY <1>0, <2>1, <2>2, RefuseKeeps, Zenon
<1>3. CASE gate = "pass" /\ ~(Kind[s] = "postgres" /\ ~check_sql(r.text, access))
  <2>1. Send("run_query", "query_read", s, d, r.text, rows, r.reason)
    BY <1>3, Zenon DEF RunQuery
  <2>2. /\ Configured(s, d)
        /\ Constraints(Held, "query_read", s, d).reason => r.reason
    BY <1>3, GatePasses
  <2>3. /\ rows \in Nat /\ rows <= RowCeiling
        /\ \A g \in Matches(Held, "query_read", s, d) : g.row_limit # None => rows <= g.row_limit
    BY <1>0, RowsBounded, Zenon DEF TypeOK
  <2>4. CASE Kind[s] = "postgres"
    <3>1. /\ Clean(r.text)
          /\ Writes(r.text) => /\ access = "ReadWrite" /\ r.text.count = 1
                                /\ r.text.kind = "write" /\ r.text.explain = "none"
      BY <1>0, <1>3, <2>4, GuardedSql, Zenon
    <3>2. access = "ReadWrite" =>
            \E g \in Held : /\ g.action = "query_write" /\ g.server \in {"*", s}
                            /\ g.database \in {"*", d}
      BY Zenon DEF Allowed, Matches, grant_applies, includes
    <3> HIDE DEF access, rows, gate
    <3>3. rows \in Limit
      BY <2>3, Zenon DEF Limit
    <3> QED  BY <1>0, <2>1, <2>2, <2>3, <2>4, <3>1, <3>2, <3>3, SentKeeps, Zenon
  <2>5. CASE Kind[s] # "postgres"
    <3>1. Kind[s] = "mongo"
      BY <2>2, <2>5, ToolAssumption, Zenon DEF Configured
    <3>2. Accepts(s, r.text) => ~Writes(r.text) /\ Clean(r.text)
      BY <1>0, <3>1, GuardedJson, Zenon DEF Accepts
    <3> HIDE DEF access, rows, gate
    <3>3. rows \in Limit
      BY <2>3 DEF Limit
    <3> QED  BY <1>0, <2>1, <2>2, <2>3, <3>2, <3>3, SentKeeps, Zenon
  <2> QED  BY <2>4, <2>5, Zenon
<1> QED  BY <1>1, <1>2, <1>3, Zenon

\* explain keeps them: what it sends is planned, not run.
LEMMA ExplainKeeps ==
    ASSUME TypeOK, NEW s, NEW d, NEW r \in Requests, Explain(s, d, r)
    PROVE  Inv'
<1> DEFINE gate == Gate("query_read", s, d, r.reason)
           plan == [r.text EXCEPT !.explain = "plan"]
<1>0. UNCHANGED <<groups, granted>> /\ r.text \in Text
  BY ToolAssumption, Zenon DEF Explain
<1>1. CASE gate # "pass"
  <2>1. Refuse("explain", s, d, gate)
    BY <1>1, Zenon DEF Explain
  <2>2. gate \in Codes \ {"sent"}
    BY <1>1, GateCodes
  <2> QED  BY <1>0, <2>1, <2>2, RefuseKeeps, Zenon
<1>2. CASE gate = "pass" /\ ~is_read_only(r.text)
  <2>1. Refuse("explain", s, d, "forbidden_sql")
    BY <1>2, Zenon DEF Explain
  <2>2. "forbidden_sql" \in Codes \ {"sent"}
    BY DEF Codes
  <2> QED  BY <1>0, <2>1, <2>2, RefuseKeeps, Zenon
<1>3. CASE gate = "pass" /\ is_read_only(r.text)
  <2>1. Send("explain", "query_read", s, d, plan, None, r.reason)
    BY <1>3, Zenon DEF Explain
  <2>2. /\ Configured(s, d)
        /\ Constraints(Held, "query_read", s, d).reason => r.reason
    BY <1>3, GatePasses
  <2>3. ~Writes(plan) /\ Clean(plan)
    BY <1>0, <1>3, PlannedIsHarmless, Zenon
  <2>4. None \in Limit
    BY Zenon DEF Limit
  <2> HIDE DEF gate, plan
  <2> QED  BY <1>0, <2>1, <2>2, <2>3, <2>4, SentKeeps, Zenon
<1> QED  BY <1>1, <1>2, <1>3, Zenon

\* A text that the gateway generates writes nothing.
LEMMA GeneratedIsHarmless == ~Writes(Generated) /\ Clean(Generated)
BY DEF Writes, Clean, Generated

\* sample_table keeps them: the text is the gateway's own, under the caller's limits.
LEMMA SampleTableKeeps ==
    ASSUME TypeOK, NEW s, NEW d, NEW r \in Requests, NEW safe \in BOOLEAN, SampleTable(s, d, r, safe)
    PROVE  Inv'
<1> DEFINE gate == Gate("query_read", s, d, r.reason)
           rows == effective_row_limit(r.limit, s, d)
<1>0. UNCHANGED <<groups, granted>> /\ r.limit \in Limit
  BY ToolAssumption, Zenon DEF SampleTable
<1>1. CASE gate # "pass"
  <2>1. Refuse("sample_table", s, d, gate)
    BY <1>1, Zenon DEF SampleTable
  <2>2. gate \in Codes \ {"sent"}
    BY <1>1, GateCodes, Zenon
  <2> QED  BY <1>0, <2>1, <2>2, RefuseKeeps, Zenon
<1>2. CASE gate = "pass" /\ ~safe
  <2>1. Refuse("sample_table", s, d, "invalid_argument")
    BY <1>2, Zenon DEF SampleTable
  <2>2. "invalid_argument" \in Codes \ {"sent"}
    BY Zenon DEF Codes
  <2> QED  BY <1>0, <2>1, <2>2, RefuseKeeps, Zenon
<1>3. CASE gate = "pass" /\ safe
  <2>1. Send("sample_table", "query_read", s, d, Generated, rows, r.reason)
    BY <1>3, Zenon DEF SampleTable
  <2>2. /\ Configured(s, d)
        /\ Constraints(Held, "query_read", s, d).reason => r.reason
    BY <1>3, GatePasses
  <2>3. /\ rows \in Nat /\ rows <= RowCeiling
        /\ \A g \in Matches(Held, "query_read", s, d) : g.row_limit # None => rows <= g.row_limit
    BY <1>0, RowsBounded, Zenon DEF TypeOK
  <2> HIDE DEF gate, rows
  <2>4. rows \in Limit
    BY <2>3 DEF Limit
  <2> QED  BY <1>0, <2>1, <2>2, <2>3, <2>4, GeneratedIsHarmless, SentKeeps, Zenon
<1> QED  BY <1>1, <1>2, <1>3, Zenon

\* describe_schema keeps them: its text is the gateway's own too.
LEMMA DescribeSchemaKeeps ==
    ASSUME TypeOK, NEW s, NEW d, DescribeSchema(s, d)
    PROVE  Inv'
<1> DEFINE gate == Gate("schema_read", s, d, TRUE)
<1>0. UNCHANGED <<groups, granted>> /\ None \in Limit
  BY DEF DescribeSchema, Limit
<1>1. CASE gate # "pass"
  <2>1. Refuse("describe_schema", s, d, gate)
    BY <1>1, Zenon DEF DescribeSchema
  <2>2. gate \in Codes \ {"sent"}
    BY <1>1, GateCodes, Zenon
  <2> QED  BY <1>0, <2>1, <2>2, RefuseKeeps, Zenon
<1>2. CASE gate = "pass"
  <2>1. Send("describe_schema", "schema_read", s, d, Generated, None, TRUE) /\ Configured(s, d)
    BY <1>2, GatePasses, Zenon DEF DescribeSchema
  <2> QED  BY <1>0, <2>1, GeneratedIsHarmless, SentKeeps, Zenon
<1> QED  BY <1>1, <1>2, Zenon

\* get_query_history keeps them: nothing is sent, and history is read of a configured database.
LEMMA GetQueryHistoryKeeps ==
    ASSUME TypeOK, NEW s, NEW d, NEW limit \in Limit, NEW valid \in BOOLEAN,
           GetQueryHistory(s, d, limit, valid)
    PROVE  Inv'
<1> DEFINE gate == Gate("history_read", s, d, TRUE)
           asked == IF limit = None THEN DefaultRows ELSE limit
           rows == AtMost(asked, RowCeiling)
<1>0. UNCHANGED <<groups, granted>> /\ {"invalid_arguments", "internal", "success"} \subseteq Codes
  BY Zenon DEF GetQueryHistory, Codes
<1>1. CASE ~valid \/ limit = 0
  <2>1. Refuse("get_query_history", s, d, "invalid_arguments")
    BY <1>1, Zenon DEF GetQueryHistory
  <2> QED  BY <1>0, <2>1, RefuseKeeps, Zenon
<1>2. CASE ~(~valid \/ limit = 0) /\ gate # "pass"
  <2>1. Refuse("get_query_history", s, d, gate)
    BY <1>2, Zenon DEF GetQueryHistory
  <2>2. gate \in Codes \ {"sent"} /\ gate # "success"
    BY <1>2, GateCodes, Zenon
  <2> QED  BY <1>0, <2>1, <2>2, RefuseKeeps, Zenon
<1>3. CASE ~(~valid \/ limit = 0) /\ gate = "pass"
  <2>1. \/ Record("get_query_history", s, d, None, "success", rows, None, TRUE)
        \/ Refuse("get_query_history", s, d, "internal")
    BY <1>3, Zenon DEF GetQueryHistory
  <2>2. Configured(s, d)
    BY <1>3, GatePasses, Zenon
  <2>3. rows \in Limit
    <3>1. asked \in Limit
      BY ToolAssumption, Zenon DEF Limit
    <3> QED  BY <3>1, AtMostBounds, ToolAssumption, Zenon DEF Limit
  <2> HIDE DEF gate, rows
  <2>4. CASE Record("get_query_history", s, d, None, "success", rows, None, TRUE)
    BY <1>0, <2>2, <2>3, <2>4, AnsweredKeeps, Zenon
  <2>5. CASE Refuse("get_query_history", s, d, "internal")
    BY <1>0, <2>5, RefuseKeeps, Zenon
  <2> QED  BY <2>1, <2>4, <2>5, Zenon
<1> QED  BY <1>1, <1>2, <1>3, Zenon

\* The listings, a failed load of the grants, the end of a call and the administrators keep
\* them: nothing is sent.
LEMMA OthersKeep ==
    ASSUME Inv,
           \/ \E t \in Targets : ListDatabases(t[1])
           \/ ListServers \/ LoadFails \/ Return
           \/ \E g \in DbGrants : AddGrant(g)
           \/ \E g \in granted : RemoveGrant(g)
           \/ UNCHANGED vars
    PROVE  Inv'
<1>0. TypeOK /\ {"forbidden", "internal", "success"} \subseteq Codes \ {"sent"}
  BY Zenon DEF Inv, Codes
<1>1. ASSUME NEW s, ListDatabases(s)
      PROVE  Inv'
  <2>1. PICK code \in {"success", "forbidden"} : Refuse("list_databases", s, None, code)
    BY <1>1, Zenon DEF ListDatabases
  <2> QED  BY <1>0, <1>1, <2>1, RefuseKeeps, Zenon DEF ListDatabases
<1>2. CASE ListServers
  BY <1>0, <1>2, RefuseKeeps, Zenon DEF ListServers
<1>3. CASE LoadFails
  BY <1>0, <1>3, RefuseKeeps, Zenon DEF LoadFails
<1>4. CASE Return
  BY <1>4, Zenon DEF Inv, TypeOK, OnlyGrantedWrites, TightestGrantHolds, Sent, Return
<1>5. ASSUME NEW g \in DbGrants, AddGrant(g) \/ RemoveGrant(g)
      PROVE  Inv'
  <2>1. call' = call /\ groups' = groups /\ granted' \subseteq DbGrants
    BY <1>0, <1>5, Zenon DEF TypeOK, AddGrant, RemoveGrant
  <2>2. TypeOK'
    BY <1>0, <2>1, Zenon DEF TypeOK, Configured
  <2> QED  BY <2>1, <2>2, Zenon DEF Inv, OnlyGrantedWrites, TightestGrantHolds, Sent
<1>6. CASE UNCHANGED vars
  BY <1>6, Zenon DEF Inv, TypeOK, OnlyGrantedWrites, TightestGrantHolds, Sent, vars, Configured
<1>7. granted \subseteq DbGrants
  BY <1>0, Zenon DEF TypeOK
<1> QED  BY <1>1, <1>2, <1>3, <1>4, <1>5, <1>6, <1>7, Zenon

\* Every step of the tools and of the administrators keeps the invariants.
LEMMA InvInductive == Inv /\ [Next]_vars => Inv'
<1> SUFFICES ASSUME Inv, [Next]_vars
             PROVE  Inv'
  BY Zenon
<1>0. TypeOK
  BY Zenon DEF Inv
<1>1. ASSUME NEW t \in Targets, NEW r \in Requests, RunQuery(t[1], t[2], r)
      PROVE  Inv'
  BY <1>0, <1>1, RunQueryKeeps, Zenon
<1>2. ASSUME NEW t \in Targets, NEW r \in Requests, Explain(t[1], t[2], r)
      PROVE  Inv'
  BY <1>0, <1>2, ExplainKeeps, Zenon
<1>3. ASSUME NEW t \in Targets, NEW r \in Requests, NEW safe \in BOOLEAN,
             SampleTable(t[1], t[2], r, safe)
      PROVE  Inv'
  BY <1>0, <1>3, SampleTableKeeps, Zenon
<1>4. ASSUME NEW t \in Targets, DescribeSchema(t[1], t[2])
      PROVE  Inv'
  BY <1>0, <1>4, DescribeSchemaKeeps, Zenon
<1>5. ASSUME NEW t \in Targets, NEW limit \in {r.limit : r \in Requests}, NEW valid \in BOOLEAN,
             GetQueryHistory(t[1], t[2], limit, valid)
      PROVE  Inv'
  <2>1. limit \in Limit
    BY ToolAssumption, Zenon
  <2> QED  BY <1>0, <1>5, <2>1, GetQueryHistoryKeeps, Zenon
<1> QED  BY <1>1, <1>2, <1>3, <1>4, <1>5, OthersKeep, Zenon DEF Next

LEMMA InvHolds == Spec => []Inv
<1>1. Init => Inv
  BY DEF Init, Inv, TypeOK, OnlyGrantedWrites, TightestGrantHolds, Sent
<1> QED  BY <1>1, InvInductive, PTL DEF Spec

-----------------------------------------------------------------------------
\* Types, for every configuration: statements go to configured databases only, and history is
\* read of no other (compute_outcome of the tools).
THEOREM TypeCorrect == Spec => []TypeOK
<1>1. Inv => TypeOK
  BY Zenon DEF Inv
<1> QED  BY <1>1, InvHolds, PTL

\* Whatever the grants and the texts, a statement that writes is sent only as the one plain
\* write of a caller with a query_write grant (check_sql, validate_command, compute_outcome).
\* The functions that a text calls are not its statements: see OnlyGrantedWrites.
THEOREM WritesAreGranted == Spec => []OnlyGrantedWrites
<1>1. Inv => OnlyGrantedWrites
  BY Zenon DEF Inv
<1> QED  BY <1>1, InvHolds, PTL

\* Whatever the grants, a statement is within the limits of each one that matches it
\* (evaluate_effective, effective_row_limit, effective_timeout_ms).
THEOREM LimitsAreTightest == Spec => []TightestGrantHolds
<1>1. Inv => TightestGrantHolds
  BY Zenon DEF Inv
<1> QED  BY <1>1, InvHolds, PTL

\* A server is listed exactly if some action is allowed on one of its databases: the two tests
\* of a grant, grant_can_see and grant_applies, are in step.
LEMMA ListedIfAllowed ==
    ASSUME NEW gs \in SUBSET Grant, NEW s \in Servers, Databases[s] # {}
    PROVE  s \in Listed(gs) <=> \E a \in Actions, d \in Databases[s] : Allowed(gs, a, s, d)
<1>1. ASSUME s \in Listed(gs)
      PROVE  \E a \in Actions, d \in Databases[s] : Allowed(gs, a, s, d)
  <2>1. PICK g \in gs : grant_can_see(g, s)
    BY <1>1, Zenon DEF Listed, can_see_server_effective
  <2>2. g.action \in Actions
    BY Zenon DEF Grant
  <2>3. includes(g.action, g.action)
    BY <2>2, Zenon DEF includes, Actions
  <2>4. PICK d \in Databases[s] : g.database \in {"*", d}
    BY <2>1, Zenon DEF grant_can_see
  <2>5. grant_applies(g, g.action, s, d)
    BY <2>1, <2>3, <2>4, Zenon DEF grant_applies, grant_can_see
  <2>6. Allowed(gs, g.action, s, d)
    BY <2>5, Zenon DEF Allowed, Matches
  <2> QED  BY <2>2, <2>4, <2>6, Zenon
<1>2. ASSUME NEW a \in Actions, NEW d \in Databases[s], Allowed(gs, a, s, d)
      PROVE  s \in Listed(gs)
  <2>1. PICK g \in gs : grant_applies(g, a, s, d)
    BY <1>2, Zenon DEF Allowed, Matches
  <2>2. grant_can_see(g, s)
    BY <2>1, Zenon DEF grant_applies, grant_can_see
  <2> QED  BY <2>2, Zenon DEF Listed, can_see_server_effective
<1> QED  BY <1>1, <1>2, Zenon

\* A call of describe_schema ends as list_databases would have shown the database: the gate is
\* the test of the listing, and a Mongo target refuses the gateway's SQL.
LEMMA DescribeSchemaShown ==
    ASSUME NEW s, NEW d, DescribeSchema(s, d)
    PROVE  DescribedAsShown'
<1> DEFINE gate == Gate("schema_read", s, d, TRUE)
           shown == s \in Servers /\ d \in Visible(Held, s)
<1>1. gate = IF shown THEN "pass" ELSE "forbidden"
  BY Zenon DEF Gate, Configured, Visible
<1>2. /\ call'.tool = "describe_schema" /\ call'.server = s /\ call'.database = d
      /\ call'.grants = Held
      /\ call'.code = IF gate # "pass" THEN gate
                      ELSE IF Accepts(s, Generated) THEN "sent" ELSE "forbidden_sql"
  <2>1. CASE gate # "pass"
    <3>1. Refuse("describe_schema", s, d, gate)
      BY <2>1, Zenon DEF DescribeSchema
    <3> QED  BY <2>1, <3>1, Zenon DEF Refuse, Record
  <2>2. CASE gate = "pass"
    <3>1. Send("describe_schema", "schema_read", s, d, Generated, None, TRUE)
      BY <2>2, Zenon DEF DescribeSchema
    <3> DEFINE code == IF Accepts(s, Generated) THEN "sent" ELSE "forbidden_sql"
    <3>2. PICK x, timeout, reason : Record("describe_schema", s, d, x, code, None, timeout, reason)
      BY <3>1, Zenon DEF Send, Refuse
    <3> HIDE DEF code
    <3>3. /\ call'.tool = "describe_schema" /\ call'.server = s /\ call'.database = d
          /\ call'.grants = Held /\ call'.code = code
      BY <3>2, Zenon DEF Record
    <3> QED  BY <2>2, <3>3, Zenon DEF code
  <2> QED  BY <2>1, <2>2, Zenon
<1>3. shown => (Accepts(s, Generated) <=> Kind[s] = "postgres")
  BY ToolAssumption DEF Accepts, validate_command, Generated
<1>4. call'.code = IF ~shown THEN "forbidden"
                   ELSE IF Kind[s] = "postgres" THEN "sent" ELSE "forbidden_sql"
  BY <1>1, <1>2, <1>3, Zenon
<1>5. shown = (call'.server \in Servers /\ call'.database \in Visible(call'.grants, call'.server))
  BY <1>2, Zenon
<1> HIDE DEF shown, gate
<1>6. /\ shown <=> call'.code # "forbidden"
      /\ shown => call'.code = IF Kind[call'.server] = "postgres" THEN "sent" ELSE "forbidden_sql"
  BY <1>2, <1>4
<1> QED  BY <1>5, <1>6, Zenon DEF DescribedAsShown, Visible

\* No other step answers a call of describe_schema, or changes the answer.
LEMMA ShownKept == DescribedAsShown /\ [Next]_vars => DescribedAsShown'
<1> SUFFICES ASSUME DescribedAsShown, [Next]_vars
             PROVE  DescribedAsShown'
  BY Zenon
<1>1. ASSUME call' # None => call'.tool # "describe_schema"
      PROVE  DescribedAsShown'
  BY <1>1, Zenon DEF DescribedAsShown
<1>2. ASSUME call' = call
      PROVE  DescribedAsShown'
  BY <1>2, Zenon DEF DescribedAsShown, Visible
<1>3. ASSUME NEW s, NEW d, NEW r,
             RunQuery(s, d, r) \/ Explain(s, d, r) \/ \E safe \in BOOLEAN : SampleTable(s, d, r, safe)
      PROVE  call'.tool # "describe_schema"
  BY <1>3 DEF RunQuery, Explain, SampleTable, Send, Refuse, Record
<1>4. ASSUME NEW s, NEW d, NEW limit, NEW valid, GetQueryHistory(s, d, limit, valid)
      PROVE  call'.tool # "describe_schema"
  <2>1. \E code, rows, timeout, reason :
          Record("get_query_history", s, d, None, code, rows, timeout, reason)
    BY <1>4, Zenon DEF GetQueryHistory, Refuse
  <2> QED  BY <2>1 DEF Record
<1>5. ASSUME NEW s, ListDatabases(s) \/ ListServers \/ LoadFails
      PROVE  call'.tool # "describe_schema"
  <2>1. CASE ListDatabases(s)
    BY <2>1 DEF ListDatabases, Refuse, Record
  <2>2. CASE ListServers
    BY <2>2 DEF ListServers, Refuse, Record
  <2>3. CASE LoadFails
    BY <2>3 DEF LoadFails, Refuse, Record
  <2> QED  BY <1>5, <2>1, <2>2, <2>3, Zenon
<1>6. Return => call' = None
  BY Zenon DEF Return
<1>7. (\E g : AddGrant(g) \/ RemoveGrant(g)) \/ UNCHANGED vars => call' = call
  BY Zenon DEF AddGrant, RemoveGrant, vars
<1> QED  BY <1>1, <1>2, <1>3, <1>4, <1>5, <1>6, <1>7, DescribeSchemaShown, ZenonT(30) DEF Next

\* The listings agree with the evaluation of a grant and with the answers of describe_schema,
\* whatever the grants and however they change (can_see_server_effective, evaluate_effective,
\* compute_outcome of list_databases and describe_schema).
THEOREM ListingsLead == Spec => []ListingsAgree
<1>1. Init => DescribedAsShown
  BY Zenon DEF Init, DescribedAsShown
<1>2. ASSUME TypeOK, DescribedAsShown
      PROVE  ListingsAgree
  <2>1. Held \in SUBSET Grant
    BY <1>2, HeldAreGrants, Zenon DEF TypeOK
  <2> QED  BY <1>2, <2>1, ListedIfAllowed, Zenon DEF ListingsAgree
<1> QED  BY <1>1, <1>2, ShownKept, TypeCorrect, PTL DEF Spec

\* A larger set of grants allows no less, under constraints that are at least as tight (merge).
LEMMA MoreIsTighter ==
    ASSUME NEW new \in SUBSET Grant, NEW old \in SUBSET new, NEW a, NEW s, NEW d,
           Allowed(old, a, s, d)
    PROVE  /\ Allowed(new, a, s, d)
           /\ Tighter(Constraints(new, a, s, d).row_limit, Constraints(old, a, s, d).row_limit)
           /\ Tighter(Constraints(new, a, s, d).timeout, Constraints(old, a, s, d).timeout)
           /\ Constraints(old, a, s, d).reason => Constraints(new, a, s, d).reason
<1> DEFINE M == Matches(old, a, s, d)
           N == Matches(new, a, s, d)
<1>1. M \subseteq N /\ N \subseteq Grant /\ M # {}
  BY Zenon DEF Matches, Allowed
<1> HIDE DEF M, N
<1>2. {g.row_limit : g \in N} \in SUBSET Limit /\ {g.timeout : g \in N} \in SUBSET Limit
  BY <1>1, Zenon DEF Grant
<1>3. /\ {g.row_limit : g \in M} \in SUBSET {g.row_limit : g \in N}
      /\ {g.timeout : g \in M} \in SUBSET {g.timeout : g \in N}
  BY <1>1, Zenon
<1>4. /\ Tighter(merge(N).row_limit, merge(M).row_limit)
      /\ Tighter(merge(N).timeout, merge(M).timeout)
  BY <1>2, <1>3, MinOptionTighter, Zenon DEF merge
<1>5. merge(M).reason => merge(N).reason
  BY <1>1, Zenon DEF merge
<1> QED  BY <1>1, <1>4, <1>5, Zenon DEF M, N, Allowed, Constraints

\* No step that takes no grant away loosens anything, whatever the grants are (merge).
THEOREM GrantsNeverLoosen == Spec => NeverLooser
<1>1. ASSUME TypeOK, TypeOK', [Next]_vars
      PROVE  [granted \subseteq granted' => NoLooser]_vars
  <2>1. groups' = groups
    BY <1>1, ZenonT(30) DEF Next, vars, RunQuery, Explain, SampleTable, DescribeSchema, ListDatabases,
                GetQueryHistory, ListServers, LoadFails, Return, AddGrant, RemoveGrant
  <2>2. Held' \in SUBSET Grant
    <3>1. groups' \subseteq Groups /\ granted' \subseteq DbGrants
      BY <1>1 DEF TypeOK
    <3>2. \A h \in Held' : h \in granted' \/ \E g \in groups' : h \in Permissions[g]
      BY DEF Held
    <3> QED  BY <3>1, <3>2, ToolAssumption
  <2>3. granted \subseteq granted' => Held \in SUBSET Held'
    BY <2>1 DEF Held
  <2>4. granted \subseteq granted' => NoLooser
    BY <2>2, <2>3, MoreIsTighter, ZenonT(30) DEF NoLooser
  <2> QED  BY <2>4, Zenon
<1> QED  BY <1>1, TypeCorrect, PTL DEF Spec, NeverLooser
=============================================================================
