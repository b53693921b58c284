------------------------------- MODULE Authz -------------------------------
(***************************************************************************)
(* What a set of grants allows (src/authz, Action::includes of             *)
(* src/config/schema.rs). A grant names a server and a database, or "*"    *)
(* for any, an action, and constraints, each of which may be absent        *)
(* (None). Grants from YAML groups and from the permissions store are      *)
(* merged alike: a request is allowed if some grant matches it, under the  *)
(* tightest constraints of all that match.                                 *)
(***************************************************************************)
EXTENDS Integers

CONSTANTS
    Kind,        \* servers of the configuration, and the kind of each
    Databases,   \* the databases of each server
    None

Servers == DOMAIN Kind
Actions == {"schema_read", "query_read", "query_write", "history_read"}

\* Does a grant of action a cover a request for action r?
includes(a, r) ==
    \/ a = "query_write" /\ r \in {"query_write", "query_read", "schema_read"}
    \/ a = "query_read" /\ r \in {"query_read", "schema_read"}
    \/ a = r /\ a \in {"schema_read", "history_read"}

grant_applies(g, action, s, d) ==
    /\ g.server \in {"*", s}
    /\ g.database \in {"*", d}
    /\ includes(g.action, action)

grant_can_see(g, s) == g.server \in {"*", s} /\ g.database \in Databases[s] \cup {"*"}

\* The least of the values present: min_option over all that match.
MinOption(S) ==
    IF S \subseteq {None} THEN None
    ELSE CHOOSE x \in S \ {None} : \A y \in S \ {None} : x <= y

merge(gs) ==
    [row_limit |-> MinOption({g.row_limit : g \in gs}),
     timeout   |-> MinOption({g.timeout : g \in gs}),
     reason    |-> \E g \in gs : g.reason]

\* Mutant: a grant that names the database shadows the wildcards.
MatchesExact(gs, action, s, d) ==
    {g \in gs : /\ grant_applies(g, action, s, d)
                /\ g.database = "*" => \A h \in gs : grant_applies(h, action, s, d) => h.database = "*"}

Matches(gs, action, s, d) == {g \in gs : grant_applies(g, action, s, d)}

\* evaluate_effective: is the action allowed, and under which constraints?
Allowed(gs, action, s, d) == Matches(gs, action, s, d) # {}
Constraints(gs, action, s, d) == merge(Matches(gs, action, s, d))

can_see_server_effective(gs, s) == \E g \in gs : grant_can_see(g, s)

\* effective_row_limit and effective_timeout_ms: `ceiling` bounds what grants leave open. A
\* timeout of 0 is the least value and is passed on, though Postgres and Mongo read it as none.
AtMost(value, ceiling) == IF value = None \/ value > ceiling THEN ceiling ELSE value

-----------------------------------------------------------------------------
\* Constraint a is at least as tight as b.
Tighter(a, b) == b = None \/ (a # None /\ a <= b)
=============================================================================
