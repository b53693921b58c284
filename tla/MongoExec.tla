----------------------------- MODULE MongoExec -----------------------------
(***************************************************************************)
(* A command on a Mongo target (src/exec/mongo), beside the Postgres ones: *)
(* only reads are let through, each under maxTimeMS and with a marker of   *)
(* its own in `comment`. The documents of find and aggregate come through  *)
(* a cursor, batch by batch, and are drained up to the row limit; count    *)
(* and distinct answer at once. A call that is dropped leaves its          *)
(* operation to a detached currentOp and killOp, which find it by its      *)
(* marker, or do not; a getMore, which fetches a further batch, has no     *)
(* marker and no sure maxTimeMS, and only the driver's killCursors.        *)
(***************************************************************************)
EXTENDS PgExec

VARIABLES
    op,          \* the operation of a call on its server: "more" while a getMore runs
    torn         \* history: calls whose cursor broke just past the limit

mongoVars == <<op, torn>>
vars == <<registryVars, call, pgVars, mongoVars>>

Init == PgInit /\ op = [q \in Calls |-> "none"] /\ torn = {}

-----------------------------------------------------------------------------
Kept == <<registryVars, conn, cancels, out, committed, aborted, stray>>

\* What a Mongo call leaves alone when it ends.
Closed == UNCHANGED <<registryVars, committed, aborted, stray>>

\* validate_command, then maxTimeMS and the marker are stamped, and the command is sent.
Command(q) ==
    /\ call[q].pc = "begin" /\ call[q].db \in Mongo
    /\ IF call[q].stmt.write
       THEN End(q, Error("forbidden_sql")) /\ UNCHANGED <<cancels, op>> /\ Closed
       ELSE Goto(q, "command") /\ op' = [op EXCEPT ![q] = "running"] /\ UNCHANGED Kept
    /\ UNCHANGED torn

\* count and distinct: the answer is cut to the limit.
Scalar(q) ==
    /\ call[q].pc = "command" /\ op[q] = "done"
    /\ LET n == call[q].stmt.rows IN
        End(q, Success(IF n > call[q].limit THEN call[q].limit ELSE n, n > call[q].limit))
    /\ UNCHANGED <<cancels, mongoVars>> /\ Closed

\* find and aggregate: a cursor.
OpenCursor(q) ==
    /\ call[q].pc = "command" /\ op[q] = "done"
    /\ Goto(q, "drain")
    /\ UNCHANGED <<Kept, mongoVars>>

\* The command failed, maxTimeMS was up, or the connection broke while the server went on.
CommandFails(q) ==
    /\ call[q].pc = "command"
    /\ End(q, Error("failed"))
    /\ UNCHANGED <<cancels, mongoVars>> /\ Closed

\* The batch is used up: the driver sends a getMore.
FetchMore(q) ==
    /\ call[q].pc = "drain" /\ op[q] = "done"
    /\ op' = [op EXCEPT ![q] = "more"]
    /\ UNCHANGED <<Kept, call, torn>>

\* A document arrives: it is kept, or shows that the limit cuts the result.
NextDocument(q) ==
    /\ call[q].pc = "drain" /\ op[q] = "done" /\ call[q].got < call[q].stmt.rows
    /\ IF call[q].got >= call[q].limit
       THEN End(q, Success(call[q].got, TRUE)) /\ UNCHANGED cancels /\ Closed
       ELSE call' = [call EXCEPT ![q].got = @ + 1] /\ UNCHANGED Kept
    /\ UNCHANGED mongoVars

CursorEnds(q) ==
    /\ call[q].pc = "drain" /\ op[q] = "done" /\ call[q].got = call[q].stmt.rows
    /\ End(q, Success(call[q].got, FALSE))
    /\ UNCHANGED <<cancels, mongoVars>> /\ Closed

\* A getMore fails, or its connection does while the server goes on. The limit is tested
\* before the error is looked at.
CursorFails(q) ==
    /\ call[q].pc = "drain" /\ op[q] # "done"
    /\ IF call[q].got >= call[q].limit
       THEN End(q, Success(call[q].got, TRUE)) /\ torn' = torn \cup {q}
       ELSE End(q, Error("unavailable")) /\ UNCHANGED torn
    /\ UNCHANGED <<cancels, op>> /\ Closed

\* The future is dropped: the agent is gone, or execute's deadline has passed. KillOpOnDrop
\* is armed until dispatch returns.
DropCommand(q, why) ==
    /\ call[q].pc \in {"command", "drain"}
    /\ cancels' = cancels \cup {Detached(q)}
    /\ End(q, Error(why))
    /\ UNCHANGED mongoVars /\ Closed

-----------------------------------------------------------------------------
\* An operation runs on the server.
Runs(q) == op[q] \in {"running", "more"}

\* The server ends the operation it runs.
OpEnds(q) ==
    /\ Runs(q)
    /\ \E st \in {"done", "failed"} : op' = [op EXCEPT ![q] = st]
    /\ UNCHANGED <<registryVars, call, pgVars, torn>>

\* It does so at the latest when maxTimeMS is up, which 0 turns off and which does not surely
\* reach a getMore.
OpTimedOut(q) == op[q] = "running" /\ call[q].stmt.timed /\ OpEnds(q)

\* currentOp finds the operation that carries the marker, and killOp ends it; or either is
\* refused, or too late.
KillArrives(c) ==
    /\ c.conn = None
    /\ cancels' = cancels \ {c}
    /\ \/ UNCHANGED op
       \/ op[c.by] = "running" /\ op' = [op EXCEPT ![c.by] = "failed"]
    /\ UNCHANGED <<registryVars, call, conn, out, committed, aborted, stray, torn>>

MongoProceed(q) ==
    \/ Command(q) \/ Scalar(q) \/ OpenCursor(q) \/ CommandFails(q)
    \/ FetchMore(q) \/ NextDocument(q) \/ CursorEnds(q) \/ CursorFails(q)

\* What a call is sure to do: get_or_open goes on, or fails, and execute ends, if not before
\* then at its own tokio::time::timeout, which a Mongo command that is refused does not need.
Advance(q) ==
    \/ (Lookup(q) \/ OpenFails(q) \/ Drop(q, "timeout")) /\ UNCHANGED mongoVars
    \/ Command(q) \/ DropCommand(q, "timeout")

Done == /\ \A q \in Calls : call[q].pc = "ended" /\ ~Runs(q)
        /\ cancels = {} /\ \A k \in Conns : conn[k] = FreeConn
        /\ UNCHANGED vars

Next ==
    \/ Conduct /\ UNCHANGED mongoVars
    \/ \E q \in Calls : \/ MongoProceed(q) \/ OpEnds(q)
                        \/ \E why \in {"timeout", "gone"} : DropCommand(q, why)
    \/ \E c \in cancels : KillArrives(c)
    \/ Done

\* Opening an adapter has a timeout and execute a deadline; nothing is assumed of the steps
\* in between. A target ends a statement in time only where its own limit is on, and the
\* pool takes back a connection whose backend has stopped. No cancel needs to arrive.
Fairness ==
    /\ \A q \in Calls : WF_vars(Advance(q)) /\ WF_vars(OpTimedOut(q))
    /\ \A k \in Conns : WF_vars((TimedOut(k) \/ Return(k)) /\ UNCHANGED mongoVars)

Spec == Init /\ [][Next]_vars /\ Fairness

-----------------------------------------------------------------------------
\* A success holds as many rows as the statement gives or the limit allows, and says that it
\* is truncated exactly when rows were left out; so a statement that a timeout or a cancel
\* cut short in the middle of its rows is never passed off as a complete result. Except for
\* a Mongo cursor that breaks right after the last row allowed, which is taken for one more
\* (run_query_inner, MongoAdapter::dispatch).
ResultExact ==
    \A q \in Calls : out[q] # None /\ out[q].kind = "success" =>
        /\ out[q].rows <= call[q].limit
        /\ out[q].truncated = (call[q].stmt.rows > call[q].limit \/ q \in torn)
        /\ out[q].rows = IF out[q].truncated THEN call[q].limit ELSE call[q].stmt.rows

\* What nothing but a cancel that arrives is sure to stop: the statement of a call that has
\* ended, where the grant's statement_timeout_ms is 0, and a getMore of one.
Unlimited(q) == call[q].pc = "ended" /\ ~call[q].stmt.timed
StuckConn(k) == conn[k].st = "busy" /\ conn[k].user = None /\ Unlimited(conn[k].of)
StuckOp(q) == Runs(q) /\ (Unlimited(q) \/ (call[q].pc = "ended" /\ op[q] = "more"))

\* The targets come to rest: every connection is free again in the end and no operation runs
\* for ever, though its call was dropped in the middle of it and the cancel for it never
\* arrived (SET LOCAL statement_timeout, maxTimeMS). It does not hold of a statement under a
\* timeout of 0, which Postgres and Mongo take for none, nor of a getMore: those are the
\* backends that a lost cancel leaves running.
TargetsRecover ==
    /\ \A k \in Conns : []<>(conn[k] = FreeConn \/ StuckConn(k))
    /\ \A q \in Calls : []<>(~Runs(q) \/ StuckOp(q))
=============================================================================
