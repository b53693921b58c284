------------------------------- MODULE PgExec -------------------------------
(***************************************************************************)
(* A statement on a Postgres target (src/exec/pg): a connection is taken   *)
(* from the query pool, the statement runs in a transaction under          *)
(* statement_timeout, its rows are read up to the row limit, and the       *)
(* transaction is committed, or cancelled and rolled back when rows are    *)
(* left. A call that is dropped in the middle, because the agent has gone  *)
(* or the Tokio deadline has passed, leaves its backend to a detached      *)
(* pg_cancel_backend over a pool of its own.                               *)
(*                                                                         *)
(* The backend runs on its own: it may finish before, while or after the   *)
(* call reads, fail, time out, and be hit by a cancel that comes late. A   *)
(* statement is [rows, write, timed]: how many rows it gives, whether it   *)
(* changes data, and whether its grant leaves it a statement_timeout_ms    *)
(* other than 0, which both kinds of target read as no limit at all.       *)
(* MongoExec adds the other kind, and the specification of both.           *)
(***************************************************************************)
EXTENDS AdapterRegistry

CONSTANTS
    Stmts,       \* statements: [rows : Nat, write : BOOLEAN, timed : BOOLEAN]
    Limits,      \* row limits
    PoolSize     \* DEFAULT_POOL_MAX_CONNECTIONS

Conns == Adapters \X (1 .. PoolSize)

ASSUME ExecAssumption ==
    /\ Limits \subseteq Nat /\ PoolSize \in Nat \ {0} /\ None \notin Conns
    /\ Stmts \subseteq [rows : Nat, write : BOOLEAN, timed : BOOLEAN]

VARIABLES
    conn,        \* connections: [user, st, of, limited]
    cancels,     \* cancels on their way: [by, conn, inline]
    out,         \* what a call answered, or None
    committed,   \* calls whose transaction committed
    aborted,     \* history: calls whose describe broke the transaction
    stray        \* history: [by, hit]: cancels that hit a statement of another call

pgVars == <<conn, cancels, out, committed, aborted, stray>>

\* A free connection. In use: st is "open" in a transaction, "busy" while the statement of
\* call `of` runs, then "done" or "failed"; user is the call that holds it, or None while
\* the pool waits to take it back. limited: statement_timeout is on.
FreeConn == [user |-> None, st |-> "free", of |-> None, limited |-> FALSE]

PgInit ==
    /\ RegistryInit
    /\ conn = [k \in Conns |-> FreeConn] /\ cancels = {}
    /\ out = [q \in Calls |-> None]
    /\ committed = {} /\ aborted = {} /\ stray = {}

-----------------------------------------------------------------------------
\* The transaction goes, and its connection back to the pool, which rolls back once the
\* backend has stopped.
Released(k) ==
    [conn EXCEPT ![k] = IF conn[k].st = "busy" THEN [conn[k] EXCEPT !.user = None] ELSE FreeConn]

\* A call ends with answer o, and gives back what it holds.
End(q, o) ==
    /\ out' = [out EXCEPT ![q] = o]
    /\ call' = [call EXCEPT ![q] = [Fresh EXCEPT !.pc = "ended", !.stmt = call[q].stmt,
                                                 !.limit = call[q].limit]]
    /\ conn' = IF call[q].conn = None THEN conn ELSE Released(call[q].conn)

\* "failed" is any error that the target reports (classify), "timeout" the deadline of execute.
Error(kind) == [kind |-> kind, rows |-> 0, truncated |-> FALSE]
Success(rows, truncated) == [kind |-> "success", rows |-> rows, truncated |-> truncated]

\* run_query and the other tools call get_or_open, then execute of the adapter.
Call(q, d, s, n) ==
    /\ call[q].pc = "idle"
    /\ call' = [call EXCEPT ![q] = [Fresh EXCEPT !.pc = "read", !.db = d, !.stmt = s, !.limit = n]]
    /\ UNCHANGED <<registryVars, pgVars>>

Lookup(q) == RegistryStep(q) /\ UNCHANGED pgVars

\* The database cannot be reached, or its password does not resolve.
OpenFails(q) ==
    /\ call[q].pc = "opening"
    /\ cells' = Unlocked(q)
    /\ End(q, Error("unavailable"))
    /\ UNCHANGED <<slot, opened, cancels, committed, aborted, stray>>

\* pool.begin().
Begin(q, k) ==
    /\ call[q].pc = "begin" /\ call[q].db \notin Mongo
    /\ k[1] = call[q].adapter /\ conn[k] = FreeConn
    /\ conn' = [conn EXCEPT ![k] = [FreeConn EXCEPT !.user = q, !.st = "open"]]
    /\ call' = [call EXCEPT ![q].pc = "pid", ![q].conn = k]
    /\ UNCHANGED <<registryVars, cancels, out, committed, aborted, stray>>

\* SELECT pg_backend_pid(), and from here on the guard is armed.
Pid(q) ==
    /\ call[q].pc = "pid"
    /\ Goto(q, "set")
    /\ UNCHANGED <<registryVars, pgVars>>

\* Mutant: the statement runs without SET LOCAL statement_timeout.
SetTimeoutSkipped(q) ==
    /\ call[q].pc = "set"
    /\ conn' = [conn EXCEPT ![call[q].conn].st = "busy", ![call[q].conn].of = q]
    /\ Goto(q, "run")
    /\ UNCHANGED <<registryVars, cancels, out, committed, aborted, stray>>

\* SET LOCAL statement_timeout, which 0 turns off, and the statement is sent.
SetTimeout(q) ==
    /\ call[q].pc = "set"
    /\ conn' = [conn EXCEPT ![call[q].conn] =
                    [@ EXCEPT !.st = "busy", !.of = q, !.limited = call[q].stmt.timed]]
    /\ Goto(q, "run")
    /\ UNCHANGED <<registryVars, cancels, out, committed, aborted, stray>>

\* No connection in time, or one that breaks before the statement runs.
BeginFails(q) ==
    /\ call[q].pc \in {"begin", "pid", "set"} /\ call[q].db \notin Mongo
    /\ End(q, Error("unavailable"))
    /\ UNCHANGED <<registryVars, cancels, committed, aborted, stray>>

\* Where a call goes that has read what it will keep. No row, or rows without a column,
\* leave the names of the columns empty, and the statement is described first.
Read(q, pc) == \E to \in {"describe", pc} : Goto(q, to)

\* Mutant: the limit is tested after the row is kept.
ReadRowKeepsOne(q) ==
    /\ call[q].pc = "run" /\ call[q].got < call[q].stmt.rows
    /\ IF call[q].got > call[q].limit
       THEN Read(q, "cancel")
       ELSE call' = [call EXCEPT ![q].got = @ + 1]
    /\ UNCHANGED <<registryVars, pgVars>>

\* A row arrives: it is kept, or shows that the limit cuts the result.
ReadRow(q) ==
    /\ call[q].pc = "run" /\ call[q].got < call[q].stmt.rows
    /\ IF call[q].got >= call[q].limit
       THEN Read(q, "cancel")
       ELSE call' = [call EXCEPT ![q].got = @ + 1]
    /\ UNCHANGED <<registryVars, pgVars>>

\* The stream ends.
StreamEnds(q) ==
    /\ call[q].pc = "run" /\ conn[call[q].conn].st = "done"
    /\ call[q].got = call[q].stmt.rows
    /\ Read(q, IF call[q].got = 0 THEN "describe" ELSE "commit")
    /\ UNCHANGED <<registryVars, pgVars>>

\* The cancel that a dropped guard spawns, and the one that a cut result waits for.
Detached(q) == [by |-> q, conn |-> call[q].conn, inline |-> FALSE]
Inline(q) == [by |-> q, conn |-> call[q].conn, inline |-> TRUE]

\* Mutant: the guard is still armed when a failed statement returns.
StreamFailsArmed(q) ==
    /\ call[q].pc = "run" /\ conn[call[q].conn].st = "failed"
    /\ cancels' = cancels \cup {Detached(q)}
    /\ End(q, Error("failed"))
    /\ UNCHANGED <<registryVars, committed, aborted, stray>>

\* The statement failed, timed out or was cancelled: disarmed, the error is returned.
StreamFails(q) ==
    /\ call[q].pc = "run" /\ conn[call[q].conn].st = "failed"
    /\ End(q, Error("failed"))
    /\ UNCHANGED <<registryVars, cancels, committed, aborted, stray>>

\* tx.describe, once the backend is ready for it: a failure is passed over, though it breaks
\* the transaction when it is the backend that reports it.
Describe(q) ==
    /\ call[q].pc = "describe" /\ conn[call[q].conn].st # "busy"
    /\ Goto(q, IF call[q].got < call[q].stmt.rows THEN "cancel" ELSE "commit")
    /\ \/ UNCHANGED <<conn, aborted>>
       \/ /\ conn' = [conn EXCEPT ![call[q].conn].st = "failed"]
          /\ aborted' = aborted \cup {q}
    /\ UNCHANGED <<registryVars, cancels, out, committed, stray>>

\* What COMMIT makes durable: nothing of a broken transaction, which it ends without error.
Durable(q) == IF conn[call[q].conn].st = "failed" THEN {} ELSE {q}

\* Mutant: a result that fits is rolled back as a truncated one is.
CommitRollsBack(q) ==
    /\ call[q].pc = "commit"
    /\ End(q, Success(call[q].got, FALSE))
    /\ UNCHANGED <<registryVars, cancels, committed, aborted, stray>>

\* tx.commit().
Commit(q) ==
    /\ call[q].pc = "commit"
    /\ committed' = committed \cup Durable(q)
    /\ End(q, Success(call[q].got, FALSE))
    /\ UNCHANGED <<registryVars, cancels, aborted, stray>>

\* The answer to COMMIT is an error, or does not come.
CommitFails(q) ==
    /\ call[q].pc = "commit"
    /\ \/ UNCHANGED committed
       \/ committed' = committed \cup Durable(q)
    /\ End(q, Error("unavailable"))
    /\ UNCHANGED <<registryVars, cancels, aborted, stray>>

\* cancel_and_rollback: the backend is told to stop. Failing to is only logged, and where it
\* is the answer that is lost, the cancel itself is still on its way.
TruncateCancel(q) ==
    /\ call[q].pc = "cancel"
    /\ \/ UNCHANGED <<conn, cancels>>
       \/ /\ conn[call[q].conn].st = "busy"
          /\ conn' = [conn EXCEPT ![call[q].conn].st = "failed"] /\ UNCHANGED cancels
       \/ cancels' = cancels \cup {Inline(q)} /\ UNCHANGED conn
    /\ Goto(q, "rollback")
    /\ UNCHANGED <<registryVars, out, committed, aborted, stray>>

\* tx.rollback() waits for the backend; the rows read so far are the result either way.
Rollback(q) ==
    /\ call[q].pc = "rollback" /\ conn[call[q].conn].st # "busy"
    /\ End(q, Success(call[q].got, TRUE))
    /\ UNCHANGED <<registryVars, cancels, committed, aborted, stray>>

Armed(q) == call[q].pc \in {"set", "run", "describe", "commit", "cancel", "rollback"}

\* Mutant: a call dropped while it opens an adapter keeps the cell's permit.
DropKeepsPermit(q, why) ==
    /\ call[q].pc \notin {"idle", "ended", "command", "drain"}
    /\ why = "timeout" => Armed(q) \/ (call[q].pc \in {"begin", "pid"} /\ call[q].db \notin Mongo)
    /\ cancels' = IF Armed(q) THEN cancels \cup {Detached(q)} ELSE cancels
    /\ \/ UNCHANGED committed
       \/ call[q].pc = "commit" /\ committed' = committed \cup Durable(q)
    /\ End(q, Error(why))
    /\ UNCHANGED <<slot, opened, cells, aborted, stray>>

\* The future is dropped: the agent is gone, or execute's own deadline has passed. A COMMIT
\* on its way may still take effect. CancelOnDrop spawns its cancel if it is armed.
Drop(q, why) ==
    /\ call[q].pc \notin {"idle", "ended", "command", "drain"}
    /\ why = "timeout" => Armed(q) \/ (call[q].pc \in {"begin", "pid"} /\ call[q].db \notin Mongo)
    /\ cells' = Unlocked(q)
    /\ cancels' = IF Armed(q) THEN cancels \cup {Detached(q)} ELSE cancels
    /\ \/ UNCHANGED committed
       \/ call[q].pc = "commit" /\ committed' = committed \cup Durable(q)
    /\ End(q, Error(why))
    /\ UNCHANGED <<slot, opened, aborted, stray>>

-----------------------------------------------------------------------------
\* The backend ends the statement it runs.
Finish(k) ==
    /\ conn[k].st = "busy"
    /\ \E st \in {"done", "failed"} : conn' = [conn EXCEPT ![k].st = st]
    /\ UNCHANGED <<registryVars, call, cancels, out, committed, aborted, stray>>

\* It does so at the latest when statement_timeout is up.
TimedOut(k) == conn[k].limited /\ Finish(k)

\* The pool takes back a connection whose call is gone, once its backend has stopped.
Return(k) ==
    /\ conn[k].user = None /\ conn[k].st \in {"done", "failed"}
    /\ conn' = [conn EXCEPT ![k] = FreeConn]
    /\ UNCHANGED <<registryVars, call, cancels, out, committed, aborted, stray>>

\* A cancel arrives: whatever its backend runs by now is cancelled. Or it fails.
CancelArrives(c) ==
    /\ cancels' = cancels \ {c}
    /\ \/ UNCHANGED <<conn, stray>>
       \/ /\ conn[c.conn].st = "busy"
          /\ conn' = [conn EXCEPT ![c.conn].st = "failed"]
          /\ stray' = IF conn[c.conn].of = c.by THEN stray
                      ELSE stray \cup {[by |-> c.by, hit |-> conn[c.conn].of]}
    /\ UNCHANGED <<registryVars, call, out, committed, aborted>>

PgProceed(q) ==
    \/ Lookup(q) \/ OpenFails(q)
    \/ (\E k \in Conns : Begin(q, k)) \/ BeginFails(q) \/ Pid(q) \/ SetTimeout(q)
    \/ ReadRow(q) \/ StreamEnds(q) \/ StreamFails(q) \/ Describe(q)
    \/ Commit(q) \/ CommitFails(q) \/ TruncateCancel(q) \/ Rollback(q)

Conduct ==
    \/ \E q \in Calls : \/ \E d \in Databases, s \in Stmts, n \in Limits : Call(q, d, s, n)
                        \/ PgProceed(q)
                        \/ \E why \in {"timeout", "gone"} : Drop(q, why)
    \/ \E k \in Conns : Finish(k) \/ Return(k)
    \/ \E c \in cancels : c.conn # None /\ CancelArrives(c)

-----------------------------------------------------------------------------
\* A write whose whole result is returned as a success is committed, whatever cancels of
\* other calls hit and whenever the backend stopped; a failed describe is the one exception
\* (run_query_inner, tx.commit).
CompleteIsCommitted ==
    \A q \in Calls : out[q] # None /\ out[q].kind = "success"
                        /\ ~out[q].truncated /\ call[q].stmt.write =>
        q \in committed \cup aborted

\* How a call has ended: dropped in the middle, or with a result that the limit cut.
Dropped(q) == out[q].kind \in {"timeout", "gone"}
Cut(q) == out[q].truncated

\* A call that returned, with its whole result or an error, leaves no cancel behind that may
\* meet the next user of its backend (CancelOnDrop::disarm): the detached cancels are those
\* of calls dropped in the middle. The one that cancel_and_rollback sends can outlive its
\* call too, when its answer is lost; so only a call that was dropped, or whose result was
\* cut, ever cancels the statement of another.
CleanReturnCancelsNobody ==
    /\ \A c \in cancels : \/ c.inline /\ call[c.by].pc = "rollback"
                          \/ Dropped(c.by) \/ (c.inline /\ Cut(c.by))
    /\ \A x \in stray : Dropped(x.by) \/ Cut(x.by)

\* Every call ends, also one that waits for a cell whose opening call failed or was dropped
\* (get_or_try_init).
CallEnds == \A q \in Calls : call[q].pc = "read" ~> call[q].pc = "ended"

\* The documented contract of writes: they are committed before the success is returned
\* (website/docs/initial-idea/03-mcp-tools.md).
SuccessIsCommitted ==
    \A q \in Calls : out[q] # None /\ out[q].kind = "success" /\ call[q].stmt.write =>
        q \in committed
=============================================================================
