--------------------------- MODULE AuditDispatch ---------------------------
(***************************************************************************)
(* The chokepoint every tool call goes through: audit_dispatch and its     *)
(* drop guard (src/tools/audit_dispatch), the durable write with its       *)
(* deadline (src/audit/mod.rs) and the stream fan-out that follows it.     *)
(*                                                                         *)
(* An INSERT that was sent is on its own: it may commit after the client   *)
(* of the pool stopped waiting for it, or never. All INSERTs of a call     *)
(* carry one id, so only the first one to commit writes the row.           *)
(* A handler future is dropped when its client disconnects, at any await;  *)
(* the process may stop at any time, which ends its detached tasks too.    *)
(***************************************************************************)
EXTENDS Naturals

CONSTANTS
    Calls,      \* tool calls
    Waiting,    \* those of get_query_history, whose work awaits the state database
    Outcomes,   \* outcome codes a tool's work can end with
    Absent

ASSUME WaitingAssumption == Waiting \subseteq Calls
ASSUME AuditAssumption == Absent \notin Outcomes \cup {"cancelled"} /\ "cancelled" \notin Outcomes

VARIABLES
    state_db,   \* whether the gateway has a state database
    pc,         \* where the dispatch future is
    outcome,    \* the outcome on the guard's row
    fallback,   \* the detached write the guard spawns when dropped armed
    inserts,    \* INSERTs sent and not yet decided, by writer
    acked,      \* INSERTs that committed, by writer
    row,        \* the outcome column of the durable row, or Absent
    streamed,   \* what was sent to the sinks, as a count per outcome
    counted,    \* tool_calls increments
    response    \* what the client was sent

auditVars == <<state_db, pc, outcome, fallback, inserts, acked, row, streamed,
          counted, response>>

Results == Outcomes \cup {"cancelled"}

AuditInit ==
    /\ state_db \in BOOLEAN
    /\ pc = [c \in Calls |-> "new"]
    /\ outcome = [c \in Calls |-> Absent]
    /\ fallback = [c \in Calls |-> "none"]
    /\ inserts = [c \in Calls |-> {}]
    /\ acked = [c \in Calls |-> {}]
    /\ row = [c \in Calls |-> Absent]
    /\ streamed = [c \in Calls |-> [o \in Results |-> 0]]
    /\ counted = [c \in Calls |-> 0]
    /\ response = [c \in Calls |-> "none"]

-----------------------------------------------------------------------------
\* audit_dispatch

Refuse(c) ==
    /\ pc[c] = "new"
    /\ ~state_db
    /\ pc' = [pc EXCEPT ![c] = "refused"]
    /\ counted' = [counted EXCEPT ![c] = @ + 1]
    /\ response' = [response EXCEPT ![c] = "error"]
    /\ UNCHANGED <<state_db, outcome, fallback, inserts, acked, row, streamed>>

\* The guard is armed before the work is awaited.
Start(c) ==
    /\ pc[c] = "new"
    /\ state_db
    /\ pc' = [pc EXCEPT ![c] = "work"]
    /\ UNCHANGED <<state_db, outcome, fallback, inserts, acked, row, streamed,
                   counted, response>>

\* record_outcome, the metric, and the INSERT goes out.
WorkDone(c, o) ==
    /\ pc[c] = "work"
    /\ pc' = [pc EXCEPT ![c] = "writing"]
    /\ outcome' = [outcome EXCEPT ![c] = o]
    /\ counted' = [counted EXCEPT ![c] = @ + 1]
    /\ inserts' = [inserts EXCEPT ![c] = @ \cup {"primary"}]
    /\ UNCHANGED <<state_db, fallback, acked, row, streamed, response>>

Send(c) == streamed' = [streamed EXCEPT ![c][outcome[c]] = @ + 1]

\* Mutant: answers without waiting for the write.
LogOkUnwritten(c) ==
    /\ pc[c] = "writing"
    /\ Send(c)
    /\ pc' = [pc EXCEPT ![c] = "done"]
    /\ response' = [response EXCEPT ![c] = "result"]
    /\ UNCHANGED <<state_db, outcome, fallback, inserts, acked, row, counted>>

\* The write landed: stream, disarm, answer.
LogOk(c) ==
    /\ pc[c] = "writing"
    /\ "primary" \in acked[c]
    /\ Send(c)
    /\ pc' = [pc EXCEPT ![c] = "done"]
    /\ response' = [response EXCEPT ![c] = "result"]
    /\ UNCHANGED <<state_db, outcome, fallback, inserts, acked, row, counted>>

\* Mutant: the error path streams, and so does the fallback.
LogErrStreams(c) ==
    /\ pc[c] = "writing"
    /\ Send(c)
    /\ pc' = [pc EXCEPT ![c] = "done"]
    /\ response' = [response EXCEPT ![c] = "error"]
    /\ fallback' = [fallback EXCEPT ![c] = "spawned"]
    /\ UNCHANGED <<state_db, outcome, inserts, acked, row, counted>>

\* Mutant: the error path disarms the guard.
LogErrDisarmed(c) ==
    /\ pc[c] = "writing"
    /\ pc' = [pc EXCEPT ![c] = "done"]
    /\ response' = [response EXCEPT ![c] = "error"]
    /\ UNCHANGED <<state_db, outcome, fallback, inserts, acked, row, streamed, counted>>

\* Mutant: no deadline on the write.
LogErrNoTimeout(c) ==
    /\ pc[c] = "writing"
    /\ "primary" \notin inserts[c] \cup acked[c]
    /\ pc' = [pc EXCEPT ![c] = "done"]
    /\ response' = [response EXCEPT ![c] = "error"]
    /\ fallback' = [fallback EXCEPT ![c] = "spawned"]
    /\ UNCHANGED <<state_db, outcome, inserts, acked, row, streamed, counted>>

\* The write failed or ran into AUDIT_WRITE_TIMEOUT, whatever becomes of the
\* INSERT: the client gets an error and the armed guard is dropped.
LogErr(c) ==
    /\ pc[c] = "writing"
    /\ pc' = [pc EXCEPT ![c] = "done"]
    /\ response' = [response EXCEPT ![c] = "error"]
    /\ fallback' = [fallback EXCEPT ![c] = "spawned"]
    /\ UNCHANGED <<state_db, outcome, inserts, acked, row, streamed, counted>>

\* The client disconnects: Drop of the guard, with finalize_dropped_row.
Disconnect(c) ==
    /\ pc[c] \in {"work", "writing"}
    /\ pc' = [pc EXCEPT ![c] = "dropped"]
    /\ outcome' = [outcome EXCEPT ![c] = IF @ = Absent THEN "cancelled" ELSE @]
    /\ counted' = [counted EXCEPT ![c] = IF outcome[c] = Absent THEN @ + 1 ELSE @]
    /\ fallback' = [fallback EXCEPT ![c] = "spawned"]
    /\ UNCHANGED <<state_db, inserts, acked, row, streamed, response>>

-----------------------------------------------------------------------------
\* The detached task of Drop.

FallbackWrite(c) ==
    /\ fallback[c] = "spawned"
    /\ fallback' = [fallback EXCEPT ![c] = "writing"]
    /\ inserts' = [inserts EXCEPT ![c] = @ \cup {"fallback"}]
    /\ UNCHANGED <<state_db, pc, outcome, acked, row, streamed, counted, response>>

FallbackOk(c) ==
    /\ fallback[c] = "writing"
    /\ "fallback" \in acked[c]
    /\ Send(c)
    /\ fallback' = [fallback EXCEPT ![c] = "done"]
    /\ UNCHANGED <<state_db, pc, outcome, inserts, acked, row, counted, response>>

FallbackErr(c) ==
    /\ fallback[c] = "writing"
    /\ fallback' = [fallback EXCEPT ![c] = "failed"]
    /\ UNCHANGED <<state_db, pc, outcome, inserts, acked, row, streamed, counted,
                   response>>

-----------------------------------------------------------------------------
\* INSERT ... ON CONFLICT (id) DO NOTHING, in the state database.
Commit(c, k) ==
    /\ k \in inserts[c]
    /\ inserts' = [inserts EXCEPT ![c] = @ \ {k}]
    /\ acked' = [acked EXCEPT ![c] = @ \cup {k}]
    /\ row' = [row EXCEPT ![c] = IF @ = Absent THEN outcome[c] ELSE @]
    /\ UNCHANGED <<state_db, pc, outcome, fallback, streamed, counted, response>>

Lose(c, k) ==
    /\ k \in inserts[c]
    /\ inserts' = [inserts EXCEPT ![c] = @ \ {k}]
    /\ UNCHANGED <<state_db, pc, outcome, fallback, acked, row, streamed, counted,
                   response>>

\* The process stops: futures and detached tasks are gone without a Drop.
Stop ==
    /\ pc' = [c \in Calls |-> IF pc[c] \in {"work", "writing"} THEN "stopped" ELSE pc[c]]
    /\ fallback' = [c \in Calls |->
                      IF fallback[c] \in {"spawned", "writing"} THEN "lost" ELSE fallback[c]]
    /\ UNCHANGED <<state_db, outcome, inserts, acked, row, streamed, counted, response>>

Work(c) == \E o \in Outcomes : WorkDone(c, o)

Dispatch(c) == Refuse(c) \/ Work(c) \/ LogOk(c) \/ LogErr(c)

Detached(c) == FallbackWrite(c) \/ FallbackOk(c) \/ FallbackErr(c)

AuditNext ==
    \/ \E c \in Calls :
         \/ Start(c) \/ Dispatch(c) \/ Disconnect(c) \/ Detached(c)
         \/ \E k \in {"primary", "fallback"} : Commit(c, k) \/ Lose(c, k)
    \/ Stop

AuditSpec == AuditInit /\ [][AuditNext]_auditVars

\* The runtime polls every task, and AUDIT_WRITE_TIMEOUT ends every audit write.
\* The work of a tool ends where the adapters bound it, in opening and in
\* execute; that of get_query_history is a query on the state database without
\* a deadline, of which nothing is assumed.
FairAuditSpec ==
    /\ AuditSpec
    /\ \A c \in Calls : /\ WF_auditVars(Refuse(c) \/ LogOk(c) \/ LogErr(c))
                         /\ WF_auditVars(Detached(c))
    /\ \A c \in Calls \ Waiting : WF_auditVars(Work(c))

-----------------------------------------------------------------------------
\* Types of what a dispatch has (CancelledAuditGuard, AuditRow, the sinks and the counter):
\* an outcome is one of the tool, or "cancelled".
TypeOK ==
    /\ state_db \in BOOLEAN
    /\ pc \in [Calls -> {"new", "refused", "work", "writing", "done", "dropped", "stopped"}]
    /\ outcome \in [Calls -> Results \cup {Absent}]
    /\ fallback \in [Calls -> {"none", "spawned", "writing", "done", "failed", "lost"}]
    /\ inserts \in [Calls -> SUBSET {"primary", "fallback"}]
    /\ acked \in [Calls -> SUBSET {"primary", "fallback"}]
    /\ row \in [Calls -> Results \cup {Absent}]
    /\ streamed \in [Calls -> [Results -> Nat]]
    /\ counted \in [Calls -> Nat]
    /\ response \in [Calls -> {"none", "result", "error"}]

\* "never let a response go out unaudited": a client that was sent the result
\* of a tool has a durable row, and the row tells that result.
ResultIsAudited == \A c \in Calls :
    response[c] = "result" => row[c] # Absent /\ row[c] = outcome[c]

\* The sinks see a call at most once, only after its row is durable, and see
\* what the row says, however primary, timeout and fallback interleave.
StreamMatchesRow == \A c \in Calls, o \in Results :
    /\ streamed[c][o] <= 1
    /\ streamed[c][o] = 1 => row[c] = o

\* tool_calls counts every call that ended exactly once: neither the error
\* path nor the drop path counts it again or leaves it out.
CountedOnce == \A c \in Calls :
    /\ counted[c] <= 1
    /\ pc[c] \in {"refused", "writing", "done", "dropped"} => counted[c] = 1

\* A call whose work started and that has ended leaves a row, unless the
\* detached write failed too or the process stopped.
LostOnlyTwice == \A c \in Calls :
    (pc[c] \in {"done", "dropped"} /\ row[c] = Absent) =>
        fallback[c] \in {"spawned", "writing", "failed", "lost"}

\* The call is over, and so is its detached write.
Settled(c) ==
    /\ pc[c] \in {"done", "dropped", "stopped"}
    /\ fallback[c] \notin {"spawned", "writing"}

\* Auditing never holds a call up for good, on a state database that answers
\* nothing any more: a call whose work is over settles, and so does a call that
\* its client has left, by then with a detached write behind it
\* (AUDIT_WRITE_TIMEOUT, Drop of the guard). Calls whose work the adapters bound
\* settle from its start; get_query_history may hang in its own query.
CallSettles == \A c \in Calls :
    /\ pc[c] \in {"writing", "dropped"} ~> Settled(c)
    /\ c \notin Waiting => (pc[c] = "work" ~> Settled(c))
=============================================================================
