--------------------------- MODULE RefreshTokens ---------------------------
(***************************************************************************)
(* Refresh-token chains of the OAuth bridge: POST /token (both grants),    *)
(* POST /revoke, the purge of POST /auth/logout and the periodic sweep,    *)
(* over the shared table oauth_refresh_tokens (src/transport/oauth_state,  *)
(* src/transport/oauth/token, revoke; src/transport/auth_routes).          *)
(*                                                                         *)
(* Every statement is one step, and a request may be dropped between any   *)
(* two. Times are ages since the first token of the chain, in ticks,       *)
(* saturating at MaxAge: redemption only asks whether an age reached a     *)
(* lifetime. The configured lifetime can change when the gateway restarts. *)
(***************************************************************************)
EXTENDS Naturals, FiniteSets

CONSTANTS
    Requests,   \* concurrent /token requests
    Chains,     \* rotation chains that may be started
    Tokens,     \* token values that may be minted
    Subs,       \* identities
    Ttls,       \* lifetimes REFRESH_TTL_DAYS may be set to
    MaxTokens,  \* REFRESH_TOKENS_MAX_SIZE
    None

MaxAge == CHOOSE n \in Ttls : \A m \in Ttls : m <= n

ASSUME RefreshAssumption ==
    /\ IsFiniteSet(Requests) /\ Requests # {} /\ IsFiniteSet(Tokens)
    /\ Ttls \subseteq Nat /\ MaxAge \in Ttls /\ (\A n \in Ttls : n <= MaxAge)
    /\ MaxTokens \in Nat
    /\ None \notin Chains \cup Tokens \cup Subs

VARIABLES
    rows,     \* the table, by token: the chain, its age, the lifetime it was stored with
    minted,   \* token values handed out so far
    owner,    \* the identity of each chain that was started
    age,      \* the true age of each chain, from the first token stored
    req,      \* /token requests in flight
    ttl,      \* the configured lifetime
    ended     \* chains a revocation removed, or a purge that met no rotation of them

vars == <<rows, minted, owner, age, req, ttl, ended>>

Absent == [chain |-> None, age |-> 0, ttl |-> 0]
Idle == [pc |-> "idle", chain |-> None, rotation |-> FALSE, age |-> 0,
         takenAt |-> 0, allowed |-> 0, token |-> None]

Present(t) == rows[t].chain # None
Stored == {t \in Tokens : Present(t)}

\* A request that has a chain in its hands: it took its token, or redeemed a code.
Holds(r) == req[r].pc \in {"session", "store", "insert"}

\* A chain is out of hands when no row and no request has it.
Gone(ch) == /\ \A t \in Tokens : rows[t].chain # ch
            /\ \A r \in Requests : Holds(r) => req[r].chain # ch

Older(n) == IF n < MaxAge THEN n + 1 ELSE n

Init ==
    /\ rows = [t \in Tokens |-> Absent]
    /\ minted = {}
    /\ owner = [ch \in Chains |-> None]
    /\ age = [ch \in Chains |-> 0]
    /\ req = [r \in Requests |-> Idle]
    /\ ttl \in Ttls
    /\ ended = {}

-----------------------------------------------------------------------------
\* token_authorization_code after the code was taken and checked: a new chain.
RedeemCode(r, ch, s) ==
    /\ req[r].pc = "idle"
    /\ owner[ch] = None
    /\ owner' = [owner EXCEPT ![ch] = s]
    /\ req' = [req EXCEPT ![r] = [Idle EXCEPT !.pc = "session", !.chain = ch]]
    /\ UNCHANGED <<rows, minted, age, ttl, ended>>

\* Mutant: the token is read and deleted later.
TakeSelectOnly(r, t) ==
    /\ req[r].pc = "idle"
    /\ Present(t) /\ rows[t].age < rows[t].ttl
    /\ req' = [req EXCEPT ![r] =
         [Idle EXCEPT !.pc = "session", !.chain = rows[t].chain, !.rotation = TRUE,
                      !.age = rows[t].age, !.takenAt = age[rows[t].chain], !.allowed = ttl]]
    /\ UNCHANGED <<rows, minted, owner, age, ttl, ended>>

\* token_refresh: DELETE ... RETURNING on a row whose own deadline has not
\* passed; the configured lifetime is asked again on what came back.
Take(r, t) ==
    /\ req[r].pc = "idle"
    /\ Present(t) /\ rows[t].age < rows[t].ttl
    /\ rows' = [rows EXCEPT ![t] = Absent]
    /\ req' = [req EXCEPT ![r] =
         IF rows[t].age < ttl
         THEN [Idle EXCEPT !.pc = "session", !.chain = rows[t].chain, !.rotation = TRUE,
                           !.age = rows[t].age, !.takenAt = age[rows[t].chain],
                           !.allowed = ttl]
         ELSE @]
    /\ UNCHANGED <<minted, owner, age, ttl, ended>>

\* The DELETE landed and its answer did not: the request fails closed.
TakeUnanswered(t) ==
    /\ Present(t) /\ rows[t].age < rows[t].ttl
    /\ rows' = [rows EXCEPT ![t] = Absent]
    /\ UNCHANGED <<minted, owner, age, req, ttl, ended>>

\* issue_token_response: a session row and its JWT. A chain that is not a
\* rotation is born here, before store_db runs its statements.
CreateSession(r) ==
    /\ req[r].pc = "session"
    /\ req' = [req EXCEPT ![r].pc = "store"]
    /\ age' = IF req[r].rotation THEN age ELSE [age EXCEPT ![req[r].chain] = 0]
    /\ UNCHANGED <<rows, minted, owner, ttl, ended>>

\* Mutant: refuses above the cap rather than at it.
CountRowsOffByOne(r, t) ==
    /\ req[r].pc = "store"
    /\ t \notin minted
    /\ minted' = minted \cup {t}
    /\ req' = [req EXCEPT ![r] =
         IF Cardinality(Stored) > MaxTokens THEN [@ EXCEPT !.pc = "overloaded"]
                                            ELSE [@ EXCEPT !.pc = "insert", !.token = t]]
    /\ UNCHANGED <<rows, owner, age, ttl, ended>>

\* store_db, the reads: the new token has no row, and the table is counted.
CountRows(r, t) ==
    /\ req[r].pc = "store"
    /\ t \notin minted
    /\ minted' = minted \cup {t}
    /\ req' = [req EXCEPT ![r] =
         IF Cardinality(Stored) >= MaxTokens THEN [@ EXCEPT !.pc = "overloaded"]
                                             ELSE [@ EXCEPT !.pc = "insert", !.token = t]]
    /\ UNCHANGED <<rows, owner, age, ttl, ended>>

\* Mutant: every token starts its own lifetime.
NewRowSliding(r) == [chain |-> req[r].chain, age |-> 0, ttl |-> ttl]

\* The row written: a rotation carries the birth of the chain forward.
NewRow(r) == [chain |-> req[r].chain, age |-> req[r].age, ttl |-> ttl]

\* store_db, the upsert.
InsertRow(r) ==
    /\ req[r].pc = "insert"
    /\ rows' = [rows EXCEPT ![req[r].token] = NewRow(r)]
    /\ req' = [req EXCEPT ![r] = Idle]
    /\ UNCHANGED <<minted, owner, age, ttl, ended>>

\* The upsert landed and its answer did not.
InsertUnanswered(r) ==
    /\ req[r].pc = "insert"
    /\ rows' = [rows EXCEPT ![req[r].token] = NewRow(r)]
    /\ req' = [req EXCEPT ![r].pc = "overloaded"]
    /\ UNCHANGED <<minted, owner, age, ttl, ended>>

\* A statement fails, or the client goes away.
Fail(r) ==
    /\ Holds(r)
    /\ \/ req' = [req EXCEPT ![r] = Idle]
       \/ req[r].pc # "session" /\ req' = [req EXCEPT ![r].pc = "overloaded"]
    /\ UNCHANGED <<rows, minted, owner, age, ttl, ended>>

\* 503 "gateway temporarily overloaded; try again".
AnswerOverloaded(r) ==
    /\ req[r].pc = "overloaded"
    /\ req' = [req EXCEPT ![r] = Idle]
    /\ UNCHANGED <<rows, minted, owner, age, ttl, ended>>

-----------------------------------------------------------------------------
\* POST /revoke with a refresh token: the same take.
Revoke(t) ==
    /\ Present(t) /\ rows[t].age < rows[t].ttl
    /\ rows' = [rows EXCEPT ![t] = Absent]
    /\ ended' = ended \cup {rows[t].chain}
    /\ UNCHANGED <<minted, owner, age, req, ttl>>

\* Mutant: the purge skips tokens that are past their deadline.
PurgeLive(s) ==
    /\ rows' = [t \in Tokens |-> IF Present(t) /\ owner[rows[t].chain] = s
                                    /\ rows[t].age < rows[t].ttl
                                 THEN Absent ELSE rows[t]]
    /\ ended' = ended \cup {ch \in Chains : owner[ch] = s /\
                              \A r \in Requests : Holds(r) => req[r].chain # ch}
    /\ UNCHANGED <<minted, owner, age, req, ttl>>

\* purge_for_sub, the second half of logout.
Purge(s) ==
    /\ rows' = [t \in Tokens |-> IF Present(t) /\ owner[rows[t].chain] = s
                                 THEN Absent ELSE rows[t]]
    /\ ended' = ended \cup {ch \in Chains : owner[ch] = s /\
                              \A r \in Requests : Holds(r) => req[r].chain # ch}
    /\ UNCHANGED <<minted, owner, age, req, ttl>>

\* gc_expired, every 30 s.
Gc ==
    /\ \E t \in Tokens : Present(t) /\ rows[t].age >= rows[t].ttl
    /\ rows' = [t \in Tokens |-> IF rows[t].age >= rows[t].ttl THEN Absent ELSE rows[t]]
    /\ UNCHANGED <<minted, owner, age, req, ttl, ended>>

\* A restart ends the requests in flight and may bring another lifetime.
Restart(n) ==
    /\ ttl' = n
    /\ req' = [r \in Requests |-> Idle]
    /\ UNCHANGED <<rows, minted, owner, age, ended>>

Tick ==
    /\ rows' = [t \in Tokens |-> IF Present(t) THEN [rows[t] EXCEPT !.age = Older(@)]
                                               ELSE rows[t]]
    /\ age' = [ch \in Chains |-> Older(age[ch])]
    /\ req' = [r \in Requests |-> IF req[r].rotation \/ req[r].pc \in {"store", "insert"}
                                  THEN [req[r] EXCEPT !.age = Older(@)] ELSE req[r]]
    /\ UNCHANGED <<minted, owner, ttl, ended>>

Next ==
    \/ \E r \in Requests :
         \/ \E ch \in Chains, s \in Subs : RedeemCode(r, ch, s)
         \/ \E t \in Tokens : Take(r, t) \/ CountRows(r, t)
         \/ CreateSession(r) \/ InsertRow(r) \/ InsertUnanswered(r)
         \/ Fail(r) \/ AnswerOverloaded(r)
    \/ \E t \in Tokens : TakeUnanswered(t) \/ Revoke(t)
    \/ \E s \in Subs : Purge(s)
    \/ \E n \in Ttls : Restart(n)
    \/ Gc
    \/ Tick

Spec == Init /\ [][Next]_vars

-----------------------------------------------------------------------------
\* Types of oauth_refresh_tokens and of the requests of token.rs that hold a chain.
TypeOK ==
    /\ rows \in [Tokens -> [chain : Chains \cup {None}, age : 0..MaxAge, ttl : Ttls \cup {0}]]
    /\ minted \subseteq Tokens
    /\ owner \in [Chains -> Subs \cup {None}]
    /\ age \in [Chains -> 0..MaxAge]
    /\ req \in [Requests -> [pc : {"idle", "session", "store", "insert", "overloaded"},
                             chain : Chains \cup {None}, rotation : BOOLEAN,
                             age : 0..MaxAge, takenAt : 0..MaxAge,
                             allowed : Ttls \cup {0}, token : Tokens \cup {None}]]
    /\ ttl \in Ttls
    /\ ended \subseteq Chains

\* "rotation keeps exactly one live token per chain" (revoke.rs): whatever
\* requests race, one row or one request has a chain, never two.
OneHolder == \A ch \in Chains :
    /\ \A t, u \in Tokens : rows[t].chain = ch /\ rows[u].chain = ch => t = u
    /\ \A q, r \in Requests : Holds(q) /\ Holds(r) /\ req[q].chain = ch /\ req[r].chain = ch
                                 => q = r
    /\ \A t \in Tokens, r \in Requests : ~(rows[t].chain = ch /\ Holds(r) /\ req[r].chain = ch)

\* A revoked token, and a logout that met no rotation in flight, end the chain
\* for good: no later rotation, retry or late insert brings it back.
EndedStaysEnded == \A ch \in ended : Gone(ch)

\* "Rotation renews the opaque value but never the deadline": a refresh is only
\* honoured within the lifetime configured at that moment, counted from the
\* first token of the chain, across rotations, restarts and shortened lifetimes.
AbsoluteDeadline == \A r \in Requests :
    req[r].rotation => req[r].takenAt < req[r].allowed

\* "The count/insert pair isn't atomic": concurrent stores overshoot the cap by
\* less than the number of requests in flight, and never more however often it happens.
CapOvershoot == Cardinality(Stored) < MaxTokens + Cardinality(Requests)

\* A rotation answered "try again" (token.rs:216-220) leaves a token to try again with.
RetryHasToken == \A r \in Requests :
    (req[r].pc = "overloaded" /\ req[r].rotation) => ~Gone(req[r].chain)
=============================================================================
