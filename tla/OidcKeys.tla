------------------------------ MODULE OidcKeys ------------------------------
(***************************************************************************)
(* The relying party's caches (src/auth/oidc/mod.rs): the discovery        *)
(* document, kept for the life of the process, and the signing keys, kept  *)
(* for JWKS_TTL. Logins run concurrently; each is exchange_and_verify. A   *)
(* round trip to the identity provider reads the provider's state at some  *)
(* moment between its start and its end, and the reply is put into the     *)
(* cache when it arrives: replies may be stored in another order than the  *)
(* provider gave them.                                                     *)
(*                                                                         *)
(* Time is counted in steps of Timeout's unit; a round trip that is as old *)
(* as Timeout ends before the clock goes on.                               *)
(***************************************************************************)
EXTENDS Naturals

CONSTANTS
    Logins,      \* exchanges under way
    Keys,        \* kids the provider uses in its life, in the order of numbers
    Ttl,         \* JWKS_TTL
    Timeout,     \* DEFAULT_IDP_TIMEOUT
    MaxTime      \* bound on the clock

ASSUME OidcAssumption ==
    /\ Keys \subseteq Nat /\ 1 \in Keys
    /\ Ttl \in Nat \ {0} /\ Timeout \in Nat /\ MaxTime \in Nat

VARIABLES
    now,
    first, next,   \* the provider publishes the kids first..next-1
    withdrawn,     \* kid -> when it was withdrawn, for those below first
    discovery,     \* the document is cached
    jwks,          \* the cached keys and when they were stored; at first none
    login,         \* what each exchange waits for
    verdict        \* the latest end of a login, or NoVerdict

oidcVars == <<now, first, next, withdrawn, discovery, jwks, login, verdict>>

Published == first..(next - 1)

Resting == [pc |-> "rest", kid |-> 0, asked |-> 0, keys |-> {}]
NoVerdict == [why |-> "none", kid |-> 0]

OidcInit ==
    /\ now = 0
    /\ first = 1 /\ next = 2
    /\ withdrawn = [k \in Keys |-> 0]
    /\ discovery = FALSE
    /\ jwks = [keys |-> {}, at |-> 0]
    /\ login = [l \in Logins |-> Resting]
    /\ verdict = NoVerdict

-----------------------------------------------------------------------------
(* The provider. It publishes a key before it withdraws the one before, and *)
(* signs with a key it publishes.                                           *)

Publish ==
    /\ next \in Keys
    /\ next' = next + 1
    /\ verdict' = NoVerdict
    /\ UNCHANGED <<now, first, withdrawn, discovery, jwks, login>>

Withdraw ==
    /\ first + 1 < next
    /\ first' = first + 1
    /\ withdrawn' = [withdrawn EXCEPT ![first] = now]
    /\ verdict' = NoVerdict
    /\ UNCHANGED <<now, next, discovery, jwks, login>>

Waiting(l) == login[l].pc \in {"discover", "fetch", "reply"}

Tick ==
    /\ now < MaxTime
    /\ \A l \in Logins : Waiting(l) => now < login[l].asked + Timeout
    /\ now' = now + 1
    /\ verdict' = NoVerdict
    /\ UNCHANGED <<first, next, withdrawn, discovery, jwks, login>>

-----------------------------------------------------------------------------
\* The login ends; why says how.
Ends(l, why) ==
    /\ login' = [login EXCEPT ![l] = Resting]
    /\ verdict' = [why |-> why, kid |-> login[l].kid]

\* exchange_and_verify: the document is cached, or has to be fetched.
Begin(l) ==
    /\ login[l].pc = "rest"
    /\ login' = [login EXCEPT ![l] =
         IF discovery THEN [Resting EXCEPT !.pc = "exchange"]
         ELSE [Resting EXCEPT !.pc = "discover", !.asked = now]]
    /\ verdict' = NoVerdict
    /\ UNCHANGED <<now, first, next, withdrawn, discovery, jwks>>

\* discover: kept when it is of this issuer and all its URLs are secure.
Discover(l, ok) ==
    /\ login[l].pc = "discover"
    /\ IF ok THEN /\ discovery' = TRUE
                  /\ login' = [login EXCEPT ![l] = [Resting EXCEPT !.pc = "exchange"]]
                  /\ verdict' = NoVerdict
             ELSE Ends(l, "discovery") /\ UNCHANGED discovery
    /\ UNCHANGED <<now, first, next, withdrawn, jwks>>

\* The provider takes the code and answers with a token, or does not.
ExchangeCode(l, kid) ==
    /\ login[l].pc = "exchange"
    /\ login' = [login EXCEPT ![l].pc = "verify", ![l].kid = kid]
    /\ verdict' = NoVerdict
    /\ UNCHANGED <<now, first, next, withdrawn, discovery, jwks>>

ExchangeFails(l) ==
    /\ login[l].pc = "exchange"
    /\ Ends(l, "exchange")
    /\ UNCHANGED <<now, first, next, withdrawn, discovery, jwks>>

\* verify_id_token after the key is found: signature, issuer, audience, expiry,
\* not-before, nonce, subject and verified address.
VerifyClaims(l, ok) == Ends(l, IF ok THEN "accepted" ELSE "claims")

Fresh == now < jwks.at + Ttl

\* Mutant: keys are kept until one is missing.
CachedKeyForever(l, ok) ==
    /\ login[l].pc = "verify"
    /\ login[l].kid \in jwks.keys
    /\ VerifyClaims(l, ok)
    /\ UNCHANGED <<now, first, next, withdrawn, discovery, jwks>>

\* decoding_key, the fast path.
CachedKey(l, ok) ==
    /\ login[l].pc = "verify"
    /\ Fresh /\ login[l].kid \in jwks.keys
    /\ VerifyClaims(l, ok)
    /\ UNCHANGED <<now, first, next, withdrawn, discovery, jwks>>

\* Mutant: a fresh cache has the last word.
AskKeysOnce(l) ==
    /\ login[l].pc = "verify"
    /\ ~(Fresh /\ login[l].kid \in jwks.keys)
    /\ IF Fresh /\ jwks.keys # {} THEN Ends(l, "kid")
       ELSE /\ login' = [login EXCEPT ![l].pc = "fetch", ![l].asked = now]
            /\ verdict' = NoVerdict
    /\ UNCHANGED <<now, first, next, withdrawn, discovery, jwks>>

\* decoding_key otherwise: the document is cached by now, the keys are fetched.
AskKeys(l) ==
    /\ login[l].pc = "verify"
    /\ ~(Fresh /\ login[l].kid \in jwks.keys)
    /\ login' = [login EXCEPT ![l].pc = "fetch", ![l].asked = now]
    /\ verdict' = NoVerdict
    /\ UNCHANGED <<now, first, next, withdrawn, discovery, jwks>>

\* The provider answers with the keys of this moment.
AnswerKeys(l) ==
    /\ login[l].pc = "fetch"
    /\ login' = [login EXCEPT ![l].pc = "reply", ![l].keys = Published]
    /\ verdict' = NoVerdict
    /\ UNCHANGED <<now, first, next, withdrawn, discovery, jwks>>

\* The answer arrives: stored whatever it holds and whenever it was given, and
\* then searched.
StoreKeys(l, ok) ==
    /\ login[l].pc = "reply"
    /\ jwks' = [keys |-> login[l].keys, at |-> now]
    /\ IF login[l].kid \in login[l].keys THEN VerifyClaims(l, ok) ELSE Ends(l, "kid")
    /\ UNCHANGED <<now, first, next, withdrawn, discovery>>

\* An error status, a body that is no key set, or the timeout.
KeysFail(l) ==
    /\ login[l].pc \in {"fetch", "reply"}
    /\ Ends(l, "idp")
    /\ UNCHANGED <<now, first, next, withdrawn, discovery, jwks>>

OidcNext ==
    \/ Publish \/ Withdraw \/ Tick
    \/ \E l \in Logins :
         \/ Begin(l) \/ ExchangeFails(l) \/ AskKeys(l) \/ AnswerKeys(l) \/ KeysFail(l)
         \/ \E kid \in Published : ExchangeCode(l, kid)
         \/ \E ok \in BOOLEAN : Discover(l, ok) \/ CachedKey(l, ok) \/ StoreKeys(l, ok)

OidcSpec == OidcInit /\ [][OidcNext]_oidcVars

-----------------------------------------------------------------------------
\* JWKS_TTL is there for "bounding rotation lag" (helpers.rs:9). A token signed
\* with a withdrawn key is accepted for the TTL and one round trip more: a
\* reply given before the withdrawal may be stored last, and counts as new.
RotationLag == verdict.why = "accepted" /\ verdict.kid < first =>
    now < withdrawn[verdict.kid] + Ttl + Timeout

\* However the replies of concurrent logins overwrite each other, no login is
\* turned away for its key while the provider publishes that key.
FreshKeyAccepted == verdict.why = "kid" => verdict.kid \notin Published
=============================================================================
