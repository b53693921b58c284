--------------------------- MODULE ClientRegistry ---------------------------
(***************************************************************************)
(* The registered OAuth clients (src/transport/client_registry.rs), in the *)
(* oauth_clients table of the state database: client_id -> redirect URIs,  *)
(* with an age counted since registration or the last /authorize. One      *)
(* operator per SQL statement; LoginFlow runs them. A URI is abstracted to *)
(* its kind, its port and the page that the rest of it names.              *)
(***************************************************************************)
EXTENDS Naturals, FiniteSets

CONSTANTS
    Clients,     \* client ids
    Uris,        \* redirect URIs
    ClientTtl,   \* CLIENT_TTL
    ClientCap,   \* CLIENT_CAP
    None

ASSUME RegistryAssumption ==
    /\ Uris \subseteq [kind : {"https", "loopback", "other"}, page : STRING, port : Nat]
    /\ ClientTtl \in Nat \ {0} /\ ClientCap \in Nat
    /\ None \notin Clients \cup Uris \cup [uris : SUBSET Uris, age : Nat]

VARIABLE clients   \* client id -> [uris, age], or None

\* expires_at > now()
Live(c) == clients[c] # None /\ clients[c].age < ClientTtl

Rows == {c \in Clients : clients[c] # None}

is_valid_redirect_uri(u) == u.kind \in {"https", "loopback"}
is_loopback_redirect_uri(u) == u.kind = "loopback"

\* Exact, but for the port of a loopback address.
redirect_uri_matches(registered, requested) ==
    \/ registered = requested
    \/ /\ is_loopback_redirect_uri(registered) /\ is_loopback_redirect_uri(requested)
       /\ registered.page = requested.page

\* touch_db: the statement that reads a live row also renews it.
Touched(c) == IF Live(c) THEN [clients EXCEPT ![c].age = 0] ELSE clients

\* Mutant: at the cap, live rows make room.
DeletedAtCap == IF Cardinality(Rows) >= ClientCap THEN [c \in Clients |-> None] ELSE clients

\* insert_db: DELETE ... WHERE expires_at <= now(), and the upsert.
Deleted == [c \in Clients |-> IF Live(c) THEN clients[c] ELSE None]
Upserted(c, uris) == [clients EXCEPT ![c] = [uris |-> uris, age |-> 0]]

=============================================================================
