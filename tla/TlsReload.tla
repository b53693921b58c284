----------------------------- MODULE TlsReload -----------------------------
(***************************************************************************)
(* Certificate rotation: the operator rewrites the certificate and the key *)
(* file, one after the other and not atomically, and sends SIGHUP; the     *)
(* loop of spawn_reload_on_sighup (src/startup.rs) reads both files again  *)
(* (src/transport/tls.rs). Signals that arrive while one is pending        *)
(* coalesce; one that arrives during a reload is kept for the next turn.   *)
(***************************************************************************)
EXTENDS Naturals

CONSTANT Versions   \* the last certificate the operator issues

VARIABLES
    files,      \* what the files cert and key hold: a version, or 0 when half written
    issued,     \* the version the operator is at
    hup,        \* a SIGHUP is pending
    told,       \* history: the newest version that was whole when a SIGHUP was sent
    loop,       \* the loop waits, or has read the certificate
    read,       \* the certificate it has read
    serving     \* the certificate and the key new handshakes get

tlsVars == <<files, issued, hup, told, loop, read, serving>>

\* main: both files are loaded before the handler is installed.
TlsInit ==
    /\ files = [cert |-> 1, key |-> 1]
    /\ issued = 1
    /\ hup = FALSE
    /\ told = 1
    /\ loop = "recv"
    /\ read = 0
    /\ serving = [cert |-> 1, key |-> 1]

Whole == files.cert = issued /\ files.key = issued

\* A new certificate and key; from here on each file is truncated and written.
Issue ==
    /\ Whole /\ issued < Versions
    /\ issued' = issued + 1
    /\ UNCHANGED <<files, hup, told, loop, read, serving>>

WriteFile(f) ==
    /\ files[f] # issued
    /\ files' = [files EXCEPT ![f] = IF files[f] = 0 THEN issued ELSE 0]
    /\ UNCHANGED <<issued, hup, told, loop, read, serving>>

\* A SIGHUP, at any time: early ones find half of the rotation.
Hangup ==
    /\ ~hup \/ (Whole /\ told < issued)
    /\ hup' = TRUE
    /\ told' = IF Whole THEN issued ELSE told
    /\ UNCHANGED <<files, issued, loop, read, serving>>

\* hup.recv() returns and the signal is consumed; the certificate is read.
Recv ==
    /\ loop = "recv" /\ hup
    /\ hup' = FALSE
    /\ read' = files.cert
    /\ loop' = "cert"
    /\ UNCHANGED <<files, issued, told, serving>>

\* Mutant: what arrived during the reload is forgotten with it.
ReloadDrains ==
    /\ loop = "cert"
    /\ serving' = IF read # 0 /\ files.key = read THEN [cert |-> read, key |-> files.key] ELSE serving
    /\ loop' = "recv"
    /\ read' = 0
    /\ hup' = FALSE
    /\ UNCHANGED <<files, issued, told>>

\* reload: the key is read, and the pair is taken when it fits together;
\* otherwise the old one goes on and the loop waits for the next signal.
Reload ==
    /\ loop = "cert"
    /\ serving' = IF read # 0 /\ files.key = read THEN [cert |-> read, key |-> files.key] ELSE serving
    /\ loop' = "recv"
    /\ read' = 0
    /\ UNCHANGED <<files, issued, hup, told>>

TlsNext == Issue \/ (\E f \in {"cert", "key"} : WriteFile(f)) \/ Hangup \/ Recv \/ Reload

\* The loop is a task of its own and the runtime polls it.
TlsFairness == WF_tlsVars(Recv) /\ WF_tlsVars(Reload)

-----------------------------------------------------------------------------
\* "the next SIGHUP retries": once both files are written and SIGHUP was sent
\* after that, new handshakes come to use them, whatever reloads failed
\* before or were under way, unless the operator goes on to another version.
ReloadTakesEffect == \A v \in 1..Versions :
    told = v ~> (serving = [cert |-> v, key |-> v] \/ issued > v)
=============================================================================
