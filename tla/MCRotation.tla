----------------------------- MODULE MCRotation -----------------------------
(* The two rotations a running gateway lives through, side by side: the    *)
(* identity provider's signing keys and the gateway's own certificate.     *)
EXTENDS OidcKeys, TlsReload

MCInit == OidcInit /\ TlsInit

MCSpec ==
    /\ MCInit
    /\ [][\/ OidcNext /\ UNCHANGED tlsVars
          \/ TlsNext /\ UNCHANGED oidcVars]_<<oidcVars, tlsVars>>
    /\ TlsFairness
=============================================================================
