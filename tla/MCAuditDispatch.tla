-------------------------- MODULE MCAuditDispatch --------------------------
(* Finite instances of AuditDispatch for TLC. *)
EXTENDS AuditDispatch
=============================================================================
