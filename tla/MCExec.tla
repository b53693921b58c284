------------------------------- MODULE MCExec -------------------------------
(* Finite instances of MongoExec for TLC. *)
EXTENDS MongoExec

\* None, one and more rows than the limit of one; a write that is complete under one limit
\* and cut under the other; a read without a timeout on the target.
MCStmts == {[rows |-> 0, write |-> FALSE, timed |-> TRUE],
            [rows |-> 1, write |-> TRUE, timed |-> TRUE],
            [rows |-> 2, write |-> FALSE, timed |-> FALSE]}
MCWrites == [rows : {2}, write : {TRUE}, timed : {TRUE}]
=============================================================================
