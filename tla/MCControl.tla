----------------------------- MODULE MCControl -----------------------------
(* An instance of ControlConn for TLC. *)
EXTENDS ControlConn

\* What may change the table between two steps of the client's own connection.
MCOtherCommands ==
    {[op |-> "CP_ADD_USER",      name |-> "ana", pass |-> "p1"],
     [op |-> "CP_ADD_USER",      name |-> "leo", pass |-> "p2"],
     [op |-> "CP_CHANGE_PASS",   name |-> "ana", pass |-> "p2"],
     [op |-> "CP_REM_USER",      name |-> "ana"]}
=============================================================================
