------------------------------ MODULE Commands ------------------------------
(***************************************************************************)
(* The commands of the management protocol and the answers to them, as     *)
(* the service and its implementation both speak of them.  "malformed" is  *)
(* any command the parser accepts although its data is missing, unwanted   *)
(* or without its delimiter; a query lists the users or the metrics.       *)
(***************************************************************************)
CONSTANTS Name, Password

Command ==
    [op : {"CP_ADD_USER", "CP_CHANGE_PASS"}, name : Name, pass : Password]
        \cup [op : {"CP_REM_USER"}, name : Name]
        \cup [op : {"query", "CP_DISSECTOR_ON", "CP_DISSECTOR_OFF", "malformed"}]

\* What a parser that has not finished stands for.
NoCommand == [op |-> "CP_NO_COMMAND"]

\* OK is the success without data, DATA what a query returns, and
\* CPERROR_INVALID_FORMAT stands for the three errors of malformed commands.
Answers == {"OK", "DATA", "CPERROR_INVALID_FORMAT", "CPERROR_INEXISTING_USER",
            "CPERROR_ALREADY_EXISTS", "CPERROR_USER_LIMIT"}
=============================================================================
