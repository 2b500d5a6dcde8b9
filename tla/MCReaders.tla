------------------------------ MODULE MCReaders ------------------------------
(* Instances of Readers for TLC: sizes small enough that fields of every length *)
(* occur, every code and a wrong one wherever a code is expected, and letters   *)
(* with a NUL inside the fields.                                               *)
EXTENDS Readers

a == 97
b == 98

InText ==
    {"AUTH_UNAME", "AUTH_PASSWD", "CPAP_READ_PASSWORD", "CPCP_READ_DATA"}

MCOffered(r, s) ==
    IF s \in InText THEN {0, a} \cup (IF r \in ControlReader THEN {NewLine} ELSE {})
    ELSE IF s = "REQ_DST_ADDR" THEN 0..MAX_FQDN_SIZE
    ELSE IF s = "REQ_DST_PORT" THEN {0, 110}
    ELSE IF s \in {"AUTH_ULEN", "AUTH_PLEN"} THEN 0..MAX_LEN
    ELSE IF r \in ControlReader THEN 47..56 \cup {0, 1, 2}
    ELSE IF s = "CONN_METHODS" THEN {0, 1, 2, 255}
    ELSE 0..5

User(x) == [keyword |-> USER, argument |-> x]
Pass(x) == [keyword |-> PASS, argument |-> x]

\* Two logins; one behind another command, in lower case; a second user before the
\* password; an argument that is too long.
MCDialogues ==
    {<<User(<<a>>), Pass(<<b>>), User(<<b, b>>), Pass(<<a, 32>>)>>,
     <<[keyword |-> <<65, 85, 84, 72>>, argument |-> <<83>>],
       [keyword |-> <<117, 115, 101, 114>>, argument |-> <<a>>], Pass(<<b>>)>>,
     <<User(<<a>>), User(<<b>>), Pass(<<b>>)>>,
     <<User(<<a, a, a>>), Pass(<<b>>)>>}

\* "+OK" and "-ERR", and one that mentions the password.
MCReplies == {<<43, 79, 75, LineFeed>>, <<45, 69, 82, 82, LineFeed>>, <<43, 80, 97, 115, 115, 32, LineFeed>>}
==============================================================================
