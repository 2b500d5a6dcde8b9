------------------------------- MODULE Readers -------------------------------
(***************************************************************************)
(* Each reader of a message with its automaton, fed any bytes in any cuts. *)
(* A SOCKS handler initialises its parser in every call, so that a message *)
(* is looked for in the bytes of one read; the handlers of the management  *)
(* protocol keep theirs until a message is whole.  What an automaton makes *)
(* of the bytes is compared with the grammar of the message.               *)
(*                                                                         *)
(* A behaviour is that of one reader: one of five, or the sniffer.         *)
(***************************************************************************)
EXTENDS Parsers, Pop3Sniffer

CONSTANT Offered(_, _)      \* the bytes tried on a reader, in each of its states

VARIABLES
    reader,     \* whose bytes these are
    parser,
    required,   \* needs_auth() while the call lasts
    seen        \* ghost: the bytes since the parser was initialised

readerVars == <<parser, required, seen>>

vars == <<reader, readerVars, snifferVars>>

SocksReader == {"hello_read", "auth_read", "req_read"}
ControlReader == {"authRead", "executeRead"}

\* The states that wait for a byte.
Waiting ==
    {"CONN_VERSION", "CONN_NMETHODS", "CONN_METHODS",
     "AUTH_VER", "AUTH_ULEN", "AUTH_UNAME", "AUTH_PLEN", "AUTH_PASSWD",
     "REQ_VER", "REQ_CMD", "REQ_RSV", "REQ_ATYP", "REQ_DST_ADDR", "REQ_DST_PORT",
     "CPAP_CHECK_AUTH_COMMAND", "CPAP_HAS_DATA", "CPAP_READ_PASSWORD",
     "CPCP_COMMAND_CODE", "CPCP_HAS_DATA", "CPCP_READ_DATA"}

\* A length is a byte, and the field behind it has room for 255: with smaller
\* fields, only lengths that fit are tried.
ASSUME ReadersAssumption ==
    /\ \A r \in SocksReader \cup ControlReader, s \in Waiting : Offered(r, s) \subseteq Byte
    /\ \A s \in {"AUTH_ULEN", "AUTH_PLEN"} : Offered("auth_read", s) \subseteq 0..MAX_LEN
    /\ Offered("req_read", "REQ_DST_ADDR") \subseteq 0..MAX_FQDN_SIZE

\* The parsers of a new connection, whose memory is cleared.
NewParser ==
    [hello_read |-> start_connection_parser,
     auth_read |-> auth_parser_init([state |-> "AUTH_VER", to_parse |-> 0, where_to |-> 0,
                                     text |-> Cleared(AuthArrays)]),
     req_read |-> req_parser_init([state |-> "REQ_VER", to_parse |-> 0, where_to |-> 0, cmd |-> 0,
                                   type |-> 0, fqdn |-> Cleared(MAX_FQDN_SIZE),
                                   ip |-> Zeros(IPv6_BYTES), port |-> Zeros(REQ_DST_PORT_BYTES)]),
     authRead |-> initCpAuthParser([currentState |-> "CPAP_CHECK_AUTH_COMMAND", passLen |-> 0,
                                    inputPassword |-> Cleared(MAX_PASS_LEN)]),
     executeRead |-> initCpCommandParser([currentState |-> "CPCP_COMMAND_CODE", code |-> 0, hasData |-> 0,
                                          data |-> Zeros(MAX_DATA_SIZE + 1), dataSize |-> 0]),
     copy_read |-> <<>>]

StateOf(p) == IF reader \in SocksReader THEN p.state ELSE p.currentState

Verdict ==
    LET s == StateOf(parser)
    IN  IF s \in {"CONN_DONE", "AUTH_DONE", "REQ_DONE", "CPAP_DONE", "CPCP_DONE"} THEN "DONE"
        ELSE IF s \in {"CONN_ERROR", "AUTH_ERROR", "REQ_ERROR", "CPAP_ERROR", "CPCP_ERROR"}
          THEN "ERROR" ELSE "MORE"

Init ==
    /\ reader \in SocksReader \cup ControlReader \cup {"copy_read"}
    /\ parser = NewParser[reader]
    /\ required \in BOOLEAN /\ (required => reader = "hello_read")
    /\ seen = <<>>
    /\ SnifferInit
    /\ reader # "copy_read" => dialogue = CHOOSE d \in Dialogues : TRUE

\* executeRead closes the data of a whole command.
CommandByte(p, b) ==
    LET q == cpcpParseByte(p, b)
    IN  IF q.currentState = "CPCP_DONE" THEN [q EXCEPT !.data = Store(@, q.dataSize, 0)] ELSE q

\* One turn of the loop of the reader's *_parse_full, or of authRead and executeRead.
ParseByte(b) ==
    /\ Verdict = "MORE"
    /\ parser' = CASE reader = "hello_read" -> conn_parse_byte(parser, b, required)
                   [] reader = "auth_read" -> auth_parse_byte(parser, b)
                   [] reader = "req_read" -> req_parse_byte(parser, b)
                   [] reader = "authRead" -> cpapParseByte(parser, b)
                   [] reader = "executeRead" -> CommandByte(parser, b)
    /\ seen' = Append(seen, b)
    /\ UNCHANGED <<reader, required, snifferVars>>

\* The bytes of a read ended inside a message: the next call begins anew, maybe
\* after a management command changed whether users must authenticate.
ReadAgain ==
    /\ reader \in SocksReader /\ Verdict = "MORE"
    /\ parser' = CASE reader = "hello_read" -> start_connection_parser
                   [] reader = "auth_read" -> auth_parser_init(parser)
                   [] reader = "req_read" -> req_parser_init(parser)
    /\ required' \in BOOLEAN /\ (required' => reader = "hello_read")
    /\ seen' = <<>>
    /\ UNCHANGED <<reader, snifferVars>>

\* authRead, and executeWrite after the answer, initialise the parser of a whole
\* message, so that the next may come.
NextMessage ==
    /\ reader \in ControlReader /\ Verdict = "DONE"
    /\ parser' = IF reader = "authRead" THEN initCpAuthParser(parser)
                                        ELSE initCpCommandParser(parser)
    /\ seen' = <<>>
    /\ UNCHANGED <<reader, required, snifferVars>>

Next ==
    \/ reader # "copy_read" /\ \E b \in Offered(reader, StateOf(parser)) : ParseByte(b)
    \/ ReadAgain
    \/ NextMessage
    \/ reader = "copy_read" /\ SnifferNext /\ UNCHANGED <<reader, readerVars>>

Spec == Init /\ [][Next]_vars

-----------------------------------------------------------------------------
(* The grammars. *)

\* What the first bytes of each message may be.
Header ==
    [hello_read |-> <<{SOCKS_VERSION}>>,
     auth_read |-> <<{AUTH_VERSION}>>,
     req_read |-> <<{SOCKS_VERSION}, REQ_COMMANDS, {0}, {IPv4, FQDN, IPv6}>>,
     authRead |-> <<{CP_AUTHENTICATION}, {1}>>,
     executeRead |-> <<CP_ADD_USER..CP_DISSECTOR_OFF, {0, 1}>>]

\* How long the message is that begins so; one byte more while that is not known.
AddressLength ==
    CASE seen[4] = IPv4 -> IPv4_BYTES
      [] seen[4] = IPv6 -> IPv6_BYTES
      [] seen[4] = FQDN -> IF Len(seen) > 4 THEN 1 + seen[5] ELSE 1

EndOfLine == IF NewLine \in {seen[i] : i \in 3..Len(seen)} THEN Len(seen) ELSE Len(seen) + 1

TotalLength ==
    CASE reader = "hello_read" /\ Len(seen) >= 2 -> 2 + seen[2]
      [] reader = "auth_read" /\ Len(seen) >= 2 ->
           IF Len(seen) < 3 + seen[2] THEN 4 + seen[2] ELSE 3 + seen[2] + seen[3 + seen[2]]
      [] reader = "req_read" /\ Len(seen) >= 4 -> 4 + AddressLength + REQ_DST_PORT_BYTES
      [] reader = "authRead" /\ Len(seen) >= 2 -> EndOfLine
      [] reader = "executeRead" /\ Len(seen) >= 2 -> IF seen[2] = 0 THEN 2 ELSE EndOfLine
      [] OTHER -> Len(seen) + 1

\* The line of a password may hold MAX_PASS_LEN bytes before its end, the one of
\* a command MAX_DATA_SIZE with it.
LineFits ==
    /\ reader = "authRead" => \A i \in (3 + MAX_PASS_LEN)..Len(seen) : seen[i] = NewLine
    /\ reader = "executeRead" => Len(seen) <= 2 + MAX_DATA_SIZE

Grammar ==
    IF ~ \A i \in DOMAIN seen \cap DOMAIN Header[reader] : seen[i] \in Header[reader][i]
      THEN "ERROR"
    ELSE IF ~LineFits THEN "ERROR"
    ELSE IF Len(seen) = TotalLength THEN "DONE" ELSE "MORE"

Sent(first, n) == SubSeq(seen, first, first + n - 1)

-----------------------------------------------------------------------------
(* Properties. *)

\* Outside an array of n bytes nothing is stored but a NUL in the byte behind it.
OnlyNulBehind(array, n) == DOMAIN array = 0..n /\ array[n] \in {Unused, 0}

\* Every byte of a message is stored in the array of its field, user name and
\* password each in their own.  What may leave it, by one byte and never more, is
\* the terminator of the longest field: the arrays have no room for that one.
\* The data of a command has, and the sniffer's indices stay inside theirs.
ParserBlocks ==
    /\ reader = "auth_read" =>
         /\ OnlyNulBehind(parser.text, AuthArrays)
         /\ parser.state = "AUTH_UNAME" => parser.where_to + parser.to_parse <= MAX_LEN
         /\ parser.state = "AUTH_PASSWD" =>
              /\ parser.where_to >= MAX_LEN
              /\ parser.where_to + parser.to_parse <= AuthArrays
    /\ reader = "req_read" =>
         /\ OnlyNulBehind(parser.fqdn, MAX_FQDN_SIZE)
         /\ DOMAIN parser.ip = 0..(IPv6_BYTES - 1)
         /\ DOMAIN parser.port = 0..(REQ_DST_PORT_BYTES - 1)
    /\ reader = "authRead" => OnlyNulBehind(parser.inputPassword, MAX_PASS_LEN)
    /\ reader = "executeRead" => DOMAIN parser.data = 0..MAX_DATA_SIZE
    /\ SnifferInBounds

\* An automaton is done exactly at the last byte of a message, in error exactly
\* when no message begins with what was read, and waiting for more otherwise.
VerdictIsTheGrammars == reader # "copy_read" => Verdict = Grammar

HelloFields ==
    LET methods == {seen[i] : i \in 3..Len(seen)}
    IN  parser.auth = IF USER_PASS \in methods THEN USER_PASS
                      ELSE IF ~required /\ NO_AUTH \in methods THEN NO_AUTH ELSE NO_METHODS

\* A user name of MAX_LEN bytes runs on into the password, and an empty field
\* keeps what an earlier read of the connection left.
AuthFields ==
    LET ulen == seen[2]
        plen == seen[3 + ulen]
    IN  /\ ulen \in 1..(MAX_LEN - 1) =>
             TextAt(parser.text, 0, AuthArrays + 1) = UpToNul(Sent(3, ulen))
        /\ plen > 0 =>
             TextAt(parser.text, MAX_LEN, AuthArrays + 1) = UpToNul(Sent(4 + ulen, plen))

RequestFields ==
    LET address == AddressLength - (IF seen[4] = FQDN THEN 1 ELSE 0)
        sent == Sent(IF seen[4] = FQDN THEN 6 ELSE 5, address)
    IN  /\ parser.cmd = seen[2] /\ parser.type = seen[4]
        /\ seen[4] # FQDN => \A i \in 1..address : parser.ip[i - 1] = sent[i]
        /\ seen[4] = FQDN /\ address > 0 =>
             TextAt(parser.fqdn, 0, MAX_FQDN_SIZE + 1) = UpToNul(sent)
        /\ <<parser.port[0], parser.port[1]>> = Sent(Len(seen) - 1, 2)

\* The end of a password of MAX_PASS_LEN bytes is up to the order in which its
\* terminator and passLen are stored.
PasswordField ==
    Len(seen) - 3 < MAX_PASS_LEN =>
        TextAt(parser.inputPassword, 0, MAX_PASS_LEN + 1) = UpToNul(Sent(3, Len(seen) - 3))

CommandFields ==
    /\ parser.code = seen[1] /\ parser.hasData = seen[2]
    /\ TextAt(parser.data, 0, MAX_DATA_SIZE + 1) = UpToNul(Sent(3, Len(seen) - 2))

\* The fields of a whole message are what was sent, also when earlier reads of
\* the connection left theirs: the method preferred of those offered, user and
\* password, address and port, password and command of the management protocol.
FieldsAreWhatWasSent ==
    reader # "copy_read" /\ Verdict = "DONE" =>
        CASE reader = "hello_read" -> HelloFields
          [] reader = "auth_read" -> AuthFields
          [] reader = "req_read" -> RequestFields
          [] reader = "authRead" -> PasswordField
          [] reader = "executeRead" -> CommandFields
=============================================================================
