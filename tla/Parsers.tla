------------------------------- MODULE Parsers -------------------------------
(***************************************************************************)
(* The byte automata of the five messages the program reads: the hello,    *)
(* the user and password and the request of SOCKS, the password and the    *)
(* commands of the management protocol.  A parser is a record with the C   *)
(* fields that outlive a byte.  where_to is an offset into the array it    *)
(* points to.  An array is a function on its offsets, which a write beyond *)
(* its end would extend; the arrays that get a terminator include the byte *)
(* of memory behind their end, where the longest field puts it.            *)
(*                                                                         *)
(* The codes are the real ones; the sizes are parameters.                  *)
(***************************************************************************)
EXTENDS Integers, Sequences

CONSTANTS
    MAX_LEN,            \* username[MAX_LEN], password[MAX_LEN], 255
    MAX_FQDN_SIZE,      \* 255
    IPv4_BYTES, IPv6_BYTES,
    MAX_PASS_LEN,       \* inputPassword[MAX_PASS_LEN], 256
    MAX_DATA_SIZE       \* data[MAX_DATA_SIZE + 1], 255

ASSUME ParsersAssumption ==
    /\ MAX_LEN \in Nat \ {0}
    /\ MAX_FQDN_SIZE \in Nat
    /\ IPv4_BYTES \in Nat \ {0} /\ IPv6_BYTES \in Nat /\ IPv4_BYTES <= IPv6_BYTES
    /\ MAX_PASS_LEN \in Nat
    /\ MAX_DATA_SIZE \in Nat

Byte == 0..255
Unused == 256           \* no parser has written this byte of memory
Cell == Byte \cup {Unused}
SOCKS_VERSION == 5
AUTH_VERSION == 1
NO_AUTH == 0
USER_PASS == 2
NO_METHODS == 255
REQ_COMMANDS == 1..3
IPv4 == 1
FQDN == 3
IPv6 == 4
REQ_DST_PORT_BYTES == 2
CP_AUTHENTICATION == 48
CP_ADD_USER == 49
CP_DISSECTOR_OFF == 55
NewLine == 10

Store(block, i, b) == [j \in DOMAIN block \cup {i} |-> IF j = i THEN b ELSE block[j]]

Zeros(n) == [i \in 0..(n - 1) |-> 0]

\* An array of n cleared bytes and the byte behind it.
Cleared(n) == [i \in 0..n |-> IF i = n THEN Unused ELSE 0]

\* The C string that starts at an offset of a block of n bytes.
UpToNul(s) ==
    LET nul == {i \in DOMAIN s : s[i] = 0}
        end == CHOOSE i \in nul \cup {Len(s) + 1} : \A j \in nul : i <= j
    IN  SubSeq(s, 1, end - 1)
TextAt(block, from, n) == UpToNul([i \in 1..(n - from) |-> block[from + i - 1]])

\* Mutants: the form a plausible bug would give to the definition each is named
\* for.  PROJECT.json says which property refutes it.
set_new_method_LastWins(p, method, needs_auth) ==
    IF method = USER_PASS \/ (~needs_auth /\ method = NO_AUTH)
      THEN method ELSE p.auth
set_len_to_parse_ZeroPassword(p, n) ==
    LET field == IF p.state = "AUTH_ULEN" THEN 0 ELSE MAX_LEN
    IN  [p EXCEPT !.to_parse = n, !.where_to = field, !.text = Store(@, field + n, 0),
                  !.state = IF p.state = "AUTH_ULEN" THEN "AUTH_UNAME" ELSE "AUTH_PASSWD"]
cpcpParseByte_OneMore(p, b) ==
    IF p.currentState = "CPCP_READ_DATA" /\ p.dataSize <= MAX_DATA_SIZE
      THEN [p EXCEPT !.data = Store(@, p.dataSize, b), !.dataSize = @ + 1,
                     !.currentState = IF b = NewLine THEN "CPCP_DONE" ELSE @]
      ELSE [p EXCEPT !.currentState =
              CASE p.currentState = "CPCP_COMMAND_CODE" -> "CPCP_HAS_DATA"
                [] p.currentState = "CPCP_HAS_DATA" /\ b = 0 -> "CPCP_DONE"
                [] p.currentState = "CPCP_HAS_DATA" /\ b = 1 -> "CPCP_READ_DATA"
                [] OTHER -> "CPCP_ERROR"]

-----------------------------------------------------------------------------
(* conn_parser.c: version, number of methods, methods. *)

start_connection_parser == [state |-> "CONN_VERSION", to_parse |-> 0, auth |-> NO_METHODS]

\* The method that is kept, of those seen so far.
set_new_method(p, method, needs_auth) ==
    IF \/ method = USER_PASS
       \/ ~needs_auth /\ method = NO_AUTH /\ p.auth # USER_PASS
      THEN method ELSE p.auth

conn_parse_byte(p, b, needs_auth) ==
    CASE p.state = "CONN_VERSION" ->
           [p EXCEPT !.state = IF b = SOCKS_VERSION THEN "CONN_NMETHODS" ELSE "CONN_ERROR"]
      [] p.state = "CONN_NMETHODS" /\ b = 0 -> [p EXCEPT !.state = "CONN_DONE"]
      [] p.state = "CONN_NMETHODS" /\ b > 0 -> [p EXCEPT !.state = "CONN_METHODS", !.to_parse = b]
      [] p.state = "CONN_METHODS" ->
           [p EXCEPT !.auth = set_new_method(p, b, needs_auth), !.to_parse = @ - 1,
                     !.state = IF p.to_parse = 1 THEN "CONN_DONE" ELSE @]
      [] OTHER -> p

-----------------------------------------------------------------------------
(* auth_parser.c.  text is username and password; behind them is padding of    *)
(* the struct, behind username is password.                                    *)

AuthArrays == 2 * MAX_LEN

auth_parser_init(p) == [p EXCEPT !.state = "AUTH_VER", !.to_parse = 0, !.where_to = 0]

\* The terminator is stored before the field is; an empty field stores nothing.
set_len_to_parse(p, n) ==
    LET user == p.state = "AUTH_ULEN"
        field == IF user THEN 0 ELSE MAX_LEN
    IN  IF n = 0
          THEN [p EXCEPT !.state = IF user THEN "AUTH_PLEN" ELSE "AUTH_DONE"]
          ELSE [p EXCEPT !.to_parse = n, !.where_to = field, !.text = Store(@, field + n, 0),
                         !.state = IF user THEN "AUTH_UNAME" ELSE "AUTH_PASSWD"]

plain_parse_byte(p, b) ==
    LET stored == [p EXCEPT !.text = Store(@, p.where_to, b), !.to_parse = @ - 1,
                            !.where_to = @ + 1]
    IN  IF p.to_parse > 1 THEN stored
        ELSE [stored EXCEPT !.where_to = 0,
                            !.state = IF @ = "AUTH_UNAME" THEN "AUTH_PLEN" ELSE "AUTH_DONE"]

auth_parse_byte(p, b) ==
    CASE p.state = "AUTH_VER" ->
           [p EXCEPT !.state = IF b = AUTH_VERSION THEN "AUTH_ULEN" ELSE "AUTH_ERROR"]
      [] p.state \in {"AUTH_ULEN", "AUTH_PLEN"} -> set_len_to_parse(p, b)
      [] p.state \in {"AUTH_UNAME", "AUTH_PASSWD"} -> plain_parse_byte(p, b)
      [] OTHER -> p

-----------------------------------------------------------------------------
(* req_parser.c.  Behind fqdn is padding of its struct; ip stands for either   *)
(* address, which its type clears first.                                       *)

FIRST_FQDN_BYTE_PARSE == -2

req_parser_init(p) ==
    [p EXCEPT !.state = "REQ_VER", !.to_parse = 0, !.where_to = 0, !.cmd = 0, !.type = 0,
              !.port = Zeros(REQ_DST_PORT_BYTES)]

set_dst_port_config(p) ==
    [p EXCEPT !.to_parse = REQ_DST_PORT_BYTES, !.where_to = 0, !.state = "REQ_DST_PORT"]

parse_addr_byte(p, b) ==
    LET stored == [p EXCEPT !.fqdn = IF p.type = FQDN THEN Store(@, p.where_to, b) ELSE @,
                            !.ip = IF p.type # FQDN THEN Store(@, p.where_to, b) ELSE @,
                            !.to_parse = @ - 1, !.where_to = @ + 1]
    IN  IF p.to_parse = 1 THEN set_dst_port_config(stored) ELSE stored

\* The first byte of a name is its length.
FqdnLength(p, n) ==
    IF n = 0 THEN set_dst_port_config(p)
             ELSE [p EXCEPT !.to_parse = n, !.fqdn = Store(@, n, 0)]

AddressType(p, b) ==
    LET typed == [p EXCEPT !.type = b, !.where_to = 0, !.state = "REQ_DST_ADDR"]
    IN  CASE b = IPv4 -> [typed EXCEPT !.to_parse = IPv4_BYTES, !.ip = Zeros(IPv6_BYTES)]
          [] b = IPv6 -> [typed EXCEPT !.to_parse = IPv6_BYTES, !.ip = Zeros(IPv6_BYTES)]
          [] b = FQDN -> [typed EXCEPT !.to_parse = FIRST_FQDN_BYTE_PARSE]
          [] OTHER -> [p EXCEPT !.type = b, !.state = "REQ_ERROR"]

PortByte(p, b) ==
    [p EXCEPT !.port = Store(@, p.where_to, b), !.where_to = @ + 1, !.to_parse = @ - 1,
              !.state = IF p.to_parse = 1 THEN "REQ_DONE" ELSE @]

req_parse_byte(p, b) ==
    CASE p.state = "REQ_VER" ->
           [p EXCEPT !.state = IF b = SOCKS_VERSION THEN "REQ_CMD" ELSE "REQ_ERROR"]
      [] p.state = "REQ_CMD" /\ b \in REQ_COMMANDS -> [p EXCEPT !.cmd = b, !.state = "REQ_RSV"]
      [] p.state = "REQ_CMD" /\ b \notin REQ_COMMANDS -> [p EXCEPT !.state = "REQ_ERROR"]
      [] p.state = "REQ_RSV" -> [p EXCEPT !.state = IF b = 0 THEN "REQ_ATYP" ELSE "REQ_ERROR"]
      [] p.state = "REQ_ATYP" -> AddressType(p, b)
      [] p.state = "REQ_DST_ADDR" ->
           IF p.type = FQDN /\ p.to_parse = FIRST_FQDN_BYTE_PARSE
             THEN FqdnLength(p, b) ELSE parse_addr_byte(p, b)
      [] p.state = "REQ_DST_PORT" -> PortByte(p, b)
      [] OTHER -> p

-----------------------------------------------------------------------------
(* cpAuthParser.c.  Behind inputPassword is the low byte of passLen, which     *)
(* nobody reads any more when the terminator of the longest password lands in  *)
(* it.                                                                         *)

initCpAuthParser(p) == [p EXCEPT !.currentState = "CPAP_CHECK_AUTH_COMMAND", !.passLen = 0]

cpapParseByte(p, b) ==
    LET stored(c) == [p EXCEPT !.inputPassword = Store(@, p.passLen, c), !.passLen = @ + 1]
    IN  CASE p.currentState = "CPAP_CHECK_AUTH_COMMAND" /\ b = CP_AUTHENTICATION ->
               [p EXCEPT !.currentState = "CPAP_HAS_DATA"]
          [] p.currentState = "CPAP_HAS_DATA" /\ b = 1 ->
               [p EXCEPT !.currentState = "CPAP_READ_PASSWORD"]
          [] p.currentState = "CPAP_READ_PASSWORD" /\ b = NewLine ->
               [stored(0) EXCEPT !.currentState = "CPAP_DONE"]
          [] p.currentState = "CPAP_READ_PASSWORD" /\ b # NewLine /\ p.passLen # MAX_PASS_LEN ->
               stored(b)
          [] OTHER -> [p EXCEPT !.currentState = "CPAP_ERROR"]

(* cpCommandParser.c. *)

initCpCommandParser(p) ==
    [p EXCEPT !.currentState = "CPCP_COMMAND_CODE", !.dataSize = 0, !.code = 0, !.hasData = 0]

cpcpParseByte(p, b) ==
    CASE p.currentState = "CPCP_COMMAND_CODE" /\ b \in CP_ADD_USER..CP_DISSECTOR_OFF ->
           [p EXCEPT !.code = b, !.currentState = "CPCP_HAS_DATA"]
      [] p.currentState = "CPCP_HAS_DATA" /\ b = 0 -> [p EXCEPT !.currentState = "CPCP_DONE"]
      [] p.currentState = "CPCP_HAS_DATA" /\ b = 1 ->
           [p EXCEPT !.hasData = 1, !.currentState = "CPCP_READ_DATA"]
      [] p.currentState = "CPCP_READ_DATA" /\ p.dataSize # MAX_DATA_SIZE ->
           [p EXCEPT !.data = Store(@, p.dataSize, b), !.dataSize = @ + 1,
                     !.currentState = IF b = NewLine THEN "CPCP_DONE" ELSE @]
      [] OTHER -> [p EXCEPT !.currentState = "CPCP_ERROR"]
=============================================================================
