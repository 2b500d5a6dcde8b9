----------------------------- MODULE Pop3Sniffer -----------------------------
(***************************************************************************)
(* pop3_sniffer.c at its place in copy_read: what arrives from either side *)
(* of a relayed POP3 connection is put behind what its buffer still holds, *)
(* and the whole content of that buffer goes through the automaton.        *)
(*                                                                         *)
(* The client says the lines of a dialogue, cut anywhere, and the origin   *)
(* answers each.  An answer is received, parsed and sent in one piece; the *)
(* relay itself is in module Relay.                                        *)
(***************************************************************************)
EXTENDS Integers, Sequences

CONSTANTS
    ARGUMENT_LENGTH,    \* user[ARGUMENT_LENGTH], pass[ARGUMENT_LENGTH], 40
    Dialogues,          \* sequences of [keyword |-> bytes, argument |-> bytes]
    Replies             \* what the origin may answer

ASSUME SnifferAssumption ==
    /\ ARGUMENT_LENGTH \in Nat \ {0}
    /\ \A d \in Dialogues :
         d # <<>> /\ d \in Seq([keyword : Seq(0..255), argument : Seq(0..255)])
    /\ Replies \subseteq Seq(0..255)

VARIABLES
    dialogue, line,     \* the dialogue, and the line being said
    rest,               \* its bytes that have not reached the proxy
    pending,            \* what the buffer towards the origin holds
    sniffer_state,
    pop3,               \* the parser
    captured,           \* ghost: what pass_information printed
    disturbed           \* ghost: the automaton was not fed the dialogue, once

snifferVars == <<dialogue, line, rest, pending, sniffer_state, pop3, captured, disturbed>>

USER == <<85, 83, 69, 82>>
PASS == <<80, 65, 83, 83>>
Space == 32
LineFeed == 10
toupper(c) == IF c \in 97..122 THEN c - 32 ELSE c

LineOf(l) == l.keyword \o <<Space>> \o l.argument \o <<LineFeed>>

\* Mutants: the form a plausible bug would give to the definition each is named
\* for.  PROJECT.json says which property refutes it.
parse_argument_KeepsPointer(p, c, field, next) ==
    IF p.write_ptr + 1 = ARGUMENT_LENGTH THEN [p EXCEPT !.state = "POP3_ERROR"]
    ELSE IF c = LineFeed THEN [p EXCEPT ![field][p.write_ptr] = 0, !.state = next]
    ELSE [p EXCEPT ![field][p.write_ptr] = c, !.write_ptr = @ + 1]

NoParser ==
    [state |-> "NULL", read_ptr |-> 0, write_ptr |-> 0, user_done |-> FALSE,
     user |-> [i \in 0..(ARGUMENT_LENGTH - 1) |-> 0],
     pass |-> [i \in 0..(ARGUMENT_LENGTH - 1) |-> 0]]

pop3_parser_init(p) ==
    [p EXCEPT !.state = "POP3_USER_CMD", !.read_ptr = 0, !.write_ptr = 0, !.user_done = FALSE]

handle_error(p) ==
    [p EXCEPT !.state = IF p.user_done THEN "POP3_PASS_CMD" ELSE "POP3_USER_CMD"]

\* parse_user_cmd and parse_pass_cmd: a byte that does not match is skipped and
\* the count of those that did is kept.
parse_cmd(p, c, keyword, next) ==
    IF toupper(c) # keyword[p.read_ptr + 1] THEN handle_error(p)
    ELSE IF p.read_ptr + 1 = Len(keyword) THEN [p EXCEPT !.read_ptr = 0, !.state = next]
    ELSE [p EXCEPT !.read_ptr = @ + 1]

\* parse_user and parse_pass.
parse_argument(p, c, field, next) ==
    IF p.write_ptr + 1 = ARGUMENT_LENGTH THEN [p EXCEPT !.state = "POP3_ERROR"]
    ELSE IF c = LineFeed THEN [p EXCEPT ![field][p.write_ptr] = 0, !.write_ptr = 0, !.state = next]
    ELSE [p EXCEPT ![field][p.write_ptr] = c, !.write_ptr = @ + 1]

\* One turn of the loop of pop3_parse_char, which stops at POP3_DONE.
pop3_parse_char(p, c) ==
    CASE p.state = "POP3_USER_CMD" -> parse_cmd(p, c, USER \o <<Space>>, "POP3_USER")
      [] p.state = "POP3_USER" ->
           LET q == parse_argument(p, c, "user", "POP3_PASS_CMD")
           IN  [q EXCEPT !.user_done = @ \/ q.state = "POP3_PASS_CMD"]
      [] p.state = "POP3_PASS_CMD" -> parse_cmd(p, c, PASS \o <<Space>>, "POP3_PASS")
      [] p.state = "POP3_PASS" -> parse_argument(p, c, "pass", "POP3_DONE")
      [] p.state = "POP3_ERROR" -> handle_error(p)
      [] OTHER -> p

\* The loop over the buffer.
Parsed(p, bytes) ==
    LET after[n \in 0..Len(bytes)] ==
            IF n = 0 THEN p ELSE pop3_parse_char(after[n - 1], bytes[n])
    IN  after[Len(bytes)]

StringIn(field) ==
    LET end == CHOOSE i \in DOMAIN field : field[i] = 0 /\ \A j \in 0..(i - 1) : field[j] # 0
    IN  [i \in 1..end |-> field[i - 1]]

\* The test of copy_read: there is no parser when the sniffer was off as COPY
\* began, and the parser is not fed while it is off.
Sniffing == sniffer_state /\ pop3.state # "NULL"

\* pop3_parse in copy_read, which prints what it found.
pop3_parse(bytes) ==
    LET p == Parsed(pop3, bytes)
    IN  IF ~Sniffing THEN UNCHANGED <<pop3, captured>>
        ELSE IF p.state = "POP3_DONE"
          THEN /\ captured' = Append(captured, <<StringIn(p.user), StringIn(p.pass)>>)
               /\ pop3' = pop3_parser_init(p)
          ELSE pop3' = p /\ UNCHANGED captured

\* copy_on_arrival.
SnifferInit ==
    /\ dialogue \in Dialogues
    /\ line = 1 /\ rest = LineOf(dialogue[1])
    /\ pending = <<>>
    /\ sniffer_state \in BOOLEAN
    /\ pop3 = IF sniffer_state THEN pop3_parser_init(NoParser) ELSE NoParser
    /\ captured = <<>>
    /\ disturbed = FALSE

\* copy_read of the client's socket takes n bytes.
ClientBytes(n) ==
    /\ pending' = pending \o SubSeq(rest, 1, n)
    /\ rest' = SubSeq(rest, n + 1, Len(rest))
    /\ pop3_parse(pending')
    /\ disturbed' = (disturbed \/ pending # <<>> \/ ~Sniffing)
    /\ UNCHANGED <<dialogue, line, sniffer_state>>

\* copy_write towards the origin: the send takes n bytes.
OriginTakes(n) ==
    /\ pending' = SubSeq(pending, n + 1, Len(pending))
    /\ UNCHANGED <<dialogue, line, rest, sniffer_state, pop3, captured, disturbed>>

\* copy_read of the origin's socket, once the origin has the line.
OriginAnswers(r) ==
    /\ rest = <<>> /\ pending = <<>> /\ line <= Len(dialogue)
    /\ pop3_parse(r)
    /\ disturbed' = (disturbed \/ pop3' # pop3)
    /\ line' = line + 1
    /\ rest' = IF line < Len(dialogue) THEN LineOf(dialogue[line + 1]) ELSE <<>>
    /\ UNCHANGED <<dialogue, pending, sniffer_state>>

\* turnOnPassDissectors and turnOffPassDissectors, from a management connection.
set_sniffer_state ==
    /\ sniffer_state' = ~sniffer_state
    /\ UNCHANGED <<dialogue, line, rest, pending, pop3, captured, disturbed>>

SnifferNext ==
    \/ \E n \in 1..Len(rest) : ClientBytes(n)
    \/ \E n \in 1..Len(pending) : OriginTakes(n)
    \/ \E r \in Replies : OriginAnswers(r)
    \/ set_sniffer_state

-----------------------------------------------------------------------------
(* Properties. *)

\* The lines that have reached the proxy whole.
Said ==
    LET whole == IF rest = <<>> THEN line ELSE line - 1
    IN  SubSeq(dialogue, 1, IF whole > Len(dialogue) THEN Len(dialogue) ELSE whole)

IsCommand(l, keyword) == [i \in DOMAIN l.keyword |-> toupper(l.keyword[i])] = keyword
Fits(l) == Len(l.argument) + 1 < ARGUMENT_LENGTH

\* The logins said so far: each password with the user named last before it.
Logins ==
    LET user(i) == CHOOSE j \in 1..(i - 1) :
                       /\ IsCommand(Said[j], USER)
                       /\ \A k \in (j + 1)..(i - 1) : ~IsCommand(Said[k], USER)
        passed == SelectSeq([i \in DOMAIN Said |-> i], LAMBDA i : IsCommand(Said[i], PASS))
    IN  [k \in DOMAIN passed |-> <<Said[user(passed[k])].argument, Said[passed[k]].argument>>]

\* The automaton's indices stay inside the keyword and the two arguments, whatever
\* arrives, from either side and however cut (parse_user, parse_pass).
SnifferInBounds ==
    /\ pop3.read_ptr < Len(USER) + 1
    /\ pop3.write_ptr < ARGUMENT_LENGTH
    /\ DOMAIN pop3.user = 0..(ARGUMENT_LENGTH - 1)
    /\ DOMAIN pop3.pass = 0..(ARGUMENT_LENGTH - 1)

\* While the automaton is fed the dialogue and nothing else, each byte once, all
\* logins whose arguments fit are captured, at the byte that ends them and
\* wherever the reads cut them, provided that a user is named once for each
\* password (pop3_parse, called by copy_read).
LoginsAreCaptured ==
    /\ ~disturbed
    /\ \A l \in DOMAIN dialogue :
         /\ Fits(dialogue[l])
         /\ l > 1 /\ IsCommand(dialogue[l], USER) => ~IsCommand(dialogue[l - 1], USER)
    => captured = Logins
=============================================================================
