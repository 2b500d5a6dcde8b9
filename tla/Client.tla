------------------------------- MODULE Client -------------------------------
(***************************************************************************)
(* The management client (client.c, commands.c) and the bytes of the       *)
(* service's answers on their way to it.  Both sides block: the client     *)
(* sends a message and takes what one recv returns for the answer, which   *)
(* is right as long as TCP delivers an answer in one piece; here it is cut *)
(* anywhere.  The service is what ControlConn was shown to be: one answer  *)
(* for each message, in their order.                                       *)
(*                                                                         *)
(* Names and versions are a letter or two.  A buffer that was not          *)
(* initialised holds any of AnyChar.                                       *)
(***************************************************************************)
EXTENDS Integers, Sequences, FiniteSets

CONSTANTS
    Lists,          \* the sequences of user names a list may hold
    ErrorCodes,     \* of a command that fails
    MaxCommands     \* bound: lines the user types at the prompt

Byte == 0..255
TOKEN == 10
FAILURE == 48
SUCCESS == 49
HAS_DATA == 1
Failed == 120       \* 'x', what a function returns when recv fails
Done == 105         \* 'i'
NoMore == 110       \* 'n', the end of the stream
CPERROR_INVALID_PASSWORD == 48
CPERROR_GENERAL_ERROR == 55
AnyChar == {0, Failed, Done, NoMore} \cup ErrorCodes
Header == <<83, 58>>            \* SOCKS_U_HEADER

\* Names are tokens of a line (add_user, cpCommands.c) and as few as the table
\* has slots; with the header they are counted in one byte.
ASSUME ClientAssumption ==
    /\ \A names \in Lists :
         /\ names \in Seq(Seq(Byte \ {0, TOKEN}) \ {<<>>})
         /\ Len(names) < 255
    /\ ErrorCodes \subseteq Byte
    /\ MaxCommands \in Nat

VARIABLES
    pc,         \* what the client waits for: "hello", "typing" (a password),
                \* "auth", "prompt", "reply" or "list"; or how it ended
    tries,      \* passwords sent
    cmd,        \* the command being answered
    row_count, offset,
    printed,    \* the rows it has printed for the last command
    ret,        \* what that command's function returned
    typed,      \* lines typed at the prompt
    service,    \* its state, "auth", "ready", "error" or "closed"
    requests,   \* messages it has not answered
    wire,       \* bytes it has sent that the client has not received
    told,       \* ghost: the outcome and the rows of its last answer
    cut         \* ghost: a recv split an answer where the client cannot tell

clientVars == <<pc, tries, cmd, row_count, offset, printed, ret, typed>>
serviceVars == <<service, requests, wire, told>>
vars == <<clientVars, serviceVars, cut>>

Ended == {"returned", "crashed", "killed"}

\* A command's function has not returned yet; not a char.
NoReturn == -1

-----------------------------------------------------------------------------
(* The service. *)

Lines(rows) ==
    LET first[n \in 0..Len(rows)] ==
            IF n = 0 THEN <<>> ELSE first[n - 1] \o rows[n] \o <<TOKEN>>
    IN  first[Len(rows)]

Hello == <<SUCCESS, HAS_DATA, 48, TOKEN, 0>>
Failure(code) == <<FAILURE, HAS_DATA, code, TOKEN>>

\* statusFailedAnswer, noDataStatusSuccessAnswer (of which strlen leaves one
\* byte), getSocksUsers and getMetrics, each with what it should make the client
\* show.
Answer(bytes, outcome, rows) ==
    wire' = wire \o bytes /\ told' = [outcome |-> outcome, rows |-> rows]

AnswerCommand(c) ==
    CASE c = "simple" -> \/ Answer(<<SUCCESS>>, Done, <<>>)
                         \/ \E code \in ErrorCodes : Answer(Failure(code), code, <<>>)
      [] c = "list" ->
           \E names \in Lists :
             LET rows == <<Header>> \o names
             IN  Answer(<<SUCCESS, Len(rows)>> \o Lines(rows), Done,
                        IF names = <<>> THEN <<>> ELSE rows)
      [] c = "metrics" -> Answer(<<SUCCESS, 2>> \o Lines(<<<<99>>, <<57>>>>), Done, <<>>)

Closes == service' = "closed" /\ requests' = <<>> /\ UNCHANGED <<wire, told>>

\* After an error of its parsers the service waits for one more event.
Parks == service' = "error" /\ requests' = Tail(requests) /\ UNCHANGED <<wire, told>>

\* A message out of place is such an error, and one more message the event.
ServiceAnswers ==
    /\ service # "closed" /\ requests # <<>>
    /\ LET r == Head(requests)
       IN  \/ /\ service = "auth" /\ r = "password"
              /\ \/ Answer(<<SUCCESS, 0>>, Done, <<>>) /\ service' = "ready"
                 \/ /\ Answer(Failure(CPERROR_INVALID_PASSWORD), CPERROR_INVALID_PASSWORD, <<>>)
                    /\ UNCHANGED service
              /\ requests' = Tail(requests)
           \/ service = "ready" /\ r # "password" /\ AnswerCommand(r)
              /\ requests' = Tail(requests) /\ UNCHANGED service
           \/ service = "auth" /\ r # "password" /\ Parks
           \/ service = "ready" /\ r = "password" /\ Parks
           \/ service = "error" /\ Closes
    /\ UNCHANGED <<clientVars, cut>>

\* The connection may be lost, or the service stop, at any time, also in "error".
ServiceCloses == service # "closed" /\ Closes /\ UNCHANGED <<clientVars, cut>>

-----------------------------------------------------------------------------
(* The client. *)

\* One recv of n bytes.
Received(n) == SubSeq(wire, 1, n)
Take(n) ==
    /\ wire' = SubSeq(wire, n + 1, Len(wire))
    /\ UNCHANGED <<service, requests, told>>

\* A send; when the peer is gone it may raise SIGPIPE.
Send(r, next) ==
    /\ requests' = IF service = "closed" THEN requests ELSE Append(requests, r)
    /\ UNCHANGED <<service, wire, told>>
    /\ \/ pc' = next
       \/ service = "closed" /\ pc' = "killed"

\* Mutants: the form a plausible bug would give to the definition each is named
\* for.  PROJECT.json says which property refutes it.
receive_simple_response_NoFailure(piece) == {Done}
admin_auth_NoLimit(r) ==
    IF r = Done THEN "prompt" ELSE IF r = NoMore THEN "returned" ELSE "typing"
FirstRow_NotCounted(rows, lead) == rows
strtok_KeepsToken(s) == s

receive_simple_response(piece) ==
    IF piece[1] # FAILURE THEN {Done}
    ELSE IF Len(piece) = 1 THEN AnyChar
    ELSE IF piece[2] # HAS_DATA THEN {Failed}
    ELSE IF Len(piece) = 2 THEN AnyChar ELSE {piece[3]}

\* Where admin_auth and the loop of mng_connect go from its answer.
admin_auth(r) ==
    IF r = Done THEN "prompt"
    ELSE IF r = NoMore \/ tries = 3 THEN "returned" ELSE "typing"

\* analyze_return: which outcomes end the client.
analyze_return(r) == IF r \in {Failed, NoMore, CPERROR_GENERAL_ERROR} THEN "returned" ELSE "prompt"

HelloArrives ==
    /\ pc = "hello"
    /\ \E n \in 1..Len(wire) :
         /\ Take(n)
         /\ pc' = IF wire[1] = SUCCESS THEN "typing" ELSE "returned"
         /\ cut' = (n < Len(wire))
    /\ UNCHANGED <<tries, cmd, row_count, offset, printed, ret, typed>>

TypePassword ==
    /\ pc = "typing"
    /\ Send("password", "auth") /\ tries' = tries + 1
    /\ UNCHANGED <<cmd, row_count, offset, printed, ret, typed, cut>>

AuthAnswerArrives ==
    /\ pc = "auth"
    /\ \E n \in 1..Len(wire) :
         /\ Take(n)
         /\ \E r \in receive_simple_response(Received(n)) : pc' = admin_auth(r)
         /\ cut' = (cut \/ n < Len(wire))
    /\ UNCHANGED <<tries, cmd, row_count, offset, printed, ret, typed>>

\* new_command: a line that is a command for the service.
Command(c) ==
    /\ pc = "prompt" /\ typed < MaxCommands
    /\ Send(c, IF c = "list" THEN "list" ELSE "reply")
    /\ cmd' = c /\ typed' = typed + 1 /\ printed' = <<>> /\ ret' = NoReturn
    /\ row_count' = 0 /\ offset' = <<>>
    /\ UNCHANGED <<tries, cut>>

\* The other lines: help, after which ret was never set; one that is no command;
\* exit; and an empty one, whose strtok is NULL.
OtherLine ==
    /\ pc = "prompt" /\ typed < MaxCommands
    /\ typed' = typed + 1
    /\ \/ \E r \in AnyChar : pc' = analyze_return(r)
       \/ pc' \in {"prompt", "returned", "crashed"}
    /\ UNCHANGED <<tries, cmd, row_count, offset, printed, ret, serviceVars, cut>>

Returns(r) == ret' = r /\ pc' = analyze_return(r)

\* parse_metrics_message prints two rows of what arrived; when they are not there
\* it prints what the memory holds, or NULL.
ReplyArrives ==
    /\ pc = "reply"
    /\ \E n \in 1..Len(wire) :
         /\ Take(n)
         /\ cut' = (cut \/ n < Len(wire))
         /\ \/ \E r \in receive_simple_response(Received(n)) : Returns(r)
            \/ /\ cmd = "metrics" /\ wire[1] # FAILURE
               /\ Cardinality({i \in 3..n : wire[i] = TOKEN}) < 2
               /\ pc' = "crashed" /\ UNCHANGED ret
    /\ UNCHANGED <<tries, cmd, row_count, offset, printed, typed>>

\* The rows of a piece: what strtok makes of the string that starts at its third
\* byte, or at its first in a later piece.  Two TOKENs never follow each other.
strtok(s) == IF s # <<>> /\ s[1] = TOKEN THEN Tail(s) ELSE s

UpToNul(s) ==
    LET end == CHOOSE i \in 1..(Len(s) + 1) :
                   (i > Len(s) \/ s[i] = 0) /\ \A j \in 1..(i - 1) : s[j] # 0
    IN  SubSeq(s, 1, end - 1)

\* The rows of s, each ended by a TOKEN, and what follows the last.
Fed(rows, c) ==
    IF c = TOKEN THEN Append(rows, <<>>) ELSE [rows EXCEPT ![Len(rows)] = Append(@, c)]

Split(s) ==
    LET first[n \in 0..Len(s)] == IF n = 0 THEN <<<<>>>> ELSE Fed(first[n - 1], s[n])
    IN  first[Len(s)]

\* row_count once the first token of a piece was printed; a piece that begins
\* with TOKEN also ends the row the one before it began.
FirstRow(rows, lead) == rows - (IF lead THEN 2 ELSE 1)

HasToken(s) == \E i \in DOMAIN s : s[i] = TOKEN

\* The rest of parse_users_message: the first token counts as a row, then every
\* TOKEN does; what follows the last is left for the next piece.
PrintRows(piece, text, rows) ==
    LET s == strtok(UpToNul(text))
        tokens == Split(s)
        n == Len(tokens) - 1
        lead == piece[1] = TOKEN
        left == FirstRow(rows, lead)
        more == IF n <= 1 \/ left <= 0 THEN 0 ELSE IF left < n - 1 THEN left ELSE n - 1
        beyond == Len(UpToNul(text)) < Len(text)
    IN  IF s = <<>> \/ (beyond /\ left > more)
          THEN pc' = "crashed" /\ UNCHANGED <<row_count, offset, printed, ret>>
          ELSE /\ printed' = printed \o (IF lead THEN <<offset, tokens[1]>> ELSE <<offset \o tokens[1]>>)
                                     \o SubSeq(tokens, 2, more + 1)
               /\ row_count' = left - more
               /\ offset' = IF n = 0 THEN <<>> ELSE tokens[n + 1]
               /\ IF left > more THEN UNCHANGED <<pc, ret>>
                  ELSE Returns(IF left < 0 THEN FAILURE ELSE Done)

\* parse_users_message with offset NULL, on a buffer of zeros.
FirstPiece(n) ==
    LET piece == Received(n)
        at(i) == IF i <= n THEN piece[i] ELSE 0
        text == SubSeq(piece, 3, n)
    IN  /\ cut' = (cut \/ ~HasToken(text) \/ (at(2) = 1 /\ n < Len(wire)))
        /\ \/ /\ at(1) = FAILURE
              /\ Returns(IF at(2) = HAS_DATA THEN at(3) ELSE Failed)
              /\ UNCHANGED <<row_count, offset, printed>>
           \/ /\ at(1) # FAILURE /\ at(2) = 1
              /\ Returns(Done) /\ row_count' = 1
              /\ UNCHANGED <<offset, printed>>
           \/ at(1) # FAILURE /\ at(2) # 1 /\ PrintRows(piece, text, at(2))

\* parse_users_message called by itself.
LaterPiece(n) ==
    /\ cut' = (cut \/ ~HasToken(strtok(Received(n))))
    /\ PrintRows(Received(n), Received(n), row_count)

ListArrives ==
    /\ pc = "list"
    /\ \E n \in 1..Len(wire) :
         /\ Take(n)
         /\ IF row_count = 0 THEN FirstPiece(n) ELSE LaterPiece(n)
    /\ UNCHANGED <<tries, cmd, typed>>

\* recv returns 0, or fails.
EndOfStream ==
    /\ service = "closed" /\ wire = <<>>
    /\ \E r \in {NoMore, Failed} :
         \/ pc = "hello" /\ pc' = "returned" /\ UNCHANGED ret
         \/ pc = "auth" /\ pc' = admin_auth(r) /\ UNCHANGED ret
         \/ pc \in {"reply", "list"} /\ Returns(r)
    /\ UNCHANGED <<tries, cmd, row_count, offset, printed, typed, serviceVars, cut>>

Init ==
    /\ pc = "hello" /\ tries = 0 /\ cmd = "none" /\ row_count = 0 /\ offset = <<>>
    /\ printed = <<>> /\ ret = NoReturn /\ typed = 0
    /\ service = "auth" /\ requests = <<>> /\ wire = Hello
    /\ told = [outcome |-> NoReturn, rows |-> <<>>] /\ cut = FALSE

Arrives == HelloArrives \/ AuthAnswerArrives \/ ReplyArrives \/ ListArrives \/ EndOfStream

Next ==
    \/ Arrives
    \/ TypePassword
    \/ \E c \in {"simple", "list", "metrics"} : Command(c)
    \/ OtherLine
    \/ ServiceAnswers
    \/ ServiceCloses

\* The service answers and recv returns what is there; the user may stop typing.
Fairness == WF_vars(Arrives) /\ WF_vars(ServiceAnswers)

Spec == Init /\ [][Next]_vars /\ Fairness

-----------------------------------------------------------------------------
(* Properties. *)

TypeOK ==
    /\ pc \in {"hello", "typing", "auth", "prompt", "reply", "list"} \cup Ended
    /\ tries \in 0..3 /\ typed \in 0..MaxCommands
    /\ row_count \in -2..255
    /\ service \in {"auth", "ready", "error", "closed"}
    /\ cut \in BOOLEAN

\* At the prompt nothing of an answer is left to be received, and what the last
\* command showed is what the service answered to it: its outcome, and for a list
\* its rows, each once and whole, also when the list came in pieces.  The pieces
\* must each end the first row they hold part of (parse_users_message).  And it
\* sends commands only when the service accepted the password, so that none is
\* taken for a password (mng_connect, admin_auth).
InStep ==
    /\ pc \in {"prompt", "reply", "list"} /\ ~cut => service \in {"ready", "closed"}
    /\ pc = "prompt" /\ ~cut =>
         /\ wire = <<>> /\ requests = <<>>
         /\ ret # NoReturn => ret = told.outcome
         /\ ret = Done /\ cmd = "list" => printed = told.rows

\* Every command ends: its answer is shown or the client is told that there will
\* be none, however a list is cut within those limits.
CommandEnds ==
    pc \in {"auth", "reply", "list"} ~> pc \notin {"auth", "reply", "list"} \/ cut
=============================================================================
