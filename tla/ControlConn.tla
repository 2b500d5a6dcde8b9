---------------------------- MODULE ControlConn ----------------------------
(***************************************************************************)
(* One connection of the management protocol: the handlers of              *)
(* controlProtocol.c, the selector that calls them, the client, and other  *)
(* management connections that change the table of users meanwhile.        *)
(*                                                                         *)
(* A message of the client is any number of pieces "part" and one "end",   *)
(* or a piece "bad" that its parser refuses; what a whole message says is  *)
(* chosen when its parser finishes, since nothing looks at it before.      *)
(* Replies are counted in units, of which a buffer holds Limit.            *)
(***************************************************************************)
EXTENDS UserTable, BufferOps, FiniteSets

CONSTANTS
    MaxAhead,       \* bound: pieces of the client not yet parsed
    OtherCommands   \* what other management connections may send

ASSUME ControlAssumption ==
    /\ MaxAhead \in Nat /\ Limit >= 2
    /\ OtherCommands \subseteq Command

OP_READ  == "read"
OP_WRITE == "write"

Pieces   == {"part", "end", "bad"}
NoAnswer == "NULL"

\* A command's success without data is cut by strlen at its second byte.
HelloSize     == 2
AuthSize      == 2
AnswerSize(a) == IF a = "OK" THEN 1 ELSE 2

VARIABLES
    cpc,            \* controlProtConn; command is what commandParser finished with
    pending,        \* what readBuffer holds between its pointers
    wire,           \* pieces in the socket, sent and not received
    fin, sockerr,   \* the client has ended its stream, or reset the connection
    live,           \* is the connection open?
    up,             \* is the server running?
    table,          \* the users, of user_mgmt.c
    sniffer_state,  \* of pop3_sniffer.c
    answered, by    \* ghosts: the answer just written, who sent the last command

netVars   == <<wire, fin, sockerr>>
connVars  == <<cpc, pending, netVars, live, answered>>
usersVars == <<table, sniffer_state, by>>
vars      == <<connVars, up, usersVars>>

CpStates == {"CP_HELLO", "CP_AUTH", "CP_EXECUTE", "CP_OK", "CP_ERROR"}

Conns ==
    [state : CpStates, interest : {OP_READ, OP_WRITE},
     command : Command \cup {NoCommand}, execAnswer : Answers \cup {NoAnswer},
     validPassword : BOOLEAN, helloWritten : BOOLEAN,
     authAnsWritten : BOOLEAN, execAnsWritten : BOOLEAN,
     readBuffer : Pointers, writeBuffer : Pointers]

\* Types, and buffers whose pointers agree with what they hold.
TypeOK ==
    /\ cpc \in Conns
    /\ pending \in Seq(Pieces) /\ wire \in Seq(Pieces)
    /\ Len(pending) = Pending(cpc.readBuffer)
    /\ Len(pending) + Len(wire) <= MaxAhead
    /\ WellFormed(cpc.writeBuffer) /\ Compacted(cpc.writeBuffer)
    /\ Compacted(cpc.readBuffer)
    /\ fin \in BOOLEAN /\ sockerr \in {"none", "ECONNRESET", "EPIPE"}
    /\ live \in BOOLEAN /\ up \in BOOLEAN
    /\ table \in Table /\ sniffer_state \in BOOLEAN
    /\ answered \in Answers \cup {"none", "password accepted", "password refused"}
    /\ by \in {"client", "another"}

\* Mutants: the form a plausible bug would give to the definition each is named
\* for.  PROJECT.json says which property refutes it.
newControlProtConn_ReadsFirst ==
    [state |-> "CP_HELLO", interest |-> OP_READ,
     command |-> NoCommand, execAnswer |-> NoAnswer,
     validPassword |-> FALSE, helloWritten |-> FALSE,
     authAnsWritten |-> FALSE, execAnsWritten |-> FALSE,
     readBuffer |-> buffer_reset, writeBuffer |-> buffer_reset]

\* newControlProtConn: calloc, the parsers and buffers initialised, HELLO first.
newControlProtConn ==
    [state |-> "CP_HELLO", interest |-> OP_WRITE,
     command |-> NoCommand, execAnswer |-> NoAnswer,
     validPassword |-> FALSE, helloWritten |-> FALSE,
     authAnsWritten |-> FALSE, execAnsWritten |-> FALSE,
     readBuffer |-> buffer_reset, writeBuffer |-> buffer_reset]

\* A program started without users or with one; commands lead to the others.
Init ==
    /\ cpc = newControlProtConn /\ pending = <<>>
    /\ wire = <<>> /\ fin = FALSE /\ sockerr = "none"
    /\ live = FALSE /\ up = TRUE
    /\ table \in {EmptyTable} \cup {add_user(EmptyTable, u).table : u \in User}
    /\ sniffer_state = TRUE
    /\ answered = "none" /\ by = "another"

-----------------------------------------------------------------------------
(* The handlers of the states, a mutant in front of its definition.  One   *)
(* that writes returns the connection it leaves; one that reads, given     *)
(* what the read buffer holds, the set of those it may leave.              *)

helloWrite(c) ==
    IF c.helloWritten /\ ~buffer_can_read(c.writeBuffer)
    THEN [c EXCEPT !.interest = OP_READ, !.state = "CP_AUTH"]
    ELSE IF c.helloWritten THEN c
    ELSE IF HelloSize > WriteSpace(c.writeBuffer) THEN [c EXCEPT !.state = "CP_ERROR"]
    ELSE [c EXCEPT !.writeBuffer = buffer_write_adv(@, HelloSize), !.helloWritten = TRUE]

\* After a refusal the client may try again: the interest is OP_READ before
\* the refusal has been sent.
AnswerAuth(c) ==
    [c EXCEPT !.writeBuffer = buffer_write_adv(@, AuthSize),
              !.authAnsWritten = c.validPassword,
              !.interest = IF c.validPassword THEN @ ELSE OP_READ]

\* Nothing is written while there is no room for the whole answer.
AnswersAuth(c) ==
    /\ c.state = "CP_AUTH" /\ ~c.authAnsWritten
    /\ AuthSize <= WriteSpace(c.writeBuffer)

authWrite(c) ==
    IF c.authAnsWritten /\ ~buffer_can_read(c.writeBuffer)
    THEN [c EXCEPT !.interest = OP_READ, !.state = "CP_EXECUTE"]
    ELSE IF AnswersAuth(c) THEN AnswerAuth(c)
    ELSE c

\* The command is carried out once, when its answer does not exist yet.
Executes(c) ==
    /\ c.state = "CP_EXECUTE" /\ ~c.execAnsWritten
    /\ c.execAnswer = NoAnswer /\ c.command # NoCommand

WriteExecAnswer(c) ==
    IF AnswerSize(c.execAnswer) > WriteSpace(c.writeBuffer) THEN c
    ELSE [c EXCEPT !.writeBuffer = buffer_write_adv(@, AnswerSize(c.execAnswer)),
                   !.execAnsWritten = TRUE, !.command = NoCommand]

executeWrite(c) ==
    IF c.execAnsWritten
    THEN IF buffer_can_read(c.writeBuffer) THEN c
         ELSE [c EXCEPT !.execAnsWritten = FALSE, !.execAnswer = NoAnswer,
                        !.interest = OP_READ]
    ELSE IF Executes(c)
    THEN WriteExecAnswer([c EXCEPT !.execAnswer = Execute(table, c.command).answer])
    ELSE IF c.execAnswer = NoAnswer THEN [c EXCEPT !.state = "CP_ERROR"]
    ELSE WriteExecAnswer(c)

stm_handler_write(c) ==
    CASE c.state = "CP_HELLO"   -> helloWrite(c)
      [] c.state = "CP_AUTH"    -> authWrite(c)
      [] c.state = "CP_EXECUTE" -> executeWrite(c)

\* A parser stops behind the first piece that ends a message or is refused.
Stops(q) == {i \in 1..Len(q) : q[i] # "part"}
Consumed(q) ==
    IF Stops(q) = {} THEN Len(q)
    ELSE CHOOSE i \in Stops(q) : \A j \in Stops(q) : i <= j
Verdict(q) == IF Stops(q) = {} THEN "part" ELSE q[Consumed(q)]

Parsed(c, q) == [c EXCEPT !.readBuffer = buffer_read_adv(@, Consumed(q))]

authRead(c, q) ==
    CASE Verdict(q) = "part" -> {Parsed(c, q)}
      [] Verdict(q) = "bad"  -> {[Parsed(c, q) EXCEPT !.state = "CP_ERROR"]}
      [] Verdict(q) = "end"  ->
           {[Parsed(c, q) EXCEPT !.validPassword = ok, !.interest = OP_WRITE] : ok \in BOOLEAN}

executeRead_KeepsReading(c, q) ==
    CASE Verdict(q) = "part" -> {Parsed(c, q)}
      [] Verdict(q) = "bad"  -> {[Parsed(c, q) EXCEPT !.state = "CP_ERROR"]}
      [] Verdict(q) = "end"  -> {[Parsed(c, q) EXCEPT !.command = cmd] : cmd \in Command}

executeRead(c, q) ==
    CASE Verdict(q) = "part" -> {Parsed(c, q)}
      [] Verdict(q) = "bad"  -> {[Parsed(c, q) EXCEPT !.state = "CP_ERROR"]}
      [] Verdict(q) = "end"  ->
           {[Parsed(c, q) EXCEPT !.command = cmd, !.interest = OP_WRITE] : cmd \in Command}

stm_handler_read(c, q) ==
    CASE c.state = "CP_AUTH"    -> authRead(c, q)
      [] c.state = "CP_EXECUTE" -> executeRead(c, q)

-----------------------------------------------------------------------------
(* The two handlers of the descriptor.                                     *)

Readable == wire # <<>> \/ fin \/ sockerr # "none"
Event    == up /\ live /\ (cpc.interest = OP_READ => Readable)
Handle(op) == Event /\ cpc.interest = op /\ cpc.state # "CP_ERROR"

\* freeControlProtConn; module ConnList has the list it should be taken from.
Free ==
    /\ live' = FALSE
    /\ cpc' = newControlProtConn /\ pending' = <<>>
    /\ wire' = <<>> /\ fin' = FALSE /\ sockerr' = "none" /\ answered' = "none"

\* What executeWrite and authWrite do besides changing the connection.
Effects(c) ==
    IF Executes(c)
    THEN /\ table' = Execute(table, c.command).table
         /\ sniffer_state' = switchPassDissectors(sniffer_state, c.command)
         /\ by' = "client"
    ELSE UNCHANGED usersVars

Answered(c, d) ==
    IF d.execAnsWritten /\ ~c.execAnsWritten THEN d.execAnswer
    ELSE IF AnswersAuth(c)
    THEN IF c.validPassword THEN "password accepted" ELSE "password refused"
    ELSE answered

\* send is called if there is something to send and no error.
Sends(c) == c.state # "CP_ERROR" /\ buffer_can_read(c.writeBuffer)

\* It takes some of what is pending.
cpWriteHandler ==
    /\ Handle(OP_WRITE)
    /\ LET c == stm_handler_write(cpc)
       IN  /\ Sends(c) => sockerr = "none"
           /\ cpc' \in IF ~Sends(c) THEN {c}
                       ELSE {[c EXCEPT !.writeBuffer = buffer_read_adv(@, n)] :
                               n \in 1..Pending(c.writeBuffer)}
           /\ answered' = Answered(cpc, c)
    /\ Effects(cpc)
    /\ UNCHANGED <<pending, netVars, live, up>>

\* The state's handler has run, and may have carried out a command, when
\* send fails and the connection is freed.
cpWriteFails ==
    /\ Handle(OP_WRITE) /\ sockerr = "ECONNRESET"
    /\ Sends(stm_handler_write(cpc))
    /\ Effects(cpc)
    /\ Free /\ UNCHANGED up

\* EPIPE without MSG_NOSIGNAL ends the server.
cpWriteSigpipe ==
    /\ Handle(OP_WRITE) /\ sockerr = "EPIPE"
    /\ Sends(stm_handler_write(cpc))
    /\ Effects(cpc)
    /\ up' = FALSE
    /\ UNCHANGED connVars

\* recv is called if there is room; without room what is there is parsed.
Received ==
    IF ~buffer_can_write(cpc.readBuffer) THEN {0}
    ELSE {n \in 1..Len(wire) : n <= WriteSpace(cpc.readBuffer)}

cpReadHandler ==
    /\ Handle(OP_READ)
    /\ \E n \in Received :
         LET c == [cpc EXCEPT !.readBuffer = buffer_write_adv(@, n)]
             q == pending \o SubSeq(wire, 1, n)
         IN  /\ cpc' \in stm_handler_read(c, q)
             /\ pending' = SubSeq(q, Consumed(q) + 1, Len(q))
             /\ wire' = SubSeq(wire, n + 1, Len(wire))
    /\ answered' = "none"
    /\ UNCHANGED <<fin, sockerr, live, up, usersVars>>

\* recv returns 0 or -1 once everything that had arrived is received.
cpReadEnds ==
    /\ Handle(OP_READ)
    /\ buffer_can_write(cpc.readBuffer) /\ wire = <<>>
    /\ Free /\ UNCHANGED <<up, usersVars>>

\* The next event in CP_ERROR: cpError or, if recv fails, the handler itself.
cpError ==
    /\ Event /\ cpc.state = "CP_ERROR"
    /\ Free /\ UNCHANGED <<up, usersVars>>

\* Failing to accept or to register leaves no connection; see ConnList.
passive_cp_socket_handler ==
    /\ up /\ ~live
    /\ live' = TRUE /\ cpc' = newControlProtConn
    /\ UNCHANGED <<pending, netVars, up, answered, usersVars>>

-----------------------------------------------------------------------------
(* The client and the other management connections.                        *)

ClientSends ==
    /\ live /\ ~fin /\ sockerr = "none"
    /\ Len(pending) + Len(wire) < MaxAhead
    /\ \E p \in Pieces : wire' = Append(wire, p)
    /\ UNCHANGED <<cpc, pending, fin, sockerr, live, up, answered, usersVars>>

ClientEnds ==
    /\ live /\ ~fin /\ sockerr = "none"
    /\ fin' = TRUE
    /\ UNCHANGED <<cpc, pending, wire, sockerr, live, up, answered, usersVars>>

\* Linux leaves EPIPE if the FIN had come before, and keeps what arrived.
ClientResets ==
    /\ live /\ sockerr = "none"
    /\ sockerr' = IF fin THEN "EPIPE" ELSE "ECONNRESET"
    /\ UNCHANGED <<cpc, pending, wire, fin, live, up, answered, usersVars>>

OtherConnection ==
    /\ up
    /\ \E cmd \in OtherCommands :
         /\ table' = Execute(table, cmd).table
         /\ sniffer_state' = switchPassDissectors(sniffer_state, cmd)
    /\ by' = "another"
    /\ UNCHANGED <<connVars, up>>

Environment == up /\ (ClientSends \/ ClientEnds \/ ClientResets)

Next ==
    \/ cpWriteHandler \/ cpWriteFails \/ cpWriteSigpipe
    \/ cpReadHandler \/ cpReadEnds \/ cpError
    \/ passive_cp_socket_handler
    \/ Environment \/ OtherConnection

\* The selector calls the handler of a descriptor that stays ready, and a client
\* that stays connected takes what it is sent.
Fairness ==
    /\ WF_vars(cpWriteHandler \/ cpWriteFails \/ cpWriteSigpipe)
    /\ WF_vars(cpReadHandler \/ cpReadEnds \/ cpError)

Spec     == Init /\ [][Next]_vars
FairSpec == Spec /\ Fairness

-----------------------------------------------------------------------------
(* Properties.                                                             *)

\* stm.c aborts the server on an event in a state without a handler for it:
\* CP_HELLO has none for reading and CP_OK has none at all.
HandlerForEveryInterest ==
    live => /\ cpc.state # "CP_OK"
            /\ cpc.state = "CP_HELLO" => cpc.interest = OP_WRITE

\* executeWrite is only called with a command to execute or an answer to send:
\* otherwise it takes the missing answer for an allocation that failed, goes to
\* CP_ERROR and drops the connection.
CommandBehindAnswer ==
    live /\ cpc.state = "CP_EXECUTE" /\ cpc.interest = OP_WRITE
        => cpc.command # NoCommand \/ cpc.execAnsWritten

\* What has been written and not been sent is waited for, except the rest of a
\* refused password, whose sending authWrite leaves to the next attempt.
ReplyIsScheduled ==
    live /\ buffer_can_read(cpc.writeBuffer)
        => \/ cpc.interest = OP_WRITE
           \/ cpc.state \in {"CP_AUTH", "CP_ERROR"} /\ ~cpc.validPassword

\* Names in the table are distinct, it is never over its limit, and clients must
\* authenticate exactly if it has a user.
UsersOK ==
    /\ total_users(table) <= MAX_USERS
    /\ \A i, j \in 1..total_users(table) : table.users[i].name = table.users[j].name => i = j
    /\ needs_auth(table) <=> total_users(table) > 0

Accounts ==
    [n \in {table.users[i].name : i \in 1..total_users(table)} |->
        table.users[user_exists_by_username(table, n)].pass]

\* A SOCKS client is let in by process_authentication_request if there are no
\* users or it has the password its name has in the directory: users removed or
\* whose password was changed are not.
AuthAgrees ==
    \A n \in Name, p \in Password :
        process_authentication_request(table, n, p)
            <=> DOMAIN Accounts = {} \/ (n \in DOMAIN Accounts /\ Accounts[n] = p)

\* The password the client sent is checked and the answer to it not written.
AuthDue == cpc.state = "CP_AUTH" /\ cpc.interest = OP_WRITE /\ ~cpc.authAnsWritten

Ends(q) == {i \in 1..Len(q) : q[i] = "end"}

Phase ==
    IF ~(live /\ up) THEN "closed"
    ELSE IF ~cpc.helloWritten THEN "hello"
    ELSE IF ~cpc.authAnsWritten THEN "auth" ELSE "ready"

One(b) == IF b THEN 1 ELSE 0

Todo ==
    IF ~(live /\ up) THEN 0
    ELSE Cardinality(Ends(pending \o wire)) + One(AuthDue) + One(cpc.command # NoCommand)

Service == INSTANCE ControlService
    WITH phase <- Phase, todo <- Todo, dir <- Accounts, sniffing <- sniffer_state,
         asked <- IF live /\ up THEN cpc.command ELSE NoCommand,
         answer <- IF live /\ up THEN answered ELSE "none"

\* The connection implements ControlService: one answer to each message,
\* commands only behind an accepted password, the one that was read carried out
\* once and answered with what it did to the directory, whatever other connections do.
FollowsService == Service!Spec

\* Something lies behind the first message without an answer.
SentAhead ==
    LET q == pending \o wire
    IN  Len(q) > IF AuthDue \/ cpc.command # NoCommand THEN 0 ELSE Consumed(q)

\* One whole message is in the socket and nothing else, and it is being read.
Asked ==
    /\ up /\ live /\ cpc.interest = OP_READ /\ cpc.state # "CP_ERROR"
    /\ pending = <<>> /\ Todo = 1 /\ ~SentAhead
    /\ \A i \in 1..Len(wire) : wire[i] # "bad"

\* A client that waits for its answers before it sends again gets them; one that
\* sends ahead may not, since what is left in the read buffer waits for another
\* event on the socket.
AskedIsAnswered == Asked ~> (~up \/ ~live \/ Todo = 0 \/ SentAhead)
=============================================================================
