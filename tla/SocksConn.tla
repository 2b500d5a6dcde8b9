----------------------------- MODULE SocksConn -----------------------------
(***************************************************************************)
(* One SOCKS connection from accept to the COPY state: the handlers of     *)
(* socks5.c, the state machine that calls them (stm.c, conn_handler.c),    *)
(* the thread that resolves names, and the client and origin at the other  *)
(* ends.  Module Relay continues from COPY.                                *)
(*                                                                         *)
(* A handler is an operator from the connection to the set of connections  *)
(* it may leave, so that req_connect calls req_dns and req_dns calls       *)
(* init_connection as they do in C.  A message of the client is two        *)
(* pieces, enough to arrive together or apart; a reply is ReplySize bytes. *)
(* Allocation does not fail.                                               *)
(***************************************************************************)
EXTENDS Integers, Sequences

CONSTANTS
    MaxAddr,    \* bound: addresses getaddrinfo returns
    Pipelined,  \* may the client send a message before it has the reply?
    Spurious,   \* may select() announce a descriptor that then blocks?
    Low         \* the side whose descriptor has the lower number

CLI  == "CLI"
SRC  == "SRC"
Side == {CLI, SRC}

OP_READ  == "read"
OP_WRITE == "write"
Interest == {OP_READ, OP_WRITE}
OP_NOOP  == {}

ASSUME SocksConnAssumption ==
    /\ MaxAddr \in Nat \ {0}
    /\ Pipelined \in BOOLEAN
    /\ Spurious \in BOOLEAN
    /\ Low \in Side

ReplySize == 2

Methods == {"NO_AUTH", "USER_PASS", "NO_METHODS"}
Cmds    == {"CONNECT", "BIND", "UDP"}
Types   == {"IP", "FQDN", "EMPTY"}      \* EMPTY: a name of length 0
Codes   == {"SUCCESS", "SOCKS_FAIL", "HOST_UNREACHABLE", "CMD_UNSUPPORTED",
            "CONNECT_ERRNO"}            \* what errno_to_req_response_state gives
Replies == {"hello"} \X Methods \cup {"auth"} \X BOOLEAN \cup {"req"} \X Codes

ReadState == {"HELLO_READ", "AUTH_READ", "REQ_READ"}
Ended     == {"ERROR", "DONE"}
States    == ReadState \cup Ended \cup
             {"HELLO_WRITE", "AUTH_WRITE", "REQ_WRITE", "REQ_DNS", "REQ_CONNECT", "COPY"}

Kinds   == {"hello", "auth", "req", "junk"}
Pieces  == Kinds \X {1, 2}
Nothing == <<"nothing", 2>>

VARIABLES
    \* socks_conn_model, its entries in the selector, and its DNS thread:
    \*   state    what the last handler returned
    \*   reg item the sides registered in the selector and their interests
    \*   sock     src_conn->socket: "zero" (from memset), "open", "stale" (the
    \*            number of a descriptor already closed), "invalid" (-1)
    \*   origin   what the kernel knows of the connection behind sock
    \*   auth cmd type     what the parsers found
    \*   write_buff reply  bytes still to send, and of which reply
    \*   resolved addrs curr   resolved_addr # NULL, the length of the list,
    \*            and the addresses from curr_addr on
    \*   thread job        the DNS thread, and its job in the selector's queue
    \*   open lists        ghosts: origin sockets and addrinfo lists not released
    conn,
    read_buff,              \* received and not yet parsed
    phase, slave,           \* selector_select: waiting, or events left to visit
    stream, said,           \* sent by the client and not received; its last piece
    fin, rst, sockerr, room,    \* the client's socket, as in Relay
    answers,                \* replies handed to the kernel in full
    alive                   \* the process: SIGPIPE has its default disposition

peerVars == <<stream, said, fin, rst, sockerr, room>>
vars == <<conn, read_buff, phase, slave, peerVars, answers, alive>>

Running == alive /\ conn.state \notin Ended /\ conn.state # "COPY"

Conns == [state : States, reg : SUBSET Side, item : [Side -> SUBSET Interest],
          sock : {"zero", "open", "stale", "invalid", "closed"},
          origin : {"none", "connecting", "up", "failed"},
          auth : Methods, cmd : Cmds, type : Types,
          write_buff : 0..ReplySize, reply : Replies,
          resolved : BOOLEAN, addrs : 0..MaxAddr, curr : 0..MaxAddr,
          thread : {"none", "resolving", "storing", "notifying", "gone"},
          job : BOOLEAN, open : Int, lists : Int]

TypeOK ==
    /\ conn \in Conns
    /\ read_buff \in Seq(Pieces) /\ stream \in Seq(Pieces)
    /\ said \in Pieces \cup {Nothing}
    /\ phase \in {"wait", "dispatch"}
    /\ slave \subseteq Side \X Interest
    /\ fin \in BOOLEAN /\ rst \in BOOLEAN /\ room \in BOOLEAN
    /\ sockerr \in {"none", "ECONNRESET", "EPIPE"}
    /\ answers \in Seq(Replies)
    /\ alive \in BOOLEAN

new_socks_conn ==
    [state |-> "HELLO_READ", reg |-> {CLI},
     item |-> [x \in Side |-> IF x = CLI THEN {OP_READ} ELSE OP_NOOP],
     sock |-> "zero", origin |-> "none",
     auth |-> "NO_METHODS", cmd |-> "CONNECT", type |-> "IP",
     write_buff |-> 0, reply |-> <<"hello", "NO_METHODS">>,
     resolved |-> FALSE, addrs |-> 0, curr |-> 0, thread |-> "none", job |-> FALSE,
     open |-> 0, lists |-> 0]

Init ==
    /\ conn = new_socks_conn
    /\ read_buff = <<>> /\ stream = <<>>
    /\ said = Nothing
    /\ phase = "wait" /\ slave = {}
    /\ fin = FALSE /\ rst = FALSE /\ sockerr = "none" /\ room = TRUE
    /\ answers = <<>> /\ alive = TRUE

-----------------------------------------------------------------------------
(* The handlers. *)

Error(c) == [c EXCEPT !.state = "ERROR"]

Respond(c, r, s) ==
    [c EXCEPT !.item[CLI] = {OP_WRITE}, !.write_buff = ReplySize, !.reply = r, !.state = s]

\* Mutants: the list is freed and its pointer kept; the method is not stored.
freeaddrinfo_KeepsPointer(c) == [c EXCEPT !.lists = @ - 1]
hello_read_AuthNotStored(c) ==
    {Respond([c EXCEPT !.auth = "NO_AUTH"], <<"hello", m>>, "HELLO_WRITE") : m \in Methods}

\* req_response_message refuses an address of length 0.
manage_req_error(c, code) ==
    IF c.type = "EMPTY" THEN Error([c EXCEPT !.item[CLI] = {OP_WRITE}])
                        ELSE Respond(c, <<"req", code>>, "REQ_WRITE")

\* socket() fails; connect() succeeds or is in progress, and the descriptor
\* is registered or does not fit in the selector; connect() fails at once.
init_connection(c) ==
    LET opened(o) == [c EXCEPT !.sock = "open", !.open = @ + 1, !.origin = o]
        silent(o) == [opened(o) EXCEPT !.item[CLI] = OP_NOOP]
    IN  {Error([c EXCEPT !.sock = "invalid"])}
        \cup {[silent(o) EXCEPT !.reg = @ \cup {SRC}, !.item[SRC] = {OP_WRITE},
                                !.state = "REQ_CONNECT"] : o \in {"connecting", "up"}}
        \cup {Error(silent("connecting"))}
        \cup {manage_req_error(opened("failed"), "CONNECT_ERRNO")}

freeaddrinfo(c) == [c EXCEPT !.resolved = FALSE, !.lists = @ - 1]

\* Mutants: the end of the list is not noticed; the client is still read while
\* its name is resolved.
req_dns_NoEnd(c) == init_connection([c EXCEPT !.curr = @ - 1])
set_connection_StillReading(c) ==
    IF c.type = "IP" THEN init_connection(c)
    ELSE {[c EXCEPT !.thread = "resolving", !.state = "REQ_DNS"],
          manage_req_error(c, "SOCKS_FAIL")}

\* The next address of the list, or the end of it.
req_dns(c) ==
    IF c.curr = 0
      THEN {manage_req_error(IF c.resolved THEN freeaddrinfo(c) ELSE c, "HOST_UNREACHABLE")}
      ELSE init_connection([c EXCEPT !.curr = @ - 1])

\* For a name: the thread starts, or cannot be created.
set_connection(c) ==
    IF c.type = "IP" THEN init_connection(c)
    ELSE {[c EXCEPT !.thread = "resolving", !.item[CLI] = OP_NOOP, !.state = "REQ_DNS"],
          manage_req_error(c, "SOCKS_FAIL")}

hello_read(c) == {Respond([c EXCEPT !.auth = m], <<"hello", m>>, "HELLO_WRITE") : m \in Methods}

auth_read(c) == {Respond(c, <<"auth", ok>>, "AUTH_WRITE") : ok \in BOOLEAN}

req_read(c) ==
    UNION {LET d == [c EXCEPT !.cmd = q[1], !.type = q[2]]
           IN  IF q[1] = "CONNECT" THEN set_connection(d)
                                   ELSE {manage_req_error(d, "CMD_UNSUPPORTED")} :
           q \in Cmds \X Types}

\* getsockopt cannot fail on an open socket, and every resolved address is of
\* a family set_response knows.
req_connect(c) ==
    LET unregistered == [c EXCEPT !.reg = @ \ {SRC}, !.item[SRC] = OP_NOOP,
                                  !.sock = "stale", !.open = @ - 1, !.origin = "none"]
        clean(d) == IF c.type = "FQDN" THEN freeaddrinfo(d) ELSE d
    IN  IF c.origin # "failed"          \* SO_ERROR = 0
          THEN {Respond([clean(c) EXCEPT !.item[SRC] = OP_NOOP], <<"req", "SUCCESS">>, "REQ_WRITE")}
        ELSE IF c.type = "FQDN" THEN req_dns(unregistered)
        ELSE {manage_req_error(c, "CONNECT_ERRNO")}

\* After the last byte of a reply.
Sent(c) ==
    CASE c.state = "HELLO_WRITE" ->
           [c EXCEPT !.item[CLI] = {OP_READ},
                     !.state = CASE c.auth = "NO_AUTH"    -> "REQ_READ"
                                 [] c.auth = "USER_PASS"  -> "AUTH_READ"
                                 [] c.auth = "NO_METHODS" -> "DONE"]
      [] c.state = "AUTH_WRITE" ->
           [c EXCEPT !.item[CLI] = {OP_READ}, !.state = "REQ_READ"]
      [] c.state = "REQ_WRITE" ->
           IF c.reply = <<"req", "SUCCESS">>
             THEN [c EXCEPT !.item = [x \in Side |-> {OP_READ}], !.state = "COPY"]
             ELSE [c EXCEPT !.state = "DONE"]

\* What is closed when sock is "zero" or "stale" is a descriptor of another
\* owner: module Server.
close_socks_conn(c) ==
    [c EXCEPT !.reg = {}, !.item = [x \in Side |-> OP_NOOP],
              !.open = IF c.sock = "open" THEN @ - 1 ELSE @, !.sock = "closed",
              !.lists = IF c.resolved THEN @ - 1 ELSE @, !.resolved = FALSE,
              !.write_buff = 0]

check_state(c) == IF c.state \in Ended THEN close_socks_conn(c) ELSE c

-----------------------------------------------------------------------------
(* The client, the origin and the DNS thread. *)

\* The messages a client may begin after it said all of k: one that waits
\* follows the reply, one that does not guesses, and any may say junk.
NextKinds(k) ==
    {n \in Kinds :
        \/ n = "hello" /\ k = "nothing"
        \/ n = "auth" /\ k = "hello" /\ (Pipelined \/ answers = << <<"hello", "USER_PASS">> >>)
        \/ n = "req" /\ k = "hello" /\ (Pipelined \/ answers = << <<"hello", "NO_AUTH">> >>)
        \/ n = "req" /\ k = "auth" /\ (Pipelined \/ Len(answers) = 2)
        \/ n = "junk" /\ k # "junk"}

ClientSend ==
    /\ ~fin /\ ~rst
    /\ said' \in IF said[2] = 1 THEN {<<said[1], 2>>} ELSE NextKinds(said[1]) \X {1}
    /\ stream' = Append(stream, said')
    /\ UNCHANGED <<conn, read_buff, phase, slave, fin, rst, sockerr, room, answers, alive>>

ClientFin ==
    /\ ~fin /\ ~rst /\ fin' = TRUE
    /\ UNCHANGED <<conn, read_buff, phase, slave, stream, said, rst, sockerr, room, answers, alive>>

ClientReset ==
    /\ ~rst /\ rst' = TRUE
    /\ sockerr' = IF fin THEN "EPIPE" ELSE "ECONNRESET"
    /\ UNCHANGED <<conn, read_buff, phase, slave, stream, said, fin, room, answers, alive>>

ClientDrain ==
    /\ ~room /\ room' = TRUE
    /\ UNCHANGED <<conn, read_buff, phase, slave, stream, said, fin, rst, sockerr, answers, alive>>

ConnectCompletes ==
    /\ conn.sock = "open" /\ conn.origin = "connecting"
    /\ \E o \in {"up", "failed"} : conn' = [conn EXCEPT !.origin = o]
    /\ UNCHANGED <<read_buff, phase, slave, peerVars, answers, alive>>

\* The DNS thread works on the connection while the selector goes on:
\* getaddrinfo stores the list it found, if any,
getaddrinfo ==
    /\ conn.thread = "resolving"
    /\ \E n \in IF conn.type = "EMPTY" THEN {0} ELSE 0..MaxAddr :
         conn' = [conn EXCEPT !.thread = "storing", !.resolved = n > 0, !.addrs = n,
                              !.lists = IF n > 0 THEN @ + 1 ELSE @]
    /\ UNCHANGED <<read_buff, phase, slave, peerVars, answers, alive>>

\* Mutants: curr_addr is not set before the job is queued; the job is dropped.
set_curr_addr_Late ==
    /\ conn.thread = "storing"
    /\ conn' = [conn EXCEPT !.thread = "notifying"]
    /\ UNCHANGED <<read_buff, phase, slave, peerVars, answers, alive>>

selector_notify_block_NoJob ==
    /\ conn.thread = "notifying"
    /\ conn' = [conn EXCEPT !.thread = "gone"]
    /\ UNCHANGED <<read_buff, phase, slave, peerVars, answers, alive>>

\* curr_addr is set to its head,
set_curr_addr ==
    /\ conn.thread = "storing"
    /\ conn' = [conn EXCEPT !.thread = "notifying", !.curr = conn.addrs]
    /\ UNCHANGED <<read_buff, phase, slave, peerVars, answers, alive>>

\* and the job is queued.  Module Notify shows that the signal is not lost.
selector_notify_block ==
    /\ conn.thread = "notifying"
    /\ conn' = [conn EXCEPT !.thread = "gone", !.job = TRUE]
    /\ UNCHANGED <<read_buff, phase, slave, peerVars, answers, alive>>

req_dns_thread == getaddrinfo \/ set_curr_addr \/ selector_notify_block

-----------------------------------------------------------------------------
(* The selector. *)

Readable == stream # <<>> \/ fin \/ rst
Writable(x) == IF x = CLI THEN room \/ rst ELSE conn.origin \in {"up", "failed"}

Watched  == {e \in conn.reg \X Interest : e[2] \in conn.item[e[1]]}
ReadyNow == {e \in Watched : IF e[2] = OP_READ THEN e[1] = CLI /\ Readable
                                               ELSE Writable(e[1])}

\* pselect returns with events, or by the signal of a finished thread.  It
\* does not announce a connection that is still being made.
selector_select ==
    /\ phase = "wait"
    /\ slave' \in SUBSET (ReadyNow \cup {e \in Watched : e[1] = CLI})
    /\ slave' = {} => conn.job
    /\ ReadyNow \subseteq slave'
    /\ Spurious \/ slave' = ReadyNow
    /\ phase' = "dispatch"
    /\ UNCHANGED <<conn, read_buff, peerVars, answers, alive>>

\* Descriptors are visited in increasing order.
Turn(x, op) ==
    /\ <<x, op>> \in slave
    /\ x # Low => \A o \in Interest : <<Low, o>> \notin slave
    /\ slave' = slave \ {<<x, op>>}

Dispatched(x, op) == x \in conn.reg /\ op \in conn.item[x]

\* An earlier handler of this iteration withdrew the interest.
Skip(x, op) ==
    /\ Turn(x, op) /\ ~Dispatched(x, op)
    /\ UNCHANGED <<conn, read_buff, phase, peerVars, answers, alive>>

Handle(x, op) == Turn(x, op) /\ Dispatched(x, op)

\* handle_block_notifications, the last step of every selector_select.
handle_block_notifications ==
    /\ phase = "dispatch" /\ slave = {}
    /\ phase' = "wait"
    /\ IF conn.job THEN \E c \in req_dns([conn EXCEPT !.job = FALSE]) : conn' = check_state(c)
                   ELSE UNCHANGED conn
    /\ UNCHANGED <<read_buff, slave, peerVars, answers, alive>>

-----------------------------------------------------------------------------
(* socks_conn_read and socks_conn_write. *)

\* What a parser makes of the bytes it is given when it starts with its first
\* state: a whole message, the beginning of one, or something else.  The end
\* of a message it saw the beginning of before is nothing it knows.
Parse(kind, b) ==
    IF Head(b) = <<kind, 1>>
      THEN IF Len(b) = 1 THEN {[res |-> "more", left |-> <<>>]}
           ELSE {[res |-> "done", left |-> Tail(Tail(b))]}
      ELSE [res : IF Head(b)[2] = 2 THEN {"error", "more"} ELSE {"error"}, left : {<<>>}]

Message(s) == CASE s = "HELLO_READ" -> "hello" [] s = "AUTH_READ" -> "auth" [] OTHER -> "req"

Parsed(c) == CASE c.state = "HELLO_READ" -> hello_read(c)
               [] c.state = "AUTH_READ"  -> auth_read(c)
               [] c.state = "REQ_READ"   -> req_read(c)

\* recv fails, or the client has ended its stream.
ReadFails ==
    /\ Handle(CLI, OP_READ) /\ stream = <<>>
    /\ conn' = check_state(Error(conn))
    /\ UNCHANGED <<read_buff, phase, peerVars, answers, alive>>

\* Every call starts its parser anew.
ReadMessage ==
    /\ Handle(CLI, OP_READ) /\ stream # <<>>
    /\ stream' = <<>>
    /\ \E p \in Parse(Message(conn.state), read_buff \o stream) :
         /\ read_buff' = p.left
         /\ CASE p.res = "error" -> conn' = check_state(Error(conn))
              [] p.res = "more"  -> UNCHANGED conn
              [] p.res = "done"  -> \E c \in Parsed(conn) : conn' = check_state(c)
    /\ UNCHANGED <<phase, said, fin, rst, sockerr, room, answers, alive>>

\* Which side became writable matters only to req_connect: the others send to
\* the client whoever the event is for.
Writes(x) == Handle(x, OP_WRITE) /\ conn.state # "REQ_CONNECT"

WriteFails(x) ==
    /\ Writes(x)
    /\ IF rst THEN sockerr = "ECONNRESET" /\ sockerr' = "none"
              ELSE ~room /\ UNCHANGED sockerr
    /\ conn' = check_state(Error(conn))
    /\ UNCHANGED <<read_buff, phase, stream, said, fin, rst, room, answers, alive>>

WriteSigpipe(x) ==
    /\ Writes(x) /\ rst /\ sockerr # "ECONNRESET"
    /\ alive' = FALSE
    /\ UNCHANGED <<conn, read_buff, phase, peerVars, answers>>

\* A short count means that the socket has no more room.
WriteReply(x) ==
    /\ Writes(x) /\ ~rst /\ room
    /\ \E n \in 1..conn.write_buff :
         LET c == [conn EXCEPT !.write_buff = @ - n]
         IN  IF c.write_buff = 0
               THEN /\ conn' = check_state(Sent(c))
                    /\ answers' = Append(answers, conn.reply)
                    /\ UNCHANGED room
               ELSE conn' = c /\ room' = FALSE /\ UNCHANGED answers
    /\ UNCHANGED <<read_buff, phase, stream, said, fin, rst, sockerr, alive>>

ConnectEnds ==
    /\ Handle(SRC, OP_WRITE) /\ conn.state = "REQ_CONNECT"
    /\ \E c \in req_connect(conn) : conn' = check_state(c)
    /\ UNCHANGED <<read_buff, phase, peerVars, answers, alive>>

handle_iteration ==
    \/ ReadFails \/ ReadMessage \/ ConnectEnds
    \/ \E x \in Side : \/ \E op \in Interest : Skip(x, op)
                       \/ WriteFails(x) \/ WriteSigpipe(x) \/ WriteReply(x)

Client == ClientSend \/ ClientFin \/ ClientReset \/ ClientDrain

Selector == selector_select \/ handle_iteration \/ handle_block_notifications

Next == Running /\ (Client \/ ConnectCompletes \/ req_dns_thread \/ Selector)

Spec == Init /\ [][Next]_vars

\* The server loop and the thread go on, TCP gives up a connect in the end,
\* and a client that stays connected reads its replies.
Fairness == /\ WF_vars(Running /\ selector_select)
            /\ WF_vars(Running /\ (handle_iteration \/ handle_block_notifications))
            /\ WF_vars(Running /\ req_dns_thread)
            /\ WF_vars(Running /\ ConnectCompletes)
            /\ WF_vars(Running /\ ClientDrain)

FairSpec == Spec /\ Fairness

-----------------------------------------------------------------------------
(* Properties. *)

WriteState == {"HELLO_WRITE", "AUTH_WRITE", "REQ_WRITE", "REQ_CONNECT"}

\* stm.c aborts the server when an event finds a state without a handler for
\* it.  No interest left behind by an earlier state, and no DNS job, can
\* bring one about; and while the origin is being connected only the origin's
\* own event runs req_connect.
HandlerForEveryInterest ==
    Running =>
        /\ \A e \in Watched : conn.state \in IF e[2] = OP_READ THEN ReadState ELSE WriteState
        /\ conn.job => conn.state = "REQ_DNS"
        /\ conn.state = "REQ_CONNECT" => conn.item[CLI] = OP_NOOP

Resolving == conn.thread \in {"resolving", "storing", "notifying"}

\* A connection that is not closed is waited for by somebody: an interest in
\* the selector, the DNS thread, or the job it queued.  Otherwise it would
\* keep its descriptors and its memory for ever.
SomebodyWillCall ==
    Running => (Watched # {} \/ Resolving \/ conn.job)

\* The thread works on the connection without a lock: while it runs the
\* connection is neither freed nor given a new request, and nobody looks for
\* the addresses before all of them are there.
ThreadHasTheConnection ==
    /\ Resolving => conn.state = "REQ_DNS" /\ ~conn.job
    /\ conn.job => conn.thread = "gone" /\ conn.curr = conn.addrs

\* Every origin socket but the current one was closed, every address list was
\* freed once, and a closed connection has left nothing behind.
NothingLeaks ==
    /\ conn.open = IF conn.sock = "open" THEN 1 ELSE 0
    /\ conn.lists = IF conn.resolved THEN 1 ELSE 0
    /\ SRC \in conn.reg => conn.sock = "open"
    /\ conn.state \in Ended => conn.open = 0 /\ conn.lists = 0 /\ conn.reg = {}

\* The message whose answer is due, as the client sees it.
SessionOf(c) == CASE c.state \in {"HELLO_READ", "HELLO_WRITE"} -> "hello"
                  [] c.state \in {"AUTH_READ", "AUTH_WRITE"}   -> "auth"
                  [] c.state = "COPY"                          -> "relay"
                  [] c.state \in Ended                         -> "closed"
                  [] OTHER                                     -> "request"

\* The answers to a client that does not heed the verdict on its login:
\* auth_write goes on to REQ_READ whatever the verdict it has sent was, so
\* that a refused login is in all that follows one that was accepted.
Accepted(a) == IF a[1] = "auth" THEN <<"auth", TRUE>> ELSE a
AsAccepted(s) == [i \in DOMAIN s |-> Accepted(s[i])]

Session == INSTANCE SocksSession WITH
    session <- SessionOf(conn), answers <- AsAccepted(answers),
    reached <- conn.origin = "up"

\* But for the verdict on a login, the client is answered as the protocol has
\* it, whatever addresses had to be tried and however its messages and replies
\* were cut.
FollowsProtocol == Session!Spec

\* What the manual says of a user: that he "puede usar el proxy".  Where a
\* login was asked for, only one that was accepted gets a client relayed.
RelaysOnlyForUsers ==
    conn.state = "COPY" /\ conn.auth = "USER_PASS" =>
        \E i \in DOMAIN answers : answers[i] = <<"auth", TRUE>>

\* A request is answered or its connection closed: no address list, late
\* connect or early signal leaves it waiting.
RequestIsAnswered ==
    conn.state \in {"REQ_DNS", "REQ_CONNECT", "REQ_WRITE"} ~> ~Running
=============================================================================
