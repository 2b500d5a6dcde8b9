-------------------------- MODULE SocksConnProofs --------------------------
(***************************************************************************)
(* The handshake of module SocksConn for any number of addresses, and      *)
(* whatever the client and select() do: its safety invariants, and that it *)
(* implements SocksSession.                                                *)
(***************************************************************************)
EXTENDS SocksConn, TLAPS

\* Nothing works on the connection behind the selector's back.
Idle(c) == c.thread \in {"none", "gone"} /\ ~c.job

\* NothingLeaks of a connection that need not be closed yet.
Counted(c) ==
    /\ c.open = IF c.sock = "open" THEN 1 ELSE 0
    /\ c.lists = IF c.resolved THEN 1 ELSE 0
    /\ SRC \in c.reg => c.sock = "open"

\* There was no request yet.
Before(c) ==
    /\ c.reg = {CLI} /\ c.item[SRC] = OP_NOOP
    /\ c.sock = "zero" /\ c.origin = "none"
    /\ c.thread = "none" /\ ~c.job /\ ~c.resolved

Writing(c) == c.item[CLI] = {OP_WRITE} /\ c.write_buff > 0

\* The DNS thread has the connection, or has left its job.
Looking(c) ==
    /\ c.reg = {CLI} /\ c.item = [x \in Side |-> OP_NOOP]
    /\ c.sock = "zero" /\ c.origin = "none" /\ c.type # "IP"
    /\ \/ c.thread \in {"storing", "notifying"} /\ ~c.job
       \/ c.thread = "gone" /\ c.job
       \/ c.thread = "resolving" /\ ~c.job /\ ~c.resolved
    /\ c.thread # "resolving" =>
          (c.resolved <=> c.addrs > 0) /\ (c.type = "EMPTY" => c.addrs = 0)
    /\ c.thread \in {"notifying", "gone"} => c.curr = c.addrs

Connecting(c) ==
    /\ Idle(c)
    /\ c.reg = Side /\ c.item[CLI] = OP_NOOP /\ c.item[SRC] = {OP_WRITE}
    /\ c.sock = "open" /\ c.origin \in {"connecting", "up", "failed"}
    /\ c.type = "FQDN" => c.resolved

Answering(c) ==
    /\ Idle(c) /\ Writing(c)
    /\ CLI \in c.reg /\ c.item[SRC] \subseteq {OP_WRITE}
    /\ c.reply \in {"req"} \X Codes
    /\ c.reply = <<"req", "SUCCESS">> => c.origin = "up"

\* What each state says of the rest of the connection.
Orderly(c) ==
    /\ c.state \in ReadState   => Before(c) /\ c.item[CLI] = {OP_READ}
    /\ c.state = "HELLO_WRITE" => Before(c) /\ Writing(c) /\ c.reply = <<"hello", c.auth>>
    /\ c.state = "AUTH_WRITE"  => Before(c) /\ Writing(c) /\ c.reply \in {"auth"} \X BOOLEAN
    /\ c.state = "REQ_DNS"     => Looking(c)
    /\ c.state = "REQ_CONNECT" => Connecting(c)
    /\ c.state = "REQ_WRITE"   => Answering(c)
    /\ c.state \in Ended \cup {"COPY"} => Idle(c)

\* What a handler leaves.
Good(c) == c \in Conns /\ Counted(c) /\ Orderly(c)

\* A closed connection has returned what it had.
Empty(c) == c.state \in Ended => c.open = 0 /\ c.lists = 0 /\ c.reg = {}

\* A readiness bit of the origin was set when its connection was made or lost,
\* and no new attempt begins before it was visited.
SlaveOK ==
    <<SRC, OP_WRITE>> \in slave =>
        /\ conn.state \in Ended \cup {"REQ_CONNECT", "REQ_WRITE", "COPY"}
        /\ conn.state = "REQ_CONNECT" => conn.origin \in {"up", "failed"}

\* What every step keeps.
Inv == TypeOK /\ Good(conn) /\ Empty(conn) /\ SlaveOK

-----------------------------------------------------------------------------
(* The fields of a connection. *)

LEMMA Fields ==
    ASSUME NEW c \in Conns
    PROVE  /\ c.state \in States /\ c.reg \in SUBSET Side /\ c.item \in [Side -> SUBSET Interest]
           /\ c.auth \in Methods /\ c.type \in Types /\ c.reply \in Replies
           /\ c.write_buff \in 0..2 /\ c.open \in Int /\ c.lists \in Int
           /\ c.curr \in Nat /\ c.curr <= MaxAddr /\ c.addrs \in 0..MaxAddr
BY SocksConnAssumption DEF Conns, ReplySize

\* A connection with another value of one field.
LEMMA Update ==
    ASSUME NEW c \in Conns
    PROVE  /\ \A v \in States : [c EXCEPT !.state = v] \in Conns
           /\ \A v \in SUBSET Side : [c EXCEPT !.reg = v] \in Conns
           /\ \A v \in [Side -> SUBSET Interest] : [c EXCEPT !.item = v] \in Conns
           /\ \A v \in {"zero", "open", "stale", "invalid", "closed"} : [c EXCEPT !.sock = v] \in Conns
           /\ \A v \in {"none", "connecting", "up", "failed"} : [c EXCEPT !.origin = v] \in Conns
           /\ \A v \in Methods : [c EXCEPT !.auth = v] \in Conns
           /\ \A v \in Cmds : [c EXCEPT !.cmd = v] \in Conns
           /\ \A v \in Types : [c EXCEPT !.type = v] \in Conns
           /\ \A v \in 0..2 : [c EXCEPT !.write_buff = v] \in Conns
           /\ \A v \in Replies : [c EXCEPT !.reply = v] \in Conns
           /\ \A v \in BOOLEAN : [c EXCEPT !.resolved = v] \in Conns
           /\ \A v \in 0..MaxAddr : [c EXCEPT !.addrs = v] \in Conns
           /\ \A v \in 0..MaxAddr : [c EXCEPT !.curr = v] \in Conns
           /\ \A v \in {"none", "resolving", "storing", "notifying", "gone"} :
                 [c EXCEPT !.thread = v] \in Conns
           /\ \A v \in BOOLEAN : [c EXCEPT !.job = v] \in Conns
           /\ \A v \in Int : [c EXCEPT !.open = v] \in Conns
           /\ \A v \in Int : [c EXCEPT !.lists = v] \in Conns
BY DEF Conns, ReplySize

LEMMA Sets == /\ OP_NOOP \in SUBSET Interest /\ {OP_READ} \in SUBSET Interest
              /\ {OP_WRITE} \in SUBSET Interest
              /\ CLI \in Side /\ SRC \in Side /\ CLI # SRC
BY DEF OP_NOOP, Interest, Side, CLI, SRC

LEMMA SetItem ==
    ASSUME NEW c \in Conns, NEW x \in Side, NEW i \in SUBSET Interest
    PROVE  LET d == [c EXCEPT !.item[x] = i]
           IN  /\ d \in Conns
               /\ d.item[x] = i
               /\ x = CLI => d.item[SRC] = c.item[SRC]
               /\ x = SRC => d.item[CLI] = c.item[CLI]
<1> DEFINE j == [c.item EXCEPT ![x] = i]
<1>1. /\ j \in [Side -> SUBSET Interest] /\ j[x] = i
      /\ \A y \in Side : y # x => j[y] = c.item[y]
  BY Fields
<1>1a. /\ x = CLI => j[SRC] = c.item[SRC]
       /\ x = SRC => j[CLI] = c.item[CLI]
  BY <1>1, Sets
<1> HIDE DEF j
<1>2. [c EXCEPT !.item = j] \in Conns
  BY <1>1, Update
<1>3. [c EXCEPT !.item = j].item = j
  BY DEF Conns
<1> QED BY <1>1, <1>1a, <1>2, <1>3 DEF j

-----------------------------------------------------------------------------
(* The handlers. *)

\* The states in which a handler leaves a connection that has its request.
Asked == {"REQ_DNS", "REQ_CONNECT", "REQ_WRITE", "ERROR"}

LEMMA ErrorIsGood ==
    ASSUME NEW c \in Conns, Counted(c), Idle(c)
    PROVE  Good(Error(c)) /\ Error(c).state = "ERROR"
<1>1. /\ Error(c) \in Conns /\ Error(c).state = "ERROR"
      /\ Counted(Error(c)) /\ Idle(Error(c))
  BY DEF Error, Conns, States, Ended, Counted, Idle
<1> QED BY <1>1 DEF Good, Orderly, ReadState

\* A reply is written into the buffer and the client's interest set.
LEMMA RespondFields ==
    ASSUME NEW c \in Conns, NEW r \in Replies, NEW s \in States
    PROVE  LET d == Respond(c, r, s)
           IN  /\ d \in Conns /\ Writing(d) /\ d.reply = r /\ d.state = s
               /\ d.item[SRC] = c.item[SRC] /\ d.reg = c.reg /\ d.sock = c.sock
               /\ d.origin = c.origin /\ d.auth = c.auth /\ d.thread = c.thread
               /\ d.job = c.job /\ d.resolved = c.resolved
               /\ d.open = c.open /\ d.lists = c.lists
<1> DEFINE e == [c EXCEPT !.item[CLI] = {OP_WRITE}]
           f == [e EXCEPT !.write_buff = 2]
           g == [f EXCEPT !.reply = r]
           d == [g EXCEPT !.state = s]
<1>1. e \in Conns /\ e.item[CLI] = {OP_WRITE} /\ e.item[SRC] = c.item[SRC]
  BY SetItem, Sets
<1>2. /\ e.reg = c.reg /\ e.sock = c.sock /\ e.origin = c.origin /\ e.auth = c.auth
      /\ e.thread = c.thread /\ e.job = c.job /\ e.resolved = c.resolved
      /\ e.open = c.open /\ e.lists = c.lists
  BY DEF Conns
<1> HIDE DEF e
<1>3. f \in Conns
  <2>1. 2 \in 0..2
    OBVIOUS
  <2> QED BY <1>1, <2>1, Update
<1>4. g \in Conns
  <2> HIDE DEF f
  <2> QED BY <1>3, Update
<1>5. d \in Conns
  <2> HIDE DEF g
  <2> QED BY <1>4, Update
<1>6. /\ d.item = e.item /\ d.write_buff = 2 /\ d.reply = r /\ d.state = s /\ d.reg = e.reg
      /\ d.sock = e.sock /\ d.origin = e.origin /\ d.auth = e.auth /\ d.thread = e.thread
      /\ d.job = e.job /\ d.resolved = e.resolved /\ d.open = e.open /\ d.lists = e.lists
  BY <1>1 DEF Conns
<1>7. Respond(c, r, s) = d
  BY DEF Respond, ReplySize, e
<1> HIDE DEF d
<1> QED BY <1>1, <1>2, <1>5, <1>6, <1>7 DEF Writing

\* An answer to a request.
LEMMA AnswerIsGood ==
    ASSUME NEW c \in Conns, Counted(c), Idle(c),
           CLI \in c.reg, c.item[SRC] \subseteq {OP_WRITE},
           NEW code \in Codes, code = "SUCCESS" => c.origin = "up"
    PROVE  LET d == Respond(c, <<"req", code>>, "REQ_WRITE")
           IN  Good(d) /\ d.state = "REQ_WRITE"
<1> DEFINE d == Respond(c, <<"req", code>>, "REQ_WRITE")
<1>1. <<"req", code>> \in Replies /\ "REQ_WRITE" \in States
  BY DEF Replies, States
<1>2. /\ d \in Conns /\ Writing(d) /\ d.reply = <<"req", code>> /\ d.state = "REQ_WRITE"
      /\ d.item[SRC] = c.item[SRC] /\ d.reg = c.reg /\ d.sock = c.sock
      /\ d.origin = c.origin /\ d.thread = c.thread /\ d.job = c.job
      /\ d.resolved = c.resolved /\ d.open = c.open /\ d.lists = c.lists
  BY <1>1, RespondFields
<1> HIDE DEF d
<1>3. Counted(d) /\ Answering(d)
  BY <1>2 DEF Counted, Answering, Idle
<1>4. Good(d)
  BY <1>2, <1>3 DEF Good, Orderly, ReadState, Ended
<1> QED BY <1>2, <1>4 DEF d

LEMMA RefusalIsGood ==
    ASSUME NEW c \in Conns, Counted(c), Idle(c),
           CLI \in c.reg, c.item[SRC] \subseteq {OP_WRITE},
           NEW code \in Codes \ {"SUCCESS"}
    PROVE  LET d == manage_req_error(c, code)
           IN  Good(d) /\ d.state \in Asked
<1>1. CASE c.type = "EMPTY"
  <2> DEFINE e == [c EXCEPT !.item[CLI] = {OP_WRITE}]
  <2>1. e \in Conns /\ Counted(e) /\ Idle(e)
    BY DEF Conns, Counted, Idle, Interest
  <2>2. manage_req_error(c, code) = Error(e)
    BY <1>1 DEF manage_req_error
  <2> HIDE DEF e
  <2> QED BY <2>1, <2>2, ErrorIsGood DEF Asked
<1>2. CASE c.type # "EMPTY"
  BY <1>2, AnswerIsGood DEF manage_req_error, Asked
<1> QED BY <1>1, <1>2

\* A connection that may try an address.
Trying(c) ==
    /\ c \in Conns /\ Counted(c) /\ Idle(c)
    /\ c.reg = {CLI} /\ c.item[SRC] = OP_NOOP /\ c.sock # "open"
    /\ c.type = "FQDN" => c.resolved

\* socket() gave it a descriptor.
Opened(c, o) == [c EXCEPT !.sock = "open", !.open = @ + 1, !.origin = o]

LEMMA OpenedFields ==
    ASSUME NEW c, Trying(c), NEW o \in {"connecting", "up", "failed"}
    PROVE  LET d == Opened(c, o)
           IN  /\ d \in Conns /\ Counted(d) /\ Idle(d)
               /\ d.reg = {CLI} /\ d.item[SRC] = OP_NOOP
               /\ d.sock = "open" /\ d.origin = o
               /\ d.type = "FQDN" => d.resolved
<1> DEFINE e == [c EXCEPT !.sock = "open"]
           f == [e EXCEPT !.open = @ + 1]
           d == [f EXCEPT !.origin = o]
<1>0. c \in Conns /\ c.open = 0
  BY DEF Trying, Counted
<1>1. e \in Conns
  BY <1>0, Update
<1>2. e.open = 0 /\ 0 + 1 \in Int
  BY <1>0 DEF Conns
<1>3. f \in Conns
  <2> HIDE DEF e
  <2> QED BY <1>1, <1>2, Update
<1>4. d \in Conns
  <2> HIDE DEF f
  <2> QED BY <1>3, Update
<1>5. /\ d.sock = "open" /\ d.open = 1 /\ d.origin = o
      /\ d.item = c.item /\ d.reg = c.reg /\ d.type = c.type
      /\ d.thread = c.thread /\ d.job = c.job
      /\ d.resolved = c.resolved /\ d.lists = c.lists
  BY <1>0 DEF Conns
<1>6. Opened(c, o) = d
  BY DEF Opened
<1> HIDE DEF d
<1> QED BY <1>4, <1>5, <1>6 DEF Trying, Counted, Idle

\* Another state or another set of interests changes nothing that is counted.
LEMMA SetItemKeeps ==
    ASSUME NEW c \in Conns, Counted(c), Idle(c), NEW x \in Side, NEW i \in SUBSET Interest
    PROVE  LET d == [c EXCEPT !.item[x] = i]
           IN  /\ d \in Conns /\ Counted(d) /\ Idle(d)
               /\ d.item[x] = i
               /\ x = CLI => d.item[SRC] = c.item[SRC]
               /\ x = SRC => d.item[CLI] = c.item[CLI]
               /\ d.reg = c.reg /\ d.sock = c.sock /\ d.origin = c.origin
               /\ d.type = c.type /\ d.resolved = c.resolved
<1> DEFINE d == [c EXCEPT !.item[x] = i]
<1>1. /\ d \in Conns
      /\ d.item[x] = i
      /\ x = CLI => d.item[SRC] = c.item[SRC]
      /\ x = SRC => d.item[CLI] = c.item[CLI]
  BY SetItem
<1>2. /\ d.reg = c.reg /\ d.sock = c.sock /\ d.origin = c.origin
      /\ d.type = c.type /\ d.resolved = c.resolved /\ d.open = c.open
      /\ d.lists = c.lists /\ d.thread = c.thread /\ d.job = c.job
  BY DEF Conns
<1> HIDE DEF d
<1>3. Counted(d) /\ Idle(d)
  BY <1>2 DEF Counted, Idle
<1> QED BY <1>1, <1>2, <1>3 DEF d

LEMMA WaitForOrigin ==
    ASSUME NEW c \in Conns, Counted(c), Idle(c)
    PROVE  LET d == [c EXCEPT !.item[SRC] = {OP_WRITE}]
           IN  /\ d \in Conns /\ Counted(d) /\ Idle(d)
               /\ d.item[SRC] = {OP_WRITE} /\ d.item[CLI] = c.item[CLI]
               /\ d.reg = c.reg /\ d.sock = c.sock /\ d.origin = c.origin
               /\ d.type = c.type /\ d.resolved = c.resolved
<1> DEFINE i == {OP_WRITE}
<1>1. i \in SUBSET Interest /\ SRC \in Side
  BY Sets
<1> HIDE DEF i
<1>2. LET d == [c EXCEPT !.item[SRC] = i]
      IN  /\ d \in Conns /\ Counted(d) /\ Idle(d)
          /\ d.item[SRC] = i /\ d.item[CLI] = c.item[CLI]
          /\ d.reg = c.reg /\ d.sock = c.sock /\ d.origin = c.origin
          /\ d.type = c.type /\ d.resolved = c.resolved
  BY <1>1, SetItemKeeps
<1> QED BY <1>2 DEF i

LEMMA ConnectionIsGood ==
    ASSUME NEW c, Trying(c), NEW d \in init_connection(c)
    PROVE  Good(d) /\ d.state \in Asked
<1> DEFINE invalid == [c EXCEPT !.sock = "invalid"]
           silent(o) == [Opened(c, o) EXCEPT !.item[CLI] = OP_NOOP]
           trying(o) == [silent(o) EXCEPT !.reg = @ \cup {SRC}, !.item[SRC] = {OP_WRITE},
                                          !.state = "REQ_CONNECT"]
<1>0. \/ d = Error(invalid)
      \/ \E o \in {"connecting", "up"} : d = trying(o)
      \/ d = Error(silent("connecting"))
      \/ d = manage_req_error(Opened(c, "failed"), "CONNECT_ERRNO")
  BY DEF init_connection, Opened
<1>1. CASE d = Error(invalid)
  <2>1. invalid \in Conns /\ Counted(invalid) /\ Idle(invalid)
    BY DEF Trying, Conns, Counted, Idle, CLI, SRC
  <2> HIDE DEF invalid
  <2> QED BY <1>1, <2>1, ErrorIsGood DEF Asked
<1>s. ASSUME NEW o \in {"connecting", "up"}
      PROVE  /\ silent(o) \in Conns /\ Counted(silent(o)) /\ Idle(silent(o))
             /\ silent(o).item[CLI] = OP_NOOP
             /\ silent(o).reg = {CLI} /\ silent(o).sock = "open" /\ silent(o).origin = o
             /\ silent(o).type = "FQDN" => silent(o).resolved
  BY OpenedFields, SetItemKeeps, Sets
<1>2. ASSUME NEW o \in {"connecting", "up"}, d = trying(o)
      PROVE  Good(d) /\ d.state \in Asked
  <2> DEFINE a == silent(o)
             b == [a EXCEPT !.reg = @ \cup {SRC}]
             e == [b EXCEPT !.item[SRC] = {OP_WRITE}]
  <2>1. /\ a \in Conns /\ Counted(a) /\ Idle(a)
        /\ a.item[CLI] = OP_NOOP /\ a.reg = {CLI} /\ a.sock = "open" /\ a.origin = o
        /\ a.type = "FQDN" => a.resolved
    BY <1>s
  <2>d. d = [e EXCEPT !.state = "REQ_CONNECT"]
    BY <1>2
  <2> HIDE DEF a
  <2>2. {CLI} \cup {SRC} = Side /\ Side \in SUBSET Side
    BY DEF Side
  <2>3. b \in Conns
    BY <2>1, <2>2, Update
  <2>4. /\ b.reg = Side /\ b.item = a.item /\ b.sock = a.sock /\ b.origin = a.origin
        /\ b.type = a.type /\ b.resolved = a.resolved /\ b.open = a.open
        /\ b.lists = a.lists /\ b.thread = a.thread /\ b.job = a.job
    BY <2>1, <2>2 DEF Conns
  <2> HIDE DEF b
  <2>5. Counted(b) /\ Idle(b)
    BY <2>1, <2>4 DEF Counted, Idle
  <2>6. /\ e \in Conns /\ Counted(e) /\ Idle(e)
        /\ e.item[SRC] = {OP_WRITE} /\ e.item[CLI] = b.item[CLI]
        /\ e.reg = b.reg /\ e.sock = b.sock /\ e.origin = b.origin
        /\ e.type = b.type /\ e.resolved = b.resolved
    BY <2>3, <2>5, WaitForOrigin
  <2> HIDE DEF e
  <2>7. /\ d \in Conns /\ d.state = "REQ_CONNECT" /\ d.item = e.item /\ d.reg = e.reg
        /\ d.sock = e.sock /\ d.origin = e.origin /\ d.type = e.type
        /\ d.resolved = e.resolved /\ d.open = e.open /\ d.lists = e.lists
        /\ d.thread = e.thread /\ d.job = e.job
    BY <2>6, <2>d DEF Conns, States
  <2>8. Counted(d) /\ Connecting(d)
    BY <2>1, <2>4, <2>6, <2>7 DEF Counted, Connecting, Idle
  <2> QED BY <2>7, <2>8 DEF Good, Orderly, Asked, ReadState, Ended
<1>3. CASE d = Error(silent("connecting"))
  <2> DEFINE e == silent("connecting")
  <2>1. e \in Conns /\ Counted(e) /\ Idle(e)
    BY <1>s
  <2> HIDE DEF e
  <2> QED BY <1>3, <2>1, ErrorIsGood DEF Asked, e
<1>4. CASE d = manage_req_error(Opened(c, "failed"), "CONNECT_ERRNO")
  <2> DEFINE e == Opened(c, "failed")
  <2>1. /\ e \in Conns /\ Counted(e) /\ Idle(e)
        /\ CLI \in e.reg /\ e.item[SRC] \subseteq {OP_WRITE}
    BY OpenedFields DEF OP_NOOP
  <2> HIDE DEF e
  <2> QED BY <1>4, <2>1, RefusalIsGood DEF e, Codes
<1> QED BY <1>0, <1>1, <1>2, <1>3, <1>4

\* The list is freed, and not a second time.
LEMMA FreeFields ==
    ASSUME NEW c \in Conns, Counted(c), Idle(c), c.resolved
    PROVE  LET d == freeaddrinfo(c)
           IN  /\ d \in Conns /\ Counted(d) /\ Idle(d)
               /\ d.reg = c.reg /\ d.item = c.item /\ d.origin = c.origin
<1> DEFINE e == [c EXCEPT !.resolved = FALSE]
           d == [e EXCEPT !.lists = @ - 1]
<1>1. e \in Conns
  BY Update
<1>2. e.lists = 1 /\ 1 - 1 \in Int
  BY DEF Counted, Conns
<1>3. d \in Conns
  <2> HIDE DEF e
  <2> QED BY <1>1, <1>2, Update
<1>4. /\ d.lists = 0 /\ ~d.resolved /\ d.open = c.open /\ d.sock = c.sock
      /\ d.reg = c.reg /\ d.item = c.item /\ d.origin = c.origin
      /\ d.thread = c.thread /\ d.job = c.job
  BY <1>2 DEF Conns
<1>5. freeaddrinfo(c) = d
  BY DEF freeaddrinfo
<1> HIDE DEF d
<1> QED BY <1>3, <1>4, <1>5 DEF Counted, Idle

\* The next address, or the refusal at the end of the list.
LEMMA DnsIsGood ==
    ASSUME NEW c \in Conns, Counted(c), Idle(c),
           c.reg = {CLI}, c.item[SRC] = OP_NOOP, c.sock # "open",
           c.curr > 0 => c.resolved,
           NEW d \in req_dns(c)
    PROVE  Good(d) /\ d.state \in Asked
<1>1. CASE c.curr = 0
  <2> DEFINE e == IF c.resolved THEN freeaddrinfo(c) ELSE c
  <2>1. /\ e \in Conns /\ Counted(e) /\ Idle(e)
        /\ CLI \in e.reg /\ e.item[SRC] \subseteq {OP_WRITE}
    BY FreeFields DEF OP_NOOP
  <2>2. d = manage_req_error(e, "HOST_UNREACHABLE")
    BY <1>1 DEF req_dns
  <2> HIDE DEF e
  <2> QED BY <2>1, <2>2, RefusalIsGood DEF Codes
<1>2. CASE c.curr # 0
  <2> DEFINE e == [c EXCEPT !.curr = @ - 1]
  <2>0. c.curr - 1 \in 0..MaxAddr /\ c.curr > 0
    BY <1>2, Fields, SocksConnAssumption
  <2>1. e \in Conns
    BY <2>0, Update
  <2>2. /\ e.reg = c.reg /\ e.item = c.item /\ e.sock = c.sock /\ e.type = c.type
        /\ e.resolved = c.resolved /\ e.open = c.open /\ e.lists = c.lists
        /\ e.thread = c.thread /\ e.job = c.job
    BY DEF Conns
  <2>3. d \in init_connection(e)
    BY <1>2 DEF req_dns
  <2> HIDE DEF e
  <2>4. Trying(e)
    BY <2>0, <2>1, <2>2 DEF Trying, Counted, Idle
  <2> QED BY <2>3, <2>4, ConnectionIsGood
<1> QED BY <1>1, <1>2

\* A request, or the refusal of its command.
LEMMA SetConnectionIsGood ==
    ASSUME NEW c \in Conns, Counted(c), Before(c), NEW d \in set_connection(c)
    PROVE  Good(d) /\ d.state \in Asked
<1>0. /\ Idle(c) /\ c.reg = {CLI} /\ CLI \in c.reg /\ c.item[SRC] = OP_NOOP
      /\ c.item[SRC] \subseteq {OP_WRITE} /\ c.sock = "zero" /\ c.origin = "none" /\ ~c.resolved
  BY DEF Before, Idle, OP_NOOP
<1>1. CASE c.type = "IP"
  BY <1>0, <1>1, ConnectionIsGood DEF Trying, set_connection
<1>2. CASE c.type # "IP"
  <2> DEFINE a == [c EXCEPT !.thread = "resolving"]
             b == [a EXCEPT !.item[CLI] = OP_NOOP]
             e == [b EXCEPT !.state = "REQ_DNS"]
  <2>1. /\ a \in Conns /\ a.item[SRC] = OP_NOOP /\ a.reg = {CLI} /\ a.sock = "zero"
        /\ a.origin = "none" /\ ~a.resolved /\ ~a.job /\ a.thread = "resolving"
        /\ a.type # "IP" /\ a.open = c.open /\ a.lists = c.lists
    BY <1>0, <1>2 DEF Conns, Before
  <2> HIDE DEF a
  <2>2. b \in Conns /\ b.item[CLI] = OP_NOOP /\ b.item[SRC] = OP_NOOP
    BY <2>1, SetItem, Sets
  <2>3. /\ b.reg = a.reg /\ b.sock = a.sock /\ b.origin = a.origin /\ b.resolved = a.resolved
        /\ b.job = a.job /\ b.thread = a.thread /\ b.type = a.type
        /\ b.open = a.open /\ b.lists = a.lists
    BY <2>1 DEF Conns
  <2>4. b.item = [x \in Side |-> OP_NOOP]
    BY <2>2, Fields DEF Side
  <2> HIDE DEF b
  <2>5. /\ e \in Conns /\ e.state = "REQ_DNS" /\ e.item = b.item
        /\ e.reg = b.reg /\ e.sock = b.sock /\ e.origin = b.origin /\ e.resolved = b.resolved
        /\ e.job = b.job /\ e.thread = b.thread /\ e.type = b.type
        /\ e.open = b.open /\ e.lists = b.lists
    BY <2>2 DEF Conns, States
  <2>6. d = e \/ d = manage_req_error(c, "SOCKS_FAIL")
    BY <1>2 DEF set_connection, b, a
  <2> HIDE DEF e
  <2>7. Counted(e) /\ Looking(e)
    BY <1>0, <2>1, <2>3, <2>4, <2>5 DEF Counted, Looking
  <2>8. Good(e) /\ e.state \in Asked
    BY <2>5, <2>7 DEF Good, Orderly, Asked, ReadState, Ended
  <2>9. Good(manage_req_error(c, "SOCKS_FAIL")) /\ manage_req_error(c, "SOCKS_FAIL").state \in Asked
    BY <1>0, RefusalIsGood DEF Codes
  <2> QED BY <2>6, <2>8, <2>9
<1> QED BY <1>1, <1>2

LEMMA ReqReadIsGood ==
    ASSUME NEW c \in Conns, Counted(c), Before(c), NEW d \in req_read(c)
    PROVE  Good(d) /\ d.state \in Asked
<1>1. PICK q \in Cmds \X Types :
        LET e == [c EXCEPT !.cmd = q[1], !.type = q[2]]
        IN  d \in IF q[1] = "CONNECT" THEN set_connection(e)
                                      ELSE {manage_req_error(e, "CMD_UNSUPPORTED")}
  BY DEF req_read
<1> DEFINE a == [c EXCEPT !.cmd = q[1]]
           e == [a EXCEPT !.type = q[2]]
<1>2. a \in Conns
  BY Update
<1>3. e \in Conns
  <2> HIDE DEF a
  <2> QED BY <1>2, Update
<1>4. /\ e.reg = c.reg /\ e.item = c.item /\ e.sock = c.sock /\ e.origin = c.origin
      /\ e.thread = c.thread /\ e.job = c.job /\ e.resolved = c.resolved
      /\ e.open = c.open /\ e.lists = c.lists
  BY DEF Conns
<1>5. d \in set_connection(e) \/ d = manage_req_error(e, "CMD_UNSUPPORTED")
  BY <1>1
<1> HIDE DEF e
<1>6. Counted(e) /\ Before(e)
  BY <1>4 DEF Counted, Before
<1>7. Idle(e) /\ CLI \in e.reg /\ e.item[SRC] \subseteq {OP_WRITE}
  BY <1>6 DEF Before, Idle, OP_NOOP
<1> QED BY <1>3, <1>5, <1>6, <1>7, SetConnectionIsGood, RefusalIsGood DEF Codes

\* The answers to the first two messages.
LEMMA HelloReadIsGood ==
    ASSUME NEW c \in Conns, Counted(c), Before(c), NEW d \in hello_read(c)
    PROVE  Good(d) /\ d.state = "HELLO_WRITE" /\ d.origin = c.origin
<1>1. PICK m \in Methods : d = Respond([c EXCEPT !.auth = m], <<"hello", m>>, "HELLO_WRITE")
  BY DEF hello_read
<1> DEFINE e == [c EXCEPT !.auth = m]
<1>2. /\ e \in Conns /\ e.auth = m
      /\ e.reg = c.reg /\ e.item = c.item /\ e.sock = c.sock /\ e.origin = c.origin
      /\ e.thread = c.thread /\ e.job = c.job /\ e.resolved = c.resolved
      /\ e.open = c.open /\ e.lists = c.lists
  BY DEF Conns
<1>r. d = Respond(e, <<"hello", m>>, "HELLO_WRITE")
  BY <1>1
<1> HIDE DEF e
<1>3. <<"hello", m>> \in Replies /\ "HELLO_WRITE" \in States
  BY DEF Replies, States
<1>4. /\ d \in Conns /\ Writing(d) /\ d.reply = <<"hello", m>> /\ d.state = "HELLO_WRITE"
      /\ d.item[SRC] = e.item[SRC] /\ d.reg = e.reg /\ d.sock = e.sock
      /\ d.origin = e.origin /\ d.auth = e.auth /\ d.thread = e.thread
      /\ d.job = e.job /\ d.resolved = e.resolved
      /\ d.open = e.open /\ d.lists = e.lists
  BY <1>2, <1>3, <1>r, RespondFields
<1>5. Counted(d) /\ Before(d)
  BY <1>2, <1>4 DEF Counted, Before
<1> QED BY <1>2, <1>4, <1>5 DEF Good, Orderly, ReadState, Ended

LEMMA AuthReadIsGood ==
    ASSUME NEW c \in Conns, Counted(c), Before(c), NEW d \in auth_read(c)
    PROVE  Good(d) /\ d.state = "AUTH_WRITE" /\ d.origin = c.origin
<1>1. PICK ok \in BOOLEAN : d = Respond(c, <<"auth", ok>>, "AUTH_WRITE")
  BY DEF auth_read
<1>2. <<"auth", ok>> \in Replies /\ "AUTH_WRITE" \in States /\ <<"auth", ok>> \in {"auth"} \X BOOLEAN
  BY DEF Replies, States
<1>3. /\ d \in Conns /\ Writing(d) /\ d.reply = <<"auth", ok>> /\ d.state = "AUTH_WRITE"
      /\ d.item[SRC] = c.item[SRC] /\ d.reg = c.reg /\ d.sock = c.sock
      /\ d.origin = c.origin /\ d.thread = c.thread
      /\ d.job = c.job /\ d.resolved = c.resolved
      /\ d.open = c.open /\ d.lists = c.lists
  BY <1>1, <1>2, RespondFields
<1>4. Counted(d) /\ Before(d)
  BY <1>3 DEF Counted, Before
<1> QED BY <1>2, <1>3, <1>4 DEF Good, Orderly, ReadState, Ended

\* The end of an attempt to connect, after the event of its socket.
LEMMA ReqConnectIsGood ==
    ASSUME NEW c \in Conns, Counted(c), Connecting(c), c.origin \in {"up", "failed"},
           NEW d \in req_connect(c)
    PROVE  Good(d) /\ d.state \in Asked
<1> DEFINE clean == IF c.type = "FQDN" THEN freeaddrinfo(c) ELSE c
           quiet == [clean EXCEPT !.item[SRC] = OP_NOOP]
           a == [c EXCEPT !.reg = @ \ {SRC}]
           b == [a EXCEPT !.item[SRC] = OP_NOOP]
           e == [b EXCEPT !.sock = "stale"]
           f == [e EXCEPT !.open = @ - 1]
           unregistered == [f EXCEPT !.origin = "none"]
<1>0. /\ Idle(c) /\ c.reg = Side /\ c.item[SRC] = {OP_WRITE} /\ c.sock = "open"
      /\ c.type = "FQDN" => c.resolved
      /\ CLI \in Side /\ Side \ {SRC} = {CLI} /\ {CLI} \in SUBSET Side
  BY DEF Connecting, Side, CLI, SRC
<1>1. CASE c.origin # "failed"
  <2>1. d = Respond(quiet, <<"req", "SUCCESS">>, "REQ_WRITE")
    BY <1>1 DEF req_connect
  <2>2. /\ clean \in Conns /\ Counted(clean) /\ Idle(clean)
        /\ clean.reg = c.reg /\ clean.origin = c.origin
    BY <1>0, FreeFields
  <2> HIDE DEF clean
  <2>3. /\ quiet \in Conns /\ Counted(quiet) /\ Idle(quiet)
        /\ quiet.item[SRC] = OP_NOOP /\ quiet.reg = clean.reg /\ quiet.origin = clean.origin
    BY <2>2, SetItemKeeps, Sets
  <2> HIDE DEF quiet
  <2>4. CLI \in quiet.reg /\ quiet.item[SRC] \subseteq {OP_WRITE} /\ quiet.origin = "up"
    BY <1>0, <1>1, <2>2, <2>3 DEF OP_NOOP
  <2> QED BY <2>1, <2>3, <2>4, AnswerIsGood DEF Asked, Codes
<1>2. CASE c.origin = "failed"
  <2>1. CASE c.type = "FQDN"
    <3>1. d \in req_dns(unregistered)
      BY <1>2, <2>1 DEF req_connect
    <3>2. /\ a \in Conns /\ a.reg = {CLI} /\ a.open = 1
          /\ a.thread = c.thread /\ a.job = c.job /\ a.resolved = c.resolved /\ a.lists = c.lists
      BY <1>0 DEF Conns, Counted
    <3> HIDE DEF a
    <3>3. b \in Conns /\ b.item[SRC] = OP_NOOP
      BY <3>2, SetItem, Sets
    <3>4. /\ b.reg = a.reg /\ b.open = a.open /\ b.thread = a.thread /\ b.job = a.job
          /\ b.resolved = a.resolved /\ b.lists = a.lists
      BY <3>2 DEF Conns
    <3> HIDE DEF b
    <3>5. e \in Conns /\ e.open = 1 /\ 1 - 1 \in Int
      BY <3>2, <3>3, <3>4 DEF Conns
    <3>6. f \in Conns
      <4> HIDE DEF e
      <4> QED BY <3>5, Update
    <3>7. unregistered \in Conns
      <4> HIDE DEF f
      <4> QED BY <3>6, Update
    <3>8. LET u == unregistered
          IN  /\ u.reg = b.reg /\ u.item = b.item /\ u.sock = "stale" /\ u.open = 0
              /\ u.thread = b.thread /\ u.job = b.job /\ u.resolved = b.resolved
              /\ u.lists = b.lists
      BY <3>3, <3>5 DEF Conns
    <3> HIDE DEF unregistered
    <3>9. Counted(unregistered) /\ Idle(unregistered)
      BY <1>0, <3>2, <3>4, <3>8 DEF Counted, Idle, CLI, SRC
    <3> QED BY <1>0, <2>1, <3>1, <3>2, <3>3, <3>4, <3>7, <3>8, <3>9, DnsIsGood
  <2>2. CASE c.type # "FQDN"
    BY <1>0, <1>2, <2>2, RefusalIsGood DEF req_connect, Codes
  <2> QED BY <2>1, <2>2
<1> QED BY <1>1, <1>2

\* Where the last byte of a reply leads.
LEMMA SentIsGood ==
    ASSUME NEW b, Good(b), b.state \in {"HELLO_WRITE", "AUTH_WRITE", "REQ_WRITE"}
    PROVE  LET d == Sent([b EXCEPT !.write_buff = 0])
           IN  /\ Good(d) /\ d.origin = b.origin
               /\ b.state = "HELLO_WRITE" =>
                     /\ b.auth = "NO_AUTH"    => d.state = "REQ_READ"
                     /\ b.auth = "USER_PASS"  => d.state = "AUTH_READ"
                     /\ b.auth = "NO_METHODS" => d.state = "DONE"
               /\ b.state = "AUTH_WRITE" => d.state = "REQ_READ"
               /\ b.state = "REQ_WRITE" =>
                     d.state = IF b.reply = <<"req", "SUCCESS">> THEN "COPY" ELSE "DONE"
<1> DEFINE c == [b EXCEPT !.write_buff = 0]
           next == CASE c.auth = "NO_AUTH"    -> "REQ_READ"
                     [] c.auth = "USER_PASS"  -> "AUTH_READ"
                     [] c.auth = "NO_METHODS" -> "DONE"
<1>0. b \in Conns /\ Counted(b) /\ Orderly(b)
  BY DEF Good
<1>1. /\ c \in Conns /\ c.state = b.state /\ c.auth = b.auth /\ c.reply = b.reply
      /\ c.reg = b.reg /\ c.item = b.item /\ c.sock = b.sock /\ c.origin = b.origin
      /\ c.thread = b.thread /\ c.job = b.job /\ c.resolved = b.resolved
      /\ c.open = b.open /\ c.lists = b.lists
  BY <1>0 DEF Conns, ReplySize
<1> HIDE DEF c
<1>2. ASSUME NEW s \in {"REQ_READ", "AUTH_READ", "DONE"}, Before(c), Counted(c),
             NEW d, d = [c EXCEPT !.item[CLI] = {OP_READ}, !.state = s]
      PROVE  Good(d) /\ d.state = s /\ d.origin = c.origin
  <2> DEFINE e == [c EXCEPT !.item[CLI] = {OP_READ}]
  <2>1. e \in Conns /\ e.item[CLI] = {OP_READ} /\ e.item[SRC] = c.item[SRC]
    BY <1>1, SetItem, Sets
  <2>2. /\ e.reg = c.reg /\ e.sock = c.sock /\ e.origin = c.origin
        /\ e.thread = c.thread /\ e.job = c.job /\ e.resolved = c.resolved
        /\ e.open = c.open /\ e.lists = c.lists
    BY <1>1 DEF Conns
  <2>3. d = [e EXCEPT !.state = s]
    BY <1>2
  <2> HIDE DEF e
  <2>4. /\ d \in Conns /\ d.state = s /\ d.item = e.item /\ d.reg = e.reg /\ d.sock = e.sock
        /\ d.origin = e.origin /\ d.thread = e.thread /\ d.job = e.job
        /\ d.resolved = e.resolved /\ d.open = e.open /\ d.lists = e.lists
    BY <2>1, <2>3 DEF Conns, States, Ended, ReadState
  <2>5. Counted(d) /\ Before(d) /\ Idle(d)
    BY <1>2, <2>1, <2>2, <2>4 DEF Counted, Before, Idle
  <2> QED BY <2>1, <2>2, <2>4, <2>5 DEF Good, Orderly, Ended
<1>3. CASE b.state = "HELLO_WRITE"
  <2>1. Before(c) /\ Counted(c) /\ c.auth \in Methods
    BY <1>0, <1>1, <1>3, Fields DEF Orderly, Before, Counted
  <2>2. /\ c.auth = "NO_AUTH"    => next = "REQ_READ"
        /\ c.auth = "USER_PASS"  => next = "AUTH_READ"
        /\ c.auth = "NO_METHODS" => next = "DONE"
    OBVIOUS
  <2>3. Sent(c) = [c EXCEPT !.item[CLI] = {OP_READ}, !.state = next]
    BY <1>1, <1>3 DEF Sent
  <2> HIDE DEF next
  <2>4. next \in {"REQ_READ", "AUTH_READ", "DONE"}
    BY <2>1, <2>2 DEF Methods
  <2>5. Good(Sent(c)) /\ Sent(c).state = next /\ Sent(c).origin = c.origin
    BY <1>2, <2>1, <2>3, <2>4
  <2> QED BY <1>1, <1>3, <2>2, <2>5 DEF c
<1>4. CASE b.state = "AUTH_WRITE"
  <2>1. Before(c) /\ Counted(c)
    BY <1>0, <1>1, <1>4 DEF Orderly, Before, Counted
  <2>2. Sent(c) = [c EXCEPT !.item[CLI] = {OP_READ}, !.state = "REQ_READ"]
    BY <1>1, <1>4 DEF Sent
  <2>3. Good(Sent(c)) /\ Sent(c).state = "REQ_READ" /\ Sent(c).origin = c.origin
    BY <1>2, <2>1, <2>2
  <2> QED BY <1>1, <1>4, <2>3 DEF c
<1>5. CASE b.state = "REQ_WRITE"
  <2>1. Idle(c) /\ Counted(c)
    BY <1>0, <1>1, <1>5 DEF Orderly, Answering, Idle, Counted
  <2> DEFINE copy == [c EXCEPT !.item = [x \in Side |-> {OP_READ}], !.state = "COPY"]
             done == [c EXCEPT !.state = "DONE"]
  <2>2. Sent(c) = IF c.reply = <<"req", "SUCCESS">> THEN copy ELSE done
    BY <1>1, <1>5 DEF Sent
  <2>3. /\ copy \in Conns /\ copy.state = "COPY" /\ copy.origin = c.origin
        /\ copy.reg = c.reg /\ copy.sock = c.sock /\ copy.thread = c.thread
        /\ copy.job = c.job /\ copy.resolved = c.resolved
        /\ copy.open = c.open /\ copy.lists = c.lists
    BY <1>1 DEF Conns, States, Interest
  <2>4. /\ done \in Conns /\ done.state = "DONE" /\ done.origin = c.origin
        /\ done.reg = c.reg /\ done.sock = c.sock /\ done.thread = c.thread
        /\ done.job = c.job /\ done.resolved = c.resolved
        /\ done.open = c.open /\ done.lists = c.lists
    BY <1>1 DEF Conns, States, Ended
  <2> HIDE DEF copy, done
  <2>5. Counted(copy) /\ Idle(copy) /\ Counted(done) /\ Idle(done)
    BY <2>1, <2>3, <2>4 DEF Counted, Idle
  <2>6. Good(copy) /\ Good(done)
    BY <2>3, <2>4, <2>5 DEF Good, Orderly, ReadState, Ended
  <2> QED BY <1>1, <1>5, <2>2, <2>3, <2>4, <2>6 DEF c
<1> QED BY <1>3, <1>4, <1>5

LEMMA CheckedIsGood ==
    ASSUME NEW c, Good(c)
    PROVE  LET d == check_state(c)
           IN  Good(d) /\ Empty(d) /\ d.state = c.state /\ d.origin = c.origin
<1>0. c \in Conns /\ Counted(c) /\ Orderly(c)
  BY DEF Good
<1>1. CASE c.state \notin Ended
  BY <1>1 DEF check_state, Empty
<1>2. CASE c.state \in Ended
  <2> DEFINE a == [c EXCEPT !.reg = {}]
             b == [a EXCEPT !.item = [x \in Side |-> OP_NOOP]]
             e == [b EXCEPT !.open = IF c.sock = "open" THEN @ - 1 ELSE @]
             f == [e EXCEPT !.sock = "closed"]
             g == [f EXCEPT !.lists = IF c.resolved THEN @ - 1 ELSE @]
             h == [g EXCEPT !.resolved = FALSE]
             d == [h EXCEPT !.write_buff = 0]
  <2>1. check_state(c) = d
    BY <1>2 DEF check_state, close_socks_conn
  <2>2. /\ b \in Conns /\ b.reg = {} /\ b.open = c.open /\ b.lists = c.lists
        /\ b.state = c.state /\ b.origin = c.origin /\ b.thread = c.thread /\ b.job = c.job
    <3>1. a \in Conns
      BY <1>0, Update
    <3>2. [x \in Side |-> OP_NOOP] \in [Side -> SUBSET Interest]
      BY Sets
    <3>3. b \in Conns
      <4> HIDE DEF a
      <4> QED BY <3>1, <3>2, Update
    <3> QED BY <1>0, <3>3 DEF Conns
  <2> HIDE DEF b
  <2>3. (IF c.sock = "open" THEN b.open - 1 ELSE b.open) = 0
    BY <1>0, <2>2 DEF Counted
  <2>4. e \in Conns /\ e.open = 0 /\ e.lists = c.lists /\ e.reg = {} /\ e.state = c.state
        /\ e.origin = c.origin /\ e.thread = c.thread /\ e.job = c.job
    BY <2>2, <2>3 DEF Conns
  <2> HIDE DEF e
  <2>5. /\ f \in Conns /\ f.open = 0 /\ f.lists = c.lists /\ f.reg = {} /\ f.state = c.state
        /\ f.origin = c.origin /\ f.thread = c.thread /\ f.job = c.job /\ f.sock = "closed"
    BY <2>4 DEF Conns
  <2> HIDE DEF f
  <2>6. (IF c.resolved THEN f.lists - 1 ELSE f.lists) = 0
    BY <1>0, <2>5 DEF Counted
  <2>7. /\ g \in Conns /\ g.open = 0 /\ g.lists = 0 /\ g.reg = {} /\ g.state = c.state
        /\ g.origin = c.origin /\ g.thread = c.thread /\ g.job = c.job /\ g.sock = "closed"
    BY <2>5, <2>6 DEF Conns
  <2> HIDE DEF g
  <2>8. h \in Conns
    BY <2>7, Update
  <2>9. d \in Conns
    <3>1. 0 \in 0..2
      OBVIOUS
    <3> HIDE DEF h
    <3> QED BY <2>8, <3>1, Update
  <2>10. /\ d.open = 0 /\ d.lists = 0 /\ d.reg = {} /\ d.state = c.state
         /\ d.origin = c.origin /\ d.thread = c.thread /\ d.job = c.job
         /\ d.sock = "closed" /\ ~d.resolved
    BY <2>7 DEF Conns
  <2> HIDE DEF d
  <2>11. Counted(d) /\ Idle(d)
    BY <1>0, <1>2, <2>10 DEF Counted, Orderly, Idle
  <2> QED BY <1>2, <2>1, <2>9, <2>10, <2>11 DEF Good, Orderly, Empty, ReadState, Ended
<1> QED BY <1>1, <1>2

-----------------------------------------------------------------------------
(* The steps. *)

LEMMA InvInit == Init => Inv
<1> SUFFICES ASSUME Init PROVE Inv
  OBVIOUS
<1>1. /\ new_socks_conn.item \in [Side -> SUBSET Interest]
      /\ new_socks_conn.item[CLI] = {OP_READ} /\ new_socks_conn.item[SRC] = OP_NOOP
  BY DEF new_socks_conn, Side, CLI, SRC, Interest, OP_NOOP
<1>2. new_socks_conn \in Conns
  BY <1>1, SocksConnAssumption
     DEF new_socks_conn, Conns, States, ReadState, Side, Methods, Cmds, Types, Replies, ReplySize
<1>3. /\ new_socks_conn.state = "HELLO_READ" /\ new_socks_conn.reg = {CLI}
      /\ new_socks_conn.sock = "zero" /\ new_socks_conn.origin = "none"
      /\ new_socks_conn.thread = "none" /\ ~new_socks_conn.job /\ ~new_socks_conn.resolved
      /\ new_socks_conn.open = 0 /\ new_socks_conn.lists = 0
  BY DEF new_socks_conn
<1>4. Good(new_socks_conn) /\ Empty(new_socks_conn)
  BY <1>1, <1>2, <1>3
     DEF Good, Counted, Orderly, Before, Empty, ReadState, Ended, CLI, SRC
<1>5. TypeOK
  <2>1. <<>> \in Seq(Pieces) /\ <<>> \in Seq(Replies)
    OBVIOUS
  <2> QED BY <1>2, <2>1 DEF Init, TypeOK, Nothing
<1>6. SlaveOK
  BY DEF Init, SlaveOK
<1> QED BY <1>4, <1>5, <1>6 DEF Init, Inv

\* What an event whose interest is registered says of the state.
LEMMA ReaderState ==
    ASSUME Inv, Running, Dispatched(CLI, OP_READ)
    PROVE  conn.state \in ReadState /\ Before(conn) /\ Counted(conn) /\ conn \in Conns
<1>1. conn \in Conns /\ Counted(conn) /\ Orderly(conn) /\ conn.state \in States
  BY Fields DEF Inv, Good
<1>2. OP_READ \in conn.item[CLI]
  BY DEF Dispatched
<1>3. conn.state \in ReadState
  BY <1>1, <1>2, Sets
     DEF Orderly, Writing, Looking, Connecting, Answering, States, Running, Ended,
         OP_READ, OP_WRITE, OP_NOOP
<1> QED BY <1>1, <1>3 DEF Orderly

LEMMA WriterState ==
    ASSUME Inv, Running, NEW x \in Side, Dispatched(x, OP_WRITE)
    PROVE  /\ conn.state \in {"HELLO_WRITE", "AUTH_WRITE", "REQ_WRITE", "REQ_CONNECT"}
           /\ x = SRC => conn.state \in {"REQ_WRITE", "REQ_CONNECT"}
           /\ conn.state # "REQ_CONNECT" => Writing(conn) /\ Idle(conn)
<1>1. conn \in Conns /\ Counted(conn) /\ Orderly(conn) /\ conn.state \in States
  BY Fields DEF Inv, Good
<1>2. OP_WRITE \in conn.item[x]
  BY DEF Dispatched
<1>3. CASE x = CLI
  BY <1>1, <1>2, <1>3, Sets
     DEF Orderly, Before, Writing, Looking, Connecting, Answering, Idle, States, ReadState,
         Running, Ended, OP_READ, OP_WRITE, OP_NOOP
<1>4. CASE x = SRC
  BY <1>1, <1>2, <1>4, Sets
     DEF Orderly, Before, Writing, Looking, Connecting, Answering, Idle, States, ReadState,
         Running, Ended, OP_READ, OP_WRITE, OP_NOOP
<1> QED BY <1>3, <1>4 DEF Side

\* What a step may do to the session without an answer: nothing, while the
\* origin may come and go during a request; or end it.
Moves == \/ conn'.state \in Ended
         \/ /\ SessionOf(conn') = SessionOf(conn)
            /\ conn'.origin = conn.origin \/ SessionOf(conn) = "request"

LEMMA Sessions ==
    ASSUME NEW c \in Conns
    PROVE  /\ c.state \in {"HELLO_READ", "HELLO_WRITE"} => SessionOf(c) = "hello"
           /\ c.state \in {"AUTH_READ", "AUTH_WRITE"} => SessionOf(c) = "auth"
           /\ c.state \in {"REQ_READ", "REQ_DNS", "REQ_CONNECT", "REQ_WRITE"} =>
                 SessionOf(c) = "request"
           /\ c.state = "COPY" => SessionOf(c) = "relay"
           /\ c.state \in Ended => SessionOf(c) = "closed"
BY DEF SessionOf, Ended

LEMMA RequestMoves ==
    ASSUME conn \in Conns, conn' \in Conns,
           conn.state \in {"REQ_READ", "REQ_DNS", "REQ_CONNECT", "REQ_WRITE"},
           conn'.state \in Asked
    PROVE  Moves
BY Sessions DEF Moves, Asked, Ended

\* A handler of the selector that leaves a good connection, and stays in its
\* state or ends one that no bit of the origin was set for.
LEMMA LeavesInv ==
    ASSUME Inv, TypeOK', NEW c, Good(c), conn' = check_state(c), slave' \subseteq slave,
           <<SRC, OP_WRITE>> \in slave' =>
               \/ c.state \in Ended \cup {"REQ_WRITE", "COPY"}
               \/ c.state = conn.state /\ c.origin = conn.origin
    PROVE  Inv'
<1>1. Good(conn') /\ Empty(conn') /\ conn'.state = c.state /\ conn'.origin = c.origin
  BY CheckedIsGood
<1>2. SlaveOK'
  BY <1>1 DEF Inv, SlaveOK, Ended
<1> QED BY <1>1, <1>2 DEF Inv

\* The client and TCP.
LEMMA PeerKeepsInv ==
    ASSUME Inv, Client \/ ConnectCompletes, Running
    PROVE  Inv' /\ answers' = answers /\ Moves
<1>1. CASE Client
  <2>1. conn' = conn /\ slave' = slave /\ answers' = answers
    BY <1>1 DEF Client, ClientSend, ClientFin, ClientReset, ClientDrain
  <2>2. TypeOK'
    <3>1. CASE ClientSend
      <4>1. said' \in Pieces
        <5>1. CASE said[2] = 1
          <6>1. said' = <<said[1], 2>>
            BY <3>1, <5>1 DEF ClientSend
          <6>2. said \in Pieces
            BY <5>1 DEF Inv, TypeOK, Nothing
          <6> QED BY <6>1, <6>2 DEF Pieces
        <5>2. CASE said[2] # 1
          <6>1. said' \in NextKinds(said[1]) \X {1}
            BY <3>1, <5>2 DEF ClientSend
          <6>2. NextKinds(said[1]) \subseteq Kinds
            BY DEF NextKinds
          <6> QED BY <6>1, <6>2 DEF Pieces
        <5> QED BY <5>1, <5>2
      <4>2. stream' \in Seq(Pieces)
        BY <3>1, <4>1 DEF ClientSend, Inv, TypeOK
      <4> QED BY <3>1, <4>1, <4>2 DEF ClientSend, Inv, TypeOK
    <3>2. CASE ClientFin \/ ClientReset \/ ClientDrain
      BY <3>2 DEF ClientFin, ClientReset, ClientDrain, Inv, TypeOK
    <3> QED BY <1>1, <3>1, <3>2 DEF Client
  <2> QED BY <2>1, <2>2 DEF Inv, SlaveOK, Moves
<1>2. CASE ConnectCompletes
  <2>1. PICK o \in {"up", "failed"} : conn' = [conn EXCEPT !.origin = o]
    BY <1>2 DEF ConnectCompletes
  <2>2. conn \in Conns /\ Counted(conn) /\ Orderly(conn) /\ Empty(conn)
        /\ conn.sock = "open" /\ conn.origin = "connecting"
    BY <1>2 DEF Inv, Good, ConnectCompletes
  <2>3. /\ conn' \in Conns /\ conn'.origin = o
        /\ conn'.state = conn.state /\ conn'.reg = conn.reg /\ conn'.item = conn.item
        /\ conn'.sock = conn.sock /\ conn'.type = conn.type /\ conn'.resolved = conn.resolved
        /\ conn'.open = conn.open /\ conn'.lists = conn.lists
        /\ conn'.thread = conn.thread /\ conn'.job = conn.job
        /\ conn'.write_buff = conn.write_buff /\ conn'.reply = conn.reply
    BY <2>1, <2>2 DEF Conns
  <2>4. conn.state \in {"REQ_CONNECT", "REQ_WRITE"}
    BY <2>2, Fields DEF Orderly, Before, Looking, Running, States, ReadState, Ended
  <2>5. Counted(conn') /\ Empty(conn')
    BY <2>2, <2>3 DEF Counted, Empty
  <2>6. conn.state = "REQ_CONNECT" => Connecting(conn')
    BY <2>2, <2>3 DEF Orderly, Connecting, Idle
  <2>7. conn.state = "REQ_WRITE" => Answering(conn')
    BY <2>2, <2>3 DEF Orderly, Answering, Idle, Writing
  <2>8. Orderly(conn')
    BY <2>3, <2>4, <2>6, <2>7 DEF Orderly, ReadState, Ended
  <2>9. /\ slave' = slave /\ answers' = answers /\ read_buff' = read_buff /\ stream' = stream
        /\ said' = said /\ phase' = phase /\ fin' = fin /\ rst' = rst /\ room' = room
        /\ sockerr' = sockerr /\ alive' = alive
    BY <1>2 DEF ConnectCompletes, peerVars
  <2>10. TypeOK'
    BY <2>3, <2>9 DEF Inv, TypeOK
  <2>11. SlaveOK'
    BY <2>3, <2>9 DEF Inv, SlaveOK
  <2>12. Moves
    BY <2>2, <2>3, <2>4, Sessions DEF Moves
  <2> QED BY <2>3, <2>5, <2>8, <2>9, <2>10, <2>11, <2>12 DEF Inv, Good
<1> QED BY <1>1, <1>2

\* The DNS thread.
LEMMA ThreadKeepsInv ==
    ASSUME Inv, req_dns_thread, Running
    PROVE  Inv' /\ answers' = answers /\ Moves
<1>1. conn \in Conns /\ Counted(conn) /\ Orderly(conn) /\ Empty(conn)
  BY DEF Inv, Good
<1>2. conn.thread \in {"resolving", "storing", "notifying"}
  BY DEF req_dns_thread, getaddrinfo, set_curr_addr, selector_notify_block
<1>3. conn.state = "REQ_DNS" /\ Looking(conn)
  BY <1>1, <1>2, Fields
     DEF Orderly, Before, Connecting, Answering, Idle, Running, States, ReadState, Ended
<1>4. /\ slave' = slave /\ answers' = answers /\ read_buff' = read_buff /\ stream' = stream
      /\ said' = said /\ phase' = phase /\ fin' = fin /\ rst' = rst /\ room' = room
      /\ sockerr' = sockerr /\ alive' = alive
  BY DEF req_dns_thread, getaddrinfo, set_curr_addr, selector_notify_block, peerVars
<1>5. /\ conn' \in Conns /\ Counted(conn') /\ Looking(conn')
      /\ conn'.state = "REQ_DNS" /\ conn'.origin = conn.origin
  <2>1. CASE getaddrinfo
    <3>1. PICK n \in IF conn.type = "EMPTY" THEN {0} ELSE 0..MaxAddr :
            conn' = [conn EXCEPT !.thread = "storing", !.resolved = n > 0, !.addrs = n,
                                 !.lists = IF n > 0 THEN @ + 1 ELSE @]
      BY <2>1 DEF getaddrinfo
    <3>n. n \in 0..MaxAddr /\ (conn.type = "EMPTY" => n = 0)
      BY SocksConnAssumption
    <3> DEFINE a == [conn EXCEPT !.thread = "storing"]
               b == [a EXCEPT !.resolved = n > 0]
               e == [b EXCEPT !.addrs = n]
               l == IF n > 0 THEN 1 ELSE 0
    <3>2. conn.lists = 0 /\ conn.thread = "resolving"
      BY <1>1, <1>3, <2>1 DEF getaddrinfo, Looking, Counted
    <3>3. a \in Conns
      BY <1>1, Update
    <3>4. b \in Conns
      <4> HIDE DEF a
      <4>1. (n > 0) \in BOOLEAN
        OBVIOUS
      <4> QED BY <3>3, <4>1, Update
    <3>5. e \in Conns
      <4> HIDE DEF b
      <4> QED BY <3>4, <3>n, Update
    <3>6. e.lists = 0
      BY <1>1, <3>2 DEF Conns
    <3>7. conn' = [e EXCEPT !.lists = l]
      <4>1. conn' = [e EXCEPT !.lists = IF n > 0 THEN @ + 1 ELSE @]
        BY <3>1
      <4> HIDE DEF e
      <4>2. (IF n > 0 THEN e.lists + 1 ELSE e.lists) = l
        BY <3>6
      <4> QED BY <4>1, <4>2
    <3>8. /\ e.thread = "storing" /\ (e.resolved <=> n > 0) /\ e.addrs = n
          /\ e.state = conn.state /\ e.reg = conn.reg /\ e.item = conn.item
          /\ e.sock = conn.sock /\ e.origin = conn.origin /\ e.type = conn.type
          /\ e.open = conn.open /\ e.job = conn.job
      BY <1>1 DEF Conns
    <3> HIDE DEF e
    <3>9. l \in Int
      OBVIOUS
    <3>10. /\ conn' \in Conns /\ conn'.lists = l
           /\ conn'.thread = e.thread /\ conn'.resolved = e.resolved /\ conn'.addrs = e.addrs
           /\ conn'.state = e.state /\ conn'.reg = e.reg /\ conn'.item = e.item
           /\ conn'.sock = e.sock /\ conn'.origin = e.origin /\ conn'.type = e.type
           /\ conn'.open = e.open /\ conn'.job = e.job
      <4> HIDE DEF l
      <4> QED BY <3>5, <3>7, <3>9 DEF Conns
    <3>11. Looking(conn')
      BY <1>3, <3>n, <3>2, <3>8, <3>10 DEF Looking
    <3>12. Counted(conn')
      BY <1>1, <3>8, <3>10 DEF Counted
    <3> QED BY <1>3, <3>8, <3>10, <3>11, <3>12
  <2>2. CASE set_curr_addr
    <3>1. conn.addrs \in 0..MaxAddr
      BY <1>1, Fields
    <3>2. /\ conn' \in Conns /\ conn'.thread = "notifying" /\ conn'.curr = conn.addrs
          /\ conn'.resolved = conn.resolved /\ conn'.addrs = conn.addrs
          /\ conn'.state = conn.state /\ conn'.reg = conn.reg /\ conn'.item = conn.item
          /\ conn'.sock = conn.sock /\ conn'.origin = conn.origin /\ conn'.type = conn.type
          /\ conn'.open = conn.open /\ conn'.job = conn.job /\ conn'.lists = conn.lists
      BY <1>1, <2>2 DEF set_curr_addr, Conns
    <3>3. conn.thread = "storing"
      BY <2>2 DEF set_curr_addr
    <3> QED BY <1>1, <1>3, <3>2, <3>3 DEF Looking, Counted
  <2>3. CASE selector_notify_block
    <3>1. /\ conn' \in Conns /\ conn'.thread = "gone" /\ conn'.job
          /\ conn'.resolved = conn.resolved /\ conn'.addrs = conn.addrs
          /\ conn'.curr = conn.curr
          /\ conn'.state = conn.state /\ conn'.reg = conn.reg /\ conn'.item = conn.item
          /\ conn'.sock = conn.sock /\ conn'.origin = conn.origin /\ conn'.type = conn.type
          /\ conn'.open = conn.open /\ conn'.lists = conn.lists
      BY <1>1, <2>3 DEF selector_notify_block, Conns
    <3>2. conn.thread = "notifying"
      BY <2>3 DEF selector_notify_block
    <3> QED BY <1>1, <1>3, <3>1, <3>2 DEF Looking, Counted
  <2> QED BY <2>1, <2>2, <2>3 DEF req_dns_thread
<1>6. Good(conn') /\ Empty(conn')
  BY <1>5 DEF Good, Orderly, Empty, ReadState, Ended
<1>7. TypeOK'
  BY <1>4, <1>5 DEF Inv, TypeOK
<1>8. SlaveOK'
  BY <1>3, <1>4 DEF Inv, SlaveOK, Ended
<1>9. Moves
  BY <1>1, <1>3, <1>5, Sessions DEF Moves
<1> QED BY <1>4, <1>6, <1>7, <1>8, <1>9 DEF Inv

\* pselect announces the origin's descriptor only when it is writable.
LEMMA SelectKeepsInv ==
    ASSUME Inv, Running, selector_select \/ \E x \in Side, op \in Interest : Skip(x, op)
    PROVE  Inv' /\ answers' = answers /\ Moves
<1>1. /\ conn' = conn /\ answers' = answers /\ read_buff' = read_buff /\ stream' = stream
      /\ said' = said /\ fin' = fin /\ rst' = rst /\ room' = room
      /\ sockerr' = sockerr /\ alive' = alive /\ phase' \in {"wait", "dispatch"}
  BY DEF selector_select, Skip, peerVars, Inv, TypeOK
<1>2. slave' \subseteq Side \X Interest /\ SlaveOK'
  <2>1. CASE selector_select
    <3>1. /\ slave' \subseteq Side \X Interest
          /\ <<SRC, OP_WRITE>> \in slave' => <<SRC, OP_WRITE>> \in ReadyNow
      <4>1. slave' \in SUBSET (ReadyNow \cup {e \in Watched : e[1] = CLI})
        BY <2>1 DEF selector_select
      <4>2. Watched \subseteq Side \X Interest /\ ReadyNow \subseteq Watched
        BY DEF Watched, ReadyNow, Inv, Good, Conns
      <4>3. <<SRC, OP_WRITE>>[1] = SRC
        OBVIOUS
      <4> QED BY <4>1, <4>2, <4>3, Sets
    <3>2. ASSUME <<SRC, OP_WRITE>> \in slave'
          PROVE  /\ conn.state \in {"REQ_CONNECT", "REQ_WRITE"}
                 /\ conn.state = "REQ_CONNECT" => conn.origin \in {"up", "failed"}
      <4>1. SRC \in conn.reg /\ OP_WRITE \in conn.item[SRC] /\ Writable(SRC)
        BY <3>1, <3>2 DEF ReadyNow, Watched, OP_READ, OP_WRITE
      <4>2. conn.origin \in {"up", "failed"}
        BY <4>1, Sets DEF Writable
      <4>3. Dispatched(SRC, OP_WRITE)
        BY <4>1 DEF Dispatched
      <4> QED BY <4>2, <4>3, WriterState, Sets
    <3> QED BY <1>1, <3>1, <3>2 DEF SlaveOK
  <2>2. CASE \E x \in Side, op \in Interest : Skip(x, op)
    BY <1>1, <2>2 DEF Skip, Turn, SlaveOK, Inv, TypeOK
  <2> QED BY <2>1, <2>2
<1>3. TypeOK'
  BY <1>1, <1>2 DEF Inv, TypeOK
<1> QED BY <1>1, <1>2, <1>3 DEF Inv, Moves

\* An event whose handler ends the connection.
LEMMA FailureKeepsInv ==
    ASSUME Inv, Running, ReadFails \/ \E x \in Side : WriteFails(x)
    PROVE  Inv' /\ answers' = answers /\ Moves
<1>1. /\ conn' = check_state(Error(conn)) /\ slave' \subseteq slave
      /\ answers' = answers /\ read_buff' = read_buff /\ stream' = stream
      /\ said' = said /\ phase' = phase /\ fin' = fin /\ rst' = rst /\ room' = room
      /\ sockerr' \in {sockerr, "none"} /\ alive' = alive
  BY DEF ReadFails, WriteFails, Writes, Handle, Turn, peerVars
<1>2. Idle(conn)
  <2>1. CASE ReadFails
    BY <2>1, ReaderState DEF ReadFails, Handle, Before, Idle
  <2>2. ASSUME NEW x \in Side, WriteFails(x) PROVE Idle(conn)
    BY <2>2, WriterState DEF WriteFails, Writes, Handle
  <2> QED BY <2>1, <2>2
<1>3. Good(Error(conn)) /\ Error(conn).state = "ERROR"
  BY <1>2, ErrorIsGood DEF Inv, Good
<1>4. conn' \in Conns /\ conn'.state = "ERROR"
  BY <1>1, <1>3, CheckedIsGood DEF Good
<1>5. TypeOK'
  BY <1>1, <1>4 DEF Inv, TypeOK
<1>6. Inv'
  BY <1>1, <1>3, <1>5, LeavesInv DEF Ended
<1> QED BY <1>1, <1>4, <1>6 DEF Moves, Ended

LEMMA SigpipeKeepsInv ==
    ASSUME Inv, Running, NEW x \in Side, WriteSigpipe(x)
    PROVE  Inv' /\ answers' = answers /\ Moves
<1>1. /\ conn' = conn /\ slave' \subseteq slave /\ alive' = FALSE
      /\ answers' = answers /\ read_buff' = read_buff /\ stream' = stream
      /\ said' = said /\ phase' = phase /\ fin' = fin /\ rst' = rst /\ room' = room
      /\ sockerr' = sockerr
  BY DEF WriteSigpipe, Writes, Handle, Turn, peerVars
<1>2. TypeOK'
  BY <1>1 DEF Inv, TypeOK
<1>3. SlaveOK'
  BY <1>1 DEF Inv, SlaveOK
<1> QED BY <1>1, <1>2, <1>3 DEF Inv, Moves

\* What is left of the bytes when a message was parsed.
LEMMA ParseType ==
    ASSUME NEW kind, NEW b \in Seq(Pieces), b # <<>>, NEW p \in Parse(kind, b)
    PROVE  p.left \in Seq(Pieces) /\ p.res \in {"more", "done", "error"}
<1>1. <<>> \in Seq(Pieces)
  OBVIOUS
<1>2. ASSUME Len(b) # 1 PROVE Tail(Tail(b)) \in Seq(Pieces)
  <2> DEFINE t == Tail(b)
  <2>1. t \in Seq(Pieces) /\ Len(t) = Len(b) - 1 /\ Len(b) \in Nat \ {0}
    OBVIOUS
  <2> HIDE DEF t
  <2>2. t # <<>>
    BY <1>2, <2>1
  <2>3. Tail(t) \in Seq(Pieces)
    BY <2>1, <2>2
  <2> QED BY <2>3 DEF t
<1>3. CASE Head(b) = <<kind, 1>>
  <2>1. CASE Len(b) = 1
    <3>1. p = [res |-> "more", left |-> <<>>]
      BY <1>3, <2>1 DEF Parse
    <3> QED BY <1>1, <3>1
  <2>2. CASE Len(b) # 1
    <3>1. p = [res |-> "done", left |-> Tail(Tail(b))]
      BY <1>3, <2>2 DEF Parse
    <3> QED BY <1>2, <2>2, <3>1
  <2> QED BY <2>1, <2>2
<1>4. CASE Head(b) # <<kind, 1>>
  <2>1. p \in [res : {"error", "more"}, left : {<<>>}]
    BY <1>4 DEF Parse
  <2> QED BY <1>1, <2>1
<1> QED BY <1>3, <1>4

LEMMA ReadKeepsInv ==
    ASSUME Inv, Running, ReadMessage
    PROVE  Inv' /\ answers' = answers /\ Moves
<1>1. /\ stream' = <<>> /\ slave' \subseteq slave /\ answers' = answers /\ phase' = phase
      /\ said' = said /\ fin' = fin /\ rst' = rst /\ room' = room
      /\ sockerr' = sockerr /\ alive' = alive
  BY DEF ReadMessage, Handle, Turn
<1>2. conn.state \in ReadState /\ Before(conn) /\ Counted(conn) /\ conn \in Conns
  BY ReaderState DEF ReadMessage, Handle
<1>3. PICK p \in Parse(Message(conn.state), read_buff \o stream) :
        /\ read_buff' = p.left
        /\ p.res = "error" => conn' = check_state(Error(conn))
        /\ p.res = "more" => conn' = conn
        /\ p.res = "done" => \E c \in Parsed(conn) : conn' = check_state(c)
  BY DEF ReadMessage
<1>4. p.left \in Seq(Pieces) /\ p.res \in {"more", "done", "error"}
  <2>1. read_buff \o stream \in Seq(Pieces) /\ read_buff \o stream # <<>>
    BY DEF Inv, TypeOK, ReadMessage
  <2> QED BY <2>1, ParseType
<1>5. Idle(conn) /\ Good(conn) /\ <<SRC, OP_WRITE>> \notin slave'
  <2>1. <<SRC, OP_WRITE>> \notin slave
    BY <1>2 DEF Inv, SlaveOK, ReadState, Ended
  <2> QED BY <1>1, <1>2, <2>1 DEF Before, Idle, Inv
<1>6. ASSUME conn' \in Conns PROVE TypeOK'
  <2>1. <<>> \in Seq(Pieces)
    OBVIOUS
  <2> QED BY <1>1, <1>3, <1>4, <1>6, <2>1 DEF Inv, TypeOK
<1>7. ASSUME NEW c, Good(c), conn' = check_state(c) PROVE Inv' /\ conn' \in Conns /\ conn'.state = c.state /\ conn'.origin = c.origin
  <2>1. conn' \in Conns /\ conn'.state = c.state /\ conn'.origin = c.origin
    BY <1>7, CheckedIsGood DEF Good
  <2> QED BY <1>1, <1>5, <1>6, <1>7, <2>1, LeavesInv
<1>8. CASE p.res = "error"
  <2>1. Good(Error(conn)) /\ Error(conn).state = "ERROR"
    BY <1>2, <1>5, ErrorIsGood
  <2> QED BY <1>1, <1>3, <1>7, <1>8, <2>1 DEF Moves, Ended
<1>9. CASE p.res = "more"
  <2>1. conn' = conn
    BY <1>3, <1>9
  <2>2. SlaveOK'
    BY <1>5, <2>1 DEF SlaveOK
  <2> QED BY <1>1, <1>2, <1>6, <2>1, <2>2 DEF Inv, Moves
<1>10. CASE p.res = "done"
  <2>1. PICK c \in Parsed(conn) : conn' = check_state(c)
    BY <1>3, <1>10
  <2>2. CASE conn.state = "HELLO_READ"
    <3>1. c \in hello_read(conn)
      BY <2>1, <2>2 DEF Parsed
    <3>2. Good(c) /\ c.state = "HELLO_WRITE" /\ c.origin = conn.origin
      BY <1>2, <3>1, HelloReadIsGood
    <3> QED BY <1>1, <1>2, <1>7, <2>1, <2>2, <3>2, Sessions DEF Moves
  <2>3. CASE conn.state = "AUTH_READ"
    <3>1. c \in auth_read(conn)
      BY <2>1, <2>3 DEF Parsed
    <3>2. Good(c) /\ c.state = "AUTH_WRITE" /\ c.origin = conn.origin
      BY <1>2, <3>1, AuthReadIsGood
    <3> QED BY <1>1, <1>2, <1>7, <2>1, <2>3, <3>2, Sessions DEF Moves
  <2>4. CASE conn.state = "REQ_READ"
    <3>1. c \in req_read(conn)
      BY <2>1, <2>4 DEF Parsed
    <3>2. Good(c) /\ c.state \in Asked
      BY <1>2, <3>1, ReqReadIsGood
    <3> QED BY <1>1, <1>2, <1>7, <2>1, <2>4, <3>2, RequestMoves
  <2> QED BY <1>2, <2>2, <2>3, <2>4 DEF ReadState
<1> QED BY <1>4, <1>8, <1>9, <1>10

LEMMA ConnectEndKeepsInv ==
    ASSUME Inv, Running, ConnectEnds
    PROVE  Inv' /\ answers' = answers /\ Moves
<1>1. /\ slave' = slave \ {<<SRC, OP_WRITE>>} /\ answers' = answers /\ phase' = phase
      /\ read_buff' = read_buff /\ stream' = stream
      /\ said' = said /\ fin' = fin /\ rst' = rst /\ room' = room
      /\ sockerr' = sockerr /\ alive' = alive /\ conn.state = "REQ_CONNECT"
      /\ <<SRC, OP_WRITE>> \in slave
  BY DEF ConnectEnds, Handle, Turn, peerVars
<1>2. PICK c \in req_connect(conn) : conn' = check_state(c)
  BY DEF ConnectEnds
<1>3. /\ conn \in Conns /\ Counted(conn) /\ Connecting(conn)
      /\ conn.origin \in {"up", "failed"}
  BY <1>1 DEF Inv, Good, Orderly, SlaveOK
<1>4. Good(c) /\ c.state \in Asked
  BY <1>3, ReqConnectIsGood
<1>5. conn' \in Conns /\ conn'.state = c.state
  BY <1>2, <1>4, CheckedIsGood DEF Good
<1>6. TypeOK'
  BY <1>1, <1>5 DEF Inv, TypeOK
<1>7. Inv'
  BY <1>1, <1>2, <1>4, <1>6, LeavesInv
<1> QED BY <1>1, <1>3, <1>4, <1>5, <1>7, RequestMoves

LEMMA JobKeepsInv ==
    ASSUME Inv, Running, handle_block_notifications
    PROVE  Inv' /\ answers' = answers /\ Moves
<1>1. /\ slave' = slave /\ slave = {} /\ answers' = answers /\ phase' = "wait"
      /\ read_buff' = read_buff /\ stream' = stream
      /\ said' = said /\ fin' = fin /\ rst' = rst /\ room' = room
      /\ sockerr' = sockerr /\ alive' = alive
  BY DEF handle_block_notifications, peerVars
<1>2. conn \in Conns /\ Counted(conn) /\ Orderly(conn)
  BY DEF Inv, Good
<1>3. CASE ~conn.job
  <2>1. conn' = conn
    BY <1>3 DEF handle_block_notifications
  <2>2. TypeOK'
    BY <1>1, <2>1 DEF Inv, TypeOK
  <2> QED BY <1>1, <2>1, <2>2 DEF Inv, SlaveOK, Moves
<1>4. CASE conn.job
  <2> DEFINE e == [conn EXCEPT !.job = FALSE]
  <2>1. conn.state = "REQ_DNS" /\ Looking(conn)
    BY <1>2, <1>4, Fields
       DEF Orderly, Before, Connecting, Answering, Idle, Running, States, ReadState, Ended
  <2>2. PICK c \in req_dns(e) : conn' = check_state(c)
    BY <1>4 DEF handle_block_notifications
  <2>3. /\ e \in Conns /\ ~e.job /\ e.thread = conn.thread /\ e.reg = conn.reg
        /\ e.item = conn.item /\ e.sock = conn.sock /\ e.curr = conn.curr
        /\ e.resolved = conn.resolved /\ e.open = conn.open /\ e.lists = conn.lists
    BY <1>2 DEF Conns
  <2> HIDE DEF e
  <2>4. /\ Counted(e) /\ Idle(e) /\ e.reg = {CLI} /\ e.item[SRC] = OP_NOOP
        /\ e.sock # "open" /\ (e.curr > 0 => e.resolved)
    BY <1>2, <1>4, <2>1, <2>3, Sets DEF Counted, Idle, Looking
  <2>5. Good(c) /\ c.state \in Asked
    BY <2>2, <2>3, <2>4, DnsIsGood
  <2>6. conn' \in Conns /\ conn'.state = c.state
    BY <2>2, <2>5, CheckedIsGood DEF Good
  <2>7. TypeOK'
    BY <1>1, <2>6 DEF Inv, TypeOK
  <2>8. Inv'
    BY <1>1, <2>2, <2>5, <2>7, LeavesInv
  <2> QED BY <1>1, <1>2, <2>1, <2>5, <2>6, <2>8, RequestMoves
<1> QED BY <1>3, <1>4

\* What a reply tells the client: the session's answer.
Replied ==
    /\ answers' = Append(answers, conn.reply)
    /\ conn'.origin = conn.origin
    /\ \/ /\ conn.state = "HELLO_WRITE" /\ conn.reply = <<"hello", conn.auth>>
          /\ conn.auth = "NO_AUTH"    => conn'.state = "REQ_READ"
          /\ conn.auth = "USER_PASS"  => conn'.state = "AUTH_READ"
          /\ conn.auth = "NO_METHODS" => conn'.state = "DONE"
       \/ /\ conn.state = "AUTH_WRITE" /\ conn.reply \in {"auth"} \X BOOLEAN
          /\ conn'.state = "REQ_READ"
       \/ /\ conn.state = "REQ_WRITE" /\ conn.reply \in {"req"} \X Codes
          /\ conn.reply = <<"req", "SUCCESS">> => conn.origin = "up"
          /\ conn'.state = IF conn.reply = <<"req", "SUCCESS">> THEN "COPY" ELSE "DONE"

LEMMA ReplyKeepsInv ==
    ASSUME Inv, Running, NEW x \in Side, WriteReply(x)
    PROVE  Inv' /\ (Replied \/ (answers' = answers /\ Moves))
<1>1. /\ slave' \subseteq slave /\ read_buff' = read_buff /\ stream' = stream /\ phase' = phase
      /\ said' = said /\ fin' = fin /\ rst' = rst /\ room' \in {room, FALSE}
      /\ sockerr' = sockerr /\ alive' = alive
  BY DEF WriteReply, Writes, Handle, Turn
<1>2. conn.state \in {"HELLO_WRITE", "AUTH_WRITE", "REQ_WRITE"} /\ Writing(conn) /\ Idle(conn)
  BY WriterState DEF WriteReply, Writes, Handle
<1>3. /\ conn \in Conns /\ Counted(conn) /\ Orderly(conn) /\ Good(conn)
      /\ conn.write_buff \in 0..2 /\ conn.reply \in Replies /\ conn.auth \in Methods
  BY Fields DEF Inv, Good
<1>4. PICK n \in 1..conn.write_buff :
        LET c == [conn EXCEPT !.write_buff = @ - n]
        IN  IF c.write_buff = 0
              THEN /\ conn' = check_state(Sent(c))
                   /\ answers' = Append(answers, conn.reply)
                   /\ UNCHANGED room
              ELSE conn' = c /\ room' = FALSE /\ UNCHANGED answers
  BY DEF WriteReply
<1> DEFINE left == conn.write_buff - n
           c == [conn EXCEPT !.write_buff = left]
<1>5. left \in 0..2 /\ n > 0
  BY <1>3
<1>6. /\ c.write_buff = left /\ c.state = conn.state
      /\ c.reg = conn.reg /\ c.item = conn.item /\ c.sock = conn.sock /\ c.origin = conn.origin
      /\ c.auth = conn.auth /\ c.reply = conn.reply
      /\ c.thread = conn.thread /\ c.job = conn.job /\ c.resolved = conn.resolved
      /\ c.open = conn.open /\ c.lists = conn.lists
  BY <1>3 DEF Conns
<1>7. CASE left = 0
  <2> DEFINE d == Sent([conn EXCEPT !.write_buff = 0])
  <2>1. conn' = check_state(d) /\ answers' = Append(answers, conn.reply) /\ room' = room
    BY <1>4, <1>6, <1>7
  <2>2. /\ Good(d) /\ d.origin = conn.origin
        /\ conn.state = "HELLO_WRITE" =>
              /\ conn.auth = "NO_AUTH"    => d.state = "REQ_READ"
              /\ conn.auth = "USER_PASS"  => d.state = "AUTH_READ"
              /\ conn.auth = "NO_METHODS" => d.state = "DONE"
        /\ conn.state = "AUTH_WRITE" => d.state = "REQ_READ"
        /\ conn.state = "REQ_WRITE" =>
              d.state = IF conn.reply = <<"req", "SUCCESS">> THEN "COPY" ELSE "DONE"
    BY <1>2, <1>3, SentIsGood
  <2> HIDE DEF d
  <2>3. conn' \in Conns /\ conn'.state = d.state /\ conn'.origin = d.origin
    BY <2>1, <2>2, CheckedIsGood DEF Good
  <2>4. TypeOK'
    <3>1. answers' \in Seq(Replies)
      BY <1>3, <2>1 DEF Inv, TypeOK
    <3> QED BY <1>1, <2>1, <2>3, <3>1 DEF Inv, TypeOK
  <2>5. <<SRC, OP_WRITE>> \in slave' => conn.state = "REQ_WRITE"
    BY <1>1, <1>2 DEF Inv, SlaveOK, Ended
  <2>6. Inv'
    BY <1>1, <2>1, <2>2, <2>4, <2>5, LeavesInv DEF Ended
  <2>7. Replied
    BY <1>2, <1>3, <2>1, <2>2, <2>3 DEF Replied, Orderly, Answering
  <2> QED BY <2>6, <2>7
<1>8. CASE left # 0
  <2>1. conn' = c /\ answers' = answers /\ room' = FALSE
    BY <1>4, <1>6, <1>8
  <2>2. c \in Conns
    <3> HIDE DEF left
    <3> QED BY <1>3, <1>5, Update
  <2> HIDE DEF c
  <2>3. Counted(c) /\ Empty(c)
    BY <1>2, <1>3, <1>6 DEF Counted, Empty, Ended
  <2>4. Writing(c) /\ Idle(c)
    BY <1>2, <1>5, <1>6, <1>8 DEF Writing, Idle
  <2>5. Before(conn) => Before(c)
    BY <1>6 DEF Before
  <2>6. Orderly(c)
    BY <1>2, <1>3, <1>6, <2>4, <2>5 DEF Orderly, Answering, ReadState, Ended
  <2>7. TypeOK'
    BY <1>1, <2>1, <2>2 DEF Inv, TypeOK
  <2>8. SlaveOK'
    BY <1>1, <1>6, <2>1 DEF Inv, SlaveOK
  <2>9. Moves
    BY <1>3, <1>2, <1>6, <2>1, <2>2, Sessions DEF Moves
  <2> QED BY <2>1, <2>2, <2>3, <2>6, <2>7, <2>8, <2>9 DEF Inv, Good
<1> QED BY <1>7, <1>8

LEMMA StepKeepsInv ==
    ASSUME Inv, Next
    PROVE  Inv' /\ (Replied \/ (answers' = answers /\ Moves))
<1>1. Running
  BY DEF Next
<1>2. CASE Client \/ ConnectCompletes
  BY <1>1, <1>2, PeerKeepsInv
<1>3. CASE req_dns_thread
  BY <1>1, <1>3, ThreadKeepsInv
<1>4. CASE selector_select \/ \E x \in Side, op \in Interest : Skip(x, op)
  BY <1>1, <1>4, SelectKeepsInv
<1>5. CASE ReadFails \/ \E x \in Side : WriteFails(x)
  BY <1>1, <1>5, FailureKeepsInv
<1>6. CASE ReadMessage
  BY <1>1, <1>6, ReadKeepsInv
<1>7. CASE ConnectEnds
  BY <1>1, <1>7, ConnectEndKeepsInv
<1>8. CASE handle_block_notifications
  BY <1>1, <1>8, JobKeepsInv
<1>9. ASSUME NEW x \in Side, WriteSigpipe(x) \/ WriteReply(x)
      PROVE  Inv' /\ (Replied \/ (answers' = answers /\ Moves))
  BY <1>1, <1>9, SigpipeKeepsInv, ReplyKeepsInv
<1> QED BY <1>2, <1>3, <1>4, <1>5, <1>6, <1>7, <1>8, <1>9
        DEF Next, Selector, handle_iteration

LEMMA InvStep == Inv /\ [Next]_vars => Inv'
<1> SUFFICES ASSUME Inv, UNCHANGED vars PROVE Inv'
  BY StepKeepsInv
<1> QED BY DEF Inv, TypeOK, SlaveOK, vars, peerVars

LEMMA InvAlways == Spec => []Inv
BY InvInit, InvStep, PTL DEF Spec

-----------------------------------------------------------------------------
(* The theorems. *)

\* The connection, the buffers and the kernel's view of them only take values
\* the code gives them.
THEOREM SocksTypeCorrect == Spec => []TypeOK
BY InvAlways, PTL DEF Inv

\* The state machine engine finds a handler for every event it is called for,
\* and nothing but the origin's own event runs req_connect.
THEOREM EventsHaveHandlers == Spec => []HandlerForEveryInterest
<1>1. Inv => HandlerForEveryInterest
  <2> SUFFICES ASSUME Inv, Running PROVE HandlerForEveryInterest
    BY DEF HandlerForEveryInterest
  <2>1. conn \in Conns /\ Orderly(conn) /\ conn.state \in States
    BY Fields DEF Inv, Good
  <2>2. ASSUME NEW e \in Watched
        PROVE  conn.state \in IF e[2] = OP_READ THEN ReadState ELSE WriteState
    <3>1. e[1] \in Side /\ e[2] \in Interest /\ Dispatched(e[1], e[2])
      BY <2>1 DEF Watched, Dispatched, Conns
    <3>2. CASE e[2] = OP_READ
      <4>1. e[1] = CLI
        BY <2>1, <3>1, <3>2, Sets
           DEF Dispatched, Orderly, Before, Looking, Connecting, Answering, States, ReadState,
               Running, Ended, OP_READ, OP_WRITE, OP_NOOP, Side
      <4> QED BY <3>1, <3>2, <4>1, ReaderState
    <3>3. CASE e[2] # OP_READ
      <4>1. e[2] = OP_WRITE
        BY <3>1, <3>3 DEF Interest
      <4> QED BY <3>1, <3>3, <4>1, WriterState DEF WriteState
    <3> QED BY <3>2, <3>3
  <2>3. conn.job => conn.state = "REQ_DNS"
    BY <2>1 DEF Orderly, Before, Connecting, Answering, Idle, Running, States, ReadState, Ended
  <2>4. conn.state = "REQ_CONNECT" => conn.item[CLI] = OP_NOOP
    BY <2>1 DEF Orderly, Connecting
  <2> QED BY <2>2, <2>3, <2>4 DEF HandlerForEveryInterest
<1> QED BY <1>1, InvAlways, PTL

\* A connection that is not closed is waited for by an interest, its DNS
\* thread or a job.
THEOREM NoConnectionIsForgotten == Spec => []SomebodyWillCall
<1>1. Inv => SomebodyWillCall
  <2> SUFFICES ASSUME Inv, Running PROVE SomebodyWillCall
    BY DEF SomebodyWillCall
  <2>1. conn \in Conns /\ Orderly(conn) /\ conn.state \in States
    BY Fields DEF Inv, Good
  <2>2. CASE conn.state \in ReadState
    <3>1. <<CLI, OP_READ>> \in Watched
      BY <2>1, <2>2 DEF Orderly, Before, Watched, Interest
    <3> QED BY <3>1 DEF SomebodyWillCall
  <2>3. CASE conn.state \in {"HELLO_WRITE", "AUTH_WRITE", "REQ_WRITE"}
    <3>1. <<CLI, OP_WRITE>> \in Watched
      BY <2>1, <2>3 DEF Orderly, Before, Answering, Writing, Watched, Interest
    <3> QED BY <3>1 DEF SomebodyWillCall
  <2>4. CASE conn.state = "REQ_CONNECT"
    <3>1. <<SRC, OP_WRITE>> \in Watched
      BY <2>1, <2>4 DEF Orderly, Connecting, Watched, Interest, Side
    <3> QED BY <3>1 DEF SomebodyWillCall
  <2>5. CASE conn.state = "REQ_DNS"
    BY <2>1, <2>5 DEF Orderly, Looking, SomebodyWillCall, Resolving
  <2> QED BY <2>1, <2>2, <2>3, <2>4, <2>5 DEF States, Running, Ended
<1> QED BY <1>1, InvAlways, PTL

\* While the DNS thread works on the connection nobody else does, and the
\* addresses are all there when its job is handled.
THEOREM ThreadIsAlone == Spec => []ThreadHasTheConnection
<1>1. Inv => ThreadHasTheConnection
  <2> SUFFICES ASSUME Inv PROVE ThreadHasTheConnection
    OBVIOUS
  <2>1. conn \in Conns /\ Orderly(conn) /\ conn.state \in States
    BY Fields DEF Inv, Good
  <2>2. CASE conn.state = "REQ_DNS"
    BY <2>1, <2>2 DEF Orderly, Looking, ThreadHasTheConnection, Resolving
  <2>3. CASE conn.state # "REQ_DNS"
    <3>1. conn.thread \in {"none", "gone"} /\ ~conn.job
      BY <2>1, <2>3 DEF Orderly, Before, Connecting, Answering, Idle, States, ReadState, Ended
    <3> QED BY <3>1 DEF ThreadHasTheConnection, Resolving
  <2> QED BY <2>2, <2>3
<1> QED BY <1>1, InvAlways, PTL

\* Sockets and address lists are returned on every path.
THEOREM EverythingIsReturned == Spec => []NothingLeaks
<1>1. Inv => NothingLeaks
  BY DEF Inv, Good, Counted, Empty, NothingLeaks
<1> QED BY <1>1, InvAlways, PTL

\* What the client that heeds no verdict has been told after one more answer.
LEMMA AcceptedOneByOne ==
    ASSUME NEW s \in Seq(Replies), NEW r \in Replies
    PROVE  AsAccepted(Append(s, r)) = Append(AsAccepted(s), Accepted(r))
<1> DEFINE t == Append(s, r)
           u == AsAccepted(s)
<1>1. /\ t \in Seq(Replies) /\ Len(t) = Len(s) + 1 /\ t[Len(s) + 1] = r
      /\ \A i \in 1..Len(s) : t[i] = s[i]
      /\ DOMAIN t = 1..(Len(s) + 1) /\ DOMAIN s = 1..Len(s) /\ Len(s) \in Nat
  OBVIOUS
<1>2. u = [i \in 1..Len(s) |-> Accepted(s[i])]
  BY <1>1 DEF AsAccepted
<1> DEFINE A == {Accepted(s[i]) : i \in 1..Len(s)} \cup {Accepted(r)}
<1>3. u \in Seq(A) /\ Len(u) = Len(s)
  BY <1>1, <1>2
<1>4. Append(u, Accepted(r)) = [i \in 1..(Len(s) + 1) |-> IF i <= Len(s) THEN u[i] ELSE Accepted(r)]
  <2> DEFINE v == Append(u, Accepted(r))
  <2> HIDE DEF u
  <2>1. /\ v \in Seq(A) /\ Len(v) = Len(s) + 1 /\ v[Len(s) + 1] = Accepted(r)
        /\ \A i \in 1..Len(s) : v[i] = u[i]
    BY <1>1, <1>3
  <2>2. v = [i \in 1..(Len(s) + 1) |-> v[i]]
    <3> HIDE DEF v, A
    <3>1. v \in [1..Len(v) -> A]
      BY <2>1
    <3> QED BY <2>1, <3>1
  <2>3. \A i \in 1..(Len(s) + 1) : v[i] = IF i <= Len(s) THEN u[i] ELSE Accepted(r)
    <3> HIDE DEF v
    <3> QED BY <1>1, <2>1
  <2> HIDE DEF v
  <2>4. v = [i \in 1..(Len(s) + 1) |-> IF i <= Len(s) THEN u[i] ELSE Accepted(r)]
    BY <2>2, <2>3
  <2> QED BY <2>4 DEF v
<1>5. AsAccepted(t) = [i \in 1..(Len(s) + 1) |-> Accepted(t[i])]
  BY <1>1 DEF AsAccepted
<1>6. \A i \in 1..(Len(s) + 1) : Accepted(t[i]) = IF i <= Len(s) THEN u[i] ELSE Accepted(r)
  BY <1>1, <1>2
<1> HIDE DEF t, u
<1>7. AsAccepted(t) = Append(u, Accepted(r))
  BY <1>4, <1>5, <1>6
<1> QED BY <1>7 DEF t, u

\* A step that moves the session is one of SocksSession.
LEMMA MovesAreSessionSteps ==
    ASSUME Inv, Inv', Running, answers' = answers, Moves
    PROVE  [Session!Next]_<<SessionOf(conn), AsAccepted(answers), conn.origin = "up">>
<1>1. conn \in Conns /\ conn' \in Conns /\ conn.state \in States
  BY Fields DEF Inv, Good
<1>2. SessionOf(conn) \in {"hello", "auth", "request"}
  BY <1>1, Sessions DEF Running, States, ReadState, Ended
<1>3. CASE conn'.state \in Ended
  <2>1. SessionOf(conn') = "closed"
    BY <1>1, <1>3, Sessions
  <2>2. (conn'.origin = "up") \in BOOLEAN
    OBVIOUS
  <2>3. Session!Close
    BY <1>2, <2>1, <2>2 DEF Session!Close
  <2> QED BY <2>3 DEF Session!Next
<1>4. CASE SessionOf(conn') = SessionOf(conn) /\ (conn'.origin = conn.origin \/ SessionOf(conn) = "request")
  <2>1. CASE (conn'.origin = "up") = (conn.origin = "up")
    BY <1>4, <2>1
  <2>2. CASE (conn'.origin = "up") # (conn.origin = "up")
    <3>1. SessionOf(conn) = "request" /\ (conn'.origin = "up") = ~(conn.origin = "up")
      BY <1>4, <2>2
    <3>2. Session!Reach
      BY <1>4, <3>1 DEF Session!Reach
    <3> QED BY <3>2 DEF Session!Next
  <2> QED BY <2>1, <2>2
<1> QED BY <1>3, <1>4 DEF Moves

\* So is a step that ends a reply.
LEMMA RepliesAreSessionSteps ==
    ASSUME Inv, Inv', Replied
    PROVE  Session!Next
<1>1. /\ conn \in Conns /\ conn' \in Conns /\ conn.auth \in Methods
      /\ (conn'.origin = "up") = (conn.origin = "up")
      /\ AsAccepted(answers') = Append(AsAccepted(answers), Accepted(conn.reply))
  BY Fields, AcceptedOneByOne DEF Inv, Good, Replied, TypeOK
<1>2. CASE conn.state = "HELLO_WRITE"
  <2>1. SessionOf(conn) = "hello" /\ Accepted(conn.reply) = <<"hello", conn.auth>>
    BY <1>1, <1>2, Sessions DEF Replied, Accepted
  <2>2. /\ conn.auth = "NO_AUTH"    => SessionOf(conn') = "request"
        /\ conn.auth = "USER_PASS"  => SessionOf(conn') = "auth"
        /\ conn.auth = "NO_METHODS" => SessionOf(conn') = "closed"
    BY <1>1, <1>2, Sessions DEF Replied, Ended
  <2>3. SessionOf(conn') = CASE conn.auth = "NO_AUTH"   -> "request"
                             [] conn.auth = "USER_PASS" -> "auth"
                             [] OTHER                   -> "closed"
    BY <1>1, <2>2 DEF Methods
  <2>4. Session!Greet
    BY <1>1, <2>1, <2>3 DEF Session!Greet
  <2> QED BY <2>4 DEF Session!Next
<1>3. CASE conn.state = "AUTH_WRITE"
  <2>1. Accepted(conn.reply) = <<"auth", TRUE>>
    BY <1>3 DEF Replied, Accepted
  <2>2. SessionOf(conn) = "auth" /\ SessionOf(conn') = "request"
    BY <1>1, <1>3, Sessions DEF Replied
  <2>3. Session!Authenticate
    BY <1>1, <2>1, <2>2 DEF Session!Authenticate
  <2> QED BY <2>3 DEF Session!Next
<1>4. CASE conn.state = "REQ_WRITE"
  <2>1. PICK code \in Codes : conn.reply = <<"req", code>>
    BY <1>4 DEF Replied
  <2>2. /\ code = "SUCCESS" => conn.origin = "up"
        /\ conn'.state = IF code = "SUCCESS" THEN "COPY" ELSE "DONE"
    BY <1>4, <2>1 DEF Replied
  <2>3. /\ SessionOf(conn) = "request"
        /\ SessionOf(conn') = IF code = "SUCCESS" THEN "relay" ELSE "closed"
    BY <1>1, <1>4, <2>2, Sessions DEF Ended
  <2>4. Accepted(conn.reply) = <<"req", code>>
    BY <2>1 DEF Accepted
  <2>5. Session!Answer
    BY <1>1, <2>2, <2>3, <2>4 DEF Session!Answer
  <2> QED BY <2>5 DEF Session!Next
<1> QED BY <1>2, <1>3, <1>4 DEF Replied

\* The handshake implements what a client is promised: one whole answer to
\* each message in the order of the protocol, and success only for an origin
\* that was reached; except that the verdict on a login is read as accepted,
\* because the code goes on after a refusal too (RelaysOnlyForUsers).
THEOREM HandshakeImplementsSession == Spec => FollowsProtocol
<1>1. Init => Session!Init
  <2> SUFFICES ASSUME Init PROVE Session!Init
    OBVIOUS
  <2>1. conn.state = "HELLO_READ" /\ conn.origin = "none" /\ conn \in Conns
    BY InvInit DEF Init, new_socks_conn, Inv, Good
  <2>2. SessionOf(conn) = "hello"
    BY <2>1, Sessions
  <2>3. AsAccepted(answers) = <<>>
    BY DEF Init, AsAccepted
  <2> QED BY <2>1, <2>2, <2>3 DEF Session!Init
<1>2. Inv /\ Inv' /\ [Next]_vars =>
        [Session!Next]_<<SessionOf(conn), AsAccepted(answers), conn.origin = "up">>
  <2>1. ASSUME Inv, Inv', Next
        PROVE  [Session!Next]_<<SessionOf(conn), AsAccepted(answers), conn.origin = "up">>
    <3>1. Replied \/ (answers' = answers /\ Moves)
      BY <2>1, StepKeepsInv
    <3>2. Running
      BY <2>1 DEF Next
    <3> QED BY <2>1, <3>1, <3>2, MovesAreSessionSteps, RepliesAreSessionSteps
  <2>2. UNCHANGED vars => UNCHANGED <<SessionOf(conn), AsAccepted(answers), conn.origin = "up">>
    BY DEF vars, SessionOf, AsAccepted
  <2> QED BY <2>1, <2>2
<1> QED BY <1>1, <1>2, InvAlways, PTL DEF Spec, FollowsProtocol, Session!Spec
=============================================================================
