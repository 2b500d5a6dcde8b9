------------------------------- MODULE Relay -------------------------------
(***************************************************************************)
(* The COPY state of one SOCKS connection (socks5.c) together with the     *)
(* part of selector.c that drives it and the two TCP peers it relays       *)
(* between.  CLI is the client, SRC the origin server.                     *)
(*                                                                         *)
(* Bytes are counted, not stored: every stream is numbered from 1, the     *)
(* relay takes bytes of a stream in order (taken) and hands them on in     *)
(* order (given), and DirectBuffer shows that a buffer is a FIFO queue.    *)
(***************************************************************************)
EXTENDS BufferOps, FiniteSets

CONSTANTS
    MaxSend,    \* bound: bytes a peer ever sends
    Early,      \* client bytes that arrived together with the request
    Spurious,   \* may select() announce a descriptor that then blocks?
    Low         \* the side whose descriptor has the lower number

CLI  == "CLI"
SRC  == "SRC"
Side == {CLI, SRC}
Other(x) == IF x = CLI THEN SRC ELSE CLI

OP_READ  == "read"
OP_WRITE == "write"
Interest == {OP_READ, OP_WRITE}
OP_NOOP  == {}

ASSUME RelayAssumption ==
    /\ MaxSend \in Nat
    /\ Early \in Nat
    /\ Early < Limit            \* the request itself took at least one byte
    /\ Spurious \in BOOLEAN
    /\ Low \in Side

VARIABLES
    state,          \* what the last handler returned: COPY, DONE or ERROR
    alive,          \* the process: SIGPIPE has its default disposition
    errno,          \* "EAGAIN", or anything else as "other"
    \* struct copy_model_t of each side; write_buff is what it receives into,
    \* and the read_buff it sends from is the write_buff of the other side.
    interests, int_connection, write_buff,
    \* selector: registered interest and what is left of slave_r and slave_w.
    item, slave,
    \* the kernel's view of each peer and socket
    sent, fin, rst, sockerr, room, shut_rd, shut_wr,
    \* bytes received from a side, bytes accepted by the socket of a side
    taken, given

copyVars == <<interests, int_connection, write_buff>>
peerVars == <<sent, fin, rst>>
sockVars == <<sockerr, room, shut_rd, shut_wr>>
vars == <<state, alive, errno, copyVars, item, slave, peerVars, sockVars,
          taken, given>>

read_buff(x) == write_buff[Other(x)]

Running == alive /\ state = "COPY"

TypeOK ==
    /\ state \in {"COPY", "DONE", "ERROR"}
    /\ alive \in BOOLEAN
    /\ errno \in {"EAGAIN", "other"}
    /\ interests \in [Side -> SUBSET Interest]
    /\ int_connection \in [Side -> SUBSET Interest]
    /\ write_buff \in [Side -> Pointers]
    /\ \A x \in Side : WellFormed(write_buff[x]) /\ Compacted(write_buff[x])
    /\ item \in [Side -> SUBSET Interest]
    /\ slave \in SUBSET (Side \X Interest)
    /\ sent \in [Side -> 0..MaxSend]
    /\ fin \in [Side -> BOOLEAN]
    /\ rst \in [Side -> BOOLEAN]
    /\ sockerr \in [Side -> {"none", "ECONNRESET", "EPIPE"}]
    /\ room \in [Side -> BOOLEAN]
    /\ shut_rd \in [Side -> BOOLEAN]
    /\ shut_wr \in [Side -> BOOLEAN]
    /\ taken \in [Side -> 0..MaxSend]
    /\ given \in [Side -> Nat]
    /\ \A x \in Side : taken[x] <= sent[x]

\* Mutants: the form a plausible bug would give to the definition each is named
\* for.  PROJECT.json says which property refutes it.
StreamEnds_OneSide(x) == [int_connection EXCEPT ![x] = @ \ {OP_READ}]
NothingPending_Assumed(x) == TRUE

\* req_write returns COPY with both descriptors on OP_READ and copy_on_arrival
\* fills the two structures.  Bytes the client sent behind its request are
\* still in buffers.read_buff, the buffer the origin side receives into, at
\* the place r where the parsers stopped: they may reach its very end.
init_copy_structure ==
    /\ interests = [x \in Side |-> {OP_READ}]
    /\ int_connection = [x \in Side |-> {OP_READ, OP_WRITE}]
    /\ \E r \in 1..(Limit - Early) :
          write_buff = [x \in Side |->
             IF x = SRC /\ Early > 0 THEN [read |-> r, write |-> r + Early]
                                     ELSE buffer_reset]

Init ==
    /\ state = "COPY" /\ alive = TRUE /\ errno = "other"
    /\ init_copy_structure
    /\ item = [x \in Side |-> {OP_READ}]
    /\ slave = {}
    /\ sent = [x \in Side |-> 0]
    /\ taken = [x \in Side |-> 0]
    /\ given = [x \in Side |-> 0]
    /\ fin = [x \in Side |-> FALSE]
    /\ rst = [x \in Side |-> FALSE]
    /\ sockerr = [x \in Side |-> "none"]
    /\ room = [x \in Side |-> TRUE]
    /\ shut_rd = [x \in Side |-> FALSE]
    /\ shut_wr = [x \in Side |-> FALSE]

-----------------------------------------------------------------------------
(* The peers and the other connections of the process. *)

PeerSend(x) ==
    /\ ~fin[x] /\ ~rst[x] /\ sent[x] < MaxSend
    /\ sent' = [sent EXCEPT ![x] = @ + 1]
    /\ UNCHANGED <<state, alive, errno, copyVars, item, slave, fin, rst,
                   sockVars, taken, given>>

PeerFin(x) ==
    /\ ~fin[x] /\ ~rst[x]
    /\ fin' = [fin EXCEPT ![x] = TRUE]
    /\ UNCHANGED <<state, alive, errno, copyVars, item, slave, sent, rst,
                   sockVars, taken, given>>

\* A reset leaves EPIPE on a socket that had received a FIN, else ECONNRESET.
PeerReset(x) ==
    /\ ~rst[x]
    /\ rst' = [rst EXCEPT ![x] = TRUE]
    /\ sockerr' = [sockerr EXCEPT ![x] = IF fin[x] THEN "EPIPE" ELSE "ECONNRESET"]
    /\ UNCHANGED <<state, alive, errno, copyVars, item, slave, sent, fin,
                   room, shut_rd, shut_wr, taken, given>>

PeerDrain(x) ==
    /\ ~room[x]
    /\ room' = [room EXCEPT ![x] = TRUE]
    /\ UNCHANGED <<state, alive, errno, copyVars, item, slave, peerVars,
                   sockerr, shut_rd, shut_wr, taken, given>>

\* errno is one variable for every connection the selector thread serves.
ErrnoOfOthers ==
    /\ Spurious
    /\ errno' \in {"EAGAIN", "other"}
    /\ UNCHANGED <<state, alive, copyVars, item, slave, peerVars, sockVars,
                   taken, given>>

-----------------------------------------------------------------------------
(* selector_select and handle_iteration. *)

Available(x) == sent[x] - taken[x]
EndOfStream(x) == Available(x) = 0 /\ (fin[x] \/ rst[x] \/ shut_rd[x])
Readable(x) == Available(x) > 0 \/ EndOfStream(x)
Writable(x) == room[x] \/ rst[x] \/ shut_wr[x]

Watched == {e \in Side \X Interest : e[2] \in item[e[1]]}
ReadyNow == {e \in Watched : IF e[2] = OP_READ THEN Readable(e[1])
                                               ELSE Writable(e[1])}

selector_select ==
    /\ Running /\ slave = {}
    /\ slave' \in SUBSET Watched
    /\ slave' # {}
    /\ ReadyNow \subseteq slave'
    /\ Spurious \/ slave' = ReadyNow
    /\ UNCHANGED <<state, alive, errno, copyVars, item, peerVars, sockVars,
                   taken, given>>

\* Descriptors are visited in increasing order, reading before writing.
Turn(x, op) ==
    /\ Running
    /\ <<x, op>> \in slave
    /\ x # Low => \A o \in Interest : <<Low, o>> \notin slave
    /\ op = OP_WRITE => <<x, OP_READ>> \notin slave
    /\ slave' = slave \ {<<x, op>>}

\* An earlier handler of this iteration withdrew the interest.
Skip(x, op) ==
    /\ Turn(x, op)
    /\ op \notin item[x]
    /\ UNCHANGED <<state, alive, errno, copyVars, item, peerVars, sockVars,
                   taken, given>>

Handle(x, op) == Turn(x, op) /\ op \in item[x]

-----------------------------------------------------------------------------
(* copy_read: the alternatives of one call, by what recv returns. *)

MinOf(a, b) == IF a <= b THEN a ELSE b


\* No space left: stop reading from x until copy_write makes room.
ReadPause(x) ==
    /\ Handle(x, OP_READ)
    /\ ~buffer_can_write(write_buff[x])
    /\ interests' = [interests EXCEPT ![x] = (@ \cap {OP_WRITE}) \cap int_connection[x]]
    /\ item' = [item EXCEPT ![x] = interests'[x]]
    /\ UNCHANGED <<state, alive, errno, int_connection, write_buff, peerVars,
                   sockVars, taken, given>>

\* recv gave -1 with EAGAIN, or gave 0 while errno was still EAGAIN.
ReadAgain(x) ==
    /\ Handle(x, OP_READ)
    /\ buffer_can_write(write_buff[x])
    /\ \/ ~Readable(x) /\ errno' = "EAGAIN"
       \/ EndOfStream(x) /\ sockerr[x] # "ECONNRESET" /\ errno = "EAGAIN"
          /\ UNCHANGED errno
    /\ UNCHANGED <<state, alive, copyVars, item, peerVars, sockVars, taken, given>>

ReadBytes(x) ==
    LET y == Other(x)
        n == MinOf(Available(x), WriteSpace(write_buff[x]))
    IN  /\ Handle(x, OP_READ)
        /\ buffer_can_write(write_buff[x])
        /\ Available(x) > 0
        /\ taken' = [taken EXCEPT ![x] = @ + n]
        /\ write_buff' = [write_buff EXCEPT ![x] = buffer_write_adv(@, n)]
        /\ interests' = [interests EXCEPT ![y] = (@ \cup {OP_WRITE}) \cap int_connection[y]]
        /\ item' = [item EXCEPT ![y] = interests'[y]]
        /\ UNCHANGED <<state, alive, errno, int_connection, peerVars, sockVars, given>>

\* The stream from x has ended: x is not read any more, and what is pending is
\* the last that the other side is sent.
StreamEnds(x) ==
    [int_connection EXCEPT ![x] = @ \ {OP_READ}, ![Other(x)] = @ \cap {OP_READ}]

NothingPending(x) == ~buffer_can_read(write_buff[x])

\* recv gave 0, or -1 with an error other than EAGAIN.
ReadEnd(x) ==
    LET y == Other(x)
        conn == StreamEnds(x)
        drained == NothingPending(x)
        mine == [interests EXCEPT ![x] = @ \cap conn[x]]
    IN  /\ Handle(x, OP_READ)
        /\ buffer_can_write(write_buff[x])
        /\ EndOfStream(x)
        /\ IF sockerr[x] = "ECONNRESET"
             THEN errno' = "other" /\ sockerr' = [sockerr EXCEPT ![x] = "none"]
             ELSE errno = "other" /\ UNCHANGED <<errno, sockerr>>
        /\ int_connection' = conn
        /\ interests' = IF drained THEN [mine EXCEPT ![y] = @ \cap conn[y]] ELSE mine
        /\ item' = IF drained THEN [item EXCEPT ![x] = interests'[x], ![y] = interests'[y]]
                              ELSE [item EXCEPT ![x] = interests'[x]]
        /\ shut_rd' = [shut_rd EXCEPT ![x] = TRUE]
        /\ shut_wr' = IF drained THEN [shut_wr EXCEPT ![y] = TRUE] ELSE shut_wr
        /\ state' = IF conn[x] = OP_NOOP /\ conn[y] = OP_NOOP THEN "DONE" ELSE "COPY"
        /\ UNCHANGED <<alive, write_buff, peerVars, room, taken, given>>

copy_read(x) == ReadPause(x) \/ ReadAgain(x) \/ ReadBytes(x) \/ ReadEnd(x)

-----------------------------------------------------------------------------
(* copy_write: the alternatives of one call, by what send does. *)

Broken(x) == rst[x] \/ shut_wr[x]

WriteAgain(x) ==
    /\ Handle(x, OP_WRITE)
    /\ ~Broken(x) /\ ~room[x]
    /\ errno' = "EAGAIN"
    /\ UNCHANGED <<state, alive, copyVars, item, peerVars, sockVars, taken, given>>

\* send reports the error the reset left; the state machine closes everything.
WriteError(x) ==
    /\ Handle(x, OP_WRITE)
    /\ sockerr[x] = "ECONNRESET"
    /\ sockerr' = [sockerr EXCEPT ![x] = "none"]
    /\ errno' = "other"
    /\ state' = "ERROR"
    /\ UNCHANGED <<alive, copyVars, item, peerVars, room, shut_rd, shut_wr,
                   taken, given>>

\* EPIPE without MSG_NOSIGNAL: the signal ends the whole server.
WriteSigpipe(x) ==
    /\ Handle(x, OP_WRITE)
    /\ Broken(x) /\ sockerr[x] # "ECONNRESET"
    /\ alive' = FALSE
    /\ UNCHANGED <<state, errno, copyVars, item, peerVars, sockVars, taken, given>>

\* A short count means that the socket has no more room.
WriteBytes(x) ==
    LET y == Other(x)
    IN  /\ Handle(x, OP_WRITE)
        /\ ~Broken(x) /\ room[x]
        /\ \E n \in MinOf(1, Pending(read_buff(x)))..Pending(read_buff(x)) :
             LET left == buffer_read_adv(read_buff(x), n)
                 drained == ~buffer_can_read(left)
                 resumed == [interests EXCEPT ![y] = (@ \cup {OP_READ}) \cap int_connection[y]]
             IN  /\ given' = [given EXCEPT ![x] = @ + n]
                 /\ write_buff' = [write_buff EXCEPT ![y] = left]
                 /\ interests' = IF drained
                      THEN [resumed EXCEPT ![x] = (@ \cap {OP_READ}) \cap int_connection[x]]
                      ELSE resumed
                 /\ item' = IF drained
                      THEN [item EXCEPT ![x] = interests'[x], ![y] = interests'[y]]
                      ELSE [item EXCEPT ![y] = interests'[y]]
                 /\ shut_wr' = [shut_wr EXCEPT
                      ![x] = @ \/ (drained /\ OP_WRITE \notin int_connection[x])]
                 /\ IF drained THEN room' \in {room, [room EXCEPT ![x] = FALSE]}
                               ELSE room' = [room EXCEPT ![x] = FALSE]
        /\ UNCHANGED <<state, alive, errno, int_connection, peerVars, sockerr,
                       shut_rd, taken>>

copy_write(x) == WriteAgain(x) \/ WriteError(x) \/ WriteSigpipe(x) \/ WriteBytes(x)

-----------------------------------------------------------------------------

handle_iteration(x) ==
    \/ \E op \in Interest : Skip(x, op)
    \/ copy_read(x)
    \/ copy_write(x)

\* Once the connection is gone nobody watches what the peers do.
Environment ==
    /\ Running
    /\ \/ \E x \in Side : PeerSend(x) \/ PeerFin(x) \/ PeerReset(x) \/ PeerDrain(x)
       \/ ErrnoOfOthers

Next == Environment \/ selector_select \/ \E x \in Side : handle_iteration(x)

Spec == Init /\ [][Next]_vars

\* start_server never leaves its loop, handle_iteration visits every ready
\* descriptor, and a peer that stays connected goes on reading.
Fairness ==
    /\ WF_vars(selector_select)
    /\ \A x \in Side : WF_vars(handle_iteration(x)) /\ WF_vars(PeerDrain(x))

FairSpec == Spec /\ Fairness

-----------------------------------------------------------------------------
(* Properties. *)

\* The selector watches exactly what the copy structures say: no path of
\* copy_read or copy_write changes an interest and forgets to register it.
SelectorInSync == Running => item = interests

\* The bytes behind the request fill the buffer the origin is received into
\* up to its end, and nothing was received from the origin yet.  The first
\* copy_read of the origin then pauses it, and only a copy_write of the client
\* would resume it, which nothing schedules: what the origin answers is never
\* read.  Once the client has ended its stream too, the connection is
\* registered for nothing and is never closed.
Wedged == taken[SRC] = 0 /\ ~buffer_can_write(write_buff[SRC])

\* A side that could still send but is not being read is waiting for room
\* that somebody will make: its buffer is not empty and the other side is
\* registered for writing, so a later copy_write turns reading on again.  The
\* one reader for whom nobody will is an origin whose buffer is Wedged.
PausedReadersResume ==
    Running => \A x \in Side :
        (OP_READ \in int_connection[x] /\ OP_READ \notin item[x]) =>
            \/ /\ buffer_can_read(write_buff[x])
               /\ OP_WRITE \in item[Other(x)]
            \/ x = SRC /\ Wedged

\* Bytes that wait for a side whose write half is open are scheduled: that
\* side is registered for writing.  (Bytes behind the request, Early, are
\* not: nothing schedules them until the origin answers.)
PendingIsScheduled ==
    Running => \A x \in Side :
        (buffer_can_read(write_buff[x]) /\ taken[x] > 0
            /\ OP_WRITE \in int_connection[Other(x)])
          => OP_WRITE \in item[Other(x)]

\* A descriptor is registered for writing only once something was received
\* from the other side, which is why nobody sends the bytes behind a request
\* of which the buffer is Wedged.
NothingToWriteYet ==
    Running => \A x \in Side : taken[x] = 0 => OP_WRITE \notin item[Other(x)]

\* A connection that is being relayed is always known to the selector with
\* some interest: no event order leaves it registered for nothing, where
\* no event could ever reach it again, but for the one way in which it does
\* get there: a Wedged origin of whose client the stream has ended.
NeverOrphaned ==
    Running => \/ \E x \in Side : item[x] # OP_NOOP
               \/ Wedged /\ OP_READ \notin int_connection[CLI]

\* The two structures tell one story: a side may be written to exactly while
\* the other one may still be read, the relay asks to read only where it may,
\* and a connection with both streams ended has left COPY.
ConnectionBitsAgree ==
    Running =>
        /\ \A x \in Side :
             /\ OP_WRITE \in int_connection[x] <=> OP_READ \in int_connection[Other(x)]
             /\ OP_READ \in interests[x] => OP_READ \in int_connection[x]
        /\ \E x \in Side : OP_READ \in int_connection[x]

EarlyBytes(x) == IF x = SRC THEN Early ELSE 0

\* Nothing is lost, duplicated or counted twice on the way: what was received
\* from a side and not yet handed to the other one is what its buffer holds.
BytesConserved ==
    Running => \A x \in Side :
        Pending(write_buff[x]) = taken[x] + EarlyBytes(x) - given[Other(x)]

\* The end of one stream is announced to the other side only after its last
\* byte, and after that announcement the relay never writes there again.
HalfCloseAfterDrain ==
    Running => \A x \in Side :
        shut_wr[Other(x)] =>
            /\ OP_READ \notin int_connection[x]
            /\ ~buffer_can_read(write_buff[x])
            /\ OP_WRITE \notin item[Other(x)]

\* What the report calls relaying transparently: a connection that ends with
\* DONE has delivered everything it received.
DoneIsDrained ==
    state = "DONE" => \A x \in Side : ~buffer_can_read(write_buff[x])

Closed == ~Running


\* When both peers have finished, the connection is closed; unless errno held
\* EAGAIN, left by another handler, in which case copy_read may take the end of
\* a stream for an empty socket, and unless the origin is Wedged, whose end is
\* never read.
ClosesWhenBothEnd ==
    (\A x \in Side : fin[x] \/ rst[x]) ~> (Closed \/ errno = "EAGAIN" \/ Wedged)
=============================================================================
