------------------------------- MODULE Server -------------------------------
(***************************************************************************)
(* The descriptors of the server: the table of the kernel, the table of    *)
(* the selector, and the numbers the connections keep (server.c,           *)
(* selector.c, and what the handlers of socks5.c do with descriptors).     *)
(*                                                                         *)
(* accept and socket take the lowest free number.  Descriptors 1 and 2     *)
(* never change and are left out, so that the listeners have the first     *)
(* numbers, from 0: main closes descriptor 0 before it opens them.  What a *)
(* handler decides, modules SocksConn and Relay say; here it may decide    *)
(* any of it, and any watched descriptor may be ready.  Management         *)
(* connections are not modelled.                                           *)
(***************************************************************************)
EXTENDS Integers, FiniteSets

CONSTANTS
    Conn,           \* bound: connections at a time, the blocks malloc hands out
    MaxFd,          \* the limit of the process on descriptors
    Listeners,      \* listening sockets, for IPv4 and IPv6
    FdLimit,        \* ITEMS_MAX_SIZE: the selector registers what is below
    MaxAccept,      \* bound: calls of accept
    Free, Listener  \* owners of descriptors that are not connections

CLI  == "CLI"
SRC  == "SRC"
Side == {CLI, SRC}

OP_READ  == "read"
OP_WRITE == "write"
Interest == {OP_READ, OP_WRITE}
OP_NOOP  == {}

FD == 0..MaxFd

ASSUME ServerAssumption ==
    /\ MaxFd \in Nat /\ MaxAccept \in Nat
    /\ Listeners \in 1..MaxFd
    /\ FdLimit \in Listeners..(MaxFd + 1)
    /\ Free \notin Conn /\ Listener \notin Conn /\ Free # Listener

\* The states of socks5.c, as one where they treat descriptors alike: the
\* states before the request are READING or WRITING, REQ_WRITE is REFUSED or
\* ACCEPTED by its reply.
States == {"FREE", "READING", "WRITING", "REQ_DNS", "REQ_CONNECT", "REFUSED",
           "ACCEPTED", "COPY"}

Owners == Conn \cup {Listener, Free}

VARIABLES
    \* the process:
    \*   file      kernel: who opened the file behind a descriptor, or Free
    \*   owner     selector: whose data an item has; Free if it is unused
    \*   interest  selector: the interest of an item
    \*   sock      cli_conn->socket and src_conn->socket of a connection
    \*   state     of its state machine; "FREE" before it is allocated
    \*   thread    the descriptor its DNS thread was given, or -1
    \*   current   the metric
    sys,
    jobs,           \* resolution_jobs: a descriptor, and (ghost) whose thread sent it
    phase, slave,   \* selector_select: waiting, visiting the events left in
                    \* slave, or going through resolution_jobs
    accepts,        \* ghost: calls of accept
    alive           \* abort and the calls of a null handler end the process

vars == <<sys, jobs, phase, slave, accepts, alive>>

SysType ==
    [file : [FD -> Owners], owner : [FD -> Owners], interest : [FD -> SUBSET Interest],
     sock : [Conn -> [Side -> FD \cup {-1}]], state : [Conn -> States],
     thread : [Conn -> FD \cup {-1}], current : Int]

TypeOK ==
    /\ sys \in SysType
    /\ jobs \subseteq FD \X Conn
    /\ phase \in {"wait", "dispatch", "notify"}
    /\ slave \subseteq FD \X Interest
    /\ accepts \in 0..MaxAccept
    /\ alive \in BOOLEAN

\* start_server: every listener is open and registered.
Init ==
    LET listening == [f \in FD |-> IF f < Listeners THEN Listener ELSE Free]
    IN  sys = [file |-> listening, owner |-> listening,
               interest |-> [f \in FD |-> IF f < Listeners THEN {OP_READ} ELSE OP_NOOP],
               sock |-> [c \in Conn |-> [x \in Side |-> -1]],
               state |-> [c \in Conn |-> "FREE"],
               thread |-> [c \in Conn |-> -1], current |-> 0]
        /\ jobs = {} /\ phase = "wait" /\ slave = {} /\ accepts = 0 /\ alive = TRUE

-----------------------------------------------------------------------------
(* Descriptors. *)

FreeFds(s) == {f \in FD : s.file[f] = Free}
Lowest(s) == CHOOSE f \in FreeFds(s) : \A g \in FreeFds(s) : f <= g

\* Mutants: the form a plausible bug would give to the definition each is named
\* for.  PROJECT.json says which property refutes it.
Release_StillRegistered(s, f) ==
    IF f \in FD THEN [s EXCEPT !.file[f] = Free] ELSE s

close_socks_conn_NotFreed(s, c) ==
    [s EXCEPT !.state[c] = "DONE", !.sock[c] = [x \in Side |-> -1]]

\* selector_unregister_fd without use_close, then close.  Neither complains of
\* a descriptor that is not there.
Release(s, f) ==
    IF f \in FD
      THEN [s EXCEPT !.owner[f] = Free, !.interest[f] = OP_NOOP, !.file[f] = Free]
      ELSE s

Registered(s, f) == f \in FD /\ s.owner[f] # Free

\* selector_set_interest; its failure is the caller's Registered.
SetInterest(s, f, i) ==
    IF Registered(s, f) THEN [s EXCEPT !.interest[f] = i] ELSE s

\* selector_register of a descriptor that suits it, and the next state.
Register(s, c, x, f, i) ==
    [s EXCEPT !.owner[f] = c, !.interest[f] = i, !.state[c] = x]

\* A handler sets an interest and returns its next state.
Goto(s, c, x, f, i) == [SetInterest(s, f, i) EXCEPT !.state[c] = x]

\* Mutant: the metric is forgotten.
close_socks_conn_NotCounted(s, c) ==
    LET b == Release(Release(s, s.sock[c][SRC]), s.sock[c][CLI])
    IN  [b EXCEPT !.state[c] = "FREE", !.sock[c] = [x \in Side |-> -1]]

\* The numbers are closed whoever has them now.
close_socks_conn(s, c) ==
    LET cli == s.sock[c][CLI]
        src == s.sock[c][SRC]
        a == IF src # -1 THEN Release(s, src) ELSE s
        b == IF cli # -1 THEN [Release(a, cli) EXCEPT !.current = @ - 1] ELSE a
    IN  [b EXCEPT !.state[c] = "FREE", !.sock[c] = [x \in Side |-> -1]]

-----------------------------------------------------------------------------
(* What the handlers do with descriptors. *)

manage_req_error(s, c) ==
    IF Registered(s, s.sock[c][CLI])
      THEN Goto(s, c, "REFUSED", s.sock[c][CLI], {OP_WRITE})
      ELSE close_socks_conn(s, c)

\* socket() fails; connect() fails at once; or it is in progress, if both
\* descriptors suit the selector.
init_connection(s, c) ==
    IF FreeFds(s) = {} THEN {close_socks_conn([s EXCEPT !.sock[c][SRC] = -1], c)}
    ELSE LET f == Lowest(s)
             opened == [s EXCEPT !.file[f] = c, !.sock[c][SRC] = f]
             silent == SetInterest(opened, s.sock[c][CLI], OP_NOOP)
         IN  {manage_req_error(opened, c),
              IF Registered(s, s.sock[c][CLI]) /\ f < FdLimit /\ ~Registered(silent, f)
                THEN Register(silent, c, "REQ_CONNECT", f, {OP_WRITE})
                ELSE close_socks_conn(opened, c)}

req_dns(s, c) == {manage_req_error(s, c), close_socks_conn(s, c)} \cup init_connection(s, c)

\* hello_read, auth_read and req_read.
Reading(s, c, f) ==
    {s, close_socks_conn(s, c), manage_req_error(s, c),
     Goto(s, c, "WRITING", f, {OP_WRITE}),
     [Goto(s, c, "REQ_DNS", f, OP_NOOP) EXCEPT !.thread[c] = f]}
    \cup init_connection(s, c)

\* hello_write and auth_write.
Writing(s, c, f) ==
    {s, close_socks_conn(s, c),
     Goto(s, c, "READING", f, {OP_READ})}

\* Mutant: the next address is tried before the last descriptor is closed.
req_connect_KeepsOld(s, c, f) == {manage_req_error(s, c)} \cup req_dns(s, c)

\* The connection is made; or it failed, for an address or for a name.
req_connect(s, c, f) ==
    LET cli == s.sock[c][CLI]
    IN  {IF Registered(s, cli)
           THEN Goto(SetInterest(s, f, OP_NOOP), c, "ACCEPTED", cli, {OP_WRITE})
           ELSE close_socks_conn(s, c),
         manage_req_error(s, c)}
        \cup req_dns(Release(s, s.sock[c][SRC]), c)

req_write(s, c, f) ==
    LET src == s.sock[c][SRC]
    IN  {s, close_socks_conn(s, c)}
        \cup IF s.state[c] = "ACCEPTED" /\ Registered(s, src)
               THEN {Goto(SetInterest(s, f, {OP_READ}), c, "COPY", src, {OP_READ})} ELSE {}

\* copy_read and copy_write: any interests but none at all (module Relay).
copy(s, c) ==
    {close_socks_conn(s, c)} \cup
    {SetInterest(SetInterest(s, s.sock[c][CLI], i[1]), s.sock[c][SRC], i[2]) :
        i \in ((SUBSET Interest) \X (SUBSET Interest)) \ {<<OP_NOOP, OP_NOOP>>}}

Handlers(op) == IF op = OP_READ THEN {"READING", "COPY"}
                ELSE {"WRITING", "REQ_CONNECT", "REFUSED", "ACCEPTED", "COPY"}

Handler(s, c, f) ==
    CASE s.state[c] = "READING"     -> Reading(s, c, f)
      [] s.state[c] = "WRITING"     -> Writing(s, c, f)
      [] s.state[c] = "REQ_CONNECT" -> req_connect(s, c, f)
      [] s.state[c] = "COPY"        -> copy(s, c)
      [] OTHER                      -> req_write(s, c, f)

-----------------------------------------------------------------------------
(* The selector.  An event is a descriptor and what it is ready for. *)

Watched == {e \in FD \X Interest : e[2] \in sys.interest[e[1]]}

\* pselect returns with events, or interrupted by the signal of a thread.
selector_select ==
    /\ phase = "wait" /\ alive
    /\ \E ready \in SUBSET Watched :
         /\ ready # {} \/ jobs # {}
         /\ slave' = ready
    /\ phase' = "dispatch"
    /\ UNCHANGED <<sys, jobs, accepts, alive>>

\* handle_iteration visits descriptors in order, reading before writing.
Turn(e) ==
    /\ phase = "dispatch" /\ alive /\ e \in slave
    /\ \A o \in slave : e[1] < o[1] \/ (e[1] = o[1] /\ e[2] = OP_READ) \/ o = e
    /\ slave' = slave \ {e}

Delivers(e) == e[2] \in sys.interest[e[1]]

Skip(e) ==
    /\ Turn(e) /\ ~Delivers(e)
    /\ UNCHANGED <<sys, jobs, phase, accepts, alive>>

\* new_socks_conn: all zeros but the state, so that src_conn->socket is
\* descriptor 0; and what accept gives it.
Blank(s, c, f) ==
    [s EXCEPT !.sock[c] = [x \in Side |-> IF x = CLI THEN f ELSE 0], !.state[c] = "READING"]

\* accept fails; the selector cannot register what it gave; or it can.
Accepted(s, c, f) ==
    LET opened == [Blank(s, c, f) EXCEPT !.file[f] = c]
    IN  IF f < FdLimit /\ ~Registered(s, f)
          THEN [Register(opened, c, "READING", f, {OP_READ}) EXCEPT !.current = @ + 1]
          ELSE close_socks_conn(opened, c)

passive_socks_socket_handler(e) ==
    /\ Turn(e) /\ Delivers(e) /\ sys.owner[e[1]] = Listener
    /\ accepts < MaxAccept /\ accepts' = accepts + 1
    /\ \E c \in {d \in Conn : sys.state[d] = "FREE" /\ sys.thread[d] = -1} :
         \/ sys' = close_socks_conn(Blank(sys, c, -1), c)
         \/ /\ FreeFds(sys) # {}
            /\ sys' = Accepted(sys, c, Lowest(sys))
    /\ UNCHANGED <<jobs, phase, alive>>

\* socks_conn_read and socks_conn_write.
ConnEvent(e) ==
    LET c == sys.owner[e[1]]
    IN  /\ Turn(e) /\ Delivers(e) /\ c \in Conn
        /\ sys.state[c] \in Handlers(e[2])
        /\ sys' \in Handler(sys, c, e[1])
        /\ UNCHANGED <<jobs, phase, accepts, alive>>

\* stm_handler_read and stm_handler_write abort if the state has no handler.
Abort(e) ==
    LET c == sys.owner[e[1]]
    IN  /\ Turn(e) /\ Delivers(e) /\ c \in Conn
        /\ sys.state[c] \notin Handlers(e[2])
        /\ alive' = FALSE
        /\ UNCHANGED <<sys, jobs, phase, accepts>>

\* The end of req_dns_thread, when the mutex is free.
selector_notify_block(c) ==
    /\ alive /\ phase # "notify" /\ sys.thread[c] # -1
    /\ jobs' = jobs \cup {<<sys.thread[c], c>>}
    /\ sys' = [sys EXCEPT !.thread[c] = -1]
    /\ UNCHANGED <<phase, slave, accepts, alive>>

\* The events are done: handle_block_notifications takes the mutex.
EndIteration ==
    /\ alive /\ phase = "dispatch" /\ slave = {}
    /\ phase' = "notify"
    /\ UNCHANGED <<sys, jobs, slave, accepts, alive>>

\* A job goes to whoever has its descriptor now.
handle_block_notifications(j) ==
    LET o == sys.owner[j[1]]
    IN  /\ alive /\ phase = "notify" /\ j \in jobs
        /\ jobs' = jobs \ {j}
        /\ \/ o = Free /\ UNCHANGED <<sys, alive>>
           \/ /\ o \in Conn /\ sys.state[o] = "REQ_DNS"
              /\ sys' \in req_dns(sys, o)
              /\ UNCHANGED alive
           \/ /\ o = Listener \/ (o \in Conn /\ sys.state[o] # "REQ_DNS")
              /\ alive' = FALSE /\ UNCHANGED sys
        /\ UNCHANGED <<phase, slave, accepts>>

\* The end of handle_block_notifications, and the loop of start_server.
Unlock ==
    /\ alive /\ phase = "notify" /\ jobs = {}
    /\ phase' = "wait"
    /\ UNCHANGED <<sys, jobs, slave, accepts, alive>>

Next ==
    \/ selector_select \/ EndIteration \/ Unlock
    \/ \E e \in FD \X Interest :
         Skip(e) \/ passive_socks_socket_handler(e) \/ ConnEvent(e) \/ Abort(e)
    \/ \E c \in Conn : selector_notify_block(c)
    \/ \E j \in FD \X Conn : handle_block_notifications(j)

Spec == Init /\ [][Next]_vars

-----------------------------------------------------------------------------
(* Properties. *)

\* What the selector watches is the file it was registered for: no handler
\* closes a descriptor and leaves its item, or the next pselect would fail with
\* EBADF and end the loop of start_server, and no item outlives its file and
\* gives its events to the next one that gets the number.
ItemsMatchFiles == \A f \in FD : sys.owner[f] # Free => sys.owner[f] = sys.file[f]

\* Every descriptor opened for a connection is one of the two that its
\* structure remembers, and the structure is still allocated: the retries of
\* req_dns and the error paths lose none, and no item points to freed memory.
DescriptorsAreHeld ==
    \A f \in FD : \A c \in Conn :
        sys.file[f] = c =>
            sys.state[c] # "FREE" /\ (f = sys.sock[c][CLI] \/ f = sys.sock[c][SRC])

\* (VIOLATED) The server listens on every interface for as long as it runs, as
\* socks5d.8 says: the end of a connection closes nothing but its own files.
ListenersStay == \A f \in 0..(Listeners - 1) : sys.owner[f] = Listener

\* The metric of current connections never counts one that is gone, however
\* it ended.  It may count too few: a connection the selector had no room for
\* is subtracted and was never added.
NoneCountedAfterClose == sys.current <= Cardinality({c \in Conn : sys.state[c] # "FREE"})
=============================================================================
