---------------------------- MODULE ServerProofs ----------------------------
(***************************************************************************)
(* The descriptors of module Server for any number of connections,         *)
(* listeners and descriptors: the tables of the kernel and the selector    *)
(* agree, no connection loses a descriptor, and the metric of current      *)
(* connections counts none that has ended.                                 *)
(***************************************************************************)
EXTENDS Server, FiniteSetTheorems, WellFoundedInduction, TLAPS

\* ItemsMatchFiles and DescriptorsAreHeld of any process, so that the lemmas
\* can follow a handler from one operator to the next.
Match(s) == \A f \in FD : s.owner[f] # Free => s.owner[f] = s.file[f]

Held(s) == \A f \in FD : \A c \in Conn :
    s.file[f] = c =>
        s.state[c] # "FREE" /\ (f = s.sock[c][CLI] \/ f = s.sock[c][SRC])

Good(s) == s \in SysType /\ Match(s) /\ Held(s)

\* A connection in these states has not opened a socket yet, or has closed it.
\* socket() may overwrite the number it remembers, which is not its own.
Unopened == {"READING", "WRITING", "REQ_DNS"}

OnlyClient(s, c) == \A f \in FD : s.file[f] = c => f = s.sock[c][CLI]

ClientOnly(s, C) == \A c \in C : s.state[c] \in Unopened => OnlyClient(s, c)

Sound(s) == Good(s) /\ ClientOnly(s, Conn)

\* What an operator may do for connection c: t is as good as s, and nothing of
\* another connection changes but that its files may be closed.
Keeps(s, t, c) == Good(t) /\ ClientOnly(t, Conn \ {c})

-----------------------------------------------------------------------------
(* Descriptors. *)

LEMMA ReleaseType ==
    ASSUME NEW s \in SysType, NEW f \in FD
    PROVE  Release(s, f) \in SysType
BY DEF SysType, Release, OP_NOOP, Owners

LEMMA ReleaseFields ==
    ASSUME NEW s \in SysType, NEW f \in FD
    PROVE  LET t == Release(s, f)
           IN  /\ t.sock = s.sock /\ t.state = s.state /\ t.thread = s.thread
               /\ t.current = s.current
               /\ t.file[f] = Free /\ t.owner[f] = Free
               /\ \A g \in FD \ {f} : t.file[g] = s.file[g] /\ t.owner[g] = s.owner[g]
BY DEF SysType, Release

LEMMA ReleaseKeeps ==
    ASSUME NEW s, Good(s), NEW f \in FD, NEW C \in SUBSET Conn, ClientOnly(s, C)
    PROVE  /\ Good(Release(s, f))
           /\ ClientOnly(Release(s, f), C)
           /\ \A c \in Conn : OnlyClient(s, c) => OnlyClient(Release(s, f), c)
<1> DEFINE t == Release(s, f)
<1>1. s \in SysType /\ Match(s) /\ Held(s)
  BY DEF Good
<1>2. t \in SysType
  BY <1>1, ReleaseType
<1>3. /\ t.sock = s.sock /\ t.state = s.state
      /\ t.file[f] = Free /\ t.owner[f] = Free
      /\ \A g \in FD \ {f} : t.file[g] = s.file[g] /\ t.owner[g] = s.owner[g]
  BY <1>1, ReleaseFields
<1> HIDE DEF t
<1>4. \A g \in FD : t.owner[g] # Free => t.owner[g] = s.owner[g] /\ t.file[g] = s.file[g]
  BY <1>3
<1>5. \A c \in Conn, g \in FD : t.file[g] = c => s.file[g] = c
  BY <1>3, ServerAssumption
<1>6. Match(t)
  BY <1>1, <1>4 DEF Match
<1>7. Held(t)
  BY <1>1, <1>3, <1>5 DEF Held
<1>8. \A c \in Conn : OnlyClient(s, c) => OnlyClient(t, c)
  BY <1>3, <1>5 DEF OnlyClient
<1>9. ClientOnly(t, C)
  BY <1>3, <1>8 DEF ClientOnly
<1> QED BY <1>2, <1>6, <1>7, <1>8, <1>9 DEF Good, t

LEMMA SetInterestFields ==
    ASSUME NEW s \in SysType, NEW f, NEW i \in SUBSET Interest
    PROVE  LET t == SetInterest(s, f, i)
           IN  /\ t \in SysType
               /\ t.file = s.file /\ t.owner = s.owner /\ t.sock = s.sock
               /\ t.state = s.state /\ t.thread = s.thread /\ t.current = s.current
BY DEF SysType, SetInterest, Registered

\* A process with the same files, items and numbers, whose connections have the
\* same states but c, which remains allocated.
LEMMA SameFiles ==
    ASSUME NEW s, Good(s), NEW c \in Conn, s.state[c] # "FREE",
           ClientOnly(s, Conn \ {c}),
           NEW t \in SysType,
           t.file = s.file, t.owner = s.owner, t.sock = s.sock,
           t.state[c] # "FREE", \A d \in Conn \ {c} : t.state[d] = s.state[d]
    PROVE  Keeps(s, t, c) /\ (OnlyClient(s, c) => OnlyClient(t, c))
<1>1. Match(t)
  BY DEF Good, Match
<1>2. Held(t)
  BY DEF Good, Held
<1>3. \A d \in Conn : OnlyClient(s, d) => OnlyClient(t, d)
  BY DEF OnlyClient
<1>4. ClientOnly(t, Conn \ {c})
  BY <1>3 DEF ClientOnly
<1> QED BY <1>1, <1>2, <1>3, <1>4 DEF Good, Keeps

\* Freeing the structure of a connection that has no file.
LEMMA FreeKeeps ==
    ASSUME NEW s, Good(s), NEW c \in Conn, \A f \in FD : s.file[f] # c,
           ClientOnly(s, Conn \ {c}),
           NEW t \in SysType,
           t.file = s.file, t.owner = s.owner,
           \A d \in Conn \ {c} : t.sock[d] = s.sock[d] /\ t.state[d] = s.state[d]
    PROVE  Keeps(s, t, c) /\ ClientOnly(t, Conn)
<1>1. Match(t)
  BY DEF Good, Match
<1>2. Held(t)
  BY DEF Good, Held
<1>3. \A d \in Conn \ {c} : OnlyClient(s, d) => OnlyClient(t, d)
  BY DEF OnlyClient
<1>4. ClientOnly(t, Conn \ {c})
  BY <1>3 DEF ClientOnly
<1>5. OnlyClient(t, c)
  BY DEF OnlyClient
<1> QED BY <1>1, <1>2, <1>4, <1>5 DEF Good, Keeps, ClientOnly

LEMMA SockType ==
    ASSUME NEW s \in SysType, NEW c \in Conn, NEW x \in Side
    PROVE  s.sock[c][x] \in FD \cup {-1}
<1>1. s.sock \in [Conn -> [Side -> FD \cup {-1}]]
  BY DEF SysType
<1> QED BY <1>1

\* One of the two ifs of close_socks_conn.
Closed(s, f) == IF f # -1 THEN Release(s, f) ELSE s

LEMMA ClosedKeeps ==
    ASSUME NEW s, Good(s), NEW f \in FD \cup {-1}, NEW C \in SUBSET Conn, ClientOnly(s, C)
    PROVE  LET t == Closed(s, f)
           IN  /\ Good(t) /\ ClientOnly(t, C)
               /\ t.sock = s.sock /\ t.state = s.state
               /\ \A g \in FD : t.file[g] # Free => t.file[g] = s.file[g] /\ g # f
<1>1. s \in SysType
  BY DEF Good
<1>2. -1 \notin FD
  BY DEF FD
<1>3. CASE f = -1
  BY <1>2, <1>3 DEF Closed
<1>4. CASE f # -1
  <2>1. f \in FD
    BY <1>4
  <2>2. Closed(s, f) = Release(s, f)
    BY <1>4 DEF Closed
  <2>3. Good(Release(s, f)) /\ ClientOnly(Release(s, f), C)
    BY <2>1, ReleaseKeeps
  <2>4. /\ Release(s, f).sock = s.sock /\ Release(s, f).state = s.state
        /\ Release(s, f).file[f] = Free
        /\ \A g \in FD \ {f} : Release(s, f).file[g] = s.file[g]
    BY <1>1, <2>1, ReleaseFields
  <2> QED BY <2>2, <2>3, <2>4
<1> QED BY <1>3, <1>4

\* Another value of the metric.
LEMMA CountKeeps ==
    ASSUME NEW s, Good(s), NEW C \in SUBSET Conn, ClientOnly(s, C),
           NEW n \in Int, NEW t, t = [s EXCEPT !.current = n]
    PROVE  /\ Good(t) /\ ClientOnly(t, C)
           /\ t.sock = s.sock /\ t.state = s.state /\ t.file = s.file
<1>1. s \in SysType
  BY DEF Good
<1>2. /\ t \in SysType /\ t.sock = s.sock /\ t.state = s.state /\ t.file = s.file
      /\ t.owner = s.owner
  BY <1>1 DEF SysType
<1> QED BY <1>2 DEF Good, Match, Held, ClientOnly, OnlyClient

LEMMA CountType == ASSUME NEW s, Good(s) PROVE s.current \in Int
BY DEF Good, SysType

\* close_socks_conn closes all that its connection has, though it may close
\* more.
LEMMA CloseKeeps ==
    ASSUME NEW s, Good(s), NEW c \in Conn, ClientOnly(s, Conn \ {c})
    PROVE  Sound(close_socks_conn(s, c))
<1> DEFINE cli == s.sock[c][CLI]
           src == s.sock[c][SRC]
           a == Closed(s, src)
           r == Closed(a, cli)
           b == IF cli # -1 THEN [r EXCEPT !.current = @ - 1] ELSE r
           t == [b EXCEPT !.state[c] = "FREE", !.sock[c] = [x \in Side |-> -1]]
<1>1. cli \in FD \cup {-1} /\ src \in FD \cup {-1}
  BY SockType DEF Good, Side
<1>2. /\ Good(a) /\ ClientOnly(a, Conn \ {c})
      /\ a.sock = s.sock /\ a.state = s.state
      /\ \A f \in FD : a.file[f] # Free => a.file[f] = s.file[f] /\ f # src
  BY <1>1, ClosedKeeps
<1> HIDE DEF a
<1>3. /\ Good(r) /\ ClientOnly(r, Conn \ {c})
      /\ r.sock = s.sock /\ r.state = s.state
      /\ \A f \in FD : r.file[f] # Free => r.file[f] = a.file[f] /\ f # cli
  BY <1>1, <1>2, ClosedKeeps
<1> HIDE DEF r
<1>4. /\ Good(b) /\ ClientOnly(b, Conn \ {c})
      /\ b.sock = s.sock /\ b.state = s.state /\ b.file = r.file
  BY <1>3, CountKeeps, CountType
<1> HIDE DEF b
<1>5. \A f \in FD : b.file[f] # Free => b.file[f] = s.file[f] /\ f # cli /\ f # src
  BY <1>2, <1>3, <1>4
<1>6. \A f \in FD : b.file[f] # c
  BY <1>5, ServerAssumption DEF Good, Held
<1>7. b \in SysType
  BY <1>4 DEF Good
<1>8. /\ t \in SysType /\ t.file = b.file /\ t.owner = b.owner
      /\ \A d \in Conn \ {c} : t.sock[d] = b.sock[d] /\ t.state[d] = b.state[d]
  BY <1>7 DEF SysType, States
<1>9. Keeps(b, t, c) /\ ClientOnly(t, Conn)
  BY <1>4, <1>6, <1>8, FreeKeeps
<1>10. close_socks_conn(s, c) = t
  BY DEF close_socks_conn, a, b, r, Closed
<1> QED BY <1>9, <1>10 DEF Sound, Keeps

-----------------------------------------------------------------------------
(* The handlers. *)

\* A handler that sends its connection to another state and touches no file.
LEMMA MoveIsSound ==
    ASSUME NEW s, Good(s), NEW c \in Conn, s.state[c] # "FREE",
           ClientOnly(s, Conn \ {c}),
           NEW t \in SysType,
           t.file = s.file, t.owner = s.owner, t.sock = s.sock,
           t.state[c] # "FREE", \A d \in Conn \ {c} : t.state[d] = s.state[d],
           t.state[c] \notin Unopened \/ OnlyClient(s, c)
    PROVE  Sound(t)
<1>1. Keeps(s, t, c) /\ (OnlyClient(s, c) => OnlyClient(t, c))
  BY SameFiles
<1> QED BY <1>1 DEF Sound, Keeps, ClientOnly

\* A change of interest and of state.
LEMMA GotoFields ==
    ASSUME NEW s \in SysType, NEW f, NEW i \in SUBSET Interest, NEW c \in Conn,
           NEW x \in States
    PROVE  LET t == Goto(s, c, x, f, i)
           IN  /\ t \in SysType
               /\ t.file = s.file /\ t.owner = s.owner /\ t.sock = s.sock
               /\ t.thread = s.thread /\ t.current = s.current
               /\ t.state[c] = x /\ \A d \in Conn \ {c} : t.state[d] = s.state[d]
<1> DEFINE r == SetInterest(s, f, i)
           t == Goto(s, c, x, f, i)
<1>1. /\ r \in SysType
      /\ r.file = s.file /\ r.owner = s.owner /\ r.sock = s.sock
      /\ r.state = s.state /\ r.thread = s.thread /\ r.current = s.current
  BY SetInterestFields
<1>2. t = [r EXCEPT !.state[c] = x]
  BY DEF Goto
<1> HIDE DEF r, t
<1>3. /\ t \in SysType
      /\ t.file = r.file /\ t.owner = r.owner /\ t.sock = r.sock
      /\ t.thread = r.thread /\ t.current = r.current
      /\ t.state[c] = x /\ \A d \in Conn \ {c} : t.state[d] = r.state[d]
  BY <1>1, <1>2 DEF SysType
<1>4. t = Goto(s, c, x, f, i)
  BY DEF t
<1> QED BY <1>1, <1>3, <1>4

LEMMA Interests == OP_NOOP \in SUBSET Interest /\ {OP_READ} \in SUBSET Interest
                   /\ {OP_WRITE} \in SUBSET Interest
BY DEF OP_NOOP, Interest

\* A handler that does no more than that.
LEMMA GotoIsSound ==
    ASSUME NEW s, Good(s), NEW c \in Conn, s.state[c] # "FREE",
           ClientOnly(s, Conn \ {c}),
           NEW f, NEW i \in SUBSET Interest, NEW x \in States \ {"FREE"},
           x \notin Unopened \/ OnlyClient(s, c)
    PROVE  Sound(Goto(s, c, x, f, i))
<1> DEFINE t == Goto(s, c, x, f, i)
<1>0. s \in SysType /\ x \in States
  BY DEF Good
<1>1. /\ t \in SysType
      /\ t.file = s.file /\ t.owner = s.owner /\ t.sock = s.sock
      /\ t.state[c] = x /\ \A d \in Conn \ {c} : t.state[d] = s.state[d]
  BY <1>0, GotoFields
<1> HIDE DEF t
<1>2. Sound(t)
  BY <1>1, MoveIsSound
<1> QED BY <1>2 DEF t

LEMMA ErrorIsSound ==
    ASSUME NEW s, Good(s), NEW c \in Conn, s.state[c] # "FREE",
           ClientOnly(s, Conn \ {c})
    PROVE  Sound(manage_req_error(s, c))
<1>1. Sound(Goto(s, c, "REFUSED", s.sock[c][CLI], {OP_WRITE}))
  BY GotoIsSound, Interests DEF States, Unopened
<1>2. Sound(close_socks_conn(s, c))
  BY CloseKeeps
<1> QED BY <1>1, <1>2 DEF manage_req_error

LEMMA LowestIsFree ==
    ASSUME NEW s, FreeFds(s) # {}
    PROVE  Lowest(s) \in FreeFds(s) /\ Lowest(s) \in FD
<1>1. \E f \in FreeFds(s) : \A g \in FreeFds(s) : f <= g
  <2>1. FreeFds(s) \subseteq Nat
    BY DEF FreeFds, FD
  <2>2. \E f \in FreeFds(s) : \A g \in FreeFds(s) : ~(<<g, f>> \in OpToRel(<, Nat))
    BY <2>1, NatLessThanWellFounded, WFMin
  <2>3. PICK f \in FreeFds(s) : \A g \in FreeFds(s) : ~(<<g, f>> \in OpToRel(<, Nat))
    BY <2>2
  <2>4. \A g \in FreeFds(s) : ~(g < f)
    BY <2>1, <2>3, Zenon DEF OpToRel
  <2>5. \A g \in FreeFds(s) : f <= g
    BY <2>1, <2>4
  <2> QED BY <2>5
<1> QED BY <1>1 DEF Lowest, FreeFds

\* socket() gives connection c a descriptor.
Opened(s, c, f) == [s EXCEPT !.file[f] = c, !.sock[c][SRC] = f]

LEMMA OpenedKeeps ==
    ASSUME NEW s, Good(s), NEW c \in Conn, s.state[c] # "FREE",
           ClientOnly(s, Conn \ {c}), OnlyClient(s, c),
           NEW f \in FD, s.file[f] = Free
    PROVE  LET t == Opened(s, c, f)
           IN  /\ Good(t) /\ ClientOnly(t, Conn \ {c})
               /\ t.file[f] = c /\ t.owner[f] = Free
               /\ t.state = s.state
<1> DEFINE t == Opened(s, c, f)
<1>1. s \in SysType /\ Match(s) /\ Held(s)
  BY DEF Good
<1>2. /\ t \in SysType /\ t.owner = s.owner /\ t.state = s.state
      /\ t.file[f] = c /\ \A g \in FD \ {f} : t.file[g] = s.file[g]
      /\ t.sock[c][SRC] = f /\ t.sock[c][CLI] = s.sock[c][CLI]
      /\ \A d \in Conn \ {c} : t.sock[d] = s.sock[d]
  <2>1. t.file = [s.file EXCEPT ![f] = c]
    BY <1>1 DEF SysType, Opened
  <2>2. t.sock = [s.sock EXCEPT ![c] = [s.sock[c] EXCEPT ![SRC] = f]]
    BY <1>1 DEF SysType, Opened
  <2>3. s.file \in [FD -> Owners] /\ s.sock \in [Conn -> [Side -> FD \cup {-1}]]
    BY <1>1 DEF SysType
  <2>4. t.file \in [FD -> Owners]
    BY <2>1, <2>3 DEF Owners
  <2>5. t.sock \in [Conn -> [Side -> FD \cup {-1}]]
    <3> HIDE DEF t
    <3>1. [s.sock[c] EXCEPT ![SRC] = f] \in [Side -> FD \cup {-1}]
      BY <2>3
    <3> QED BY <2>2, <2>3, <3>1
  <2>6. t = [s EXCEPT !.file = t.file, !.sock = t.sock]
    BY <1>1, <2>1, <2>2 DEF SysType, Opened
  <2> HIDE DEF t
  <2>7. t \in SysType /\ t.owner = s.owner /\ t.state = s.state
    BY <1>1, <2>4, <2>5, <2>6 DEF SysType
  <2>8. SRC \in Side /\ CLI \in Side /\ SRC # CLI
    BY DEF Side, SRC, CLI
  <2>9. /\ t.sock[c][SRC] = f /\ t.sock[c][CLI] = s.sock[c][CLI]
        /\ \A d \in Conn \ {c} : t.sock[d] = s.sock[d]
    BY <2>2, <2>3, <2>8
  <2> QED BY <2>1, <2>3, <2>7, <2>9
<1> HIDE DEF t
<1>3. t.owner[f] = Free
  BY <1>1, <1>2 DEF Match
<1>4. Match(t)
  BY <1>1, <1>2, <1>3 DEF Match
<1>5. Held(t)
  BY <1>1, <1>2, ServerAssumption DEF Held, OnlyClient
<1>6. ClientOnly(t, Conn \ {c})
  BY <1>2 DEF ClientOnly, OnlyClient
<1> QED BY <1>2, <1>3, <1>4, <1>5, <1>6 DEF Good, t

LEMMA RegisterIsSound ==
    ASSUME NEW s, Good(s), NEW c \in Conn, s.state[c] # "FREE",
           ClientOnly(s, Conn \ {c}),
           NEW f \in FD, s.file[f] = c,
           NEW i \in SUBSET Interest, NEW x \in States \ {"FREE"},
           x \notin Unopened \/ OnlyClient(s, c)
    PROVE  Sound(Register(s, c, x, f, i))
<1> DEFINE t == Register(s, c, x, f, i)
<1>1. s \in SysType /\ Match(s) /\ Held(s)
  BY DEF Good
<1>2. /\ t \in SysType /\ t.file = s.file /\ t.sock = s.sock
      /\ t.owner[f] = c /\ \A g \in FD \ {f} : t.owner[g] = s.owner[g]
      /\ t.state[c] = x /\ \A d \in Conn \ {c} : t.state[d] = s.state[d]
  BY <1>1 DEF SysType, Register, Owners
<1> HIDE DEF t
<1>3. Match(t)
  BY <1>1, <1>2 DEF Match
<1>4. Held(t)
  BY <1>1, <1>2 DEF Held
<1>5. ClientOnly(t, Conn)
  BY <1>2 DEF ClientOnly, OnlyClient
<1> QED BY <1>2, <1>3, <1>4, <1>5 DEF Sound, Good, t

\* A change of interests.
LEMMA SetInterestIsGood ==
    ASSUME NEW s, Good(s), NEW C \in SUBSET Conn, ClientOnly(s, C),
           NEW f, NEW i \in SUBSET Interest
    PROVE  LET t == SetInterest(s, f, i)
           IN  /\ Good(t) /\ ClientOnly(t, C)
               /\ t.file = s.file /\ t.owner = s.owner /\ t.state = s.state /\ t.sock = s.sock
               /\ \A c \in Conn : OnlyClient(s, c) => OnlyClient(t, c)
<1> DEFINE t == SetInterest(s, f, i)
<1>1. s \in SysType
  BY DEF Good
<1>2. /\ t \in SysType
      /\ t.file = s.file /\ t.owner = s.owner /\ t.sock = s.sock /\ t.state = s.state
  BY <1>1, SetInterestFields
<1> HIDE DEF t
<1>3. Good(t)
  BY <1>2 DEF Good, Match, Held
<1>4. ClientOnly(t, C) /\ \A c \in Conn : OnlyClient(s, c) => OnlyClient(t, c)
  BY <1>2 DEF ClientOnly, OnlyClient
<1> QED BY <1>2, <1>3, <1>4 DEF t

\* socket() fails.
LEMMA ForgetIsGood ==
    ASSUME NEW s, Good(s), NEW c \in Conn, ClientOnly(s, Conn \ {c}), OnlyClient(s, c),
           NEW t, t = [s EXCEPT !.sock[c][SRC] = -1]
    PROVE  Good(t) /\ ClientOnly(t, Conn \ {c})
<1>1. s \in SysType /\ Match(s) /\ Held(s)
  BY DEF Good
<1>2. /\ t \in SysType /\ t.file = s.file /\ t.owner = s.owner /\ t.state = s.state
      /\ t.sock[c][CLI] = s.sock[c][CLI] /\ \A d \in Conn \ {c} : t.sock[d] = s.sock[d]
  <2>1. t.sock = [s.sock EXCEPT ![c] = [s.sock[c] EXCEPT ![SRC] = -1]]
    BY <1>1 DEF SysType
  <2>2. s.sock \in [Conn -> [Side -> FD \cup {-1}]]
    BY <1>1 DEF SysType
  <2>3. [s.sock[c] EXCEPT ![SRC] = -1] \in [Side -> FD \cup {-1}]
    BY <2>2
  <2>4. t.sock \in [Conn -> [Side -> FD \cup {-1}]]
    BY <2>1, <2>2, <2>3
  <2>5. t = [s EXCEPT !.sock = t.sock]
    BY <1>1, <2>1 DEF SysType
  <2>6. t \in SysType /\ t.file = s.file /\ t.owner = s.owner /\ t.state = s.state
    BY <1>1, <2>4, <2>5 DEF SysType
  <2> QED BY <2>1, <2>2, <2>6 DEF Side, CLI, SRC
<1>3. Match(t) /\ Held(t)
  BY <1>1, <1>2 DEF Match, Held, OnlyClient
<1>4. ClientOnly(t, Conn \ {c})
  BY <1>2 DEF ClientOnly, OnlyClient
<1> QED BY <1>2, <1>3, <1>4 DEF Good

\* Whatever comes of socket() and connect(), each descriptor is registered or
\* held.
LEMMA InitConnectionIsSound ==
    ASSUME NEW s, Good(s), NEW c \in Conn, s.state[c] # "FREE",
           ClientOnly(s, Conn \ {c}), OnlyClient(s, c)
    PROVE  \A t \in init_connection(s, c) : Sound(t)
<1>1. CASE FreeFds(s) = {}
  <2> DEFINE u == [s EXCEPT !.sock[c][SRC] = -1]
  <2>1. Good(u) /\ ClientOnly(u, Conn \ {c})
    BY ForgetIsGood
  <2> HIDE DEF u
  <2>2. Sound(close_socks_conn(u, c))
    BY <2>1, CloseKeeps
  <2>3. init_connection(s, c) = {close_socks_conn(u, c)}
    BY <1>1 DEF init_connection, u
  <2> QED BY <2>2, <2>3
<1>2. CASE FreeFds(s) # {}
  <2> DEFINE f == Lowest(s)
             o == Opened(s, c, f)
             q == SetInterest(o, s.sock[c][CLI], OP_NOOP)
  <2>1. f \in FD /\ s.file[f] = Free
    BY <1>2, LowestIsFree DEF FreeFds
  <2> HIDE DEF f
  <2>2. /\ Good(o) /\ ClientOnly(o, Conn \ {c})
        /\ o.file[f] = c /\ o.state = s.state
    BY <2>1, OpenedKeeps
  <2>3. o.state[c] # "FREE"
    BY <2>2
  <2> HIDE DEF o
  <2>4. Sound(manage_req_error(o, c)) /\ Sound(close_socks_conn(o, c))
    BY <2>2, <2>3, ErrorIsSound, CloseKeeps
  <2>5. /\ Good(q) /\ ClientOnly(q, Conn \ {c})
        /\ q.file = o.file /\ q.state = o.state
    BY <2>2, SetInterestIsGood, Interests
  <2>6. q.state[c] # "FREE" /\ q.file[f] = c
    BY <2>2, <2>3, <2>5
  <2> HIDE DEF q
  <2>7. Sound(Register(q, c, "REQ_CONNECT", f, {OP_WRITE}))
    BY <2>1, <2>5, <2>6, RegisterIsSound, Interests DEF Unopened, States
  <2>8. init_connection(s, c) \subseteq
          {manage_req_error(o, c), close_socks_conn(o, c),
           Register(q, c, "REQ_CONNECT", f, {OP_WRITE})}
    BY <1>2 DEF init_connection, Opened, f, o, q
  <2> QED BY <2>4, <2>7, <2>8
<1> QED BY <1>1, <1>2

LEMMA DnsIsSound ==
    ASSUME NEW s, Good(s), NEW c \in Conn, s.state[c] # "FREE",
           ClientOnly(s, Conn \ {c}), OnlyClient(s, c)
    PROVE  \A t \in req_dns(s, c) : Sound(t)
BY InitConnectionIsSound, ErrorIsSound, CloseKeeps DEF req_dns

\* The thread that a connection waits for.
LEMMA ThreadIsSound ==
    ASSUME NEW s, Sound(s), NEW c \in Conn, NEW f \in FD \cup {-1},
           NEW t, t = [s EXCEPT !.thread[c] = f]
    PROVE  Sound(t)
<1>1. s \in SysType
  BY DEF Sound, Good
<1>2. /\ t \in SysType /\ t.file = s.file /\ t.owner = s.owner /\ t.sock = s.sock
      /\ t.state = s.state
  BY <1>1 DEF SysType
<1>3. Good(t)
  BY <1>2 DEF Sound, Good, Match, Held
<1> QED BY <1>2, <1>3 DEF Sound, ClientOnly, OnlyClient

\* What a sound process says of one of its connections.
LEMMA SoundFor ==
    ASSUME NEW s, Sound(s), NEW c \in Conn
    PROVE  /\ Good(s) /\ ClientOnly(s, Conn \ {c})
           /\ s.state[c] \in Unopened => OnlyClient(s, c)
BY DEF Sound, ClientOnly

LEMMA ReadingIsSound ==
    ASSUME NEW s, Sound(s), NEW c \in Conn, s.state[c] = "READING", NEW f \in FD
    PROVE  \A t \in Reading(s, c, f) : Sound(t)
<1>1. Good(s) /\ ClientOnly(s, Conn \ {c}) /\ OnlyClient(s, c)
  BY SoundFor DEF Unopened
<1>2. Sound(close_socks_conn(s, c)) /\ Sound(manage_req_error(s, c))
  BY <1>1, CloseKeeps, ErrorIsSound
<1>3. Sound(Goto(s, c, "WRITING", f, {OP_WRITE}))
  BY <1>1, GotoIsSound, Interests DEF States
<1>4. Sound(Goto(s, c, "REQ_DNS", f, OP_NOOP))
  BY <1>1, GotoIsSound, Interests DEF States
<1>5. Sound([Goto(s, c, "REQ_DNS", f, OP_NOOP) EXCEPT !.thread[c] = f])
  <2> DEFINE g == Goto(s, c, "REQ_DNS", f, OP_NOOP)
  <2> HIDE DEF g
  <2>1. Sound(g)
    BY <1>4 DEF g
  <2>2. Sound([g EXCEPT !.thread[c] = f])
    BY <2>1, ThreadIsSound
  <2> QED BY <2>2 DEF g
<1>6. \A t \in init_connection(s, c) : Sound(t)
  BY <1>1, InitConnectionIsSound
<1> QED BY <1>2, <1>3, <1>5, <1>6 DEF Reading

LEMMA WritingIsSound ==
    ASSUME NEW s, Sound(s), NEW c \in Conn, s.state[c] = "WRITING", NEW f \in FD
    PROVE  \A t \in Writing(s, c, f) : Sound(t)
<1>1. Good(s) /\ ClientOnly(s, Conn \ {c}) /\ OnlyClient(s, c)
  BY SoundFor DEF Unopened
<1>2. Sound(close_socks_conn(s, c))
  BY <1>1, CloseKeeps
<1>3. Sound(Goto(s, c, "READING", f, {OP_READ}))
  BY <1>1, GotoIsSound, Interests DEF States
<1> QED BY <1>2, <1>3 DEF Writing

\* Before the next address of a name is tried, the descriptor of the last one
\* is given back.
LEMMA ConnectIsSound ==
    ASSUME NEW s, Sound(s), NEW c \in Conn, s.state[c] = "REQ_CONNECT", NEW f \in FD
    PROVE  \A t \in req_connect(s, c, f) : Sound(t)
<1> DEFINE cli == s.sock[c][CLI]
           src == s.sock[c][SRC]
           q == SetInterest(s, f, OP_NOOP)
           r == Release(s, src)
<1>1. Good(s) /\ ClientOnly(s, Conn \ {c})
  BY SoundFor
<1>2. Sound(close_socks_conn(s, c)) /\ Sound(manage_req_error(s, c))
  BY <1>1, CloseKeeps, ErrorIsSound
<1>3. Good(q) /\ ClientOnly(q, Conn \ {c}) /\ q.state[c] # "FREE"
  BY <1>1, SetInterestIsGood, Interests
<1>4. Sound(Goto(q, c, "ACCEPTED", cli, {OP_WRITE}))
  <2> HIDE DEF q
  <2> QED BY <1>3, GotoIsSound, Interests DEF States, Unopened
<1>5. /\ Good(r) /\ ClientOnly(r, Conn \ {c}) /\ r.state[c] # "FREE"
      /\ OnlyClient(r, c)
  <2>1. s \in SysType /\ Held(s) /\ src \in FD \cup {-1}
    BY <1>1, SockType DEF Good, Side
  <2>2. CASE src \in FD
    <3>1. Good(r) /\ ClientOnly(r, Conn \ {c})
      BY <1>1, <2>2, ReleaseKeeps
    <3>2. /\ r.sock = s.sock /\ r.state = s.state
          /\ r.file[src] = Free
          /\ \A g \in FD \ {src} : r.file[g] = s.file[g]
      BY <2>1, <2>2, ReleaseFields
    <3> HIDE DEF r
    <3>3. OnlyClient(r, c)
      BY <2>1, <3>2, ServerAssumption DEF Held, OnlyClient
    <3> QED BY <3>1, <3>2, <3>3
  <2>3. CASE src \notin FD
    <3>1. r = s
      BY <2>3 DEF Release
    <3>2. OnlyClient(s, c)
      BY <2>1, <2>3 DEF Held, OnlyClient
    <3> QED BY <1>1, <3>1, <3>2
  <2> QED BY <2>2, <2>3
<1>6. \A t \in req_dns(r, c) : Sound(t)
  <2> HIDE DEF r
  <2> QED BY <1>5, DnsIsSound
<1>7. req_connect(s, c, f) \subseteq
        {Goto(q, c, "ACCEPTED", cli, {OP_WRITE}), close_socks_conn(s, c), manage_req_error(s, c)}
        \cup req_dns(r, c)
  BY DEF req_connect
<1> QED BY <1>2, <1>4, <1>6, <1>7

LEMMA WriteIsSound ==
    ASSUME NEW s, Sound(s), NEW c \in Conn, s.state[c] # "FREE", NEW f \in FD
    PROVE  \A t \in req_write(s, c, f) : Sound(t)
<1> DEFINE q == SetInterest(s, f, {OP_READ})
<1>1. Good(s) /\ ClientOnly(s, Conn \ {c})
  BY SoundFor
<1>2. Sound(close_socks_conn(s, c))
  BY <1>1, CloseKeeps
<1>3. Good(q) /\ ClientOnly(q, Conn \ {c}) /\ q.state[c] # "FREE"
  BY <1>1, SetInterestIsGood, Interests
<1>4. Sound(Goto(q, c, "COPY", s.sock[c][SRC], {OP_READ}))
  <2> HIDE DEF q
  <2> QED BY <1>3, GotoIsSound, Interests DEF States, Unopened
<1> QED BY <1>2, <1>4 DEF req_write

LEMMA CopyIsSound ==
    ASSUME NEW s, Sound(s), NEW c \in Conn
    PROVE  \A t \in copy(s, c) : Sound(t)
<1>1. Good(s) /\ ClientOnly(s, Conn)
  BY DEF Sound
<1>2. Sound(close_socks_conn(s, c))
  BY SoundFor, CloseKeeps
<1>3. ASSUME NEW i \in SUBSET Interest, NEW j \in SUBSET Interest
      PROVE  Sound(SetInterest(SetInterest(s, s.sock[c][CLI], i), s.sock[c][SRC], j))
  <2> DEFINE q == SetInterest(s, s.sock[c][CLI], i)
  <2>1. Good(q) /\ ClientOnly(q, Conn)
    BY <1>1, SetInterestIsGood
  <2> HIDE DEF q
  <2>2. Good(SetInterest(q, s.sock[c][SRC], j)) /\ ClientOnly(SetInterest(q, s.sock[c][SRC], j), Conn)
    BY <2>1, SetInterestIsGood
  <2> QED BY <2>2 DEF q, Sound
<1>4. \A i \in (SUBSET Interest) \X (SUBSET Interest) :
        Sound(SetInterest(SetInterest(s, s.sock[c][CLI], i[1]), s.sock[c][SRC], i[2]))
  BY <1>3
<1> QED BY <1>2, <1>4 DEF copy

LEMMA HandlerIsSound ==
    ASSUME NEW s, Sound(s), NEW c \in Conn, NEW f \in FD, NEW op \in Interest,
           s.state[c] \in Handlers(op), NEW t \in Handler(s, c, f)
    PROVE  Sound(t)
<1>1. s.state[c] # "FREE"
  BY DEF Handlers
<1>2. CASE s.state[c] = "READING"
  BY <1>2, ReadingIsSound DEF Handler
<1>3. CASE s.state[c] = "WRITING"
  BY <1>3, WritingIsSound DEF Handler
<1>4. CASE s.state[c] = "REQ_CONNECT"
  BY <1>4, ConnectIsSound DEF Handler
<1>5. CASE s.state[c] = "COPY"
  BY <1>5, CopyIsSound DEF Handler
<1>6. CASE s.state[c] \notin {"READING", "WRITING", "REQ_CONNECT", "COPY"}
  BY <1>1, <1>6, WriteIsSound DEF Handler
<1> QED BY <1>2, <1>3, <1>4, <1>5, <1>6

-----------------------------------------------------------------------------
(* The listener. *)

\* A structure that new_socks_conn has just filled.
LEMMA BlankKeeps ==
    ASSUME NEW s, Sound(s), NEW c \in Conn, s.state[c] = "FREE", NEW f \in FD \cup {-1}
    PROVE  LET t == Blank(s, c, f)
           IN  /\ Good(t) /\ ClientOnly(t, Conn \ {c})
               /\ t.state[c] = "READING" /\ t.sock[c][CLI] = f
               /\ t.file = s.file /\ \A g \in FD : t.file[g] # c
<1> DEFINE t == Blank(s, c, f)
           new == [x \in Side |-> IF x = CLI THEN f ELSE 0]
<1>1. s \in SysType /\ Match(s) /\ Held(s) /\ ClientOnly(s, Conn)
  BY DEF Sound, Good
<1>2. 0 \in FD
  BY ServerAssumption DEF FD
<1>3. new \in [Side -> FD \cup {-1}] /\ new[CLI] = f
  BY <1>2 DEF Side
<1> HIDE DEF new
<1>4. /\ t \in SysType /\ t.file = s.file /\ t.owner = s.owner
      /\ t.sock[c] = new /\ t.state[c] = "READING"
      /\ \A d \in Conn \ {c} : t.sock[d] = s.sock[d] /\ t.state[d] = s.state[d]
  <2>1. t = [s EXCEPT !.sock[c] = new, !.state[c] = "READING"]
    BY DEF Blank, new
  <2> HIDE DEF t
  <2>2. t.sock = [s.sock EXCEPT ![c] = new] /\ t.state = [s.state EXCEPT ![c] = "READING"]
    BY <1>1, <2>1 DEF SysType
  <2>3. s.sock \in [Conn -> [Side -> FD \cup {-1}]] /\ s.state \in [Conn -> States]
    BY <1>1 DEF SysType
  <2>4. t.sock \in [Conn -> [Side -> FD \cup {-1}]] /\ t.state \in [Conn -> States]
    BY <1>3, <2>2, <2>3 DEF States
  <2>5. t \in SysType /\ t.file = s.file /\ t.owner = s.owner
    BY <1>1, <2>1, <2>4 DEF SysType
  <2> QED BY <2>2, <2>3, <2>5
<1> HIDE DEF t
<1>5. \A g \in FD : s.file[g] # c
  BY <1>1 DEF Held
<1>6. Match(t) /\ Held(t)
  BY <1>1, <1>4, <1>5 DEF Match, Held
<1>7. ClientOnly(t, Conn \ {c})
  BY <1>1, <1>4 DEF ClientOnly, OnlyClient
<1> QED BY <1>3, <1>4, <1>5, <1>6, <1>7 DEF Good, t

\* What accept opens is the client's descriptor.
LEMMA AcceptedIsSound ==
    ASSUME NEW s, Sound(s), NEW c \in Conn, s.state[c] = "FREE",
           NEW f \in FD, s.file[f] = Free
    PROVE  Sound(Accepted(s, c, f))
<1> DEFINE b == Blank(s, c, f)
           o == [b EXCEPT !.file[f] = c]
           r == Register(o, c, "READING", f, {OP_READ})
           t == [r EXCEPT !.current = @ + 1]
<1>1. /\ Good(b) /\ ClientOnly(b, Conn \ {c})
      /\ b.state[c] = "READING" /\ b.sock[c][CLI] = f
      /\ b.file = s.file /\ \A g \in FD : b.file[g] # c
  BY BlankKeeps
<1>2. b.file[f] = Free /\ b \in SysType /\ Match(b) /\ Held(b)
  BY <1>1 DEF Good
<1> HIDE DEF b
<1>3. /\ o \in SysType /\ o.owner = b.owner /\ o.sock = b.sock /\ o.state = b.state
      /\ o.file[f] = c /\ \A g \in FD \ {f} : o.file[g] = b.file[g]
  BY <1>2 DEF SysType, Owners
<1> HIDE DEF o
<1>4. b.owner[f] = Free
  BY <1>2 DEF Match
<1>5. Match(o) /\ Held(o)
  BY <1>1, <1>2, <1>3, <1>4 DEF Match, Held
<1>6. ClientOnly(o, Conn \ {c}) /\ OnlyClient(o, c)
  BY <1>1, <1>3 DEF ClientOnly, OnlyClient
<1>7. Good(o) /\ o.state[c] # "FREE"
  BY <1>1, <1>3, <1>5 DEF Good
<1>8. Sound(close_socks_conn(o, c))
  BY <1>6, <1>7, CloseKeeps
<1>9. Sound(r)
  BY <1>3, <1>6, <1>7, RegisterIsSound, Interests DEF States
<1> HIDE DEF r
<1>10. Sound(t)
  <2>1. Good(r) /\ ClientOnly(r, Conn) /\ r.current + 1 \in Int
    BY <1>9, CountType DEF Sound
  <2> QED BY <2>1, CountKeeps DEF Sound
<1> QED BY <1>8, <1>10 DEF Accepted, b, o, r

-----------------------------------------------------------------------------
(* The steps. *)

\* What every step keeps.
Inv == TypeOK /\ Sound(sys)

LEMMA InvInit == Init => Inv
<1> SUFFICES ASSUME Init PROVE Inv
  OBVIOUS
<1>1. /\ sys \in SysType
      /\ sys.file = sys.owner
      /\ \A f \in FD : sys.file[f] \notin Conn
      /\ \A c \in Conn : sys.state[c] = "FREE"
  BY ServerAssumption DEF Init, SysType, Owners, Interest, OP_NOOP, States
<1>2. TypeOK
  BY <1>1, ServerAssumption DEF Init, TypeOK
<1>3. Match(sys) /\ Held(sys) /\ ClientOnly(sys, Conn)
  BY <1>1 DEF Match, Held, ClientOnly, Unopened
<1> QED BY <1>1, <1>2, <1>3 DEF Inv, Sound, Good

\* Events stay events.
LEMMA TurnKeepsEvents ==
    ASSUME TypeOK, NEW e \in FD \X Interest, Turn(e)
    PROVE  slave' \subseteq FD \X Interest /\ e[1] \in FD /\ e[2] \in Interest
BY DEF TypeOK, Turn

LEMMA ListenerKeepsInv ==
    ASSUME Inv, NEW e \in FD \X Interest, passive_socks_socket_handler(e)
    PROVE  Inv'
<1>1. Sound(sys)
  BY DEF Inv
<1>2. PICK c \in Conn :
        /\ sys.state[c] = "FREE"
        /\ \/ sys' = close_socks_conn(Blank(sys, c, -1), c)
           \/ FreeFds(sys) # {} /\ sys' = Accepted(sys, c, Lowest(sys))
  BY DEF passive_socks_socket_handler
<1>3. ASSUME sys' = close_socks_conn(Blank(sys, c, -1), c) PROVE Sound(sys')
  <2> DEFINE b == Blank(sys, c, -1)
  <2>1. Good(b) /\ ClientOnly(b, Conn \ {c})
    BY <1>1, <1>2, BlankKeeps
  <2> HIDE DEF b
  <2>2. Sound(close_socks_conn(b, c))
    BY <2>1, CloseKeeps
  <2> QED BY <1>3, <2>2 DEF b
<1>4. ASSUME FreeFds(sys) # {}, sys' = Accepted(sys, c, Lowest(sys)) PROVE Sound(sys')
  <2>1. Lowest(sys) \in FD /\ sys.file[Lowest(sys)] = Free
    BY <1>4, LowestIsFree DEF FreeFds
  <2>2. Sound(Accepted(sys, c, Lowest(sys)))
    BY <1>1, <1>2, <2>1, AcceptedIsSound
  <2> QED BY <1>4, <2>2
<1>5. Sound(sys')
  BY <1>2, <1>3, <1>4
<1>6. sys' \in SysType
  BY <1>5 DEF Sound, Good
<1>7. /\ jobs' = jobs /\ phase' = phase /\ alive' = alive
      /\ accepts < MaxAccept /\ accepts' = accepts + 1 /\ Turn(e)
  BY DEF passive_socks_socket_handler
<1>8. TypeOK'
  BY <1>6, <1>7, TurnKeepsEvents, ServerAssumption DEF Inv, TypeOK
<1> QED BY <1>5, <1>8 DEF Inv, Sound, Good, ClientOnly, OnlyClient, Match, Held

LEMMA EventKeepsInv ==
    ASSUME Inv, NEW e \in FD \X Interest, ConnEvent(e)
    PROVE  Inv'
<1> DEFINE c == sys.owner[e[1]]
<1>1. /\ Turn(e) /\ c \in Conn /\ sys.state[c] \in Handlers(e[2])
      /\ sys' \in Handler(sys, c, e[1])
      /\ jobs' = jobs /\ phase' = phase /\ accepts' = accepts /\ alive' = alive
  BY DEF ConnEvent
<1> HIDE DEF c
<1>2. e[1] \in FD /\ e[2] \in Interest /\ slave' \subseteq FD \X Interest
  BY <1>1, TurnKeepsEvents DEF Inv
<1>3. Sound(sys')
  BY <1>1, <1>2, HandlerIsSound DEF Inv
<1>4. TypeOK'
  BY <1>1, <1>2, <1>3 DEF Inv, TypeOK, Sound, Good
<1> QED BY <1>3, <1>4 DEF Inv, Sound, Good, ClientOnly, OnlyClient, Match, Held

LEMMA JobKeepsInv ==
    ASSUME Inv, NEW j \in FD \X Conn, handle_block_notifications(j)
    PROVE  Inv'
<1>1. /\ phase' = phase /\ slave' = slave /\ accepts' = accepts
      /\ jobs' = jobs \ {j} /\ alive' \in BOOLEAN
      /\ \/ sys' = sys
         \/ \E c \in Conn : sys.state[c] = "REQ_DNS" /\ sys' \in req_dns(sys, c)
  BY DEF handle_block_notifications, Inv, TypeOK
<1>2. ASSUME NEW c \in Conn, sys.state[c] = "REQ_DNS", sys' \in req_dns(sys, c)
      PROVE  Sound(sys')
  <2>1. Good(sys) /\ ClientOnly(sys, Conn \ {c}) /\ OnlyClient(sys, c)
    BY <1>2, SoundFor DEF Inv, Unopened
  <2> QED BY <1>2, <2>1, DnsIsSound
<1>3. Sound(sys')
  BY <1>1, <1>2 DEF Inv
<1>4. TypeOK'
  BY <1>1, <1>3 DEF Inv, TypeOK, Sound, Good
<1> QED BY <1>3, <1>4 DEF Inv, Sound, Good, ClientOnly, OnlyClient, Match, Held

LEMMA NotifyKeepsInv ==
    ASSUME Inv, NEW c \in Conn, selector_notify_block(c)
    PROVE  Inv'
<1>1. /\ phase' = phase /\ slave' = slave /\ accepts' = accepts /\ alive' = alive
      /\ sys.thread[c] # -1 /\ jobs' = jobs \cup {<<sys.thread[c], c>>}
      /\ sys' = [sys EXCEPT !.thread[c] = -1]
  BY DEF selector_notify_block
<1>2. Sound(sys')
  BY <1>1, ThreadIsSound DEF Inv
<1>3. sys.thread \in [Conn -> FD \cup {-1}]
  BY DEF Inv, TypeOK, SysType
<1>4. sys.thread[c] \in FD
  BY <1>1, <1>3
<1>5. TypeOK'
  BY <1>1, <1>2, <1>4 DEF Inv, TypeOK, Sound, Good
<1> QED BY <1>2, <1>5 DEF Inv, Sound, Good, ClientOnly, OnlyClient, Match, Held

\* The steps of the selector that touch no descriptor.
LEMMA QuietKeepsInv ==
    ASSUME Inv,
           \/ selector_select \/ EndIteration \/ Unlock \/ UNCHANGED vars
           \/ \E e \in FD \X Interest : Skip(e) \/ Abort(e)
    PROVE  Inv'
<1>1. ASSUME selector_select PROVE Inv'
  <2>1. /\ sys' = sys
        /\ phase' = "dispatch" /\ jobs' = jobs /\ accepts' = accepts /\ alive' = alive
        /\ slave' \subseteq FD \X Interest
    BY <1>1 DEF selector_select, Watched, Inv, TypeOK
  <2>2. TypeOK'
    BY <2>1 DEF Inv, TypeOK
  <2> QED BY <2>1, <2>2 DEF Inv, Sound, Good, ClientOnly, OnlyClient, Match, Held
<1>2. ASSUME sys' = sys, TypeOK' PROVE Inv'
  BY <1>2 DEF Inv, Sound, Good, ClientOnly, OnlyClient, Match, Held
<1>3. ASSUME EndIteration \/ Unlock \/ UNCHANGED vars PROVE Inv'
  <2>1. sys' = sys /\ TypeOK'
    BY <1>3 DEF EndIteration, Unlock, vars, Inv, TypeOK
  <2> QED BY <1>2, <2>1
<1>4. ASSUME NEW e \in FD \X Interest, Skip(e) \/ Abort(e) PROVE Inv'
  <2>1. sys' = sys /\ TypeOK'
    BY <1>4, TurnKeepsEvents DEF Skip, Abort, Inv, TypeOK
  <2> QED BY <1>2, <2>1
<1> QED BY <1>1, <1>3, <1>4

LEMMA InvStep == Inv /\ [Next]_vars => Inv'
<1> SUFFICES ASSUME Inv, [Next]_vars PROVE Inv'
  OBVIOUS
<1> QED BY ListenerKeepsInv, EventKeepsInv, JobKeepsInv, NotifyKeepsInv, QuietKeepsInv DEF Next

LEMMA InvAlways == Spec => []Inv
BY InvInit, InvStep, PTL DEF Spec

\* Descriptors, states and jobs stay in their ranges, though threads report
\* descriptors that others may have by then.
THEOREM ServerTypeCorrect == Spec => []TypeOK
BY InvAlways, PTL DEF Inv

\* The table of the selector and that of the kernel agree, whatever is closed
\* by mistake.
THEOREM TablesAgree == Spec => []ItemsMatchFiles
<1>1. Inv => ItemsMatchFiles
  BY DEF Inv, Sound, Good, Match, ItemsMatchFiles
<1> QED BY <1>1, InvAlways, PTL

\* No connection loses a descriptor, and none outlives its connection.
THEOREM NoDescriptorIsLost == Spec => []DescriptorsAreHeld
<1>1. Inv => DescriptorsAreHeld
  BY DEF Inv, Sound, Good, Held, DescriptorsAreHeld
<1> QED BY <1>1, InvAlways, PTL

-----------------------------------------------------------------------------
(* The metric. *)

Open(s) == {c \in Conn : s.state[c] # "FREE"}

\* A connection that is allocated has a client, whose end is what is counted.
Counted(s) ==
    /\ IsFiniteSet(Open(s))
    /\ s.current <= Cardinality(Open(s))
    /\ \A c \in Open(s) : s.sock[c][CLI] # -1

\* What a handler may do to the count: t has the connections of s and their
\* clients ...
Lives(s, t) ==
    /\ t.current = s.current /\ Open(t) = Open(s)
    /\ \A d \in Open(t) : t.sock[d][CLI] = s.sock[d][CLI]

\* ... or all but c, which is not counted any more.
Ends(s, t, c) ==
    /\ t.current = s.current - 1 /\ Open(t) = Open(s) \ {c}
    /\ \A d \in Open(t) : t.sock[d][CLI] = s.sock[d][CLI]

Counts(s, t, c) == Lives(s, t) \/ Ends(s, t, c)

LEMMA CountsKeeps ==
    ASSUME NEW s \in SysType, NEW t, NEW c, c \in Open(s), Counted(s), Counts(s, t, c)
    PROVE  Counted(t)
<1>1. s.current \in Int /\ Cardinality(Open(s)) \in Nat
  BY FS_CardinalityType DEF Counted, SysType
<1>2. CASE Lives(s, t)
  BY <1>2 DEF Lives, Counted
<1>3. CASE Ends(s, t, c)
  <2>1. IsFiniteSet(Open(t)) /\ Cardinality(Open(t)) = Cardinality(Open(s)) - 1
    BY <1>3, FS_RemoveElement DEF Ends, Counted
  <2> QED BY <1>1, <1>3, <2>1 DEF Ends, Counted
<1> QED BY <1>2, <1>3 DEF Counts

LEMMA ThroughLives ==
    ASSUME NEW s, NEW r, NEW t, NEW c, Lives(s, r), Counts(r, t, c)
    PROVE  Counts(s, t, c)
BY DEF Lives, Ends, Counts

\* Files, items and interests do not matter to the count, nor do states between
\* which a connection remains allocated.
LEMMA SameCount ==
    ASSUME NEW s, NEW t, NEW c \in Conn, c \in Open(s),
           t.current = s.current, t.sock = s.sock, t.state[c] # "FREE",
           \A d \in Conn \ {c} : t.state[d] = s.state[d]
    PROVE  Lives(s, t)
BY DEF Lives, Open

LEMMA SourceType ==
    ASSUME NEW s \in SysType, NEW c \in Conn, NEW f \in FD \cup {-1}
    PROVE  LET t == [s EXCEPT !.sock[c][SRC] = f]
           IN  /\ t \in SysType /\ t.current = s.current /\ t.state = s.state
               /\ \A d \in Conn : t.sock[d][CLI] = s.sock[d][CLI]
<1> DEFINE t == [s EXCEPT !.sock[c][SRC] = f]
           n == [s.sock EXCEPT ![c] = [s.sock[c] EXCEPT ![SRC] = f]]
<1>1. s.sock \in [Conn -> [Side -> FD \cup {-1}]]
  BY DEF SysType
<1>2. t = [s EXCEPT !.sock = n]
  BY DEF SysType
<1>3. [s.sock[c] EXCEPT ![SRC] = f] \in [Side -> FD \cup {-1}]
      /\ [s.sock[c] EXCEPT ![SRC] = f][CLI] = s.sock[c][CLI]
  BY <1>1 DEF Side, SRC, CLI
<1>4. n \in [Conn -> [Side -> FD \cup {-1}]] /\ \A d \in Conn : n[d][CLI] = s.sock[d][CLI]
  BY <1>1, <1>3
<1> HIDE DEF n, t
<1>5. t \in SysType /\ t.current = s.current /\ t.state = s.state /\ t.sock = n
  BY <1>2, <1>4 DEF SysType
<1> QED BY <1>4, <1>5 DEF t

LEMMA ReleaseLives ==
    ASSUME NEW s \in SysType, NEW f
    PROVE  /\ Release(s, f) \in SysType /\ Lives(s, Release(s, f))
           /\ Release(s, f).state = s.state /\ Release(s, f).sock = s.sock
<1>1. CASE f \in FD
  BY <1>1, ReleaseType, ReleaseFields DEF Lives, Open
<1>2. CASE f \notin FD
  BY <1>2 DEF Release, Lives
<1> QED BY <1>1, <1>2

\* A connection with a client is subtracted, whatever else it closes.
LEMMA CloseCounts ==
    ASSUME NEW s \in SysType, NEW c \in Conn
    PROVE  LET t == close_socks_conn(s, c)
           IN  /\ t \in SysType
               /\ t.state = [s.state EXCEPT ![c] = "FREE"]
               /\ \A d \in Conn \ {c} : t.sock[d] = s.sock[d]
               /\ t.current = s.current - (IF s.sock[c][CLI] # -1 THEN 1 ELSE 0)
<1> DEFINE cli == s.sock[c][CLI]
           src == s.sock[c][SRC]
           a == Closed(s, src)
           r == Closed(a, cli)
           b == IF cli # -1 THEN [r EXCEPT !.current = @ - 1] ELSE r
           t == [b EXCEPT !.state[c] = "FREE", !.sock[c] = [x \in Side |-> -1]]
<1>0. ASSUME NEW q \in SysType, NEW f \in FD \cup {-1}
      PROVE  LET v == Closed(q, f)
             IN  v \in SysType /\ v.state = q.state /\ v.sock = q.sock /\ v.current = q.current
  BY ReleaseLives DEF Closed, Lives
<1>1. cli \in FD \cup {-1} /\ src \in FD \cup {-1}
  BY SockType DEF Side
<1>2. a \in SysType /\ a.state = s.state /\ a.sock = s.sock /\ a.current = s.current
  BY <1>0, <1>1
<1> HIDE DEF a
<1>3. r \in SysType /\ r.state = s.state /\ r.sock = s.sock /\ r.current = s.current
  BY <1>0, <1>1, <1>2
<1> HIDE DEF r
<1>4. /\ b \in SysType /\ b.state = s.state /\ b.sock = s.sock
      /\ b.current = s.current - (IF cli # -1 THEN 1 ELSE 0)
  BY <1>3 DEF SysType
<1> HIDE DEF b
<1>5. /\ t \in SysType /\ t.state = [b.state EXCEPT ![c] = "FREE"] /\ t.current = b.current
      /\ \A d \in Conn \ {c} : t.sock[d] = b.sock[d]
  BY <1>4 DEF SysType, States
<1>6. close_socks_conn(s, c) = t
  BY DEF close_socks_conn, a, b, r, Closed
<1> QED BY <1>4, <1>5, <1>6

LEMMA CloseEnds ==
    ASSUME NEW s \in SysType, NEW c \in Conn, s.sock[c][CLI] # -1
    PROVE  Ends(s, close_socks_conn(s, c), c)
<1> DEFINE t == close_socks_conn(s, c)
<1>1. /\ t.state = [s.state EXCEPT ![c] = "FREE"] /\ t.current = s.current - 1
      /\ \A d \in Conn \ {c} : t.sock[d] = s.sock[d]
  BY CloseCounts
<1> HIDE DEF t
<1>2. s.state \in [Conn -> States]
  BY DEF SysType
<1>3. Open(t) = Open(s) \ {c}
  BY <1>1, <1>2 DEF Open
<1>4. \A d \in Open(t) : t.sock[d][CLI] = s.sock[d][CLI]
  BY <1>1, <1>3 DEF Open
<1> QED BY <1>1, <1>3, <1>4 DEF Ends, t

\* A connection that a handler may be called for.
Served(s, c) == s \in SysType /\ c \in Open(s) /\ s.sock[c][CLI] # -1

LEMMA CloseCountsServed ==
    ASSUME NEW s, NEW c \in Conn, Served(s, c)
    PROVE  Counts(s, close_socks_conn(s, c), c)
BY CloseEnds DEF Served, Counts

LEMMA ServedOn ==
    ASSUME NEW s, NEW c \in Conn, Served(s, c), NEW t \in SysType, Lives(s, t)
    PROVE  Served(t, c)
BY DEF Served, Lives

LEMMA GotoLives ==
    ASSUME NEW s, NEW c \in Conn, Served(s, c),
           NEW f, NEW i \in SUBSET Interest, NEW x \in States \ {"FREE"}
    PROVE  Goto(s, c, x, f, i) \in SysType /\ Lives(s, Goto(s, c, x, f, i))
<1> DEFINE t == Goto(s, c, x, f, i)
<1>1. s \in SysType /\ c \in Open(s)
  BY DEF Served
<1>2. /\ t \in SysType /\ t.current = s.current /\ t.sock = s.sock
      /\ t.state[c] = x /\ \A d \in Conn \ {c} : t.state[d] = s.state[d]
  BY <1>1, GotoFields
<1> HIDE DEF t
<1>3. Lives(s, t)
  BY <1>1, <1>2, SameCount
<1> QED BY <1>2, <1>3 DEF t

LEMMA SetInterestLives ==
    ASSUME NEW s \in SysType, NEW f, NEW i \in SUBSET Interest
    PROVE  SetInterest(s, f, i) \in SysType /\ Lives(s, SetInterest(s, f, i))
BY SetInterestFields DEF Lives, Open

LEMMA ErrorCounts ==
    ASSUME NEW s, NEW c \in Conn, Served(s, c)
    PROVE  Counts(s, manage_req_error(s, c), c)
<1>1. Lives(s, Goto(s, c, "REFUSED", s.sock[c][CLI], {OP_WRITE}))
  BY GotoLives, Interests DEF States
<1> QED BY <1>1, CloseCountsServed DEF manage_req_error, Counts

LEMMA RegisterLives ==
    ASSUME NEW s, NEW c \in Conn, Served(s, c), NEW f \in FD,
           NEW i \in SUBSET Interest, NEW x \in States \ {"FREE"}
    PROVE  Register(s, c, x, f, i) \in SysType /\ Lives(s, Register(s, c, x, f, i))
<1> DEFINE t == Register(s, c, x, f, i)
<1>1. s \in SysType /\ c \in Open(s)
  BY DEF Served
<1>2. /\ t \in SysType /\ t.current = s.current /\ t.sock = s.sock
      /\ t.state[c] = x /\ \A d \in Conn \ {c} : t.state[d] = s.state[d]
  BY <1>1 DEF SysType, Register, Owners
<1> HIDE DEF t
<1>3. Lives(s, t)
  BY <1>1, <1>2, SameCount
<1> QED BY <1>2, <1>3 DEF t

LEMMA OpenedLives ==
    ASSUME NEW s, NEW c \in Conn, Served(s, c), NEW f \in FD
    PROVE  Opened(s, c, f) \in SysType /\ Lives(s, Opened(s, c, f))
<1> DEFINE q == [s EXCEPT !.sock[c][SRC] = f]
           t == [q EXCEPT !.file[f] = c]
<1>1. s \in SysType
  BY DEF Served
<1>2. /\ q \in SysType /\ q.current = s.current /\ q.state = s.state
      /\ \A d \in Conn : q.sock[d][CLI] = s.sock[d][CLI]
  BY <1>1, SourceType
<1>3. Opened(s, c, f) = t
  BY <1>1 DEF Opened, SysType
<1> HIDE DEF q
<1>4. t \in SysType /\ t.current = q.current /\ t.state = q.state /\ t.sock = q.sock
  BY <1>2 DEF SysType, Owners
<1> HIDE DEF t
<1> QED BY <1>2, <1>3, <1>4 DEF Lives, Open

LEMMA InitConnectionCounts ==
    ASSUME NEW s, NEW c \in Conn, Served(s, c), NEW t \in init_connection(s, c)
    PROVE  Counts(s, t, c)
<1>1. s \in SysType
  BY DEF Served
<1>2. CASE FreeFds(s) = {}
  <2> DEFINE u == [s EXCEPT !.sock[c][SRC] = -1]
  <2>1. u \in SysType /\ Lives(s, u)
    BY <1>1, SourceType DEF Lives, Open
  <2> HIDE DEF u
  <2>2. Counts(s, close_socks_conn(u, c), c)
    BY <2>1, ServedOn, CloseCountsServed, ThroughLives
  <2> QED BY <1>2, <2>2 DEF init_connection, u
<1>3. CASE FreeFds(s) # {}
  <2> DEFINE f == Lowest(s)
             o == Opened(s, c, f)
             q == SetInterest(o, s.sock[c][CLI], OP_NOOP)
  <2>1. f \in FD
    BY <1>3, LowestIsFree
  <2> HIDE DEF f
  <2>2. o \in SysType /\ Lives(s, o)
    BY <2>1, OpenedLives
  <2> HIDE DEF o
  <2>3. Served(o, c)
    BY <2>2, ServedOn
  <2>4. Counts(s, manage_req_error(o, c), c) /\ Counts(s, close_socks_conn(o, c), c)
    BY <2>2, <2>3, ErrorCounts, CloseCountsServed, ThroughLives
  <2>5. q \in SysType /\ Lives(o, q)
    BY <2>2, SetInterestLives, Interests
  <2> HIDE DEF q
  <2>6. Lives(q, Register(q, c, "REQ_CONNECT", f, {OP_WRITE}))
    BY <2>1, <2>3, <2>5, ServedOn, RegisterLives, Interests DEF States
  <2>7. Counts(s, Register(q, c, "REQ_CONNECT", f, {OP_WRITE}), c)
    BY <2>2, <2>5, <2>6, ThroughLives DEF Counts
  <2>8. init_connection(s, c) \subseteq
          {manage_req_error(o, c), close_socks_conn(o, c),
           Register(q, c, "REQ_CONNECT", f, {OP_WRITE})}
    BY <1>3 DEF init_connection, Opened, f, o, q
  <2> QED BY <2>4, <2>7, <2>8
<1> QED BY <1>2, <1>3

LEMMA DnsCounts ==
    ASSUME NEW s, NEW c \in Conn, Served(s, c), NEW t \in req_dns(s, c)
    PROVE  Counts(s, t, c)
BY InitConnectionCounts, ErrorCounts, CloseCountsServed DEF req_dns

LEMMA HandlerCounts ==
    ASSUME NEW s, NEW c \in Conn, Served(s, c), NEW f \in FD, NEW t \in Handler(s, c, f)
    PROVE  Counts(s, t, c)
<1> DEFINE cli == s.sock[c][CLI]
           src == s.sock[c][SRC]
<1>1. s \in SysType /\ Lives(s, s)
  BY DEF Served, Lives
<1>2. Counts(s, close_socks_conn(s, c), c) /\ Counts(s, manage_req_error(s, c), c)
      /\ Counts(s, s, c)
  BY <1>1, CloseCountsServed, ErrorCounts DEF Counts
<1>3. ASSUME NEW q, q \in SysType, Lives(s, q),
             NEW g, NEW i \in SUBSET Interest, NEW x \in States \ {"FREE"}
      PROVE  Goto(q, c, x, g, i) \in SysType /\ Counts(s, Goto(q, c, x, g, i), c)
  BY <1>3, ServedOn, GotoLives, ThroughLives DEF Counts
<1>4. ASSUME t \in Reading(s, c, f) PROVE Counts(s, t, c)
  <2> DEFINE g == Goto(s, c, "REQ_DNS", f, OP_NOOP)
             h == [g EXCEPT !.thread[c] = f]
  <2>1. g \in SysType /\ Lives(s, g)
    BY GotoLives, Interests DEF States
  <2> HIDE DEF g
  <2>2. h.current = g.current /\ h.state = g.state /\ h.sock = g.sock
    BY <2>1 DEF SysType
  <2> HIDE DEF h
  <2>3. Counts(s, h, c)
    BY <2>1, <2>2 DEF Lives, Open, Counts
  <2>4. Counts(s, Goto(s, c, "WRITING", f, {OP_WRITE}), c)
    BY <1>1, <1>3, Interests DEF States
  <2> QED BY <1>2, <1>4, <2>3, <2>4, InitConnectionCounts DEF Reading, g, h
<1>5. ASSUME t \in Writing(s, c, f) PROVE Counts(s, t, c)
  <2>1. Counts(s, Goto(s, c, "READING", f, {OP_READ}), c)
    BY <1>1, <1>3, Interests DEF States
  <2> QED BY <1>2, <1>5, <2>1 DEF Writing
<1>6. ASSUME t \in req_connect(s, c, f) PROVE Counts(s, t, c)
  <2> DEFINE q == SetInterest(s, f, OP_NOOP)
             r == Release(s, src)
  <2>1. q \in SysType /\ Lives(s, q) /\ r \in SysType /\ Lives(s, r)
    BY <1>1, SetInterestLives, Interests, ReleaseLives
  <2>2. req_connect(s, c, f) \subseteq
          {Goto(q, c, "ACCEPTED", cli, {OP_WRITE}), close_socks_conn(s, c), manage_req_error(s, c)}
          \cup req_dns(r, c)
    BY DEF req_connect
  <2> HIDE DEF q, r
  <2>3. Counts(s, Goto(q, c, "ACCEPTED", cli, {OP_WRITE}), c)
    BY <1>3, <2>1, Interests DEF States
  <2>4. \A v \in req_dns(r, c) : Counts(s, v, c)
    BY <2>1, ServedOn, DnsCounts, ThroughLives
  <2> QED BY <1>2, <1>6, <2>2, <2>3, <2>4
<1>7. ASSUME t \in req_write(s, c, f) PROVE Counts(s, t, c)
  <2> DEFINE q == SetInterest(s, f, {OP_READ})
  <2>1. q \in SysType /\ Lives(s, q)
    BY <1>1, SetInterestLives, Interests
  <2>2. t \in {s, close_socks_conn(s, c), Goto(q, c, "COPY", src, {OP_READ})}
    BY <1>7 DEF req_write
  <2> HIDE DEF q
  <2>3. Counts(s, Goto(q, c, "COPY", src, {OP_READ}), c)
    BY <1>3, <2>1, Interests DEF States
  <2> QED BY <1>2, <2>2, <2>3
<1>8. ASSUME t \in copy(s, c) PROVE Counts(s, t, c)
  <2>1. CASE t = close_socks_conn(s, c)
    BY <1>2, <2>1
  <2>2. CASE t # close_socks_conn(s, c)
    <3>1. PICK i \in (SUBSET Interest) \X (SUBSET Interest) :
             t = SetInterest(SetInterest(s, cli, i[1]), src, i[2])
      BY <1>8, <2>2 DEF copy
    <3> DEFINE q == SetInterest(s, cli, i[1])
    <3>2. q \in SysType /\ Lives(s, q)
      BY <1>1, SetInterestLives
    <3> HIDE DEF q
    <3>3. Lives(q, SetInterest(q, src, i[2]))
      BY <3>2, SetInterestLives
    <3> QED BY <3>1, <3>2, <3>3, ThroughLives DEF Counts, q
  <2> QED BY <2>1, <2>2
<1> QED BY <1>4, <1>5, <1>6, <1>7, <1>8 DEF Handler

\* A new connection is counted once it is registered; one that could not be is
\* subtracted all the same.
LEMMA AcceptCounts ==
    ASSUME NEW s \in SysType, NEW c \in Conn, s.state[c] = "FREE", Counted(s)
    PROVE  /\ Counted(close_socks_conn(Blank(s, c, -1), c))
           /\ \A f \in FD : Counted(Accepted(s, c, f))
<1>1. c \notin Open(s) /\ s.current \in Int /\ Cardinality(Open(s)) \in Nat
      /\ s.state \in [Conn -> States]
  BY FS_CardinalityType DEF Open, Counted, SysType
<1>2. ASSUME NEW f \in FD \cup {-1}
      PROVE  LET b == Blank(s, c, f)
             IN  /\ b \in SysType /\ b.current = s.current
                 /\ b.state = [s.state EXCEPT ![c] = "READING"]
                 /\ b.sock[c][CLI] = f /\ \A d \in Conn \ {c} : b.sock[d] = s.sock[d]
  <2> DEFINE b == Blank(s, c, f)
             new == [x \in Side |-> IF x = CLI THEN f ELSE 0]
  <2>1. new \in [Side -> FD \cup {-1}] /\ new[CLI] = f
    BY ServerAssumption DEF Side, FD
  <2>2. b = [s EXCEPT !.sock[c] = new, !.state[c] = "READING"]
    BY DEF Blank
  <2> HIDE DEF new, b
  <2>3. b.sock = [s.sock EXCEPT ![c] = new] /\ b.state = [s.state EXCEPT ![c] = "READING"]
        /\ s.sock \in [Conn -> [Side -> FD \cup {-1}]]
    BY <2>2 DEF SysType
  <2>4. b.sock \in [Conn -> [Side -> FD \cup {-1}]] /\ b.state \in [Conn -> States]
    BY <1>1, <2>1, <2>3 DEF States
  <2>5. b \in SysType /\ b.current = s.current
    BY <2>2, <2>4 DEF SysType
  <2> QED BY <2>1, <2>3, <2>5 DEF b
<1>3. ASSUME NEW q \in SysType, q.state = [s.state EXCEPT ![c] = "READING"],
             q.current = s.current, \A d \in Conn \ {c} : q.sock[d] = s.sock[d]
      PROVE  Counted(close_socks_conn(q, c))
  <2> DEFINE t == close_socks_conn(q, c)
  <2>1. /\ t.state = [q.state EXCEPT ![c] = "FREE"]
        /\ \A d \in Conn \ {c} : t.sock[d] = q.sock[d]
        /\ t.current = s.current \/ t.current = s.current - 1
    BY <1>1, <1>3, CloseCounts
  <2> HIDE DEF t
  <2>2. Open(t) = Open(s)
    BY <1>1, <1>3, <2>1 DEF Open
  <2>3. \A d \in Open(t) : t.sock[d] = s.sock[d]
    BY <1>1, <1>3, <2>1, <2>2 DEF Open
  <2>4. t.current <= Cardinality(Open(s))
    BY <1>1, <2>1 DEF Counted
  <2> QED BY <2>2, <2>3, <2>4 DEF Counted, t
<1>4. Counted(close_socks_conn(Blank(s, c, -1), c))
  BY <1>2, <1>3
<1>5. ASSUME NEW f \in FD PROVE Counted(Accepted(s, c, f))
  <2> DEFINE b == Blank(s, c, f)
             o == [b EXCEPT !.file[f] = c]
             r == Register(o, c, "READING", f, {OP_READ})
             t == [r EXCEPT !.current = @ + 1]
  <2>1. /\ b \in SysType /\ b.current = s.current
        /\ b.state = [s.state EXCEPT ![c] = "READING"]
        /\ b.sock[c][CLI] = f /\ \A d \in Conn \ {c} : b.sock[d] = s.sock[d]
    BY <1>2
  <2> HIDE DEF b
  <2>2. o \in SysType /\ o.current = b.current /\ o.state = b.state /\ o.sock = b.sock
    BY <2>1 DEF SysType, Owners
  <2> HIDE DEF o
  <2>3. Counted(close_socks_conn(o, c))
    BY <1>3, <2>1, <2>2
  <2>4. /\ r \in SysType /\ r.current = s.current /\ r.sock = o.sock
        /\ r.state = [s.state EXCEPT ![c] = "READING"]
    <3> DEFINE ow == [o.owner EXCEPT ![f] = c]
               it == [o.interest EXCEPT ![f] = {OP_READ}]
               st == [o.state EXCEPT ![c] = "READING"]
    <3>1. r = [o EXCEPT !.owner = ow, !.interest = it, !.state = st]
      BY <2>2 DEF Register, SysType
    <3>2. ow \in [FD -> Owners] /\ it \in [FD -> SUBSET Interest]
          /\ st \in [Conn -> States]
      BY <2>2 DEF SysType, Owners, States, Interest
    <3>3. st = [s.state EXCEPT ![c] = "READING"]
      BY <1>1, <2>1, <2>2
    <3> HIDE DEF ow, it, st, r
    <3> QED BY <2>1, <2>2, <3>1, <3>2, <3>3 DEF SysType
  <2> HIDE DEF r
  <2>5. t.current = s.current + 1 /\ t.sock = o.sock /\ t.state = r.state
    BY <2>4 DEF SysType
  <2> HIDE DEF t
  <2>6. Open(t) = Open(s) \cup {c}
    BY <1>1, <2>4, <2>5 DEF Open
  <2>7. IsFiniteSet(Open(t)) /\ Cardinality(Open(t)) = Cardinality(Open(s)) + 1
    BY <1>1, <2>6, FS_AddElement DEF Counted
  <2>8. \A d \in Open(t) : t.sock[d][CLI] # -1
    BY <2>1, <2>2, <2>5, <2>6 DEF Counted, Open, FD
  <2>9. Counted(t)
    BY <1>1, <2>5, <2>7, <2>8 DEF Counted
  <2> QED BY <2>3, <2>9 DEF Accepted, b, o, r, t
<1> QED BY <1>4, <1>5

LEMMA CountedInit == Init => Counted(sys)
<1> SUFFICES ASSUME Init PROVE Counted(sys)
  OBVIOUS
<1>1. Open(sys) = {} /\ sys.current = 0
  BY DEF Init, Open
<1> QED BY <1>1, FS_EmptySet DEF Counted

LEMMA CountedStep == Inv /\ Counted(sys) /\ [Next]_vars => Counted(sys')
<1> SUFFICES ASSUME Inv, Counted(sys), [Next]_vars PROVE Counted(sys')
  OBVIOUS
<1>1. sys \in SysType
  BY DEF Inv, TypeOK
<1>2. ASSUME NEW c \in Conn, sys.state[c] # "FREE" PROVE Served(sys, c)
  BY <1>1, <1>2 DEF Served, Open, Counted
<1>3. ASSUME NEW e \in FD \X Interest, passive_socks_socket_handler(e) PROVE Counted(sys')
  <2>1. PICK c \in Conn :
          /\ sys.state[c] = "FREE"
          /\ \/ sys' = close_socks_conn(Blank(sys, c, -1), c)
             \/ FreeFds(sys) # {} /\ sys' = Accepted(sys, c, Lowest(sys))
    BY <1>3 DEF passive_socks_socket_handler
  <2>2. FreeFds(sys) # {} => Lowest(sys) \in FD
    BY LowestIsFree
  <2> QED BY <1>1, <2>1, <2>2, AcceptCounts
<1>4. ASSUME NEW e \in FD \X Interest, ConnEvent(e) PROVE Counted(sys')
  <2> DEFINE c == sys.owner[e[1]]
  <2>1. c \in Conn /\ sys.state[c] \in Handlers(e[2]) /\ sys' \in Handler(sys, c, e[1])
    BY <1>4 DEF ConnEvent
  <2> HIDE DEF c
  <2>2. e[1] \in FD /\ sys.state[c] # "FREE"
    BY <2>1 DEF Handlers
  <2>3. Served(sys, c) /\ c \in Open(sys)
    BY <1>2, <2>1, <2>2 DEF Open
  <2> QED BY <1>1, <2>1, <2>2, <2>3, HandlerCounts, CountsKeeps
<1>5. ASSUME NEW j \in FD \X Conn, handle_block_notifications(j) PROVE Counted(sys')
  <2>1. CASE sys' = sys
    BY <2>1
  <2>2. CASE sys' # sys
    <3>1. PICK c \in Conn : sys.state[c] = "REQ_DNS" /\ sys' \in req_dns(sys, c)
      BY <1>5, <2>2 DEF handle_block_notifications
    <3>2. Served(sys, c) /\ c \in Open(sys)
      BY <1>2, <3>1 DEF Open
    <3> QED BY <1>1, <3>1, <3>2, DnsCounts, CountsKeeps
  <2> QED BY <2>1, <2>2
<1>6. ASSUME NEW c \in Conn, selector_notify_block(c) PROVE Counted(sys')
  <2>1. sys' = [sys EXCEPT !.thread[c] = -1]
    BY <1>6 DEF selector_notify_block
  <2>2. sys'.state = sys.state /\ sys'.sock = sys.sock /\ sys'.current = sys.current
    BY <1>1, <2>1 DEF SysType
  <2> QED BY <2>2 DEF Counted, Open
<1>7. ASSUME \/ selector_select \/ EndIteration \/ Unlock \/ UNCHANGED vars
             \/ \E e \in FD \X Interest : Skip(e) \/ Abort(e)
      PROVE  Counted(sys')
  <2>1. sys' = sys
    BY <1>7 DEF selector_select, EndIteration, Unlock, vars, Skip, Abort
  <2> QED BY <2>1
<1> QED BY <1>3, <1>4, <1>5, <1>6, <1>7 DEF Next

\* The metric never counts a connection that is gone, however many end at once,
\* by whichever path: each end subtracts one, and only a registered one was added.
THEOREM NoGhostsAreCounted == Spec => []NoneCountedAfterClose
<1>1. Counted(sys) => NoneCountedAfterClose
  BY DEF Counted, Open, NoneCountedAfterClose
<1>2. Counted(sys)' <=> Counted(sys')
  BY DEF Counted, Open
<1> QED BY <1>1, <1>2, CountedInit, CountedStep, InvAlways, PTL DEF Spec
=============================================================================
