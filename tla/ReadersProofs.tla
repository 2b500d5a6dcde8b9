---------------------------- MODULE ReadersProofs ----------------------------
(***************************************************************************)
(* What holds of the readers for every size of their fields, every byte    *)
(* and every cut of a message: a reader stores outside its arrays one      *)
(* terminator at most, each automaton decides as the grammar of its        *)
(* message does, and the fields of a whole message are those sent.         *)
(*                                                                         *)
(* The sniffer first: its loop over a buffer and its indices.  Then, for   *)
(* each of the five messages, what is known of the bytes seen in each      *)
(* state of the automaton, that a byte keeps it, and what follows from it. *)
(***************************************************************************)
EXTENDS Readers, WellFoundedInduction, TLAPS

-----------------------------------------------------------------------------
(* Induction. *)

\* A set of numbers that has one has a least one.
LEMMA LeastNumber ==
    ASSUME NEW S, S \subseteq Nat, S # {}
    PROVE  \E n \in S : \A m \in S : n <= m
<1>1. PICK n \in S : \A m \in S : ~(<<m, n>> \in OpToRel(<, Nat))
  BY NatLessThanWellFounded, WFMin
<1>2. \A m \in S : ~(m < n)
  BY <1>1, Zenon DEF OpToRel
<1>3. \A m \in S : n <= m
  BY <1>2
<1> QED BY <1>3

\* A set of numbers with 0 and, up to a bound, the successor of each has all up to it.
LEMMA InductionUpTo ==
    ASSUME NEW N \in Nat, NEW S, 0 \in S, \A n \in 0..(N - 1) : n \in S => n + 1 \in S
    PROVE  0..N \subseteq S
<1>1. SUFFICES ASSUME (0..N) \ S # {} PROVE FALSE
  OBVIOUS
<1> DEFINE T == (0..N) \ S
<1>2. T \subseteq Nat /\ T # {}
  BY <1>1
<1> HIDE DEF T
<1>3. PICK n \in T : \A m \in T : n <= m
  BY <1>2, LeastNumber
<1> USE DEF T
<1>4. n # 0 /\ n - 1 \in 0..(N - 1) /\ n - 1 \in S
  BY <1>3
<1> QED BY <1>3, <1>4

-----------------------------------------------------------------------------
(* Strings in blocks. *)

LEMMA BytesAreCells == Byte \subseteq Cell
BY DEF Cell

\* What the choice in UpToNul finds.
LEMMA UpToNulIs ==
    ASSUME NEW s \in Seq(Cell), NEW e \in 1..(Len(s) + 1),
           e = Len(s) + 1 \/ s[e] = 0, \A i \in 1..(e - 1) : s[i] # 0
    PROVE  UpToNul(s) = SubSeq(s, 1, e - 1)
<1> DEFINE nul == {i \in DOMAIN s : s[i] = 0}
<1>1. e \in nul \cup {Len(s) + 1} /\ \A j \in nul \cup {Len(s) + 1} : e <= j
  OBVIOUS
<1>2. \A j \in nul : e <= j
  BY <1>1
<1>3. \A i \in nul \cup {Len(s) + 1} : (\A j \in nul : i <= j) => i = e
  BY <1>1
<1>4. (CHOOSE i \in nul \cup {Len(s) + 1} : \A j \in nul : i <= j) = e
  BY <1>1, <1>2, <1>3
<1> QED BY <1>4 DEF UpToNul

\* The end of a C string is its first zero, or the end of its bytes.
LEMMA FirstNul ==
    ASSUME NEW s \in Seq(Byte)
    PROVE  \E e \in 1..(Len(s) + 1) :
             (e = Len(s) + 1 \/ s[e] = 0) /\ \A i \in 1..(e - 1) : s[i] # 0
<1> DEFINE E == {e \in 1..(Len(s) + 1) : e = Len(s) + 1 \/ s[e] = 0}
<1>1. E \subseteq Nat /\ Len(s) + 1 \in E
  OBVIOUS
<1>2. PICK e \in E : \A m \in E : e <= m
  BY <1>1, LeastNumber
<1>3. \A i \in 1..(e - 1) : s[i] # 0
  BY <1>2
<1> QED BY <1>2, <1>3

\* A string that was stored with its terminator is read back, up to a NUL of its own.
LEMMA ReadsBack ==
    ASSUME NEW n \in Nat, NEW block \in [0..(n - 1) -> Cell],
           NEW from \in 0..(n - 1),
           NEW s \in Seq(Byte), Len(s) < n - from,
           \A i \in 1..Len(s) : block[from + i - 1] = s[i],
           block[from + Len(s)] = 0
    PROVE  TextAt(block, from, n) = UpToNul(s)
<1> DEFINE t == [i \in 1..(n - from) |-> block[from + i - 1]]
<1>1. t \in Seq(Cell) /\ Len(t) = n - from
  OBVIOUS
<1>2. PICK e \in 1..(Len(s) + 1) :
        (e = Len(s) + 1 \/ s[e] = 0) /\ \A i \in 1..(e - 1) : s[i] # 0
  BY FirstNul
<1>3. e \in 1..(Len(t) + 1) /\ t[e] = 0 /\ \A i \in 1..(e - 1) : t[i] = s[i]
  BY <1>1, <1>2
<1>4. UpToNul(s) = SubSeq(s, 1, e - 1)
  <2>1. s \in Seq(Cell)
    BY BytesAreCells
  <2> QED BY <1>2, <2>1, UpToNulIs
<1>5. UpToNul(t) = SubSeq(t, 1, e - 1)
  <2> HIDE DEF t
  <2> QED BY <1>1, <1>2, <1>3, UpToNulIs
<1>6. SubSeq(t, 1, e - 1) = SubSeq(s, 1, e - 1)
  <2> HIDE DEF t
  <2> QED BY <1>1, <1>2, <1>3
<1> QED BY <1>4, <1>5, <1>6 DEF TextAt

-----------------------------------------------------------------------------
(* The loop of the sniffer. *)

\* The loop of pop3_parse over a buffer is a function on the number of its bytes.
LEMMA LoopExists ==
    ASSUME NEW p, NEW bytes, NEW N \in Nat
    PROVE  \E f : f = [n \in 0..N |->
                         IF n = 0 THEN p ELSE pop3_parse_char(f[n - 1], bytes[n])]
<1> DEFINE Is(h, m) == h = [n \in 0..m |->
                              IF n = 0 THEN p ELSE pop3_parse_char(h[n - 1], bytes[n])]
           S == {m \in 0..N : \E h : Is(h, m)}
<1>1. 0 \in S
  <2>1. Is([n \in 0..0 |-> p], 0)
    OBVIOUS
  <2>2. \E h : Is(h, 0)
    <3> HIDE DEF Is
    <3> QED BY <2>1
  <2> QED BY <2>2
<1>2. ASSUME NEW m \in 0..(N - 1), m \in S PROVE m + 1 \in S
  <2>1. PICK f : Is(f, m)
    BY <1>2
  <2> DEFINE g == [n \in 0..(m + 1) |->
                     IF n = m + 1 THEN pop3_parse_char(f[m], bytes[m + 1]) ELSE f[n]]
  <2>2. \A n \in 0..m : f[n] = IF n = 0 THEN p ELSE pop3_parse_char(f[n - 1], bytes[n])
    BY <2>1
  <2>3. \A n \in 0..(m + 1) :
          g[n] = IF n = 0 THEN p ELSE pop3_parse_char(g[n - 1], bytes[n])
    <3> TAKE n \in 0..(m + 1)
    <3>1. CASE n = 0
      BY <2>2, <3>1
    <3>2. CASE n \in 1..m
      <4>1. g[n] = f[n] /\ g[n - 1] = f[n - 1] /\ n # 0
        BY <3>2
      <4> QED BY <2>2, <3>2, <4>1
    <3>3. CASE n = m + 1
      <4>1. g[n] = pop3_parse_char(f[m], bytes[m + 1]) /\ g[n - 1] = f[m] /\ n # 0
        BY <3>3
      <4> QED BY <3>3, <4>1
    <3> QED BY <3>1, <3>2, <3>3
  <2>4. Is(g, m + 1)
    BY <2>3
  <2>5. \E h : Is(h, m + 1)
    <3> HIDE DEF Is, g
    <3> QED BY <2>4
  <2> QED BY <2>5
<1>3. N \in S
  <2> HIDE DEF S
  <2> QED BY <1>1, <1>2, InductionUpTo
<1> QED BY <1>3

\* What each byte keeps, the loop keeps.
LEMMA LoopKeeps ==
    ASSUME NEW p, NEW bytes, Len(bytes) \in Nat, NEW P, p \in P,
           \A q \in P, n \in 1..Len(bytes) : pop3_parse_char(q, bytes[n]) \in P
    PROVE  Parsed(p, bytes) \in P
<1> DEFINE N == Len(bytes)
           after == CHOOSE f : f = [n \in 0..N |->
                       IF n = 0 THEN p ELSE pop3_parse_char(f[n - 1], bytes[n])]
           S == {n \in 0..N : after[n] \in P}
<1>0. N \in Nat
  OBVIOUS
<1>1. after = [n \in 0..N |->
                 IF n = 0 THEN p ELSE pop3_parse_char(after[n - 1], bytes[n])]
  BY LoopExists
<1> HIDE DEF after
<1>2. after[0] = p
  BY <1>1
<1>3. \A n \in 0..(N - 1) : after[n + 1] = pop3_parse_char(after[n], bytes[n + 1])
  BY <1>1
<1>4. 0 \in S /\ \A n \in 0..(N - 1) : n \in S => n + 1 \in S
  BY <1>2, <1>3
<1>5. after[N] \in P
  <2> HIDE DEF S, N
  <2>1. 0..N \subseteq S
    BY <1>0, <1>4, InductionUpTo
  <2>2. N \in 0..N
    BY <1>0
  <2>3. N \in S
    BY <2>1, <2>2
  <2> QED BY <2>3 DEF S
<1> QED BY <1>5 DEF Parsed, after

-----------------------------------------------------------------------------
(* The sniffer. *)

Argument == [0..(ARGUMENT_LENGTH - 1) -> Byte]

SnifferState ==
    {"NULL", "POP3_USER_CMD", "POP3_USER", "POP3_PASS_CMD", "POP3_PASS", "POP3_DONE", "POP3_ERROR"}

SnifferParser ==
    [state : SnifferState, read_ptr : 0..4, write_ptr : 0..(ARGUMENT_LENGTH - 1),
     user_done : BOOLEAN, user : Argument, pass : Argument]

SnifferInv ==
    /\ dialogue \in Dialogues /\ line \in Nat \ {0}
    /\ rest \in Seq(Byte) /\ pending \in Seq(Byte)
    /\ pop3 \in SnifferParser

\* The matching of a keyword keeps the indices of the sniffer inside it.
LEMMA CommandStaysInside ==
    ASSUME NEW p \in SnifferParser, NEW c \in Byte, NEW keyword, Len(keyword) = 5,
           NEW next \in SnifferState
    PROVE  parse_cmd(p, c, keyword, next) \in SnifferParser
<1>1. p.read_ptr \in 0..4
  BY DEF SnifferParser
<1>2. handle_error(p) \in SnifferParser
  BY DEF handle_error, SnifferParser, SnifferState
<1>3. ASSUME NEW n \in 0..4, NEW x \in SnifferState
      PROVE  [p EXCEPT !.read_ptr = n, !.state = x] \in SnifferParser /\ [p EXCEPT !.read_ptr = n] \in SnifferParser
  BY DEF SnifferParser
<1>4. [p EXCEPT !.read_ptr = 0, !.state = next] \in SnifferParser
  <2>1. 0 \in 0..4
    OBVIOUS
  <2> QED BY <1>3, <2>1, Zenon
<1>5. p.read_ptr + 1 # 5 => [p EXCEPT !.read_ptr = @ + 1] \in SnifferParser
  <2>1. p.read_ptr + 1 # 5 => p.read_ptr + 1 \in 0..4
    BY <1>1
  <2> QED BY <1>3, <2>1
<1> QED BY <1>2, <1>4, <1>5, Zenon DEF parse_cmd

\* The reading of an argument stores inside its array and leaves room for the end.
LEMMA ArgumentStaysInside ==
    ASSUME NEW p \in SnifferParser, NEW c \in Byte, NEW field \in {"user", "pass"},
           NEW next \in SnifferState
    PROVE  parse_argument(p, c, field, next) \in SnifferParser
<1>1. p.write_ptr \in 0..(ARGUMENT_LENGTH - 1) /\ p.user \in Argument /\ p.pass \in Argument
  BY DEF SnifferParser
<1>2. ASSUME NEW v \in Byte, NEW w \in 0..(ARGUMENT_LENGTH - 1), NEW x \in SnifferState
      PROVE  [p EXCEPT ![field][p.write_ptr] = v, !.write_ptr = w, !.state = x] \in SnifferParser
  <2>1. CASE field = "user"
    <3> DEFINE u == [p.user EXCEPT ![p.write_ptr] = v]
    <3>1. u \in Argument
      BY <1>1 DEF Argument
    <3>2. [p EXCEPT !["user"][p.write_ptr] = v] = [p EXCEPT !.user = u]
      BY DEF SnifferParser
    <3>3. [p EXCEPT !.user = u, !.write_ptr = w, !.state = x] \in SnifferParser
      <4> HIDE DEF u
      <4> QED BY <3>1 DEF SnifferParser
    <3> QED BY <2>1, <3>2, <3>3
  <2>2. CASE field = "pass"
    <3> DEFINE u == [p.pass EXCEPT ![p.write_ptr] = v]
    <3>1. u \in Argument
      BY <1>1 DEF Argument
    <3>2. [p EXCEPT !["pass"][p.write_ptr] = v] = [p EXCEPT !.pass = u]
      BY DEF SnifferParser
    <3>3. [p EXCEPT !.pass = u, !.write_ptr = w, !.state = x] \in SnifferParser
      <4> HIDE DEF u
      <4> QED BY <3>1 DEF SnifferParser
    <3> QED BY <2>2, <3>2, <3>3
  <2> QED BY <2>1, <2>2
<1>3. ASSUME NEW v \in Byte
      PROVE  [p EXCEPT ![field][p.write_ptr] = v, !.write_ptr = 0, !.state = next] \in SnifferParser
  <2>1. 0 \in 0..(ARGUMENT_LENGTH - 1)
    BY SnifferAssumption
  <2> QED BY <1>2, <2>1, Zenon
<1>4. ASSUME p.write_ptr + 1 # ARGUMENT_LENGTH
      PROVE  [p EXCEPT ![field][p.write_ptr] = c, !.write_ptr = @ + 1] \in SnifferParser
  <2>1. p.write_ptr + 1 \in 0..(ARGUMENT_LENGTH - 1) /\ p.state \in SnifferState
    BY <1>1, <1>4, SnifferAssumption DEF SnifferParser
  <2>2. [p EXCEPT ![field][p.write_ptr] = c, !.write_ptr = p.write_ptr + 1, !.state = p.state]
        = [p EXCEPT ![field][p.write_ptr] = c, !.write_ptr = p.write_ptr + 1]
    BY DEF SnifferParser
  <2> QED BY <1>2, <2>1, <2>2
<1>5. [p EXCEPT !.state = "POP3_ERROR"] \in SnifferParser
  BY DEF SnifferParser, SnifferState
<1>6. 0 \in Byte
  BY DEF Byte
<1> QED BY <1>3, <1>4, <1>5, <1>6 DEF parse_argument

\* Whatever byte comes, the sniffer stays inside its arrays.
LEMMA ByteStaysInside ==
    ASSUME NEW p \in SnifferParser, NEW c \in Byte
    PROVE  pop3_parse_char(p, c) \in SnifferParser
<1>1. Len(USER \o <<Space>>) = 5 /\ Len(PASS \o <<Space>>) = 5
  BY DEF USER, PASS, Space
<1>2. parse_cmd(p, c, USER \o <<Space>>, "POP3_USER") \in SnifferParser
      /\ parse_cmd(p, c, PASS \o <<Space>>, "POP3_PASS") \in SnifferParser
  BY <1>1, CommandStaysInside DEF SnifferState
<1>3. parse_argument(p, c, "user", "POP3_PASS_CMD") \in SnifferParser
      /\ parse_argument(p, c, "pass", "POP3_DONE") \in SnifferParser
  BY ArgumentStaysInside DEF SnifferState
<1>4. handle_error(p) \in SnifferParser
  BY DEF handle_error, SnifferParser, SnifferState
<1>5. ASSUME NEW q \in SnifferParser, NEW x \in BOOLEAN
      PROVE  [q EXCEPT !.user_done = x] \in SnifferParser
  BY DEF SnifferParser
<1>6. ASSUME NEW q \in SnifferParser
      PROVE  [q EXCEPT !.user_done = @ \/ q.state = "POP3_PASS_CMD"] \in SnifferParser
  BY <1>5
<1> QED BY <1>2, <1>3, <1>4, <1>6, Zenon DEF pop3_parse_char

\* pop3_parser_init begins inside them.
LEMMA InitStaysInside ==
    ASSUME NEW p \in SnifferParser
    PROVE  pop3_parser_init(p) \in SnifferParser
<1> DEFINE q == [p EXCEPT !.state = "POP3_USER_CMD", !.read_ptr = 0, !.write_ptr = 0]
<1>1. q \in SnifferParser
  <2>2. ASSUME NEW x \in SnifferState, NEW n \in 0..4, NEW w \in 0..(ARGUMENT_LENGTH - 1)
        PROVE  [p EXCEPT !.state = x, !.read_ptr = n, !.write_ptr = w] \in SnifferParser
    BY DEF SnifferParser
  <2>1. 0 \in 0..4 /\ 0 \in 0..(ARGUMENT_LENGTH - 1) /\ "POP3_USER_CMD" \in SnifferState
    BY SnifferAssumption DEF SnifferState
  <2> QED BY <2>1, <2>2, Zenon
<1> HIDE DEF q
<1>2. [q EXCEPT !.user_done = FALSE] \in SnifferParser
  BY <1>1 DEF SnifferParser
<1> QED BY <1>2, Zenon DEF q, pop3_parser_init

\* A dialogue is made of lines of bytes.
LEMMA DialogueLines ==
    ASSUME NEW d \in Dialogues
    PROVE  /\ d \in Seq([keyword : Seq(Byte), argument : Seq(Byte)])
           /\ Len(d) \in Nat /\ 1 \in 1..Len(d)
<1>1. d # <<>> /\ d \in Seq([keyword : Seq(Byte), argument : Seq(Byte)])
  BY SnifferAssumption, Zenon DEF Byte
<1> QED BY <1>1

\* What a client sends for a line is bytes.
LEMMA LineIsBytes ==
    ASSUME NEW d \in Dialogues, NEW i \in 1..Len(d)
    PROVE  LineOf(d[i]) \in Seq(Byte)
<1> DEFINE S == [keyword : Seq(Byte), argument : Seq(Byte)]
<1>1. d[i] \in S
  <2> HIDE DEF S
  <2>1. d \in Seq(S)
    BY DialogueLines DEF S
  <2> QED BY <2>1
<1>2. d[i].keyword \in Seq(Byte) /\ d[i].argument \in Seq(Byte)
  BY <1>1
<1>3. <<Space>> \in Seq(Byte) /\ <<LineFeed>> \in Seq(Byte)
  BY DEF Byte, Space, LineFeed
<1> QED BY <1>2, <1>3 DEF LineOf

\* A copy begins with a sniffer inside its arrays.
LEMMA SnifferInitInv == SnifferInit => SnifferInv
<1> SUFFICES ASSUME SnifferInit PROVE SnifferInv
  OBVIOUS
<1>2. [i \in 0..(ARGUMENT_LENGTH - 1) |-> 0] \in Argument
  BY DEF Argument, Byte
<1>3. NoParser \in SnifferParser
  BY <1>2, SnifferAssumption DEF NoParser, SnifferParser, SnifferState
<1>4. pop3_parser_init(NoParser) \in SnifferParser
  BY <1>3, InitStaysInside
<1>5. pop3 \in SnifferParser
  BY <1>3, <1>4 DEF SnifferInit
<1>6. rest \in Seq(Byte)
  BY DialogueLines, LineIsBytes DEF SnifferInit
<1> QED BY <1>5, <1>6 DEF SnifferInit, SnifferInv

\* Whatever comes, from either side.
LEMMA ParsedStaysInside ==
    ASSUME SnifferInv, NEW bytes \in Seq(Byte), pop3_parse(bytes)
    PROVE  pop3' \in SnifferParser
<1> DEFINE p == Parsed(pop3, bytes)
<1>1. p \in SnifferParser
  <2>1. \A q \in SnifferParser, n \in 1..Len(bytes) : pop3_parse_char(q, bytes[n]) \in SnifferParser
    BY ByteStaysInside
  <2> QED BY <2>1, LoopKeeps DEF SnifferInv
<1> HIDE DEF p
<1>2. pop3_parser_init(p) \in SnifferParser
  BY <1>1, InitStaysInside
<1> QED BY <1>1, <1>2 DEF pop3_parse, SnifferInv, p

\* Every step of a copy keeps the sniffer inside its arrays.
LEMMA SnifferStep == SnifferInv /\ [SnifferNext]_snifferVars => SnifferInv'
<1> SUFFICES ASSUME SnifferInv, [SnifferNext]_snifferVars PROVE SnifferInv'
  OBVIOUS
<1>1. ASSUME NEW n \in 1..Len(rest), ClientBytes(n) PROVE SnifferInv'
  <2>1. pending' \in Seq(Byte) /\ rest' \in Seq(Byte)
    BY <1>1 DEF ClientBytes, SnifferInv
  <2>2. pop3' \in SnifferParser
    BY <1>1, <2>1, ParsedStaysInside DEF ClientBytes
  <2> QED BY <1>1, <2>1, <2>2 DEF ClientBytes, SnifferInv
<1>2. ASSUME NEW n \in 1..Len(pending), OriginTakes(n) PROVE SnifferInv'
  BY <1>2 DEF OriginTakes, SnifferInv
<1>3. ASSUME NEW r \in Replies, OriginAnswers(r) PROVE SnifferInv'
  <2>1. r \in Seq(Byte)
    BY SnifferAssumption DEF Byte
  <2>2. pop3' \in SnifferParser
    BY <1>3, <2>1, ParsedStaysInside DEF OriginAnswers
  <2>3. rest' \in Seq(Byte)
    <3>1. line < Len(dialogue) => line + 1 \in 1..Len(dialogue)
      BY DialogueLines DEF SnifferInv
    <3> QED BY <1>3, <3>1, LineIsBytes DEF OriginAnswers, SnifferInv
  <2> QED BY <1>3, <2>2, <2>3 DEF OriginAnswers, SnifferInv
<1>4. CASE set_sniffer_state \/ UNCHANGED snifferVars
  BY <1>4 DEF set_sniffer_state, snifferVars, SnifferInv
<1> QED BY <1>1, <1>2, <1>3, <1>4 DEF SnifferNext

\* That is the property the runs check.
LEMMA SnifferInvInBounds == SnifferInv => SnifferInBounds
<1>1. Len(USER) = 4
  BY DEF USER
<1> QED BY <1>1, SnifferAssumption DEF SnifferInv, SnifferParser, Argument, SnifferInBounds

-----------------------------------------------------------------------------
(* What each automaton knows of the bytes seen. *)

\* The bytes of s from the i-th on, n of them, are in the block.
Stored(block, from, s, i, n) == \A j \in 0..(n - 1) : block[from + j] = s[i + j]

HeaderOK == \A i \in DOMAIN seen \cap DOMAIN Header[reader] : seen[i] \in Header[reader][i]

\* The header was as it should be up to the last byte.
BadHeader == Len(seen) \in DOMAIN Header[reader] /\ seen[Len(seen)] \notin Header[reader][Len(seen)]

HelloState == {"CONN_VERSION", "CONN_NMETHODS", "CONN_METHODS", "CONN_DONE", "CONN_ERROR"}

HelloParser == [state : HelloState, to_parse : Int, auth : Byte]

HelloInv ==
    LET n == Len(seen)
    IN  /\ parser \in HelloParser
        /\ HelloFields
        /\ parser.state = "CONN_ERROR" <=> BadHeader
        /\ \/ parser.state = "CONN_ERROR"
           \/ parser.state = "CONN_VERSION" /\ n = 0
           \/ parser.state = "CONN_NMETHODS" /\ n = 1
           \/ /\ parser.state = "CONN_METHODS" /\ n >= 2
              /\ parser.to_parse = 2 + seen[2] - n /\ parser.to_parse > 0
           \/ parser.state = "CONN_DONE" /\ n >= 2 /\ n = 2 + seen[2]

\* Of a name of MAX_LEN bytes nothing is said.
NameStored(text, s, n) ==
    s[2] < MAX_LEN => Stored(text, 0, s, 3, n) /\ (s[2] > 0 => text[s[2]] = 0)

PasswordStored(text, s, n) ==
    LET plen == s[3 + s[2]]
    IN  Stored(text, MAX_LEN, s, 4 + s[2], n) /\ (plen > 0 => text[MAX_LEN + plen] = 0)

AuthState ==
    {"AUTH_VER", "AUTH_ULEN", "AUTH_UNAME", "AUTH_PLEN", "AUTH_PASSWD", "AUTH_DONE", "AUTH_ERROR"}

AuthParser ==
    [state : AuthState, to_parse : Int, where_to : Int, text : [0..(2 * MAX_LEN) -> Cell]]

AuthInv ==
    LET n == Len(seen)
        ulen == seen[2]
        plen == seen[3 + ulen]
        x == n - 3 - ulen
    IN  /\ parser \in AuthParser
        /\ parser.state = "AUTH_ERROR" <=> BadHeader
        /\ n >= 2 => ulen <= MAX_LEN
        /\ \/ parser.state = "AUTH_ERROR"
           \/ parser.state = "AUTH_VER" /\ n = 0
           \/ parser.state = "AUTH_ULEN" /\ n = 1
           \/ /\ parser.state = "AUTH_UNAME" /\ n >= 2 /\ n - 2 < ulen
              /\ parser.where_to = n - 2 /\ parser.to_parse = ulen - (n - 2)
              /\ NameStored(parser.text, seen, n - 2)
           \/ /\ parser.state = "AUTH_PLEN" /\ n >= 2 /\ n = 2 + ulen
              /\ NameStored(parser.text, seen, ulen)
           \/ /\ parser.state = "AUTH_PASSWD" /\ n >= 2 /\ x >= 0 /\ x < plen /\ plen <= MAX_LEN
              /\ parser.where_to = MAX_LEN + x /\ parser.to_parse = plen - x
              /\ NameStored(parser.text, seen, ulen) /\ PasswordStored(parser.text, seen, x)
           \/ /\ parser.state = "AUTH_DONE" /\ n >= 2 /\ x >= 0 /\ x = plen /\ plen <= MAX_LEN
              /\ NameStored(parser.text, seen, ulen) /\ PasswordStored(parser.text, seen, plen)

ReqState ==
    {"REQ_VER", "REQ_CMD", "REQ_RSV", "REQ_ATYP", "REQ_DST_ADDR", "REQ_DST_PORT", "REQ_DONE",
     "REQ_ERROR"}

ReqParser ==
    [state : ReqState, to_parse : Int, where_to : Int, cmd : Byte, type : Byte,
     fqdn : [0..MAX_FQDN_SIZE -> Cell], ip : [0..(IPv6_BYTES - 1) -> Cell],
     port : [0..(REQ_DST_PORT_BYTES - 1) -> Cell]]

\* How long the address is that is not a name, and all before the port.
IpSize(s) == IF s[4] = IPv4 THEN IPv4_BYTES ELSE IPv6_BYTES
BeforePort(s) == IF s[4] = FQDN THEN 5 + s[5] ELSE 4 + IpSize(s)

AddressStored(p, s) ==
    IF s[4] = FQDN
      THEN /\ s[5] <= MAX_FQDN_SIZE
           /\ Stored(p.fqdn, 0, s, 6, s[5])
           /\ s[5] > 0 => p.fqdn[s[5]] = 0
      ELSE Stored(p.ip, 0, s, 5, IpSize(s))

\* What is known of the address and the port, by state.
RequestStored(p, s) ==
    LET n == Len(s)
        x == n - BeforePort(s)
    IN  \/ /\ p.state = "REQ_DST_ADDR" /\ n = 4 /\ s[4] = FQDN
           /\ p.where_to = 0 /\ p.to_parse = FIRST_FQDN_BYTE_PARSE
        \/ /\ p.state = "REQ_DST_ADDR" /\ n > 4 /\ s[4] = FQDN
           /\ n - 5 < s[5] /\ s[5] <= MAX_FQDN_SIZE
           /\ p.where_to = n - 5 /\ p.to_parse = s[5] - (n - 5)
           /\ Stored(p.fqdn, 0, s, 6, n - 5) /\ p.fqdn[s[5]] = 0
        \/ /\ p.state = "REQ_DST_ADDR" /\ s[4] # FQDN /\ n - 4 < IpSize(s)
           /\ p.where_to = n - 4 /\ p.to_parse = IpSize(s) - (n - 4)
           /\ Stored(p.ip, 0, s, 5, n - 4)
        \/ /\ p.state = "REQ_DST_PORT" /\ (s[4] = FQDN => n > 4)
           /\ x \in 0..1 /\ AddressStored(p, s)
           /\ p.where_to = x /\ p.to_parse = 2 - x
           /\ x = 1 => p.port[0] = s[n]
        \/ /\ p.state = "REQ_DONE" /\ (s[4] = FQDN => n > 4)
           /\ x = 2 /\ AddressStored(p, s)
           /\ p.port[0] = s[n - 1] /\ p.port[1] = s[n]

ReqInv ==
    LET n == Len(seen)
        s == parser.state
    IN  /\ parser \in ReqParser
        /\ s = "REQ_ERROR" <=> BadHeader
        /\ s = "REQ_VER" <=> n = 0
        /\ s # "REQ_ERROR" =>
             /\ n = 1 => s = "REQ_CMD"
             /\ n = 2 => s = "REQ_RSV"
             /\ n = 3 => s = "REQ_ATYP"
             /\ n >= 2 => parser.cmd = seen[2]
             /\ n >= 4 => /\ parser.type = seen[4] /\ seen[4] \in {IPv4, FQDN, IPv6}
                          /\ RequestStored(parser, seen)

PassState ==
    {"CPAP_CHECK_AUTH_COMMAND", "CPAP_HAS_DATA", "CPAP_READ_PASSWORD", "CPAP_DONE", "CPAP_ERROR"}

PassParser ==
    [currentState : PassState, passLen : Nat, inputPassword : [0..MAX_PASS_LEN -> Cell]]

PassInv ==
    LET n == Len(seen)
    IN  /\ parser \in PassParser
        /\ BadHeader => parser.currentState = "CPAP_ERROR"
        /\ \/ parser.currentState = "CPAP_ERROR" /\ BadHeader
           \/ parser.currentState = "CPAP_CHECK_AUTH_COMMAND" /\ n = 0 /\ parser.passLen = 0
           \/ parser.currentState = "CPAP_HAS_DATA" /\ n = 1 /\ parser.passLen = 0
           \/ /\ parser.currentState = "CPAP_READ_PASSWORD" /\ n >= 2
              /\ parser.passLen = n - 2 /\ n - 2 <= MAX_PASS_LEN
              /\ \A i \in 3..n : seen[i] # NewLine
              /\ Stored(parser.inputPassword, 0, seen, 3, n - 2)
           \/ /\ parser.currentState = "CPAP_DONE" /\ n >= 3 /\ n - 3 <= MAX_PASS_LEN
              /\ \A i \in 3..(n - 1) : seen[i] # NewLine
              /\ seen[n] = NewLine
              /\ Stored(parser.inputPassword, 0, seen, 3, n - 3)
              /\ parser.inputPassword[n - 3] = 0
           \/ /\ parser.currentState = "CPAP_ERROR" /\ n = 3 + MAX_PASS_LEN
              /\ seen[n] # NewLine

CommandState ==
    {"CPCP_COMMAND_CODE", "CPCP_HAS_DATA", "CPCP_READ_DATA", "CPCP_DONE", "CPCP_ERROR"}

CommandParser ==
    [currentState : CommandState, code : Byte, hasData : Byte,
     data : [0..MAX_DATA_SIZE -> Cell], dataSize : Nat]

CommandInv ==
    LET n == Len(seen)
    IN  /\ parser \in CommandParser
        /\ BadHeader => parser.currentState = "CPCP_ERROR"
        /\ n >= 1 /\ parser.currentState # "CPCP_ERROR" => parser.code = seen[1]
        /\ n >= 2 /\ parser.currentState # "CPCP_ERROR" => parser.hasData = seen[2]
        /\ \/ parser.currentState = "CPCP_ERROR" /\ BadHeader
           \/ parser.currentState = "CPCP_COMMAND_CODE" /\ n = 0 /\ parser.dataSize = 0 /\ parser.hasData = 0
           \/ parser.currentState = "CPCP_HAS_DATA" /\ n = 1 /\ parser.dataSize = 0 /\ parser.hasData = 0
           \/ /\ parser.currentState = "CPCP_READ_DATA" /\ n >= 2 /\ seen[2] = 1
              /\ parser.dataSize = n - 2 /\ n - 2 <= MAX_DATA_SIZE
              /\ \A i \in 3..n : seen[i] # NewLine
              /\ Stored(parser.data, 0, seen, 3, n - 2)
           \/ /\ parser.currentState = "CPCP_DONE" /\ n >= 2 /\ n - 2 <= MAX_DATA_SIZE
              /\ IF seen[2] = 0 THEN n = 2
                 ELSE n >= 3 /\ seen[n] = NewLine /\ \A i \in 3..(n - 1) : seen[i] # NewLine
              /\ Stored(parser.data, 0, seen, 3, n - 2)
              /\ parser.data[n - 2] = 0
           \/ /\ parser.currentState = "CPCP_ERROR" /\ n = 3 + MAX_DATA_SIZE
              /\ \A i \in 3..(n - 1) : seen[i] # NewLine

ReaderInv ==
    /\ seen \in Seq(Byte)
    /\ reader = "hello_read" => HelloInv
    /\ reader = "auth_read" => AuthInv
    /\ reader = "req_read" => ReqInv
    /\ reader = "authRead" => PassInv
    /\ reader = "executeRead" => CommandInv
    /\ reader \in SocksReader \cup ControlReader /\ Verdict # "ERROR" => HeaderOK

\* Bytes are numbers.
LEMMA ByteIsNat == Byte \subseteq Nat
BY DEF Byte

\* A byte is appended to those seen.
LEMMA Grows ==
    ASSUME seen \in Seq(Byte), NEW b \in Byte, seen' = Append(seen, b)
    PROVE  /\ seen' \in Seq(Byte) /\ Len(seen) \in Nat /\ Len(seen') = Len(seen) + 1
           /\ seen'[Len(seen) + 1] = b
           /\ \A i \in 1..Len(seen) : seen'[i] = seen[i] /\ seen[i] \in Byte
OBVIOUS

\* One byte of a header more.
LEMMA HeaderGrows ==
    ASSUME seen \in Seq(Byte), NEW b \in Byte, seen' = Append(seen, b), reader' = reader,
           HeaderOK
    PROVE  HeaderOK' <=> ~BadHeader'
<1> DEFINE H == Header[reader]
<1>1. H' = H
  BY DEF Header
<1>2. Len(seen) \in Nat /\ DOMAIN seen = 1..Len(seen) /\ DOMAIN seen' = 1..(Len(seen) + 1)
      /\ Len(seen') = Len(seen) + 1
  BY Grows
<1>3. \A i \in 1..Len(seen) : seen'[i] = seen[i]
  BY Grows
<1> HIDE DEF H
<1>4. HeaderOK => \A i \in DOMAIN seen \cap DOMAIN H : seen[i] \in H[i]
  BY DEF H, HeaderOK
<1>5. HeaderOK' <=> \A i \in DOMAIN seen' \cap DOMAIN H : seen'[i] \in H[i]
  BY <1>1 DEF H, HeaderOK
<1>6. BadHeader' <=> Len(seen') \in DOMAIN H /\ seen'[Len(seen')] \notin H[Len(seen')]
  BY <1>1 DEF H, BadHeader
<1> QED BY <1>2, <1>3, <1>4, <1>5, <1>6

\* A byte that contradicts the header contradicts the grammar.
LEMMA BadIsNotOK ==
    ASSUME reader \in SocksReader \cup ControlReader, seen \in Seq(Byte), BadHeader
    PROVE  ~HeaderOK
<1>1. \A i \in DOMAIN Header[reader] : i \in Nat \ {0}
  BY DEF Header, SocksReader, ControlReader
<1>2. Len(seen) \in DOMAIN seen
  BY <1>1 DEF BadHeader
<1> QED BY <1>2 DEF BadHeader, HeaderOK

-----------------------------------------------------------------------------
(* The hello. *)

\* The verdict on a hello, by the state of its parser.
LEMMA HelloVerdict ==
    ASSUME reader = "hello_read", parser \in HelloParser
    PROVE  /\ Verdict = "DONE" <=> parser.state = "CONN_DONE"
           /\ Verdict = "ERROR" <=> parser.state = "CONN_ERROR"
           /\ Verdict \in {"DONE", "ERROR", "MORE"}
BY DEF Verdict, StateOf, SocksReader, HelloParser, HelloState

\* conn_parse_byte keeps what is known of a hello.
LEMMA HelloStep ==
    ASSUME reader = "hello_read", seen \in Seq(Byte), HelloInv, NEW b \in Byte,
           Verdict = "MORE", ParseByte(b)
    PROVE  HelloInv'
<1> DEFINE n == Len(seen)
<1>1. /\ parser' = conn_parse_byte(parser, b, required)
      /\ reader' = reader /\ required' = required /\ seen' = Append(seen, b)
  BY DEF ParseByte
<1>2. /\ seen' \in Seq(Byte) /\ n \in Nat /\ Len(seen') = n + 1
      /\ seen'[n + 1] = b
      /\ \A i \in 1..n : seen'[i] = seen[i] /\ seen[i] \in Byte
  BY <1>1, Grows
<1>3. BadHeader' <=> n = 0 /\ b # SOCKS_VERSION
  <2>1. DOMAIN Header[reader]' = 1..1 /\ Header[reader]'[1] = {SOCKS_VERSION}
    BY <1>1 DEF Header
  <2> QED BY <1>2, <2>1 DEF BadHeader
<1>4. parser \in HelloParser /\ HelloFields
  BY DEF HelloInv
<1>5. n < 2 => /\ parser.auth = NO_METHODS
               /\ HelloFields' <=> parser'.auth = NO_METHODS
  BY <1>2, <1>4 DEF HelloFields, USER_PASS, NO_AUTH
<1>6. CASE parser.state = "CONN_VERSION"
  <2>1. n = 0
    BY <1>6 DEF HelloInv
  <2>2. parser' = [parser EXCEPT !.state = IF b = SOCKS_VERSION THEN "CONN_NMETHODS" ELSE "CONN_ERROR"]
    BY <1>1, <1>6 DEF conn_parse_byte
  <2>3. parser' \in HelloParser /\ parser'.auth = parser.auth
        /\ parser'.state = IF b = SOCKS_VERSION THEN "CONN_NMETHODS" ELSE "CONN_ERROR"
    BY <1>4, <2>2 DEF HelloParser, HelloState
  <2> QED BY <1>2, <1>3, <1>5, <2>1, <2>3 DEF HelloInv
<1>7. CASE parser.state = "CONN_NMETHODS"
  <2>1. n = 1
    BY <1>7 DEF HelloInv
  <2>2. CASE b = 0
    <3>1. parser' = [parser EXCEPT !.state = "CONN_DONE"]
      BY <1>1, <1>7, <2>2 DEF conn_parse_byte
    <3>2. parser' \in HelloParser /\ parser'.auth = parser.auth /\ parser'.state = "CONN_DONE"
      BY <1>4, <3>1 DEF HelloParser, HelloState
    <3> QED BY <1>2, <1>3, <1>5, <2>1, <2>2, <3>2 DEF HelloInv
  <2>3. CASE b # 0
    <3>1. b > 0 /\ b \in Int
      BY <2>3 DEF Byte
    <3>2. parser' = [parser EXCEPT !.state = "CONN_METHODS", !.to_parse = b]
      BY <1>1, <1>7, <3>1 DEF conn_parse_byte
    <3>3. parser' \in HelloParser /\ parser'.auth = parser.auth /\ parser'.state = "CONN_METHODS"
          /\ parser'.to_parse = b
      BY <1>4, <3>1, <3>2 DEF HelloParser, HelloState
    <3> QED BY <1>2, <1>3, <1>5, <2>1, <3>1, <3>3 DEF HelloInv, Byte
  <2> QED BY <2>2, <2>3
<1>8. CASE parser.state = "CONN_METHODS"
  <2>1. n >= 2 /\ parser.to_parse = 2 + seen[2] - n /\ parser.to_parse > 0
    BY <1>8 DEF HelloInv
  <2>0. seen[2] \in Nat /\ parser.to_parse \in Int
    <3>1. 2 \in 1..n
      BY <1>2, <2>1
    <3>2. seen[2] \in Byte
      BY <1>2, <3>1
    <3> QED BY <1>4, <3>2, ByteIsNat DEF HelloParser
  <2> DEFINE methods == {seen[i] : i \in 3..n}
             auth == set_new_method(parser, b, required)
             state == IF parser.to_parse = 1 THEN "CONN_DONE" ELSE "CONN_METHODS"
  <2>2. {seen'[i] : i \in 3..Len(seen')} = methods \cup {b}
    <3>1. \A i \in 3..(n + 1) : i \in 3..n \/ i = n + 1
      BY <1>2
    <3>2. \A i \in 3..n : i \in 3..(n + 1) /\ seen'[i] = seen[i]
      BY <1>2
    <3>3. n + 1 \in 3..(n + 1)
      BY <1>2, <2>1
    <3> QED BY <1>2, <3>1, <3>2, <3>3
  <2>3. parser' = [parser EXCEPT !.auth = auth, !.to_parse = parser.to_parse - 1, !.state = state]
    BY <1>1, <1>4, <1>8 DEF conn_parse_byte, HelloParser
  <2>4. parser.auth = IF USER_PASS \in methods THEN USER_PASS
                      ELSE IF ~required /\ NO_AUTH \in methods THEN NO_AUTH ELSE NO_METHODS
    BY <1>4 DEF HelloFields
  <2> HIDE DEF methods
  <2>5. auth \in Byte
    BY <2>4 DEF set_new_method, USER_PASS, NO_AUTH, NO_METHODS, Byte
  <2>6. state \in HelloState /\ parser.to_parse - 1 \in Int
    BY <2>0 DEF HelloState
  <2> HIDE DEF auth, state
  <2>7. /\ parser' \in HelloParser /\ parser'.auth = auth
        /\ parser'.to_parse = parser.to_parse - 1 /\ parser'.state = state
    BY <1>4, <2>3, <2>5, <2>6 DEF HelloParser
  <2> USE DEF auth, state
  <2>8. HelloFields' <=>
          auth = IF USER_PASS \in methods \cup {b} THEN USER_PASS
                 ELSE IF ~required /\ NO_AUTH \in methods \cup {b} THEN NO_AUTH ELSE NO_METHODS
    BY <1>1, <2>2, <2>7 DEF HelloFields
  <2>9. HelloFields'
    BY <2>4, <2>8 DEF set_new_method, USER_PASS, NO_AUTH, NO_METHODS
  <2>10. seen'[2] = seen[2] /\ ~BadHeader'
    BY <1>2, <1>3, <2>1
  <2>11. CASE parser.to_parse = 1
    <3>1. parser'.state = "CONN_DONE"
      BY <2>7, <2>11
    <3>2. n + 1 >= 2 /\ n + 1 = 2 + seen'[2]
      BY <1>2, <2>0, <2>1, <2>10, <2>11
    <3> QED BY <1>2, <2>7, <2>9, <2>10, <3>1, <3>2 DEF HelloInv
  <2>12. CASE parser.to_parse # 1
    <3>1. parser'.state = "CONN_METHODS"
      BY <2>7, <2>12
    <3>2. /\ n + 1 >= 2 /\ parser'.to_parse = 2 + seen'[2] - (n + 1)
          /\ parser'.to_parse > 0
      BY <1>2, <2>0, <2>1, <2>7, <2>10, <2>12
    <3> QED BY <1>2, <2>7, <2>9, <2>10, <3>1, <3>2 DEF HelloInv
  <2> QED BY <2>11, <2>12
<1> QED BY <1>4, <1>6, <1>7, <1>8, HelloVerdict DEF HelloParser, HelloState

\* With that, its verdict is the one of the grammar.
LEMMA HelloMeans ==
    ASSUME reader = "hello_read", seen \in Seq(Byte), HelloInv, Verdict # "ERROR" => HeaderOK
    PROVE  Verdict = Grammar
<1> DEFINE n == Len(seen)
<1>1. n \in Nat /\ \A i \in 1..n : seen[i] \in Byte
  OBVIOUS
<1>2. Grammar = IF ~HeaderOK THEN "ERROR" ELSE IF n = TotalLength THEN "DONE" ELSE "MORE"
  BY DEF Grammar, HeaderOK, LineFits
<1>3. TotalLength = IF n >= 2 THEN 2 + seen[2] ELSE n + 1
  BY <1>1 DEF TotalLength, ControlReader
<1>4. Verdict = "ERROR" <=> BadHeader
  BY HelloVerdict DEF HelloInv
<1>5. Verdict = "DONE" <=> parser.state = "CONN_DONE"
  BY HelloVerdict DEF HelloInv
<1>6. ASSUME ~BadHeader PROVE parser.state = "CONN_DONE" <=> n = TotalLength
  <2>1. n >= 2 => seen[2] \in Nat
    <3>1. n >= 2 => 2 \in 1..n
      BY <1>1
    <3>2. n >= 2 => seen[2] \in Byte
      BY <1>1, <3>1
    <3> QED BY <3>2, ByteIsNat
  <2>2. \/ parser.state \in {"CONN_VERSION", "CONN_NMETHODS"} /\ n < 2
        \/ parser.state = "CONN_METHODS" /\ n >= 2 /\ n # 2 + seen[2]
        \/ parser.state = "CONN_DONE" /\ n >= 2 /\ n = 2 + seen[2]
    BY <1>1, <1>6, <2>1 DEF HelloInv
  <2> QED BY <1>1, <1>3, <2>1, <2>2
<1> QED BY <1>2, <1>4, <1>5, <1>6, BadIsNotOK, HelloVerdict DEF HelloInv, SocksReader

-----------------------------------------------------------------------------
(* Blocks. *)

\* The next byte is stored behind the others.
LEMMA StoredGrows ==
    ASSUME NEW m \in Nat, NEW block \in [0..m -> Cell], NEW n \in Nat,
           NEW s \in Seq(Byte), NEW i \in Nat \ {0}, Len(s) = i + n - 1,
           n <= m, NEW b \in Byte, Stored(block, 0, s, i, n)
    PROVE  Stored(Store(block, n, b), 0, Append(s, b), i, n + 1)
<1> DEFINE t == Append(s, b)
           c == Store(block, n, b)
<1>1. t[i + n] = b /\ \A k \in 1..Len(s) : t[k] = s[k]
  OBVIOUS
<1>2. c[n] = b /\ \A k \in 0..m : k # n => c[k] = block[k]
  <2>1. m \in Int /\ n \in 0..m
    OBVIOUS
  <2> QED BY <2>1 DEF Store
<1> HIDE DEF t, c
<1>3. ASSUME NEW j \in 0..n PROVE c[0 + j] = t[i + j]
  <2>1. CASE j = n
    BY <1>1, <1>2, <2>1
  <2>2. CASE j # n
    <3>1. j \in 0..(n - 1) /\ i + j \in 1..Len(s) /\ j \in 0..m
      BY <2>2
    <3>2. block[0 + j] = s[i + j]
      BY <3>1 DEF Stored
    <3>3. 0 + j = j
      OBVIOUS
    <3> QED BY <1>1, <1>2, <2>2, <3>1, <3>2, <3>3
  <2> QED BY <2>1, <2>2
<1>4. (n + 1) - 1 = n
  OBVIOUS
<1> QED BY <1>3, <1>4 DEF Stored, t, c

\* Bytes are stored behind them.
LEMMA StoredStays ==
    ASSUME NEW m \in Nat, NEW block \in [0..m -> Cell], NEW n \in Nat,
           NEW s \in Seq(Byte), NEW i \in Nat \ {0}, i + n - 1 <= Len(s),
           n <= m + 1, NEW b \in Byte, Stored(block, 0, s, i, n)
    PROVE  /\ Stored(block, 0, Append(s, b), i, n)
           /\ \A k \in n..m, c \in Byte : Stored(Store(block, k, c), 0, Append(s, b), i, n)
<1> DEFINE t == Append(s, b)
<1>1. \A k \in 1..Len(s) : t[k] = s[k]
  OBVIOUS
<1> HIDE DEF t
<1>2. \A j \in 0..(n - 1) : i + j \in 1..Len(s) /\ 0 + j = j /\ j \in 0..m
  OBVIOUS
<1>3. Stored(block, 0, t, i, n)
  BY <1>1, <1>2 DEF Stored
<1>4. ASSUME NEW k \in n..m, NEW c \in Byte
      PROVE  Stored(Store(block, k, c), 0, t, i, n)
  <2>1. \A j \in 0..(n - 1) : j # k
    BY <1>4
  <2>2. \A j \in 0..m : j # k => Store(block, k, c)[j] = block[j]
    <3>1. m \in Int
      OBVIOUS
    <3> QED BY <3>1 DEF Store
  <2> QED BY <1>2, <1>3, <2>1, <2>2 DEF Stored
<1> QED BY <1>3, <1>4 DEF t

-----------------------------------------------------------------------------
(* User and password. *)

\* The verdict on user and password, by the state of the parser.
LEMMA AuthVerdict ==
    ASSUME reader = "auth_read", parser \in AuthParser
    PROVE  /\ Verdict = "DONE" <=> parser.state = "AUTH_DONE"
           /\ Verdict = "ERROR" <=> parser.state = "AUTH_ERROR"
           /\ Verdict \in {"DONE", "ERROR", "MORE"}
BY DEF Verdict, StateOf, SocksReader, AuthParser, AuthState

\* Each branch of the automaton sets all four fields.
LEMMA AuthByte ==
    ASSUME NEW p \in AuthParser, NEW b \in Byte
    PROVE  LET q == auth_parse_byte(p, b)
               Is(x, n, k, text) ==
                 q = [p EXCEPT !.state = x, !.to_parse = n, !.where_to = k, !.text = text]
           IN  /\ p.state = "AUTH_VER" =>
                    Is(IF b = AUTH_VERSION THEN "AUTH_ULEN" ELSE "AUTH_ERROR", p.to_parse, p.where_to, p.text)
               /\ p.state = "AUTH_ULEN" /\ b = 0 => Is("AUTH_PLEN", p.to_parse, p.where_to, p.text)
               /\ p.state = "AUTH_ULEN" /\ b # 0 =>
                    Is("AUTH_UNAME", b, 0, Store(p.text, b, 0))
               /\ p.state = "AUTH_PLEN" /\ b = 0 => Is("AUTH_DONE", p.to_parse, p.where_to, p.text)
               /\ p.state = "AUTH_PLEN" /\ b # 0 =>
                    Is("AUTH_PASSWD", b, MAX_LEN, Store(p.text, MAX_LEN + b, 0))
               /\ p.state = "AUTH_UNAME" /\ p.to_parse > 1 =>
                    Is("AUTH_UNAME", p.to_parse - 1, p.where_to + 1, Store(p.text, p.where_to, b))
               /\ p.state = "AUTH_PASSWD" /\ p.to_parse > 1 =>
                    Is("AUTH_PASSWD", p.to_parse - 1, p.where_to + 1, Store(p.text, p.where_to, b))
               /\ p.state = "AUTH_UNAME" /\ ~(p.to_parse > 1) =>
                    Is("AUTH_PLEN", p.to_parse - 1, 0, Store(p.text, p.where_to, b))
               /\ p.state = "AUTH_PASSWD" /\ ~(p.to_parse > 1) =>
                    Is("AUTH_DONE", p.to_parse - 1, 0, Store(p.text, p.where_to, b))
<1> DEFINE q == auth_parse_byte(p, b)
<1>1. \A x \in AuthState : [p EXCEPT !.state = x] =
        [p EXCEPT !.state = x, !.to_parse = p.to_parse, !.where_to = p.where_to, !.text = p.text]
  BY DEF AuthParser
<1>2. CASE p.state = "AUTH_VER"
  BY <1>1, <1>2 DEF auth_parse_byte, AuthState
<1>3. CASE p.state = "AUTH_ULEN"
  <2>1. 0 + b = b
    BY ByteIsNat
  <2> QED BY <1>1, <1>3, <2>1 DEF auth_parse_byte, set_len_to_parse, AuthParser, AuthState
<1>4. CASE p.state = "AUTH_PLEN"
  BY <1>1, <1>4 DEF auth_parse_byte, set_len_to_parse, AuthParser, AuthState
<1>5. CASE p.state = "AUTH_UNAME"
  <2>1. CASE p.to_parse > 1
    BY <1>5, <2>1 DEF auth_parse_byte, plain_parse_byte, AuthParser
  <2>2. CASE ~(p.to_parse > 1)
    BY <1>5, <2>2 DEF auth_parse_byte, plain_parse_byte, AuthParser
  <2> QED BY <1>5, <2>1, <2>2
<1>6. CASE p.state = "AUTH_PASSWD"
  <2>1. CASE p.to_parse > 1
    BY <1>6, <2>1 DEF auth_parse_byte, plain_parse_byte, AuthParser
  <2>2. CASE ~(p.to_parse > 1)
    BY <1>6, <2>2 DEF auth_parse_byte, plain_parse_byte, AuthParser
  <2> QED BY <1>6, <2>1, <2>2
<1> QED BY <1>2, <1>3, <1>4, <1>5, <1>6

\* The password is stored behind the name.
LEMMA NameStays ==
    ASSUME NEW text \in [0..(2 * MAX_LEN) -> Cell], NEW s \in Seq(Byte), NEW b \in Byte,
           Len(s) >= 2, s[2] \in Nat, Len(s) >= 2 + s[2], NameStored(text, s, s[2])
    PROVE  /\ NameStored(text, Append(s, b), s[2])
           /\ \A k \in MAX_LEN..(2 * MAX_LEN), c \in Byte :
                NameStored(Store(text, k, c), Append(s, b), s[2])
<1> DEFINE t == Append(s, b)
<1>1. t[2] = s[2] /\ \A j \in 0..(s[2] - 1) : t[3 + j] = s[3 + j]
  OBVIOUS
<1> HIDE DEF t
<1>2. NameStored(text, t, s[2])
  BY <1>1 DEF NameStored, Stored
<1>3. ASSUME NEW k \in MAX_LEN..(2 * MAX_LEN), NEW c \in Byte
      PROVE  NameStored(Store(text, k, c), t, s[2])
  <2>1. \A j \in 0..(MAX_LEN - 1) : Store(text, k, c)[j] = text[j]
    <3>1. \A j \in 0..(MAX_LEN - 1) : j \in 0..(2 * MAX_LEN) /\ j # k
      BY ParsersAssumption
    <3> QED BY <3>1 DEF Store
  <2>2. s[2] < MAX_LEN => s[2] \in 0..(MAX_LEN - 1) /\ \A j \in 0..(s[2] - 1) : 0 + j = j /\ j \in 0..(MAX_LEN - 1)
    BY ParsersAssumption
  <2> QED BY <1>1, <1>2, <2>1, <2>2 DEF NameStored, Stored
<1> QED BY <1>2, <1>3 DEF t

\* Where the next byte of a password goes.
LEMMA PasswordPlace ==
    ASSUME NEW x \in Nat, NEW plen \in Nat, x < plen, plen <= MAX_LEN,
           NEW at, at = MAX_LEN + x
    PROVE  /\ at \in 0..(2 * MAX_LEN) /\ at >= MAX_LEN /\ at < MAX_LEN + plen
           /\ MAX_LEN + plen \in 0..(2 * MAX_LEN)
BY ParsersAssumption

\* auth_parse_byte keeps what is known of user and password.
LEMMA AuthStep ==
    ASSUME reader = "auth_read", seen \in Seq(Byte), AuthInv, NEW b \in Byte,
           parser.state \in {"AUTH_ULEN", "AUTH_PLEN"} => b <= MAX_LEN,
           Verdict = "MORE", ParseByte(b)
    PROVE  AuthInv'
<1> DEFINE n == Len(seen)
           text == parser.text
           ulen == seen[2]
           Becomes(x, k, at, new) ==
             /\ parser' \in AuthParser /\ parser'.state = x /\ parser'.to_parse = k
             /\ parser'.where_to = at /\ parser'.text = new
<1>1. /\ parser' = auth_parse_byte(parser, b)
      /\ reader' = reader /\ seen' = Append(seen, b)
  BY DEF ParseByte
<1>2. /\ seen' \in Seq(Byte) /\ n \in Nat /\ Len(seen') = n + 1
      /\ seen'[n + 1] = b
      /\ \A i \in 1..n : seen'[i] = seen[i] /\ seen[i] \in Byte /\ seen[i] \in Nat
  BY <1>1, Grows, ByteIsNat
<1>3. BadHeader' <=> n = 0 /\ b # AUTH_VERSION
  <2>1. DOMAIN Header[reader]' = 1..1 /\ Header[reader]'[1] = {AUTH_VERSION}
    BY <1>1 DEF Header
  <2> QED BY <1>2, <2>1 DEF BadHeader
<1>4. /\ parser \in AuthParser /\ b \in Nat /\ 0 \in Byte
      /\ text \in [0..(2 * MAX_LEN) -> Cell] /\ parser.to_parse \in Int /\ parser.where_to \in Int
  <2>1. parser \in AuthParser
    BY DEF AuthInv
  <2> QED BY <2>1, ByteIsNat DEF AuthParser, Byte
<1>5. ASSUME NEW x \in AuthState, NEW k \in Int, NEW at \in Int, NEW j \in 0..(2 * MAX_LEN),
             NEW c \in Byte,
             parser' = [parser EXCEPT !.state = x, !.to_parse = k, !.where_to = at,
                                      !.text = Store(text, j, c)]
      PROVE  Becomes(x, k, at, Store(text, j, c))
  <2> DEFINE new == Store(text, j, c)
  <2>1. new \in [0..(2 * MAX_LEN) -> Cell]
    BY <1>4, BytesAreCells DEF Store
  <2> HIDE DEF new
  <2> QED BY <1>4, <1>5, <2>1 DEF AuthParser, new
<1>6. ASSUME NEW x \in AuthState,
             parser' = [parser EXCEPT !.state = x, !.to_parse = parser.to_parse,
                                      !.where_to = parser.where_to, !.text = text]
      PROVE  Becomes(x, parser.to_parse, parser.where_to, text)
  BY <1>4, <1>6 DEF AuthParser
<1>7. n >= 2 => ulen \in Nat /\ ulen <= MAX_LEN /\ seen'[2] = ulen
  <2>1. n >= 2 => 2 \in 1..n
    BY <1>2
  <2> QED BY <1>2, <2>1 DEF AuthInv
<1>8. n >= 1 => ~BadHeader'
  BY <1>2, <1>3
<1> HIDE DEF Becomes
<1>9. CASE parser.state = "AUTH_VER"
  <2>1. n = 0
    BY <1>9 DEF AuthInv
  <2> DEFINE x == IF b = AUTH_VERSION THEN "AUTH_ULEN" ELSE "AUTH_ERROR"
  <2>2. x \in AuthState
    BY DEF AuthState
  <2>3. Becomes(x, parser.to_parse, parser.where_to, text)
    BY <1>1, <1>4, <1>6, <1>9, <2>2, AuthByte
  <2> QED BY <1>2, <1>3, <2>1, <2>3 DEF AuthInv, Becomes
<1>10. CASE parser.state = "AUTH_ULEN" /\ b = 0
  <2>1. n = 1
    BY <1>10 DEF AuthInv
  <2>2. Becomes("AUTH_PLEN", parser.to_parse, parser.where_to, text)
    BY <1>1, <1>4, <1>6, <1>10, AuthByte DEF AuthState
  <2>3. seen'[2] = 0
    BY <1>2, <1>10, <2>1
  <2>4. NameStored(text, seen', 0)
    BY <2>3 DEF NameStored, Stored
  <2> QED BY <1>2, <1>8, <2>1, <2>2, <2>3, <2>4, ParsersAssumption DEF AuthInv, Becomes
<1>11. CASE parser.state = "AUTH_ULEN" /\ b # 0
  <2>1. n = 1
    BY <1>11 DEF AuthInv
  <2>2. b \in 0..(2 * MAX_LEN) /\ b \in Int /\ b <= MAX_LEN
    BY <1>4, <1>11, ParsersAssumption
  <2>3. Becomes("AUTH_UNAME", b, 0, Store(text, b, 0))
    <3>1. parser' = [parser EXCEPT !.state = "AUTH_UNAME", !.to_parse = b, !.where_to = 0,
                                   !.text = Store(text, b, 0)]
      BY <1>1, <1>4, <1>11, <2>2, AuthByte
    <3>2. "AUTH_UNAME" \in AuthState /\ 0 \in Int
      BY DEF AuthState
    <3> QED BY <1>4, <1>5, <2>2, <3>1, <3>2, Zenon
  <2>4. seen'[2] = b
    BY <1>2, <2>1
  <2>5. NameStored(Store(text, b, 0), seen', 0)
    BY <2>4 DEF NameStored, Stored, Store
  <2> QED BY <1>2, <1>4, <1>8, <1>11, <2>1, <2>2, <2>3, <2>4, <2>5 DEF AuthInv, Becomes
<1>12. CASE parser.state = "AUTH_UNAME"
  <2>1. /\ n >= 2 /\ n - 2 < ulen
        /\ parser.where_to = n - 2 /\ parser.to_parse = ulen - (n - 2)
        /\ NameStored(text, seen, n - 2)
    BY <1>12 DEF AuthInv
  <2> DEFINE new == Store(text, parser.where_to, b)
  <2>2. parser.where_to \in 0..(2 * MAX_LEN) /\ n - 2 \in Nat /\ n - 2 < MAX_LEN
    BY <1>2, <1>7, <2>1, ParsersAssumption
  <2>3. NameStored(new, seen', n - 1)
    <3>1. ASSUME ulen < MAX_LEN PROVE Stored(new, 0, seen', 3, n - 1)
      <4>1. Stored(text, 0, seen, 3, n - 2)
        BY <2>1, <3>1 DEF NameStored
      <4>2. \A j \in 0..(n - 3) : new[j] = text[j]
        <5>1. \A j \in 0..(n - 3) : j \in 0..(2 * MAX_LEN) /\ j # parser.where_to
          BY <2>1, <2>2, ParsersAssumption
        <5> QED BY <1>4, <5>1 DEF Store
      <4>3. new[n - 2] = b
        BY <2>1, <2>2 DEF Store
      <4> HIDE DEF new
      <4> QED BY <1>2, <2>1, <4>1, <4>2, <4>3 DEF Stored
    <3>2. ASSUME ulen < MAX_LEN, ulen > 0 PROVE new[ulen] = 0
      <4>1. text[ulen] = 0
        BY <2>1, <3>2 DEF NameStored
      <4>2. ulen \in 0..(2 * MAX_LEN) /\ ulen # parser.where_to
        BY <1>7, <2>1, <2>2, ParsersAssumption
      <4> QED BY <1>4, <4>1, <4>2 DEF Store
    <3> HIDE DEF new
    <3> QED BY <1>7, <2>1, <3>1, <3>2 DEF NameStored
  <2> HIDE DEF new
  <2>4. CASE parser.to_parse > 1
    <3>1. parser.to_parse - 1 \in Int /\ parser.where_to + 1 \in Int /\ parser.where_to + 1 = n - 1
      BY <1>2, <1>4, <2>1
    <3>2. Becomes("AUTH_UNAME", parser.to_parse - 1, parser.where_to + 1, new)
      <4>1. parser' = [parser EXCEPT !.state = "AUTH_UNAME", !.to_parse = parser.to_parse - 1,
                                     !.where_to = parser.where_to + 1, !.text = new]
        BY <1>1, <1>4, <1>12, <2>1, <2>4, AuthByte DEF new
      <4>2. "AUTH_UNAME" \in AuthState
        BY DEF AuthState
      <4> QED BY <1>5, <2>2, <3>1, <4>1, <4>2, Zenon DEF new
    <3> QED BY <1>2, <1>7, <1>8, <2>1, <2>3, <2>4, <3>2 DEF AuthInv, Becomes
  <2>5. CASE ~(parser.to_parse > 1)
    <3>1. parser.to_parse - 1 \in Int /\ n - 1 = ulen
      BY <1>2, <1>4, <1>7, <2>1, <2>5
    <3>2. Becomes("AUTH_PLEN", parser.to_parse - 1, 0, new)
      <4>1. parser' = [parser EXCEPT !.state = "AUTH_PLEN", !.to_parse = parser.to_parse - 1,
                                     !.where_to = 0, !.text = new]
        BY <1>1, <1>4, <1>12, <2>1, <2>5, AuthByte DEF new
      <4>2. "AUTH_PLEN" \in AuthState /\ 0 \in Int
        BY DEF AuthState
      <4> QED BY <1>5, <2>2, <3>1, <4>1, <4>2, Zenon DEF new
    <3> QED BY <1>2, <1>7, <1>8, <2>1, <2>3, <2>5, <3>1, <3>2 DEF AuthInv, Becomes
  <2> QED BY <2>4, <2>5
<1>13. CASE parser.state = "AUTH_PLEN" /\ b = 0
  <2>1. n >= 2 /\ n = 2 + ulen /\ NameStored(text, seen, ulen)
    BY <1>13 DEF AuthInv
  <2>2. Becomes("AUTH_DONE", parser.to_parse, parser.where_to, text)
    BY <1>1, <1>4, <1>6, <1>13, AuthByte DEF AuthState
  <2>3. seen'[3 + ulen] = 0 /\ seen'[2] = ulen
    BY <1>2, <1>7, <1>13, <2>1
  <2>4. NameStored(text, seen', ulen)
    <3>1. Len(seen) >= 2 /\ seen[2] \in Nat /\ Len(seen) >= 2 + seen[2]
      BY <1>2, <1>7, <2>1
    <3> QED BY <1>1, <1>4, <2>1, <3>1, NameStays, Zenon
  <2>5. PasswordStored(text, seen', 0)
    BY <2>3 DEF PasswordStored, Stored
  <2>6. /\ NameStored(parser'.text, seen', seen'[2])
        /\ PasswordStored(parser'.text, seen', seen'[3 + seen'[2]])
    BY <2>2, <2>3, <2>4, <2>5 DEF Becomes
  <2>7. /\ Len(seen') - 3 - seen'[2] = seen'[3 + seen'[2]] /\ Len(seen') - 3 - seen'[2] >= 0
        /\ seen'[3 + seen'[2]] <= MAX_LEN /\ Len(seen') >= 2 /\ seen'[2] <= MAX_LEN
    BY <1>2, <1>7, <2>1, <2>3, ParsersAssumption
  <2>8. ~BadHeader' /\ parser' \in AuthParser /\ parser'.state = "AUTH_DONE"
    BY <1>2, <1>8, <2>1, <2>2 DEF Becomes
  <2> QED BY <2>6, <2>7, <2>8 DEF AuthInv
<1>14. CASE parser.state = "AUTH_PLEN" /\ b # 0
  <2>1. n >= 2 /\ n = 2 + ulen /\ NameStored(text, seen, ulen)
    BY <1>14 DEF AuthInv
  <2> DEFINE new == Store(text, MAX_LEN + b, 0)
  <2>2. MAX_LEN + b \in 0..(2 * MAX_LEN) /\ MAX_LEN \in Int /\ b \in Int /\ b <= MAX_LEN /\ b > 0
        /\ "AUTH_PASSWD" \in AuthState
    BY <1>4, <1>14, ParsersAssumption DEF AuthState
  <2>3. Becomes("AUTH_PASSWD", b, MAX_LEN, new)
    <3>1. parser' = [parser EXCEPT !.state = "AUTH_PASSWD", !.to_parse = b, !.where_to = MAX_LEN,
                                   !.text = new]
      BY <1>1, <1>4, <1>14, AuthByte
    <3> QED BY <1>4, <1>5, <2>2, <3>1, Zenon
  <2>4. seen'[3 + ulen] = b /\ seen'[2] = ulen
    BY <1>2, <1>7, <2>1
  <2>5. NameStored(new, seen', ulen)
    <3>1. Len(seen) >= 2 /\ seen[2] \in Nat /\ Len(seen) >= 2 + seen[2]
          /\ MAX_LEN + b \in MAX_LEN..(2 * MAX_LEN)
      BY <1>2, <1>7, <2>1, <2>2
    <3> QED BY <1>1, <1>4, <2>1, <3>1, NameStays, Zenon
  <2>6. PasswordStored(new, seen', 0)
    BY <2>4 DEF PasswordStored, Stored, Store
  <2> HIDE DEF new
  <2>7. n + 1 >= 2 /\ n + 1 - 3 - ulen = 0
    BY <1>2, <1>7, <2>1
  <2>8. ulen <= MAX_LEN /\ ~BadHeader' /\ MAX_LEN + 0 = MAX_LEN /\ b - 0 = b
    BY <1>4, <1>7, <1>8, <2>1, ParsersAssumption
  <2>9. NameStored(parser'.text, seen', seen'[2]) /\ PasswordStored(parser'.text, seen', 0)
        /\ Len(seen') - 3 - seen'[2] = 0
    <3>1. Len(seen') - 3 - seen'[2] = 0
      BY <1>2, <1>7, <2>1, <2>4, <2>7
    <3> QED BY <2>3, <2>4, <2>5, <2>6, <3>1 DEF Becomes
  <2> QED BY <1>2, <2>2, <2>3, <2>4, <2>7, <2>8, <2>9 DEF AuthInv, Becomes
<1>15. CASE parser.state = "AUTH_PASSWD"
  <2> DEFINE plen == seen[3 + ulen]
             x == n - 3 - ulen
             new == Store(text, parser.where_to, b)
  <2>1. /\ n >= 2 /\ x >= 0 /\ x < plen /\ plen <= MAX_LEN
        /\ parser.where_to = MAX_LEN + x /\ parser.to_parse = plen - x
        /\ NameStored(text, seen, ulen) /\ PasswordStored(text, seen, x)
    BY <1>15 DEF AuthInv
  <2>2. /\ seen'[3 + ulen] = plen /\ plen \in Nat /\ seen'[2] = ulen /\ ulen \in Nat /\ x \in Nat
        /\ ulen <= MAX_LEN
    <3>1. ulen \in Nat /\ x \in Nat
      BY <1>2, <1>7, <2>1
    <3>2. 3 + ulen \in 1..n
      BY <1>2, <2>1, <3>1
    <3> QED BY <1>2, <1>7, <2>1, <3>1, <3>2
  <2>3. parser.where_to \in 0..(2 * MAX_LEN) /\ parser.where_to >= MAX_LEN
        /\ parser.where_to < MAX_LEN + plen /\ MAX_LEN + plen \in 0..(2 * MAX_LEN)
    BY <2>1, <2>2, PasswordPlace
  <2>4. NameStored(new, seen', ulen)
    <3>1. Len(seen) >= 2 /\ seen[2] \in Nat /\ Len(seen) >= 2 + seen[2]
          /\ parser.where_to \in MAX_LEN..(2 * MAX_LEN)
      BY <1>2, <1>7, <2>1, <2>2, <2>3
    <3> QED BY <1>1, <1>4, <2>1, <3>1, NameStays, Zenon
  <2>5. PasswordStored(new, seen', x + 1)
    <3>1. Stored(new, MAX_LEN, seen', 4 + ulen, x + 1)
      <4>1. Stored(text, MAX_LEN, seen, 4 + ulen, x)
        BY <2>1 DEF PasswordStored
      <4>2. \A j \in 0..(x - 1) : new[MAX_LEN + j] = text[MAX_LEN + j]
        <5>1. ASSUME NEW j \in 0..(x - 1)
              PROVE  MAX_LEN + j \in 0..(2 * MAX_LEN) /\ MAX_LEN + j # parser.where_to
          <6>1. j \in Nat /\ j < x /\ x < MAX_LEN
            <7>1. x \in Nat /\ x < plen /\ plen \in Nat /\ plen <= MAX_LEN
              BY <2>1, <2>2
            <7> HIDE DEF x, plen
            <7> QED BY <7>1, ParsersAssumption
          <6> HIDE DEF x
          <6> QED BY <2>1, <2>2, <6>1, ParsersAssumption
        <5> QED BY <1>4, <5>1 DEF Store
      <4>3. new[MAX_LEN + x] = b
        BY <2>1, <2>3 DEF Store
      <4>4. seen'[4 + ulen + x] = b
        BY <1>2, <2>2
      <4>5. \A j \in 0..(x - 1) : seen'[4 + ulen + j] = seen[4 + ulen + j]
        <5>1. \A j \in 0..(x - 1) : 4 + ulen + j \in 1..n
          BY <1>2, <2>2
        <5> QED BY <1>2, <5>1
      <4> HIDE DEF new, x
      <4>6. (x + 1) - 1 = x /\ \A j \in 0..x : j = x \/ j \in 0..(x - 1)
        <5>1. x \in Nat
          BY <2>2
        <5> QED BY <5>1
      <4>7. ASSUME NEW j \in 0..x PROVE new[MAX_LEN + j] = seen'[4 + ulen + j]
        <5>1. CASE j = x
          BY <4>3, <4>4, <5>1
        <5>2. CASE j \in 0..(x - 1)
          BY <4>1, <4>2, <4>5, <5>2 DEF Stored
        <5> QED BY <4>6, <5>1, <5>2
      <4>8. \A j \in 0..((x + 1) - 1) : new[MAX_LEN + j] = seen'[4 + ulen + j]
        BY <4>6, <4>7
      <4> QED BY <4>8 DEF Stored
    <3>2. plen > 0 => new[MAX_LEN + plen] = 0
      <4>1. plen > 0 => text[MAX_LEN + plen] = 0
        BY <2>1 DEF PasswordStored
      <4>2. MAX_LEN + plen # parser.where_to
        BY <2>2, <2>3, ParsersAssumption
      <4> QED BY <1>4, <2>3, <4>1, <4>2 DEF Store
    <3> HIDE DEF new, x
    <3> QED BY <2>2, <3>1, <3>2 DEF PasswordStored
  <2> HIDE DEF new
  <2>6. n + 1 >= 2 /\ n + 1 - 3 - ulen = x + 1 /\ x + 1 >= 0
    BY <1>2, <2>1, <2>2
  <2>7. CASE parser.to_parse > 1
    <3>1. /\ parser.to_parse - 1 \in Int /\ parser.where_to + 1 \in Int /\ "AUTH_PASSWD" \in AuthState
          /\ parser.where_to + 1 = MAX_LEN + (x + 1) /\ parser.to_parse - 1 = plen - (x + 1)
          /\ x + 1 < plen
      <4>1. x \in Nat /\ plen \in Nat /\ parser.where_to = MAX_LEN + x
            /\ parser.to_parse = plen - x
        BY <2>1, <2>2
      <4> HIDE DEF x, plen
      <4> QED BY <2>7, <4>1, ParsersAssumption DEF AuthState
    <3>2. Becomes("AUTH_PASSWD", parser.to_parse - 1, parser.where_to + 1, new)
      <4>1. parser' = [parser EXCEPT !.state = "AUTH_PASSWD", !.to_parse = parser.to_parse - 1,
                                     !.where_to = parser.where_to + 1, !.text = new]
        BY <1>1, <1>4, <1>15, <2>7, AuthByte DEF new
      <4> QED BY <1>5, <2>3, <3>1, <4>1, Zenon DEF new
    <3>3. Len(seen') - 3 - seen'[2] = x + 1 /\ seen'[3 + seen'[2]] = plen
      BY <1>2, <2>2, <2>6
    <3>4. NameStored(parser'.text, seen', seen'[2])
          /\ PasswordStored(parser'.text, seen', Len(seen') - 3 - seen'[2])
      BY <2>2, <2>4, <2>5, <3>2, <3>3 DEF Becomes
    <3> HIDE DEF x, plen
    <3>5. /\ Len(seen') - 3 - seen'[2] < seen'[3 + seen'[2]] /\ Len(seen') - 3 - seen'[2] >= 0
          /\ seen'[3 + seen'[2]] <= MAX_LEN /\ Len(seen') >= 2 /\ seen'[2] <= MAX_LEN
          /\ parser'.where_to = MAX_LEN + (Len(seen') - 3 - seen'[2])
          /\ parser'.to_parse = seen'[3 + seen'[2]] - (Len(seen') - 3 - seen'[2])
      BY <1>2, <2>1, <2>2, <2>6, <3>1, <3>2, <3>3 DEF Becomes
    <3>6. ~BadHeader' /\ parser' \in AuthParser /\ parser'.state = "AUTH_PASSWD"
      BY <1>2, <1>8, <2>1, <3>2 DEF Becomes
    <3> QED BY <3>4, <3>5, <3>6 DEF AuthInv
  <2>8. CASE ~(parser.to_parse > 1)
    <3>1. /\ parser.to_parse - 1 \in Int /\ 0 \in Int /\ "AUTH_DONE" \in AuthState
          /\ x + 1 = plen
      BY <1>4, <2>1, <2>2, <2>8 DEF AuthState
    <3>2. Becomes("AUTH_DONE", parser.to_parse - 1, 0, new)
      <4>1. parser' = [parser EXCEPT !.state = "AUTH_DONE", !.to_parse = parser.to_parse - 1,
                                     !.where_to = 0, !.text = new]
        BY <1>1, <1>4, <1>15, <2>8, AuthByte DEF new
      <4> QED BY <1>5, <2>3, <3>1, <4>1, Zenon DEF new
    <3>3. Len(seen') - 3 - seen'[2] = x + 1 /\ seen'[3 + seen'[2]] = plen
      BY <1>2, <2>2, <2>6
    <3>4. NameStored(parser'.text, seen', seen'[2])
          /\ PasswordStored(parser'.text, seen', seen'[3 + seen'[2]])
      BY <2>2, <2>4, <2>5, <3>1, <3>2, <3>3 DEF Becomes
    <3> HIDE DEF x, plen
    <3>5. /\ Len(seen') - 3 - seen'[2] = seen'[3 + seen'[2]] /\ Len(seen') - 3 - seen'[2] >= 0
          /\ seen'[3 + seen'[2]] <= MAX_LEN /\ Len(seen') >= 2 /\ seen'[2] <= MAX_LEN
      BY <1>2, <2>1, <2>2, <2>6, <3>1, <3>3
    <3>6. ~BadHeader' /\ parser' \in AuthParser /\ parser'.state = "AUTH_DONE"
      BY <1>2, <1>8, <2>1, <3>2 DEF Becomes
    <3> QED BY <3>4, <3>5, <3>6 DEF AuthInv
  <2> QED BY <2>7, <2>8
<1> QED BY <1>4, <1>9, <1>10, <1>11, <1>12, <1>13, <1>14, <1>15, AuthVerdict DEF AuthParser, AuthState

\* The bytes seen are numbers.
LEMMA SeenAreNumbers ==
    ASSUME seen \in Seq(Byte)
    PROVE  Len(seen) \in Nat /\ \A i \in 1..Len(seen) : seen[i] \in Byte /\ seen[i] \in Nat
<1>1. \A i \in 1..Len(seen) : seen[i] \in Byte
  OBVIOUS
<1>2. Len(seen) \in Nat
  OBVIOUS
<1> QED BY <1>1, <1>2, ByteIsNat

\* With that, its verdict is the one of the grammar.
LEMMA AuthMeans ==
    ASSUME reader = "auth_read", seen \in Seq(Byte), AuthInv, Verdict # "ERROR" => HeaderOK
    PROVE  Verdict = Grammar
<1> DEFINE n == Len(seen)
           ulen == seen[2]
           plen == seen[3 + ulen]
<1>1. n \in Nat /\ \A i \in 1..n : seen[i] \in Nat
  BY SeenAreNumbers
<1>2. Grammar = IF ~HeaderOK THEN "ERROR" ELSE IF n = TotalLength THEN "DONE" ELSE "MORE"
  BY DEF Grammar, HeaderOK, LineFits
<1>3. TotalLength = IF n >= 2 THEN IF n < 3 + ulen THEN 4 + ulen ELSE 3 + ulen + plen ELSE n + 1
  BY <1>1 DEF TotalLength, ControlReader
<1>4. Verdict = "ERROR" <=> BadHeader
  BY AuthVerdict DEF AuthInv
<1>5. Verdict = "DONE" <=> parser.state = "AUTH_DONE"
  BY AuthVerdict DEF AuthInv
<1>6. ASSUME ~BadHeader PROVE parser.state = "AUTH_DONE" <=> n = TotalLength
  <2>1. n >= 2 => ulen \in Nat /\ (n >= 3 + ulen => plen \in Nat)
    <3>1. ASSUME n >= 2 PROVE ulen \in Nat /\ (n >= 3 + ulen => plen \in Nat)
      <4>1. 2 \in 1..n
        BY <1>1, <3>1
      <4>2. ulen \in Nat
        BY <1>1, <4>1
      <4>3. n >= 3 + ulen => 3 + ulen \in 1..n
        BY <1>1, <4>2
      <4> QED BY <1>1, <4>2, <4>3
    <3> QED BY <3>1
  <2> DEFINE s == parser.state
  <2> HIDE DEF n, ulen, plen
  <2>2. \/ s \in {"AUTH_VER", "AUTH_ULEN"} /\ n < 2
        \/ s = "AUTH_UNAME" /\ n >= 2 /\ n - 2 < ulen
        \/ s = "AUTH_PLEN" /\ n >= 2 /\ n = 2 + ulen
        \/ s = "AUTH_PASSWD" /\ n >= 2 /\ n - 3 - ulen >= 0 /\ n - 3 - ulen < plen
        \/ s = "AUTH_DONE" /\ n >= 2 /\ n - 3 - ulen >= 0 /\ n - 3 - ulen = plen
    BY <1>1, <1>6 DEF AuthInv, n, ulen, plen
  <2> QED BY <1>1, <1>3, <2>1, <2>2
<1> QED BY <1>2, <1>4, <1>5, <1>6, BadIsNotOK, AuthVerdict DEF AuthInv, SocksReader

\* A field is read back as it was sent.
LEMMA FieldReadsBack ==
    ASSUME seen \in Seq(Byte), NEW m \in Nat, NEW block \in [0..(m - 1) -> Cell],
           NEW from \in Nat, NEW i \in Nat \ {0}, NEW k \in Nat,
           i + k <= Len(seen) + 1, from + k < m,
           Stored(block, from, seen, i, k), block[from + k] = 0
    PROVE  TextAt(block, from, m) = UpToNul(Sent(i, k))
<1> DEFINE s == Sent(i, k)
<1>1. s \in Seq(Byte) /\ Len(s) = k /\ \A j \in 1..k : s[j] = seen[i + (j - 1)]
  BY DEF Sent
<1> HIDE DEF s
<1>2. ASSUME NEW j \in 1..k PROVE block[from + j - 1] = s[j]
  <2>1. j - 1 \in 0..(k - 1) /\ from + j - 1 = from + (j - 1)
    OBVIOUS
  <2> QED BY <1>1, <2>1 DEF Stored
<1>3. from \in 0..(m - 1) /\ Len(s) < m - from
  BY <1>1
<1>4. (\A j \in 1..Len(s) : block[from + j - 1] = s[j]) /\ block[from + Len(s)] = 0 /\ s \in Seq(Byte)
  BY <1>1, <1>2
<1>5. TextAt(block, from, m) = UpToNul(s)
  BY <1>3, <1>4, ReadsBack
<1> QED BY <1>5 DEF s

\* The same of a field at the beginning of its block.
LEMMA FirstFieldReadsBack ==
    ASSUME seen \in Seq(Byte), NEW m \in Nat, NEW block \in [0..(m - 1) -> Cell],
           NEW i \in Nat \ {0}, NEW k \in Nat, i + k <= Len(seen) + 1, k < m,
           Stored(block, 0, seen, i, k), block[k] = 0
    PROVE  TextAt(block, 0, m) = UpToNul(Sent(i, k))
<1>1. ASSUME NEW z \in Nat, z = 0 PROVE TextAt(block, z, m) = UpToNul(Sent(i, k))
  <2>1. z + k < m /\ z + k = k
    BY <1>1
  <2>2. Stored(block, z, seen, i, k) /\ block[z + k] = 0
    BY <1>1, <2>1
  <2> QED BY <2>1, <2>2, FieldReadsBack
<1> QED BY <1>1

\* The user and the password read are those sent.
LEMMA AuthFieldsSent ==
    ASSUME reader = "auth_read", seen \in Seq(Byte), AuthInv, Verdict = "DONE"
    PROVE  AuthFields
<1> DEFINE n == Len(seen)
           ulen == seen[2]
           plen == seen[3 + ulen]
           size == AuthArrays + 1
<1>1. /\ parser \in AuthParser /\ n >= 2 /\ ulen <= MAX_LEN /\ n - 3 - ulen >= 0
      /\ n - 3 - ulen = plen /\ plen <= MAX_LEN
      /\ NameStored(parser.text, seen, ulen) /\ PasswordStored(parser.text, seen, plen)
  BY AuthVerdict DEF AuthInv
<1>2. ulen \in Nat /\ plen \in Nat /\ n \in Nat
  <2>1. 2 \in 1..n /\ n \in Nat
    BY <1>1
  <2>2. ulen \in Nat
    BY <2>1, SeenAreNumbers
  <2>3. 3 + ulen \in 1..n
    BY <1>1, <2>1, <2>2
  <2> QED BY <2>1, <2>2, <2>3, SeenAreNumbers
<1>3. size \in Nat /\ size - 1 = 2 * MAX_LEN
      /\ parser.text \in [0..(size - 1) -> Cell]
  BY <1>1, ParsersAssumption DEF AuthArrays, AuthParser
<1> HIDE DEF size
<1>4. ASSUME ulen \in 1..(MAX_LEN - 1)
      PROVE  TextAt(parser.text, 0, size) = UpToNul(Sent(3, ulen))
  <2>1. Stored(parser.text, 0, seen, 3, ulen) /\ parser.text[ulen] = 0
    BY <1>1, <1>2, <1>4, ParsersAssumption DEF NameStored
  <2>2. 3 + ulen <= Len(seen) + 1 /\ ulen < size
    BY <1>1, <1>2, <1>3, <1>4, ParsersAssumption
  <2>3. 0 \in Nat /\ 3 \in Nat \ {0}
    OBVIOUS
  <2> QED BY <1>2, <1>3, <2>1, <2>2, <2>3, FirstFieldReadsBack
<1>5. ASSUME plen > 0
      PROVE  TextAt(parser.text, MAX_LEN, size) = UpToNul(Sent(4 + ulen, plen))
  <2>1. Stored(parser.text, MAX_LEN, seen, 4 + ulen, plen) /\ parser.text[MAX_LEN + plen] = 0
    BY <1>1, <1>5 DEF PasswordStored
  <2>2. MAX_LEN \in Nat /\ 4 + ulen \in Nat \ {0}
    BY <1>2, ParsersAssumption
  <2>3. (4 + ulen) + plen <= Len(seen) + 1
    <3> n - 3 - ulen = plen
      BY <1>1
    <3> HIDE DEF ulen, plen
    <3> QED BY <1>2
  <2>4. MAX_LEN + plen < size
    <3> plen <= MAX_LEN /\ size \in Nat /\ size - 1 = 2 * MAX_LEN
      BY <1>1, <1>3
    <3> HIDE DEF plen
    <3> QED BY <1>2, <2>2
  <2> DEFINE at == 4 + ulen
             text == parser.text
  <2>5. at \in Nat \ {0} /\ at + plen <= Len(seen) + 1 /\ plen \in Nat
        /\ size \in Nat /\ text \in [0..(size - 1) -> Cell]
        /\ Stored(text, MAX_LEN, seen, at, plen) /\ text[MAX_LEN + plen] = 0
    BY <1>2, <1>3, <2>1, <2>2, <2>3
  <2> HIDE DEF at, plen, text
  <2>6. TextAt(text, MAX_LEN, size) = UpToNul(Sent(at, plen))
    <3>1. \A m \in Nat, from \in Nat, i \in Nat \ {0}, k \in Nat :
             \A block \in [0..(m - 1) -> Cell] :
               i + k <= Len(seen) + 1 /\ from + k < m /\ Stored(block, from, seen, i, k)
               /\ block[from + k] = 0 => TextAt(block, from, m) = UpToNul(Sent(i, k))
      BY FieldReadsBack
    <3>2. \A block \in [0..(size - 1) -> Cell] :
             at + plen <= Len(seen) + 1 /\ MAX_LEN + plen < size
             /\ Stored(block, MAX_LEN, seen, at, plen)
             /\ block[MAX_LEN + plen] = 0 => TextAt(block, MAX_LEN, size) = UpToNul(Sent(at, plen))
      <4>1. size \in Nat /\ MAX_LEN \in Nat /\ at \in Nat \ {0} /\ plen \in Nat
        BY <2>2, <2>5
      <4> QED BY <3>1, <4>1, Zenon
    <3> QED BY <2>4, <2>5, <3>2, Zenon
  <2> QED BY <2>6 DEF at, plen, text
<1> QED BY <1>4, <1>5 DEF AuthFields, size

-----------------------------------------------------------------------------
(* The request. *)

\* The verdict on a request, by the state of its parser.
LEMMA ReqVerdict ==
    ASSUME reader = "req_read", parser \in ReqParser
    PROVE  /\ Verdict = "DONE" <=> parser.state = "REQ_DONE"
           /\ Verdict = "ERROR" <=> parser.state = "REQ_ERROR"
           /\ Verdict \in {"DONE", "ERROR", "MORE"}
BY DEF Verdict, StateOf, SocksReader, ReqParser, ReqState

Request(p, x, k, at, cmd, type, fqdn, ip, port) ==
    [p EXCEPT !.state = x, !.to_parse = k, !.where_to = at, !.cmd = cmd, !.type = type,
              !.fqdn = fqdn, !.ip = ip, !.port = port]

\* The bytes of the header.
LEMMA HeaderByte ==
    ASSUME NEW p \in ReqParser, NEW b \in Byte
    PROVE  LET q == req_parse_byte(p, b)
               Keeps(x) == q = Request(p, x, p.to_parse, p.where_to, p.cmd, p.type, p.fqdn, p.ip, p.port)
               Typed(k, ip) == q = Request(p, "REQ_DST_ADDR", k, 0, p.cmd, b, p.fqdn, ip, p.port)
           IN  /\ p.state = "REQ_VER" /\ b = SOCKS_VERSION => Keeps("REQ_CMD")
               /\ p.state = "REQ_VER" /\ b # SOCKS_VERSION => Keeps("REQ_ERROR")
               /\ p.state = "REQ_CMD" /\ b \in REQ_COMMANDS =>
                    q = Request(p, "REQ_RSV", p.to_parse, p.where_to, b, p.type, p.fqdn, p.ip, p.port)
               /\ p.state = "REQ_CMD" /\ b \notin REQ_COMMANDS => Keeps("REQ_ERROR")
               /\ p.state = "REQ_RSV" /\ b = 0 => Keeps("REQ_ATYP")
               /\ p.state = "REQ_RSV" /\ b # 0 => Keeps("REQ_ERROR")
               /\ p.state = "REQ_ATYP" /\ b = IPv4 => Typed(IPv4_BYTES, Zeros(IPv6_BYTES))
               /\ p.state = "REQ_ATYP" /\ b = IPv6 => Typed(IPv6_BYTES, Zeros(IPv6_BYTES))
               /\ p.state = "REQ_ATYP" /\ b = FQDN => Typed(FIRST_FQDN_BYTE_PARSE, p.ip)
               /\ p.state = "REQ_ATYP" /\ b \notin {IPv4, IPv6, FQDN} =>
                    q = Request(p, "REQ_ERROR", p.to_parse, p.where_to, p.cmd, b, p.fqdn, p.ip, p.port)
<1>2. CASE p.state = "REQ_VER"
  BY <1>2 DEF req_parse_byte, Request, ReqParser
<1>3. CASE p.state = "REQ_CMD" /\ b \in REQ_COMMANDS
  BY <1>3 DEF req_parse_byte, Request, ReqParser
<1>4. CASE p.state = "REQ_CMD" /\ b \notin REQ_COMMANDS
  BY <1>4 DEF req_parse_byte, Request, ReqParser
<1>5. CASE p.state = "REQ_RSV"
  BY <1>5 DEF req_parse_byte, Request, ReqParser
<1>6. CASE p.state = "REQ_ATYP"
  <2>1. req_parse_byte(p, b) = AddressType(p, b)
    BY <1>6 DEF req_parse_byte
  <2> DEFINE typed == [p EXCEPT !.type = b, !.where_to = 0, !.state = "REQ_DST_ADDR"]
  <2>2. typed = Request(p, "REQ_DST_ADDR", p.to_parse, 0, p.cmd, b, p.fqdn, p.ip, p.port)
    BY DEF Request, ReqParser
  <2>3. b = IPv4 => AddressType(p, b) = [typed EXCEPT !.to_parse = IPv4_BYTES, !.ip = Zeros(IPv6_BYTES)]
    BY DEF AddressType, IPv4, IPv6, FQDN
  <2>4. b = IPv6 => AddressType(p, b) = [typed EXCEPT !.to_parse = IPv6_BYTES, !.ip = Zeros(IPv6_BYTES)]
    BY DEF AddressType, IPv4, IPv6, FQDN
  <2>5. b = FQDN => AddressType(p, b) = [typed EXCEPT !.to_parse = FIRST_FQDN_BYTE_PARSE]
    BY DEF AddressType, IPv4, IPv6, FQDN
  <2>6. b \notin {IPv4, IPv6, FQDN} => AddressType(p, b) = [p EXCEPT !.type = b, !.state = "REQ_ERROR"]
    BY DEF AddressType
  <2> HIDE DEF typed
  <2>7. b = IPv4 => AddressType(p, b) =
          Request(p, "REQ_DST_ADDR", IPv4_BYTES, 0, p.cmd, b, p.fqdn, Zeros(IPv6_BYTES), p.port)
    BY <2>2, <2>3 DEF Request, ReqParser
  <2>8. b = IPv6 => AddressType(p, b) =
          Request(p, "REQ_DST_ADDR", IPv6_BYTES, 0, p.cmd, b, p.fqdn, Zeros(IPv6_BYTES), p.port)
    BY <2>2, <2>4 DEF Request, ReqParser
  <2>9. b = FQDN => AddressType(p, b) =
          Request(p, "REQ_DST_ADDR", FIRST_FQDN_BYTE_PARSE, 0, p.cmd, b, p.fqdn, p.ip, p.port)
    BY <2>2, <2>5 DEF Request, ReqParser
  <2>10. b \notin {IPv4, IPv6, FQDN} => AddressType(p, b) =
          Request(p, "REQ_ERROR", p.to_parse, p.where_to, p.cmd, b, p.fqdn, p.ip, p.port)
    BY <2>6 DEF Request, ReqParser
  <2> QED BY <1>6, <2>1, <2>7, <2>8, <2>9, <2>10
<1> QED BY <1>2, <1>3, <1>4, <1>5, <1>6

\* Those of the address and the port.
LEMMA AddressByte ==
    ASSUME NEW p \in ReqParser, NEW b \in Byte
    PROVE  LET q == req_parse_byte(p, b)
               Is(x, k, at, fqdn, ip, port) == q = Request(p, x, k, at, p.cmd, p.type, fqdn, ip, port)
               length == p.type = FQDN /\ p.to_parse = FIRST_FQDN_BYTE_PARSE
               fqdn == IF p.type = FQDN THEN Store(p.fqdn, p.where_to, b) ELSE p.fqdn
               ip == IF p.type # FQDN THEN Store(p.ip, p.where_to, b) ELSE p.ip
           IN  /\ p.state = "REQ_DST_ADDR" /\ length /\ b = 0 =>
                    Is("REQ_DST_PORT", REQ_DST_PORT_BYTES, 0, p.fqdn, p.ip, p.port)
               /\ p.state = "REQ_DST_ADDR" /\ length /\ b # 0 =>
                    Is("REQ_DST_ADDR", b, p.where_to, Store(p.fqdn, b, 0), p.ip, p.port)
               /\ p.state = "REQ_DST_ADDR" /\ ~length /\ p.to_parse = 1 =>
                    Is("REQ_DST_PORT", REQ_DST_PORT_BYTES, 0, fqdn, ip, p.port)
               /\ p.state = "REQ_DST_ADDR" /\ ~length /\ p.to_parse # 1 =>
                    Is("REQ_DST_ADDR", p.to_parse - 1, p.where_to + 1, fqdn, ip, p.port)
               /\ p.state = "REQ_DST_PORT" /\ p.to_parse = 1 =>
                    Is("REQ_DONE", p.to_parse - 1, p.where_to + 1, p.fqdn, p.ip, Store(p.port, p.where_to, b))
               /\ p.state = "REQ_DST_PORT" /\ p.to_parse # 1 =>
                    Is("REQ_DST_PORT", p.to_parse - 1, p.where_to + 1, p.fqdn, p.ip, Store(p.port, p.where_to, b))
<1>2. CASE p.state = "REQ_DST_PORT" /\ p.to_parse = 1
  BY <1>2 DEF req_parse_byte, PortByte, Request, ReqParser
<1>3. CASE p.state = "REQ_DST_PORT" /\ p.to_parse # 1
  BY <1>3 DEF req_parse_byte, PortByte, Request, ReqParser
<1>4. CASE p.state = "REQ_DST_ADDR" /\ p.type = FQDN /\ p.to_parse = FIRST_FQDN_BYTE_PARSE
  <2>1. req_parse_byte(p, b) = FqdnLength(p, b)
    BY <1>4 DEF req_parse_byte
  <2> QED BY <1>4, <2>1 DEF FqdnLength, set_dst_port_config, Request, ReqParser, FIRST_FQDN_BYTE_PARSE
<1>5. CASE p.state = "REQ_DST_ADDR" /\ ~(p.type = FQDN /\ p.to_parse = FIRST_FQDN_BYTE_PARSE)
  <2>1. req_parse_byte(p, b) = parse_addr_byte(p, b)
    BY <1>5 DEF req_parse_byte
  <2> DEFINE fqdn == IF p.type = FQDN THEN Store(p.fqdn, p.where_to, b) ELSE p.fqdn
             ip == IF p.type # FQDN THEN Store(p.ip, p.where_to, b) ELSE p.ip
             stored == [p EXCEPT !.fqdn = fqdn, !.ip = ip, !.to_parse = p.to_parse - 1,
                                 !.where_to = p.where_to + 1]
  <2>2. parse_addr_byte(p, b) = IF p.to_parse = 1 THEN set_dst_port_config(stored) ELSE stored
    <3>1. stored = [p EXCEPT !.fqdn = IF p.type = FQDN THEN Store(@, p.where_to, b) ELSE @,
                             !.ip = IF p.type # FQDN THEN Store(@, p.where_to, b) ELSE @,
                             !.to_parse = @ - 1, !.where_to = @ + 1]
      BY DEF ReqParser
    <3> HIDE DEF stored
    <3> QED BY <3>1, Zenon DEF parse_addr_byte
  <2> HIDE DEF fqdn, ip
  <2>3. stored = Request(p, p.state, p.to_parse - 1, p.where_to + 1, p.cmd, p.type, fqdn, ip, p.port)
    BY DEF Request, ReqParser
  <2> HIDE DEF stored
  <2>4. set_dst_port_config(stored) =
          Request(p, "REQ_DST_PORT", REQ_DST_PORT_BYTES, 0, p.cmd, p.type, fqdn, ip, p.port)
    BY <2>3 DEF set_dst_port_config, Request, ReqParser
  <2>5. CASE p.to_parse = 1
    BY <1>5, <2>1, <2>2, <2>4, <2>5 DEF fqdn, ip
  <2>6. CASE p.to_parse # 1
    BY <1>5, <2>1, <2>2, <2>3, <2>6 DEF fqdn, ip
  <2> QED BY <2>5, <2>6
<1> QED BY <1>2, <1>3, <1>4, <1>5

\* What the parser is after a byte.
ReqBecomes(x, k, at, cmd, type, fqdn, ip, port) ==
    /\ parser' \in ReqParser
    /\ parser'.state = x /\ parser'.to_parse = k /\ parser'.where_to = at
    /\ parser'.cmd = cmd /\ parser'.type = type
    /\ parser'.fqdn = fqdn /\ parser'.ip = ip /\ parser'.port = port

\* A request whose fields have their types is one.
LEMMA RequestIs ==
    ASSUME parser \in ReqParser, NEW x \in ReqState, NEW k \in Int, NEW at \in Int,
           NEW cmd \in Byte, NEW type \in Byte, NEW fqdn \in [0..MAX_FQDN_SIZE -> Cell],
           NEW ip \in [0..(IPv6_BYTES - 1) -> Cell],
           NEW port \in [0..(REQ_DST_PORT_BYTES - 1) -> Cell],
           parser' = Request(parser, x, k, at, cmd, type, fqdn, ip, port)
    PROVE  ReqBecomes(x, k, at, cmd, type, fqdn, ip, port)
BY DEF Request, ReqParser, ReqBecomes

\* The bytes a request's parser waits for, by state.
LEMMA ReqWhere ==
    ASSUME seen \in Seq(Byte), ReqInv
    PROVE  /\ parser.state = "REQ_VER" => Len(seen) = 0
           /\ parser.state = "REQ_CMD" => Len(seen) = 1
           /\ parser.state = "REQ_RSV" => Len(seen) = 2
           /\ parser.state = "REQ_ATYP" => Len(seen) = 3
           /\ parser.state \in {"REQ_DST_ADDR", "REQ_DST_PORT", "REQ_DONE"} => Len(seen) >= 4
<1>1. Len(seen) \in Nat
  OBVIOUS
<1>2. Len(seen) = 0 \/ Len(seen) = 1 \/ Len(seen) = 2 \/ Len(seen) = 3 \/ Len(seen) >= 4
  <2> DEFINE n == Len(seen)
  <2> HIDE DEF n
  <2>1. n \in Nat => n = 0 \/ n = 1 \/ n = 2 \/ n = 3 \/ n >= 4
    OBVIOUS
  <2> QED BY <1>1, <2>1 DEF n
<1> QED BY <1>1, <1>2 DEF ReqInv, RequestStored

\* Which bytes contradict the header of a request.
LEMMA ReqHeader ==
    ASSUME reader = "req_read", seen \in Seq(Byte), NEW b \in Byte, seen' = Append(seen, b),
           reader' = reader
    PROVE  LET n == Len(seen)
           IN  BadHeader' <=> \/ n = 0 /\ b # SOCKS_VERSION
                              \/ n = 1 /\ b \notin REQ_COMMANDS
                              \/ n = 2 /\ b # 0
                              \/ n = 3 /\ b \notin {IPv4, FQDN, IPv6}
<1> DEFINE H == Header[reader]'
<1>1. /\ DOMAIN H = 1..4 /\ H[1] = {SOCKS_VERSION} /\ H[2] = REQ_COMMANDS /\ H[3] = {0}
      /\ H[4] = {IPv4, FQDN, IPv6}
  BY DEF Header
<1>2. BadHeader' <=> Len(seen') \in DOMAIN H /\ seen'[Len(seen')] \notin H[Len(seen')]
  BY DEF BadHeader
<1> HIDE DEF H
<1>3. Len(seen) \in Nat /\ Len(seen') = Len(seen) + 1 /\ seen'[Len(seen) + 1] = b
  BY Grows
<1>4. Len(seen) + 1 \in 1..4 <=>
        Len(seen) = 0 \/ Len(seen) = 1 \/ Len(seen) = 2 \/ Len(seen) = 3
  <2> DEFINE n == Len(seen)
  <2> HIDE DEF n
  <2>1. n \in Nat => (n + 1 \in 1..4 <=> n = 0 \/ n = 1 \/ n = 2 \/ n = 3)
    OBVIOUS
  <2> QED BY <1>3, <2>1 DEF n
<1> QED BY <1>1, <1>2, <1>3, <1>4

\* The types of a request's fields.
LEMMA ReqTypes ==
    ASSUME NEW p \in ReqParser
    PROVE  /\ p.to_parse \in Int /\ p.where_to \in Int /\ p.cmd \in Byte /\ p.type \in Byte
           /\ p.fqdn \in [0..MAX_FQDN_SIZE -> Cell] /\ p.ip \in [0..(IPv6_BYTES - 1) -> Cell]
           /\ p.port \in [0..(REQ_DST_PORT_BYTES - 1) -> Cell] /\ p.state \in ReqState
BY DEF ReqParser

\* The header of a request.
LEMMA ReqHeaderStep ==
    ASSUME reader = "req_read", seen \in Seq(Byte), ReqInv, NEW b \in Byte,
           parser' = req_parse_byte(parser, b), reader' = reader, seen' = Append(seen, b),
           parser.state \in {"REQ_VER", "REQ_CMD", "REQ_RSV", "REQ_ATYP"}
    PROVE  ReqInv'
<1> DEFINE n == Len(seen)
<1>1. /\ seen' \in Seq(Byte) /\ n \in Nat /\ Len(seen') = n + 1
      /\ seen'[n + 1] = b
      /\ \A i \in 1..n : seen'[i] = seen[i] /\ seen[i] \in Byte /\ seen[i] \in Nat
  BY Grows, ByteIsNat
<1>2. BadHeader' <=> \/ n = 0 /\ b # SOCKS_VERSION
                     \/ n = 1 /\ b \notin REQ_COMMANDS
                     \/ n = 2 /\ b # 0
                     \/ n = 3 /\ b \notin {IPv4, FQDN, IPv6}
  BY ReqHeader
<1>3. parser \in ReqParser
  BY DEF ReqInv
<1>4. /\ parser.to_parse \in Int /\ parser.where_to \in Int /\ parser.cmd \in Byte
      /\ parser.type \in Byte
      /\ parser.fqdn \in [0..MAX_FQDN_SIZE -> Cell] /\ parser.ip \in [0..(IPv6_BYTES - 1) -> Cell]
      /\ parser.port \in [0..(REQ_DST_PORT_BYTES - 1) -> Cell]
  BY <1>3, ReqTypes
<1>5. ASSUME NEW x \in ReqState, NEW cmd \in Byte, NEW type \in Byte,
             parser' = Request(parser, x, parser.to_parse, parser.where_to, cmd, type, parser.fqdn,
                               parser.ip, parser.port)
      PROVE  parser' \in ReqParser /\ parser'.state = x /\ parser'.cmd = cmd
  <2>1. ReqBecomes(x, parser.to_parse, parser.where_to, cmd, type, parser.fqdn, parser.ip,
                   parser.port)
    BY <1>3, <1>4, <1>5, RequestIs, Zenon
  <2> QED BY <2>1 DEF ReqBecomes
<1>6. CASE parser.state = "REQ_VER"
  <2>1. n = 0
    BY <1>6, ReqWhere
  <2> DEFINE x == IF b = SOCKS_VERSION THEN "REQ_CMD" ELSE "REQ_ERROR"
  <2>2. x \in ReqState
    BY DEF ReqState
  <2>3. parser' \in ReqParser /\ parser'.state = x
    <3>1. parser' = Request(parser, x, parser.to_parse, parser.where_to, parser.cmd, parser.type,
                            parser.fqdn, parser.ip, parser.port)
      BY <1>3, <1>6, HeaderByte
    <3> QED BY <1>4, <1>5, <2>2, <3>1
  <2> QED BY <1>1, <1>2, <2>1, <2>3 DEF ReqInv
<1>7. CASE parser.state = "REQ_CMD"
  <2>1. n = 1 /\ seen'[2] = b
    <3>1. n = 1
      BY <1>7, ReqWhere
    <3> QED BY <1>1, <3>1
  <2>2. CASE b \in REQ_COMMANDS
    <3>1. parser' = Request(parser, "REQ_RSV", parser.to_parse, parser.where_to, b, parser.type,
                            parser.fqdn, parser.ip, parser.port)
      BY <1>3, <1>7, <2>2, HeaderByte
    <3>2. parser' \in ReqParser /\ parser'.state = "REQ_RSV" /\ parser'.cmd = b
      BY <1>4, <1>5, <3>1 DEF ReqState
    <3> QED BY <1>1, <1>2, <2>1, <2>2, <3>2 DEF ReqInv
  <2>3. CASE b \notin REQ_COMMANDS
    <3>1. parser' = Request(parser, "REQ_ERROR", parser.to_parse, parser.where_to, parser.cmd,
                            parser.type, parser.fqdn, parser.ip, parser.port)
      BY <1>3, <1>7, <2>3, HeaderByte
    <3>2. parser' \in ReqParser /\ parser'.state = "REQ_ERROR"
      BY <1>4, <1>5, <3>1 DEF ReqState
    <3> QED BY <1>1, <1>2, <2>1, <2>3, <3>2 DEF ReqInv
  <2> QED BY <2>2, <2>3
<1>8. CASE parser.state = "REQ_RSV"
  <2>1. n = 2 /\ seen'[2] = seen[2] /\ parser.cmd = seen[2]
    BY <1>1, <1>8, ReqWhere DEF ReqInv
  <2> DEFINE x == IF b = 0 THEN "REQ_ATYP" ELSE "REQ_ERROR"
  <2>2. x \in ReqState
    BY DEF ReqState
  <2>3. parser' \in ReqParser /\ parser'.state = x /\ parser'.cmd = parser.cmd
    <3>1. parser' = Request(parser, x, parser.to_parse, parser.where_to, parser.cmd, parser.type,
                            parser.fqdn, parser.ip, parser.port)
      BY <1>3, <1>8, HeaderByte
    <3> QED BY <1>4, <1>5, <2>2, <3>1
  <2> QED BY <1>1, <1>2, <2>1, <2>3 DEF ReqInv
<1>9. CASE parser.state = "REQ_ATYP"
  <2>1. n = 3 /\ seen'[2] = seen[2] /\ parser.cmd = seen[2] /\ seen'[4] = b /\ Len(seen') = 4
    BY <1>1, <1>9, ReqWhere DEF ReqInv
  <2>2. CASE b \notin {IPv4, FQDN, IPv6}
    <3>1. parser' = Request(parser, "REQ_ERROR", parser.to_parse, parser.where_to, parser.cmd,
                            b, parser.fqdn, parser.ip, parser.port)
      BY <1>3, <1>9, <2>2, HeaderByte
    <3>2. parser' \in ReqParser /\ parser'.state = "REQ_ERROR"
      BY <1>4, <1>5, <3>1 DEF ReqState
    <3> QED BY <1>1, <1>2, <2>1, <2>2, <3>2 DEF ReqInv
  <2>3. CASE b = FQDN
    <3>1. parser' = Request(parser, "REQ_DST_ADDR", FIRST_FQDN_BYTE_PARSE, 0, parser.cmd, b,
                            parser.fqdn, parser.ip, parser.port)
      BY <1>3, <1>9, <2>3, HeaderByte
    <3>2. "REQ_DST_ADDR" \in ReqState /\ FIRST_FQDN_BYTE_PARSE \in Int /\ 0 \in Int
      BY DEF ReqState, FIRST_FQDN_BYTE_PARSE
    <3>3. ReqBecomes("REQ_DST_ADDR", FIRST_FQDN_BYTE_PARSE, 0, parser.cmd, b, parser.fqdn,
                     parser.ip, parser.port)
      BY <1>3, <1>4, <3>1, <3>2, RequestIs, Zenon
    <3>4. RequestStored(parser', seen')
      BY <2>1, <2>3, <3>3 DEF RequestStored, ReqBecomes
    <3> QED BY <1>1, <1>2, <2>1, <2>3, <3>3, <3>4 DEF ReqInv, ReqBecomes
  <2>4. CASE b \in {IPv4, IPv6}
    <3> DEFINE size == IF b = IPv4 THEN IPv4_BYTES ELSE IPv6_BYTES
               none == Zeros(IPv6_BYTES)
    <3>1. parser' = Request(parser, "REQ_DST_ADDR", size, 0, parser.cmd, b, parser.fqdn,
                            none, parser.port)
      BY <1>3, <1>9, <2>4, HeaderByte DEF IPv4, IPv6
    <3>2. "REQ_DST_ADDR" \in ReqState /\ size \in Int /\ size > 0 /\ 0 \in Int
      BY ParsersAssumption DEF ReqState
    <3>3. none \in [0..(IPv6_BYTES - 1) -> Cell]
      BY DEF Zeros, Byte, Cell
    <3> HIDE DEF size, none
    <3>4. ReqBecomes("REQ_DST_ADDR", size, 0, parser.cmd, b, parser.fqdn, none, parser.port)
      BY <1>3, <1>4, <3>1, <3>2, <3>3, RequestIs, Zenon
    <3>5. seen'[4] # FQDN /\ IpSize(seen') = size
      BY <2>1, <2>4 DEF IpSize, size, IPv4, IPv6, FQDN
    <3>6. RequestStored(parser', seen')
      <4>1. Stored(parser'.ip, 0, seen', 5, 4 - 4)
        BY DEF Stored
      <4> QED BY <2>1, <3>2, <3>4, <3>5, <4>1 DEF RequestStored, ReqBecomes
    <3> QED BY <1>1, <1>2, <2>1, <2>4, <3>4, <3>6 DEF ReqInv, ReqBecomes
  <2> QED BY <2>2, <2>3, <2>4
<1> QED BY <1>6, <1>7, <1>8, <1>9

\* What a byte more leaves as it was.
LEMMA ReqSame ==
    ASSUME seen \in Seq(Byte), NEW b \in Byte, seen' = Append(seen, b), Len(seen) >= 4,
           seen[4] = FQDN => Len(seen) > 4
    PROVE  /\ seen'[2] = seen[2] /\ seen'[4] = seen[4] /\ IpSize(seen') = IpSize(seen)
           /\ BeforePort(seen') = BeforePort(seen) /\ BeforePort(seen) \in Nat
           /\ seen[4] = FQDN => seen'[5] = seen[5] /\ seen[5] \in Nat
           /\ IpSize(seen) \in Nat /\ IpSize(seen) > 0 /\ IpSize(seen) <= IPv6_BYTES
<1> DEFINE n == Len(seen)
<1>1. n \in Nat /\ \A i \in 1..n : seen'[i] = seen[i] /\ seen[i] \in Nat
  BY Grows, ByteIsNat
<1> HIDE DEF n
<1>2. n >= 4
  BY DEF n
<1>3. 2 \in 1..n /\ 4 \in 1..n /\ (n > 4 => 5 \in 1..n)
  BY <1>1, <1>2
<1>4. seen'[2] = seen[2] /\ seen'[4] = seen[4]
  BY <1>1, <1>3
<1>5. seen[4] = FQDN => seen'[5] = seen[5] /\ seen[5] \in Nat
  BY <1>1, <1>3 DEF n
<1>6. /\ IpSize(seen') = IpSize(seen)
      /\ IpSize(seen) \in Nat /\ IpSize(seen) > 0 /\ IpSize(seen) <= IPv6_BYTES
  BY <1>4, ParsersAssumption DEF IpSize
<1> QED BY <1>4, <1>5, <1>6 DEF BeforePort

\* The address and the port of a request: what its invariant says of them is
\* all there is to show.
LEMMA ReqRest ==
    ASSUME seen \in Seq(Byte), ReqInv, NEW b \in Byte, seen' = Append(seen, b), reader' = reader,
           reader = "req_read", Len(seen) >= 4, parser.state # "REQ_ERROR",
           parser' \in ReqParser, parser'.cmd = parser.cmd, parser'.type = parser.type,
           parser'.state \in {"REQ_DST_ADDR", "REQ_DST_PORT", "REQ_DONE"},
           RequestStored(parser', seen')
    PROVE  ReqInv'
<1> DEFINE n == Len(seen)
<1>1. /\ n \in Nat /\ Len(seen') = n + 1 /\ \A i \in 1..n : seen'[i] = seen[i]
  BY Grows
<1>2. 2 \in 1..n /\ 4 \in 1..n
  BY <1>1
<1>3. parser.cmd = seen[2] /\ parser.type = seen[4] /\ seen[4] \in {IPv4, FQDN, IPv6}
  <2>1. n >= 2
    BY <1>1
  <2> QED BY <2>1 DEF ReqInv
<1>4. ~BadHeader'
  <2> HIDE DEF n
  <2>1. n # 0 /\ n # 1 /\ n # 2 /\ n # 3
    BY <1>1, <1>2
  <2> QED BY <2>1, ReqHeader DEF n
<1>5. seen'[2] = seen[2] /\ seen'[4] = seen[4]
  BY <1>1, <1>2
<1>6. Len(seen') # 0 /\ Len(seen') # 1 /\ Len(seen') # 2 /\ Len(seen') # 3 /\ n # 3
  BY <1>1, <1>2
<1>7. seen'[4] \in {IPv4, FQDN, IPv6} /\ parser'.type = seen'[4] /\ parser'.cmd = seen'[2]
  BY <1>3, <1>5
<1> QED BY <1>4, <1>6, <1>7 DEF ReqInv

\* FqdnLength and parse_addr_byte keep what is known of a request.
LEMMA ReqAddressStep ==
    ASSUME reader = "req_read", seen \in Seq(Byte), ReqInv, NEW b \in Byte, b <= MAX_FQDN_SIZE,
           parser' = req_parse_byte(parser, b), reader' = reader, seen' = Append(seen, b),
           parser.state = "REQ_DST_ADDR"
    PROVE  ReqInv'
<1> DEFINE n == Len(seen)
           s == seen'
           p == parser
<1>1. /\ s \in Seq(Byte) /\ n \in Nat /\ Len(s) = n + 1
      /\ s[n + 1] = b
      /\ \A i \in 1..n : s[i] = seen[i] /\ seen[i] \in Byte /\ seen[i] \in Nat
  BY Grows, ByteIsNat
<1>2. n >= 4
  BY ReqWhere
<1>3. p \in ReqParser /\ p.type = seen[4] /\ seen[4] \in {IPv4, FQDN, IPv6}
      /\ RequestStored(p, seen)
  BY <1>2 DEF ReqInv
<1>4. /\ p.to_parse \in Int /\ p.where_to \in Int /\ p.cmd \in Byte
      /\ p.type \in Byte
      /\ p.fqdn \in [0..MAX_FQDN_SIZE -> Cell] /\ p.ip \in [0..(IPv6_BYTES - 1) -> Cell]
      /\ p.port \in [0..(REQ_DST_PORT_BYTES - 1) -> Cell]
      /\ 0 \in Int /\ REQ_DST_PORT_BYTES \in Int /\ b \in Int /\ b \in Nat
      /\ "REQ_DST_ADDR" \in ReqState /\ "REQ_DST_PORT" \in ReqState
  BY <1>3, ReqTypes, ByteIsNat DEF ReqState, REQ_DST_PORT_BYTES
<1>5. p.state # "REQ_ERROR" /\ seen' = s
  OBVIOUS
<1> USE DEF FIRST_FQDN_BYTE_PARSE
<1>6. CASE n = 4 /\ seen[4] = FQDN
  <2>1. p.where_to = 0 /\ p.to_parse = FIRST_FQDN_BYTE_PARSE
    BY <1>3, <1>6 DEF RequestStored
  <2>2. s[5] = b /\ s[4] = FQDN /\ Len(s) = 5
    BY <1>1, <1>6
  <2>3. CASE b = 0
    <3>1. parser' = Request(p, "REQ_DST_PORT", REQ_DST_PORT_BYTES, 0, p.cmd, p.type, p.fqdn, p.ip, p.port)
      BY <1>3, <1>6, <2>1, <2>3, AddressByte
    <3>2. ReqBecomes("REQ_DST_PORT", REQ_DST_PORT_BYTES, 0, p.cmd, p.type, p.fqdn, p.ip, p.port)
      BY <1>3, <1>4, <3>1, RequestIs, Zenon
    <3>3. BeforePort(s) = 5 /\ AddressStored(parser', s)
      BY <2>2, <2>3, ParsersAssumption DEF BeforePort, AddressStored, Stored
    <3>4. RequestStored(parser', s)
      BY <2>2, <3>2, <3>3 DEF RequestStored, ReqBecomes, REQ_DST_PORT_BYTES
    <3> QED BY <1>2, <3>2, <3>4, ReqRest DEF ReqBecomes
  <2>4. CASE b # 0
    <3> DEFINE fqdn == Store(p.fqdn, b, 0)
    <3>1. parser' = Request(p, "REQ_DST_ADDR", b, p.where_to, p.cmd, p.type, fqdn, p.ip, p.port)
      BY <1>3, <1>6, <2>1, <2>4, AddressByte
    <3>2. fqdn \in [0..MAX_FQDN_SIZE -> Cell] /\ fqdn[b] = 0
      <4>1. b \in 0..MAX_FQDN_SIZE /\ 0 \in Byte
        BY <1>4 DEF Byte
      <4> QED BY <1>4, <4>1, BytesAreCells DEF Store
    <3> HIDE DEF fqdn
    <3>3. ReqBecomes("REQ_DST_ADDR", b, p.where_to, p.cmd, p.type, fqdn, p.ip, p.port)
      BY <1>3, <1>4, <3>1, <3>2, RequestIs, Zenon
    <3>4. Stored(fqdn, 0, s, 6, 5 - 5)
      BY DEF Stored
    <3>5. RequestStored(parser', s)
      BY <1>4, <2>1, <2>2, <2>4, <3>2, <3>3, <3>4 DEF RequestStored, ReqBecomes
    <3> QED BY <1>2, <3>3, <3>5, ReqRest DEF ReqBecomes
  <2> QED BY <2>3, <2>4
<1>7. CASE n > 4 /\ seen[4] = FQDN
  <2> DEFINE k == n - 5
             fqdn == Store(p.fqdn, p.where_to, b)
  <2>1. /\ k < seen[5] /\ seen[5] <= MAX_FQDN_SIZE /\ p.where_to = k /\ p.to_parse = seen[5] - k
        /\ Stored(p.fqdn, 0, seen, 6, k) /\ p.fqdn[seen[5]] = 0
    BY <1>2, <1>3, <1>7 DEF RequestStored
  <2>2. /\ s[4] = FQDN /\ s[5] = seen[5] /\ seen[5] \in Nat /\ BeforePort(s) = 5 + seen[5]
    BY <1>2, <1>7, ReqSame DEF BeforePort
  <2>3. k \in Nat /\ k \in 0..MAX_FQDN_SIZE /\ seen[5] \in 0..MAX_FQDN_SIZE
    <3>1. k \in Nat
      BY <1>1, <1>7
    <3> HIDE DEF k
    <3> QED BY <2>1, <2>2, <3>1, ParsersAssumption
  <2>4. fqdn \in [0..MAX_FQDN_SIZE -> Cell] /\ fqdn[seen[5]] = 0
    <3>1. k # seen[5] /\ p.where_to = k
      BY <2>1, <2>2, <2>3
    <3> HIDE DEF k
    <3> QED BY <1>4, <2>1, <2>3, <3>1, BytesAreCells DEF Store
  <2>5. Stored(fqdn, 0, s, 6, k + 1)
    <3>1. MAX_FQDN_SIZE \in Nat /\ Len(seen) = 6 + k - 1 /\ k <= MAX_FQDN_SIZE /\ 6 \in Nat \ {0}
      BY <1>1, <2>3, ParsersAssumption
    <3> HIDE DEF k
    <3> QED BY <1>4, <2>1, <2>3, <3>1, StoredGrows
  <2>6. ~(p.type = FQDN /\ p.to_parse = FIRST_FQDN_BYTE_PARSE)
    BY <2>1, <2>2, <2>3
  <2>7. p.type = FQDN
    BY <1>3, <1>7
  <2> HIDE DEF fqdn
  <2>8. CASE p.to_parse = 1
    <3>1. parser' = Request(p, "REQ_DST_PORT", REQ_DST_PORT_BYTES, 0, p.cmd, p.type, fqdn, p.ip, p.port)
      BY <1>3, <2>6, <2>7, <2>8, AddressByte DEF fqdn
    <3>2. ReqBecomes("REQ_DST_PORT", REQ_DST_PORT_BYTES, 0, p.cmd, p.type, fqdn, p.ip, p.port)
      BY <1>3, <1>4, <2>4, <3>1, RequestIs, Zenon
    <3>3. seen[5] = k + 1 /\ Len(s) = BeforePort(s) /\ Len(s) > 4
      BY <1>1, <1>7, <2>1, <2>2, <2>3, <2>8
    <3>4. AddressStored(parser', s)
      BY <2>1, <2>2, <2>4, <2>5, <3>2, <3>3 DEF AddressStored, ReqBecomes
    <3>5. RequestStored(parser', s)
      BY <2>2, <3>2, <3>3, <3>4 DEF RequestStored, ReqBecomes, REQ_DST_PORT_BYTES
    <3> QED BY <1>2, <3>2, <3>5, ReqRest DEF ReqBecomes
  <2>9. CASE p.to_parse # 1
    <3>1. parser' = Request(p, "REQ_DST_ADDR", p.to_parse - 1, p.where_to + 1, p.cmd, p.type, fqdn, p.ip, p.port)
      BY <1>3, <2>6, <2>7, <2>9, AddressByte DEF fqdn
    <3>2. p.to_parse - 1 \in Int /\ p.where_to + 1 \in Int
      BY <1>4
    <3>3. ReqBecomes("REQ_DST_ADDR", p.to_parse - 1, p.where_to + 1, p.cmd, p.type, fqdn, p.ip, p.port)
      BY <1>3, <1>4, <2>4, <3>1, <3>2, RequestIs, Zenon
    <3>4. /\ Len(s) > 4 /\ Len(s) - 5 = k + 1 /\ k + 1 < s[5] /\ s[5] <= MAX_FQDN_SIZE
          /\ p.where_to + 1 = k + 1 /\ p.to_parse - 1 = s[5] - (k + 1)
      BY <1>1, <1>7, <2>1, <2>2, <2>3, <2>9
    <3> HIDE DEF k
    <3>5. RequestStored(parser', s)
      BY <2>2, <2>4, <2>5, <3>3, <3>4 DEF RequestStored, ReqBecomes
    <3> QED BY <1>2, <3>3, <3>5, ReqRest DEF ReqBecomes
  <2> QED BY <2>8, <2>9
<1>8. CASE seen[4] # FQDN
  <2> DEFINE k == n - 4
             size == IpSize(seen)
             ip == Store(p.ip, p.where_to, b)
  <2>1. /\ k < size /\ p.where_to = k /\ p.to_parse = size - k
        /\ Stored(p.ip, 0, seen, 5, k)
    BY <1>2, <1>3, <1>8 DEF RequestStored
  <2>2. /\ s[4] # FQDN /\ IpSize(s) = size /\ size \in Nat /\ BeforePort(s) = 4 + size
        /\ size > 0 /\ size <= IPv6_BYTES
    BY <1>2, <1>8, ReqSame DEF BeforePort
  <2> HIDE DEF size
  <2>3. k \in Nat /\ k \in 0..(IPv6_BYTES - 1)
    BY <1>1, <1>2, <2>1, <2>2, ParsersAssumption
  <2>4. ip \in [0..(IPv6_BYTES - 1) -> Cell]
    BY <1>4, <2>1, <2>3, BytesAreCells DEF Store
  <2>5. Stored(ip, 0, s, 5, k + 1)
    <3>1. IPv6_BYTES - 1 \in Nat /\ Len(seen) = 5 + k - 1 /\ k <= IPv6_BYTES - 1 /\ 5 \in Nat \ {0}
      BY <1>1, <2>2, <2>3, ParsersAssumption
    <3> HIDE DEF k
    <3> QED BY <1>4, <2>1, <2>3, <3>1, StoredGrows
  <2>6. ~(p.type = FQDN /\ p.to_parse = FIRST_FQDN_BYTE_PARSE) /\ p.type # FQDN
    BY <1>3, <1>8
  <2> HIDE DEF ip
  <2>7. CASE p.to_parse = 1
    <3>1. parser' = Request(p, "REQ_DST_PORT", REQ_DST_PORT_BYTES, 0, p.cmd, p.type, p.fqdn, ip, p.port)
      BY <1>3, <2>6, <2>7, AddressByte DEF ip
    <3>2. ReqBecomes("REQ_DST_PORT", REQ_DST_PORT_BYTES, 0, p.cmd, p.type, p.fqdn, ip, p.port)
      BY <1>3, <1>4, <2>4, <3>1, RequestIs, Zenon
    <3>3. size = k + 1 /\ Len(s) = BeforePort(s)
      BY <1>1, <2>1, <2>2, <2>3, <2>7
    <3>4. AddressStored(parser', s)
      BY <2>2, <2>5, <3>2, <3>3 DEF AddressStored, ReqBecomes
    <3>5. RequestStored(parser', s)
      BY <2>2, <3>2, <3>3, <3>4 DEF RequestStored, ReqBecomes, REQ_DST_PORT_BYTES
    <3> QED BY <1>2, <3>2, <3>5, ReqRest DEF ReqBecomes
  <2>8. CASE p.to_parse # 1
    <3>1. parser' = Request(p, "REQ_DST_ADDR", p.to_parse - 1, p.where_to + 1, p.cmd, p.type, p.fqdn, ip, p.port)
      BY <1>3, <2>6, <2>8, AddressByte DEF ip
    <3>2. p.to_parse - 1 \in Int /\ p.where_to + 1 \in Int
      BY <1>4
    <3>3. ReqBecomes("REQ_DST_ADDR", p.to_parse - 1, p.where_to + 1, p.cmd, p.type, p.fqdn, ip, p.port)
      BY <1>3, <1>4, <2>4, <3>1, <3>2, RequestIs, Zenon
    <3>4. /\ Len(s) - 4 = k + 1 /\ k + 1 < IpSize(s)
          /\ p.where_to + 1 = k + 1 /\ p.to_parse - 1 = IpSize(s) - (k + 1)
      BY <1>1, <2>1, <2>2, <2>3, <2>8
    <3> HIDE DEF k
    <3>5. RequestStored(parser', s)
      BY <2>2, <2>5, <3>3, <3>4 DEF RequestStored, ReqBecomes
    <3> QED BY <1>2, <3>3, <3>5, ReqRest DEF ReqBecomes
  <2> QED BY <2>7, <2>8
<1>9. n = 4 \/ n > 4
  <2> HIDE DEF n
  <2> QED BY <1>1, <1>2
<1> QED BY <1>6, <1>7, <1>8, <1>9

\* The address stays as it was stored.
LEMMA AddressStays ==
    ASSUME seen \in Seq(Byte), NEW b \in Byte, seen' = Append(seen, b), Len(seen) >= 4,
           seen[4] = FQDN => Len(seen) > 4, parser \in ReqParser, AddressStored(parser, seen),
           BeforePort(seen) <= Len(seen), parser'.fqdn = parser.fqdn, parser'.ip = parser.ip
    PROVE  AddressStored(parser', seen')
<1>1. /\ seen'[4] = seen[4] /\ IpSize(seen') = IpSize(seen)
      /\ seen[4] = FQDN => seen'[5] = seen[5] /\ seen[5] \in Nat
      /\ IpSize(seen) \in Nat /\ IpSize(seen) <= IPv6_BYTES
  BY ReqSame
<1>2. /\ parser.fqdn \in [0..MAX_FQDN_SIZE -> Cell] /\ parser.ip \in [0..(IPv6_BYTES - 1) -> Cell]
      /\ MAX_FQDN_SIZE \in Nat /\ 6 \in Nat \ {0} /\ 5 \in Nat \ {0}
  BY ReqTypes, ParsersAssumption
<1>3. CASE seen[4] = FQDN
  <2>1. seen[5] <= MAX_FQDN_SIZE /\ Stored(parser.fqdn, 0, seen, 6, seen[5])
        /\ (seen[5] > 0 => parser.fqdn[seen[5]] = 0)
    BY <1>3 DEF AddressStored
  <2>2. 6 + seen[5] - 1 <= Len(seen) /\ seen[5] <= MAX_FQDN_SIZE + 1
    BY <1>1, <1>3, <2>1, ParsersAssumption DEF BeforePort
  <2>3. Stored(parser.fqdn, 0, seen', 6, seen[5])
    BY <1>1, <1>2, <1>3, <2>1, <2>2, StoredStays
  <2> QED BY <1>1, <1>3, <2>1, <2>3 DEF AddressStored
<1>4. CASE seen[4] # FQDN
  <2> DEFINE size == IpSize(seen)
  <2>1. Stored(parser.ip, 0, seen, 5, size)
    BY <1>4 DEF AddressStored
  <2>2. 5 + size - 1 <= Len(seen) /\ size <= (IPv6_BYTES - 1) + 1 /\ size \in Nat
        /\ IPv6_BYTES - 1 \in Nat
    BY <1>1, <1>4, ParsersAssumption DEF BeforePort
  <2> HIDE DEF size
  <2>3. Stored(parser.ip, 0, seen', 5, size)
    BY <1>2, <2>1, <2>2, StoredStays
  <2> QED BY <1>1, <1>4, <2>3 DEF AddressStored, size
<1> QED BY <1>3, <1>4

\* PortByte keeps what is known of a request.
LEMMA ReqPortStep ==
    ASSUME reader = "req_read", seen \in Seq(Byte), ReqInv, NEW b \in Byte,
           parser' = req_parse_byte(parser, b), reader' = reader, seen' = Append(seen, b),
           parser.state = "REQ_DST_PORT"
    PROVE  ReqInv'
<1> DEFINE n == Len(seen)
           s == seen'
           p == parser
           x == n - BeforePort(seen)
           port == Store(p.port, p.where_to, b)
<1>1. /\ s \in Seq(Byte) /\ n \in Nat /\ Len(s) = n + 1
      /\ s[n + 1] = b
      /\ \A i \in 1..n : s[i] = seen[i] /\ seen[i] \in Byte
  BY Grows
<1>2. n >= 4
  BY ReqWhere
<1>3. p \in ReqParser /\ RequestStored(p, seen)
  BY <1>2 DEF ReqInv
<1>4. /\ p.to_parse \in Int /\ p.where_to \in Int /\ p.cmd \in Byte
      /\ p.type \in Byte
      /\ p.fqdn \in [0..MAX_FQDN_SIZE -> Cell] /\ p.ip \in [0..(IPv6_BYTES - 1) -> Cell]
      /\ p.port \in [0..(REQ_DST_PORT_BYTES - 1) -> Cell]
      /\ p.to_parse - 1 \in Int /\ p.where_to + 1 \in Int
      /\ "REQ_DST_PORT" \in ReqState /\ "REQ_DONE" \in ReqState
  BY <1>3, ReqTypes DEF ReqState
<1>5. /\ seen[4] = FQDN => n > 4
      /\ x \in 0..1 /\ AddressStored(p, seen)
      /\ p.where_to = x /\ p.to_parse = 2 - x
      /\ x = 1 => p.port[0] = seen[n]
  BY <1>3 DEF RequestStored
<1>6. /\ s[4] = seen[4] /\ BeforePort(s) = BeforePort(seen) /\ BeforePort(seen) \in Nat
  BY <1>2, <1>5, ReqSame
<1> HIDE DEF x
<1>7. x = 0 \/ x = 1
  BY <1>5
<1>8. port \in [0..(REQ_DST_PORT_BYTES - 1) -> Cell] /\ port[x] = b /\ (x = 1 => port[0] = p.port[0])
  BY <1>4, <1>5, <1>7, BytesAreCells DEF Store, REQ_DST_PORT_BYTES
<1> HIDE DEF port
<1>9. Len(s) - BeforePort(s) = x + 1 /\ BeforePort(seen) <= n
  BY <1>1, <1>5, <1>6, <1>7 DEF x
<1>10. (s[4] = FQDN => Len(s) > 4)
  BY <1>1, <1>2
<1>11. CASE x = 0
  <2>1. p.to_parse = 2
    BY <1>5, <1>11
  <2>2. parser' = Request(p, "REQ_DST_PORT", p.to_parse - 1, p.where_to + 1, p.cmd, p.type, p.fqdn, p.ip, port)
    BY <1>3, <2>1, AddressByte DEF port
  <2>3. ReqBecomes("REQ_DST_PORT", p.to_parse - 1, p.where_to + 1, p.cmd, p.type, p.fqdn, p.ip, port)
    BY <1>3, <1>4, <1>8, <2>2, RequestIs, Zenon
  <2>4. AddressStored(parser', s)
    BY <1>2, <1>3, <1>5, <1>9, <2>3, AddressStays DEF ReqBecomes
  <2>5. /\ Len(s) - BeforePort(s) = 1 /\ 1 \in 0..1 /\ p.where_to + 1 = 1 /\ p.to_parse - 1 = 2 - 1
        /\ port[0] = s[Len(s)]
    BY <1>1, <1>5, <1>8, <1>9, <1>11, <2>1
  <2>6. RequestStored(parser', s)
    BY <1>10, <2>3, <2>4, <2>5 DEF RequestStored, ReqBecomes
  <2> QED BY <1>2, <2>3, <2>6, ReqRest DEF ReqBecomes
<1>12. CASE x = 1
  <2>1. p.to_parse = 1
    BY <1>5, <1>12
  <2>2. parser' = Request(p, "REQ_DONE", p.to_parse - 1, p.where_to + 1, p.cmd, p.type, p.fqdn, p.ip, port)
    BY <1>3, <2>1, AddressByte DEF port
  <2>3. ReqBecomes("REQ_DONE", p.to_parse - 1, p.where_to + 1, p.cmd, p.type, p.fqdn, p.ip, port)
    BY <1>3, <1>4, <1>8, <2>2, RequestIs, Zenon
  <2>4. AddressStored(parser', s)
    BY <1>2, <1>3, <1>5, <1>9, <2>3, AddressStays DEF ReqBecomes
  <2>5. /\ Len(s) - BeforePort(s) = 2 /\ port[1] = s[Len(s)] /\ port[0] = s[Len(s) - 1]
    <3>1. n \in 1..n /\ Len(s) - 1 = n
      BY <1>1, <1>2
    <3> QED BY <1>1, <1>5, <1>8, <1>9, <1>12, <3>1
  <2>6. RequestStored(parser', s)
    BY <1>10, <2>3, <2>4, <2>5 DEF RequestStored, ReqBecomes
  <2> QED BY <1>2, <2>3, <2>6, ReqRest DEF ReqBecomes
<1> QED BY <1>7, <1>11, <1>12

\* req_parse_byte keeps what is known of a request.
LEMMA ReqStep ==
    ASSUME reader = "req_read", seen \in Seq(Byte), ReqInv, NEW b \in Byte,
           parser.state = "REQ_DST_ADDR" => b <= MAX_FQDN_SIZE,
           Verdict = "MORE", ParseByte(b)
    PROVE  ReqInv'
<1>1. /\ parser' = req_parse_byte(parser, b)
      /\ reader' = reader /\ seen' = Append(seen, b)
  BY DEF ParseByte
<1>2. parser \in ReqParser
  BY DEF ReqInv
<1>3. parser.state \in {"REQ_VER", "REQ_CMD", "REQ_RSV", "REQ_ATYP", "REQ_DST_ADDR", "REQ_DST_PORT"}
  BY <1>2, ReqVerdict DEF ReqParser, ReqState
<1> QED BY <1>1, <1>3, ReqHeaderStep, ReqAddressStep, ReqPortStep

\* With that, its verdict is the one of the grammar.
LEMMA ReqMeans ==
    ASSUME reader = "req_read", seen \in Seq(Byte), ReqInv, Verdict # "ERROR" => HeaderOK
    PROVE  Verdict = Grammar
<1> DEFINE n == Len(seen)
           st == parser.state
<1>1. n \in Nat /\ \A i \in 1..n : seen[i] \in Nat
  BY SeenAreNumbers
<1>2. Grammar = IF ~HeaderOK THEN "ERROR" ELSE IF n = TotalLength THEN "DONE" ELSE "MORE"
  BY DEF Grammar, HeaderOK, LineFits
<1>3. TotalLength = IF n >= 4 THEN 4 + AddressLength + REQ_DST_PORT_BYTES ELSE n + 1
  BY <1>1 DEF TotalLength, ControlReader
<1>4. parser \in ReqParser
  BY DEF ReqInv
<1>5. Verdict = "ERROR" <=> BadHeader
  BY <1>4, ReqVerdict DEF ReqInv
<1>6. Verdict = "DONE" <=> st = "REQ_DONE"
  BY <1>4, ReqVerdict
<1>7. ASSUME ~BadHeader PROVE st = "REQ_DONE" <=> n = TotalLength
  <2>1. CASE n < 4
    <3>1. n # TotalLength
      BY <1>1, <1>3, <2>1
    <3>2. st # "REQ_DONE"
      BY <1>1, <2>1, ReqWhere
    <3> QED BY <3>1, <3>2
  <2>2. CASE n >= 4
    <3>1. seen[4] \in {IPv4, FQDN, IPv6} /\ RequestStored(parser, seen)
      BY <1>7, <2>2 DEF ReqInv
    <3>2. /\ IpSize(seen) \in Nat /\ (seen[4] = FQDN /\ n > 4 => seen[5] \in Nat)
      <4>1. n > 4 => 5 \in 1..n
        BY <1>1
      <4> QED BY <1>1, <4>1, ParsersAssumption DEF IpSize
    <3>3. AddressLength = IF seen[4] = FQDN THEN IF n > 4 THEN 1 + seen[5] ELSE 1 ELSE IpSize(seen)
      BY <3>1 DEF AddressLength, IpSize, IPv4, IPv6, FQDN
    <3>4. BeforePort(seen) = IF seen[4] = FQDN THEN 5 + seen[5] ELSE 4 + IpSize(seen)
      BY DEF BeforePort
    <3> HIDE DEF n
    <3>5. TotalLength = 4 + AddressLength + 2
      BY <1>3, <2>2 DEF REQ_DST_PORT_BYTES
    <3>6. CASE st = "REQ_DST_ADDR"
      <4>1. \/ n = 4 /\ seen[4] = FQDN
            \/ n > 4 /\ seen[4] = FQDN /\ n - 5 < seen[5]
            \/ seen[4] # FQDN /\ n - 4 < IpSize(seen)
        BY <3>1, <3>6 DEF RequestStored, n
      <4> QED BY <1>1, <3>2, <3>3, <3>5, <3>6, <4>1
    <3>7. CASE st = "REQ_DST_PORT"
      <4>1. (seen[4] = FQDN => n > 4) /\ n - BeforePort(seen) \in 0..1
        BY <3>1, <3>7 DEF RequestStored, n
      <4> QED BY <1>1, <3>2, <3>3, <3>4, <3>5, <3>7, <4>1
    <3>8. CASE st = "REQ_DONE"
      <4>1. (seen[4] = FQDN => n > 4) /\ n - BeforePort(seen) = 2
        BY <3>1, <3>8 DEF RequestStored, n
      <4> QED BY <1>1, <3>2, <3>3, <3>4, <3>5, <3>8, <4>1
    <3> QED BY <3>1, <3>6, <3>7, <3>8 DEF RequestStored
  <2> QED BY <1>1, <2>1, <2>2
<1> QED BY <1>2, <1>4, <1>5, <1>6, <1>7, BadIsNotOK, ReqVerdict DEF SocksReader

\* Command, address and port read are those sent.
LEMMA ReqFieldsSent ==
    ASSUME reader = "req_read", seen \in Seq(Byte), ReqInv, Verdict = "DONE"
    PROVE  RequestFields
<1> DEFINE n == Len(seen)
           p == parser
<1>1. n \in Nat /\ \A i \in 1..n : seen[i] \in Nat
  BY SeenAreNumbers
<1>2. p \in ReqParser /\ p.state = "REQ_DONE"
  BY ReqVerdict DEF ReqInv
<1>3. n >= 4
  BY <1>2, ReqWhere
<1>4. /\ p.cmd = seen[2] /\ p.type = seen[4] /\ seen[4] \in {IPv4, FQDN, IPv6}
      /\ RequestStored(p, seen)
  BY <1>1, <1>2, <1>3 DEF ReqInv
<1>5. /\ seen[4] = FQDN => n > 4
      /\ n - BeforePort(seen) = 2 /\ AddressStored(p, seen)
      /\ p.port[0] = seen[n - 1] /\ p.port[1] = seen[n]
  BY <1>2, <1>4 DEF RequestStored
<1>6. <<p.port[0], p.port[1]>> = Sent(Len(seen) - 1, 2)
  <2>1. Sent(n - 1, 2) = <<seen[n - 1], seen[n]>>
    <3>1. (n - 1) + 2 - 1 = n /\ n - 1 \in 1..n /\ n \in 1..n
      BY <1>1, <1>3
    <3>2. Sent(n - 1, 2) = SubSeq(seen, n - 1, n)
      BY <3>1 DEF Sent
    <3> DEFINE t == SubSeq(seen, n - 1, n)
    <3>3. t \in Seq(Byte) /\ Len(t) = 2 /\ t[1] = seen[n - 1] /\ t[2] = seen[n]
      BY <1>1, <3>1
    <3> HIDE DEF t
    <3>4. t = <<t[1], t[2]>>
      BY <3>3
    <3> QED BY <3>2, <3>3, <3>4 DEF t
  <2> QED BY <1>5, <2>1
<1>7. CASE seen[4] = FQDN
  <2> DEFINE k == seen[5]
  <2>1. n > 4 /\ k \in Nat
    <3>1. 5 \in 1..n
      BY <1>1, <1>5, <1>7
    <3> QED BY <1>1, <1>5, <1>7, <3>1
  <2>2. AddressLength = 1 + k
    BY <1>7, <2>1 DEF AddressLength, IPv4, IPv6, FQDN
  <2>3. k <= MAX_FQDN_SIZE /\ Stored(p.fqdn, 0, seen, 6, k) /\ (k > 0 => p.fqdn[k] = 0)
        /\ n = 7 + k
    BY <1>1, <1>5, <1>7, <2>1 DEF AddressStored, BeforePort
  <2>4. ASSUME k > 0 PROVE TextAt(p.fqdn, 0, MAX_FQDN_SIZE + 1) = UpToNul(Sent(6, k))
    <3>1. /\ MAX_FQDN_SIZE + 1 \in Nat /\ p.fqdn \in [0..((MAX_FQDN_SIZE + 1) - 1) -> Cell]
          /\ 6 \in Nat \ {0} /\ 6 + k <= Len(seen) + 1 /\ k < MAX_FQDN_SIZE + 1
      <4>1. (MAX_FQDN_SIZE + 1) - 1 = MAX_FQDN_SIZE
        BY ParsersAssumption
      <4>2. p.fqdn \in [0..MAX_FQDN_SIZE -> Cell]
        BY <1>2, ReqTypes
      <4> QED BY <1>1, <2>1, <2>3, <4>1, <4>2, ParsersAssumption
    <3> QED BY <2>1, <2>3, <2>4, <3>1, FirstFieldReadsBack, Zenon
  <2>5. AddressLength - 1 = k
    BY <2>1, <2>2
  <2> QED BY <1>4, <1>6, <1>7, <2>4, <2>5 DEF RequestFields
<1>8. CASE seen[4] # FQDN
  <2> DEFINE k == IpSize(seen)
  <2>1. AddressLength = k /\ k \in Nat
    BY <1>4, <1>8, ParsersAssumption DEF AddressLength, IpSize, IPv4, IPv6, FQDN
  <2>2. Stored(p.ip, 0, seen, 5, k) /\ n = 6 + k
    BY <1>1, <1>5, <1>8, <2>1 DEF AddressStored, BeforePort
  <2> HIDE DEF k
  <2>3. ASSUME NEW i \in 1..k PROVE p.ip[i - 1] = Sent(5, k)[i]
    <3>1. Sent(5, k)[i] = seen[5 + (i - 1)]
      BY <2>1, <2>2 DEF Sent
    <3>2. i - 1 \in 0..(k - 1) /\ 0 + (i - 1) = i - 1
      BY <2>1
    <3> QED BY <2>2, <3>1, <3>2 DEF Stored
  <2>4. AddressLength - 0 = k
    BY <2>1
  <2> QED BY <1>4, <1>6, <1>8, <2>3, <2>4 DEF RequestFields
<1> QED BY <1>7, <1>8

-----------------------------------------------------------------------------
(* The password of the management protocol. *)

\* The verdict on a password of the management protocol, by the state of its parser.
LEMMA PassVerdict ==
    ASSUME reader = "authRead", parser \in PassParser
    PROVE  /\ Verdict = "DONE" <=> parser.currentState = "CPAP_DONE"
           /\ Verdict = "ERROR" <=> parser.currentState = "CPAP_ERROR"
           /\ Verdict \in {"DONE", "ERROR", "MORE"}
BY DEF Verdict, StateOf, SocksReader, PassParser, PassState

\* Each branch of the automaton sets all three fields.
LEMMA PassByte ==
    ASSUME NEW p \in PassParser, NEW b \in Byte
    PROVE  LET q == cpapParseByte(p, b)
               Is(x, n, data) ==
                 q = [p EXCEPT !.currentState = x, !.passLen = n, !.inputPassword = data]
           IN  /\ p.currentState = "CPAP_CHECK_AUTH_COMMAND" /\ b = CP_AUTHENTICATION =>
                    Is("CPAP_HAS_DATA", p.passLen, p.inputPassword)
               /\ p.currentState = "CPAP_CHECK_AUTH_COMMAND" /\ b # CP_AUTHENTICATION =>
                    Is("CPAP_ERROR", p.passLen, p.inputPassword)
               /\ p.currentState = "CPAP_HAS_DATA" /\ b = 1 =>
                    Is("CPAP_READ_PASSWORD", p.passLen, p.inputPassword)
               /\ p.currentState = "CPAP_HAS_DATA" /\ b # 1 =>
                    Is("CPAP_ERROR", p.passLen, p.inputPassword)
               /\ p.currentState = "CPAP_READ_PASSWORD" /\ b = NewLine =>
                    Is("CPAP_DONE", p.passLen + 1, Store(p.inputPassword, p.passLen, 0))
               /\ p.currentState = "CPAP_READ_PASSWORD" /\ b # NewLine /\ p.passLen # MAX_PASS_LEN =>
                    Is("CPAP_READ_PASSWORD", p.passLen + 1, Store(p.inputPassword, p.passLen, b))
               /\ p.currentState = "CPAP_READ_PASSWORD" /\ b # NewLine /\ p.passLen = MAX_PASS_LEN =>
                    Is("CPAP_ERROR", p.passLen, p.inputPassword)
<1>1. \A x \in PassState : [p EXCEPT !.currentState = x] =
        [p EXCEPT !.currentState = x, !.passLen = p.passLen, !.inputPassword = p.inputPassword]
  BY DEF PassParser
<1>2. CASE p.currentState \in {"CPAP_CHECK_AUTH_COMMAND", "CPAP_HAS_DATA"}
  BY <1>1, <1>2 DEF cpapParseByte, PassState
<1>3. CASE p.currentState = "CPAP_READ_PASSWORD" /\ b = NewLine
  BY <1>3 DEF cpapParseByte, PassParser
<1>4. CASE p.currentState = "CPAP_READ_PASSWORD" /\ b # NewLine /\ p.passLen # MAX_PASS_LEN
  BY <1>4 DEF cpapParseByte, PassParser
<1>5. CASE p.currentState = "CPAP_READ_PASSWORD" /\ b # NewLine /\ p.passLen = MAX_PASS_LEN
  BY <1>1, <1>5 DEF cpapParseByte, PassState
<1> QED BY <1>2, <1>3, <1>4, <1>5

\* cpapParseByte keeps what is known of a password.
LEMMA PassStep ==
    ASSUME reader = "authRead", seen \in Seq(Byte), PassInv, NEW b \in Byte,
           Verdict = "MORE", ParseByte(b)
    PROVE  PassInv'
<1> DEFINE n == Len(seen)
           data == parser.inputPassword
           Becomes(x, k, new) ==
             /\ parser' \in PassParser /\ parser'.currentState = x /\ parser'.passLen = k
             /\ parser'.inputPassword = new
<1>1. /\ parser' = cpapParseByte(parser, b)
      /\ reader' = reader /\ seen' = Append(seen, b)
  BY DEF ParseByte
<1>2. /\ seen' \in Seq(Byte) /\ n \in Nat /\ Len(seen') = n + 1
      /\ seen'[n + 1] = b
      /\ \A i \in 1..n : seen'[i] = seen[i] /\ seen[i] \in Byte
  BY <1>1, Grows
<1>3. BadHeader' <=> (n = 0 /\ b # CP_AUTHENTICATION) \/ (n = 1 /\ b # 1)
  <2> DEFINE H == Header[reader]'
  <2>1. DOMAIN H = 1..2 /\ H[1] = {CP_AUTHENTICATION} /\ H[2] = {1}
    BY <1>1 DEF Header
  <2>2. BadHeader' <=> Len(seen') \in DOMAIN H /\ seen'[Len(seen')] \notin H[Len(seen')]
    BY DEF BadHeader
  <2> HIDE DEF H, n
  <2>3. BadHeader' <=> n + 1 \in 1..2 /\ b \notin H[n + 1]
    BY <1>2, <2>1, <2>2
  <2>4. n + 1 \in 1..2 <=> n = 0 \/ n = 1
    BY <1>2
  <2>5. CASE n = 0
    BY <2>1, <2>3, <2>4, <2>5
  <2>6. CASE n = 1
    BY <2>1, <2>3, <2>4, <2>6
  <2> QED BY <2>3, <2>4, <2>5, <2>6
<1>4. /\ parser \in PassParser /\ b \in Nat /\ 0 \in Byte
      /\ data \in [0..MAX_PASS_LEN -> Cell] /\ parser.passLen \in Nat /\ MAX_PASS_LEN \in Nat
      /\ parser.passLen + 1 \in Nat
  <2>1. parser \in PassParser
    BY DEF PassInv
  <2> QED BY <2>1, ByteIsNat, ParsersAssumption DEF PassParser, Byte
<1>5. ASSUME NEW x \in PassState, NEW k \in Nat, NEW new \in [0..MAX_PASS_LEN -> Cell],
             parser' = [parser EXCEPT !.currentState = x, !.passLen = k, !.inputPassword = new]
      PROVE  Becomes(x, k, new)
  BY <1>4, <1>5 DEF PassParser
<1> HIDE DEF Becomes
<1>6. CASE parser.currentState = "CPAP_CHECK_AUTH_COMMAND"
  <2>1. n = 0 /\ parser.passLen = 0
    BY <1>6 DEF PassInv
  <2> DEFINE x == IF b = CP_AUTHENTICATION THEN "CPAP_HAS_DATA" ELSE "CPAP_ERROR"
  <2>2. x \in PassState
    BY DEF PassState
  <2>3. Becomes(x, parser.passLen, data)
    BY <1>1, <1>4, <1>5, <1>6, <2>2, PassByte
  <2>4. Len(seen') = 1 /\ (BadHeader' <=> x = "CPAP_ERROR")
    BY <1>2, <1>3, <2>1
  <2> HIDE DEF x
  <2>5. x = "CPAP_HAS_DATA" \/ x = "CPAP_ERROR"
    BY DEF x
  <2> QED BY <2>1, <2>3, <2>4, <2>5 DEF PassInv, Becomes
<1>7. CASE parser.currentState = "CPAP_HAS_DATA"
  <2>1. n = 1 /\ parser.passLen = 0
    BY <1>7 DEF PassInv
  <2> DEFINE x == IF b = 1 THEN "CPAP_READ_PASSWORD" ELSE "CPAP_ERROR"
  <2>2. x \in PassState
    BY DEF PassState
  <2>3. Becomes(x, parser.passLen, data)
    BY <1>1, <1>4, <1>5, <1>7, <2>2, PassByte
  <2>4. Stored(data, 0, seen', 3, 2 - 2)
    BY DEF Stored
  <2>5. \A i \in 3..2 : seen'[i] # NewLine
    OBVIOUS
  <2> QED BY <1>2, <1>3, <1>4, <2>1, <2>3, <2>4, <2>5 DEF PassInv, Becomes
<1>8. CASE parser.currentState = "CPAP_READ_PASSWORD"
  <2> DEFINE k == n - 2
  <2>1. /\ n >= 2 /\ parser.passLen = k /\ k <= MAX_PASS_LEN
        /\ \A i \in 3..n : seen[i] # NewLine
        /\ Stored(data, 0, seen, 3, k)
    BY <1>8 DEF PassInv
  <2>2. k \in Nat /\ Len(seen) = 3 + k - 1 /\ 3 \in Nat \ {0} /\ seen \in Seq(Byte) /\ n = k + 2
    BY <1>2, <2>1
  <2>3. ~BadHeader'
    BY <1>2, <1>3, <2>1
  <2>4. \A i \in 3..n : seen'[i] # NewLine
    BY <1>2, <2>1
  <2> HIDE DEF k
  <2>5. k \in 0..MAX_PASS_LEN
    BY <2>1, <2>2
  <2>6. CASE b = NewLine
    <3> DEFINE new == Store(data, k, 0)
    <3>1. new \in [0..MAX_PASS_LEN -> Cell] /\ new[k] = 0
      BY <1>4, <2>5, BytesAreCells DEF Store
    <3>2. Stored(new, 0, seen', 3, k)
      <4>1. 3 + k - 1 <= Len(seen) /\ k <= MAX_PASS_LEN + 1 /\ k \in k..MAX_PASS_LEN
        BY <1>4, <2>1, <2>2
      <4> QED BY <1>1, <1>4, <2>1, <2>2, <4>1, StoredStays
    <3>3. parser' = [parser EXCEPT !.currentState = "CPAP_DONE", !.passLen = parser.passLen + 1, !.inputPassword = new]
      BY <1>1, <1>4, <1>8, <2>1, <2>6, PassByte
    <3>4. "CPAP_DONE" \in PassState
      BY DEF PassState
    <3> HIDE DEF new
    <3>5. Becomes("CPAP_DONE", parser.passLen + 1, new)
      BY <1>4, <1>5, <3>1, <3>3, <3>4
    <3>6. /\ Len(seen') - 3 = k /\ Len(seen') >= 3 /\ Len(seen') - 1 = n
          /\ seen'[Len(seen')] = NewLine
      BY <1>2, <2>2, <2>6
    <3> QED BY <2>1, <2>3, <2>4, <3>1, <3>2, <3>5, <3>6 DEF PassInv, Becomes
  <2>7. CASE b # NewLine /\ k # MAX_PASS_LEN
    <3> DEFINE new == Store(data, k, b)
    <3>1. new \in [0..MAX_PASS_LEN -> Cell]
      BY <1>4, <2>5, BytesAreCells DEF Store
    <3>2. Stored(new, 0, seen', 3, k + 1)
      BY <1>1, <1>4, <2>1, <2>2, StoredGrows
    <3>3. parser' = [parser EXCEPT !.currentState = "CPAP_READ_PASSWORD", !.passLen = parser.passLen + 1, !.inputPassword = new]
      BY <1>1, <1>4, <1>8, <2>1, <2>7, PassByte
    <3>4. "CPAP_READ_PASSWORD" \in PassState
      BY DEF PassState
    <3> HIDE DEF new
    <3>5. Becomes("CPAP_READ_PASSWORD", parser.passLen + 1, new)
      BY <1>4, <1>5, <3>1, <3>3, <3>4
    <3>6. /\ Len(seen') - 2 = k + 1 /\ Len(seen') >= 2 /\ k + 1 <= MAX_PASS_LEN
          /\ parser.passLen + 1 = k + 1
      BY <1>2, <1>4, <2>1, <2>2, <2>5, <2>7
    <3>7. \A i \in 3..Len(seen') : seen'[i] # NewLine
      <4> HIDE DEF n
      <4>1. \A i \in 3..(n + 1) : i \in 3..n \/ i = n + 1
        BY <1>2
      <4> QED BY <1>2, <2>4, <2>7, <4>1
    <3> QED BY <2>3, <3>2, <3>5, <3>6, <3>7 DEF PassInv, Becomes
  <2>8. CASE b # NewLine /\ k = MAX_PASS_LEN
    <3>1. parser' = [parser EXCEPT !.currentState = "CPAP_ERROR", !.passLen = parser.passLen, !.inputPassword = data]
      BY <1>1, <1>4, <1>8, <2>1, <2>8, PassByte
    <3>2. "CPAP_ERROR" \in PassState
      BY DEF PassState
    <3>3. Becomes("CPAP_ERROR", parser.passLen, data)
      BY <1>4, <1>5, <3>1, <3>2
    <3>4. Len(seen') = 3 + MAX_PASS_LEN /\ seen'[Len(seen')] # NewLine
      BY <1>2, <2>2, <2>8
    <3> QED BY <3>3, <3>4 DEF PassInv, Becomes
  <2> QED BY <2>6, <2>7, <2>8
<1> QED BY <1>4, <1>6, <1>7, <1>8, PassVerdict DEF PassParser, PassState

\* With that, its verdict is the one of the grammar.
LEMMA PassMeans ==
    ASSUME reader = "authRead", seen \in Seq(Byte), PassInv, Verdict # "ERROR" => HeaderOK
    PROVE  Verdict = Grammar
<1> DEFINE n == Len(seen)
           fits == \A i \in (3 + MAX_PASS_LEN)..n : seen[i] = NewLine
           st == parser.currentState
<1>1. n \in Nat /\ MAX_PASS_LEN \in Nat
  BY SeenAreNumbers, ParsersAssumption
<1>2. Grammar = IF ~HeaderOK THEN "ERROR" ELSE IF ~fits THEN "ERROR"
                ELSE IF n = TotalLength THEN "DONE" ELSE "MORE"
  BY DEF Grammar, HeaderOK, LineFits
<1>3. TotalLength = IF n >= 2 /\ \E i \in 3..n : seen[i] = NewLine THEN n ELSE n + 1
  BY <1>1 DEF TotalLength, EndOfLine, ControlReader
<1>4. parser \in PassParser
  BY DEF PassInv
<1>5. st = "CPAP_ERROR" => BadHeader \/ ~fits
  BY <1>1 DEF PassInv
<1> HIDE DEF n
<1>6. st \in {"CPAP_CHECK_AUTH_COMMAND", "CPAP_HAS_DATA"} => fits /\ n # TotalLength
  <2>1. st \in {"CPAP_CHECK_AUTH_COMMAND", "CPAP_HAS_DATA"} => n = 0 \/ n = 1
    BY DEF PassInv, n
  <2> QED BY <1>1, <1>3, <2>1
<1>7. st = "CPAP_READ_PASSWORD" => fits /\ n # TotalLength
  <2>1. st = "CPAP_READ_PASSWORD" =>
          n >= 2 /\ n - 2 <= MAX_PASS_LEN /\ \A i \in 3..n : seen[i] # NewLine
    BY DEF PassInv, n
  <2> QED BY <1>1, <1>3, <2>1
<1>8. st = "CPAP_DONE" => fits /\ n = TotalLength
  <2>1. st = "CPAP_DONE" => n >= 3 /\ n - 3 <= MAX_PASS_LEN /\ seen[n] = NewLine
    BY DEF PassInv, n
  <2>2. st = "CPAP_DONE" => \A i \in (3 + MAX_PASS_LEN)..n : i = n
    BY <1>1, <2>1
  <2>3. st = "CPAP_DONE" => n \in 3..n
    BY <1>1, <2>1
  <2> QED BY <1>3, <2>1, <2>2, <2>3
<1>9. st \in PassState
  BY <1>4 DEF PassParser
<1> HIDE DEF fits
<1> QED BY <1>2, <1>4, <1>5, <1>6, <1>7, <1>8, <1>9, BadIsNotOK, PassVerdict
      DEF ControlReader, PassState

\* The password read is the one sent.
LEMMA PassFieldSent ==
    ASSUME reader = "authRead", seen \in Seq(Byte), PassInv, Verdict = "DONE"
    PROVE  PasswordField
<1> DEFINE k == Len(seen) - 3
<1>1. /\ parser \in PassParser /\ Len(seen) >= 3 /\ k <= MAX_PASS_LEN
      /\ Stored(parser.inputPassword, 0, seen, 3, k) /\ parser.inputPassword[k] = 0
  BY PassVerdict DEF PassInv
<1>2. /\ k \in Nat /\ 3 + k <= Len(seen) + 1 /\ k < MAX_PASS_LEN + 1
      /\ MAX_PASS_LEN + 1 \in Nat /\ 3 \in Nat \ {0}
  BY <1>1, ParsersAssumption
<1>3. parser.inputPassword \in [0..((MAX_PASS_LEN + 1) - 1) -> Cell]
  <2>1. (MAX_PASS_LEN + 1) - 1 = MAX_PASS_LEN
    BY ParsersAssumption
  <2> QED BY <1>1, <2>1 DEF PassParser
<1>4. TextAt(parser.inputPassword, 0, MAX_PASS_LEN + 1) = UpToNul(Sent(3, k))
  <2> DEFINE m == MAX_PASS_LEN + 1
             block == parser.inputPassword
  <2>1. /\ m \in Nat /\ block \in [0..(m - 1) -> Cell] /\ 3 + k <= Len(seen) + 1 /\ k < m
        /\ Stored(block, 0, seen, 3, k) /\ block[k] = 0 /\ k \in Nat /\ 3 \in Nat \ {0}
    BY <1>1, <1>2, <1>3
  <2> HIDE DEF k, m, block
  <2>2. TextAt(block, 0, m) = UpToNul(Sent(3, k))
    BY <2>1, FirstFieldReadsBack
  <2> QED BY <2>2 DEF m, block
<1> QED BY <1>4 DEF PasswordField

-----------------------------------------------------------------------------
(* The commands of the management protocol. *)

\* The verdict on a command, by the state of its parser.
LEMMA CommandVerdict ==
    ASSUME reader = "executeRead", parser \in CommandParser
    PROVE  /\ Verdict = "DONE" <=> parser.currentState = "CPCP_DONE"
           /\ Verdict = "ERROR" <=> parser.currentState = "CPCP_ERROR"
           /\ Verdict \in {"DONE", "ERROR", "MORE"}
BY DEF Verdict, StateOf, SocksReader, ControlReader, CommandParser, CommandState

Command(p, x, k, code, hasData, data) ==
    [p EXCEPT !.currentState = x, !.code = code, !.hasData = hasData, !.data = data, !.dataSize = k]

\* What cpcpParseByte and the terminator of a whole command make of a byte.
LEMMA DataByte ==
    ASSUME NEW p \in CommandParser, NEW b \in Byte
    PROVE  LET q == CommandByte(p, b)
               Keeps(x) == q = Command(p, x, p.dataSize, p.code, p.hasData, p.data)
               data == Store(p.data, p.dataSize, b)
           IN  /\ p.currentState = "CPCP_COMMAND_CODE" /\ b \in CP_ADD_USER..CP_DISSECTOR_OFF =>
                    q = Command(p, "CPCP_HAS_DATA", p.dataSize, b, p.hasData, p.data)
               /\ p.currentState = "CPCP_COMMAND_CODE" /\ b \notin CP_ADD_USER..CP_DISSECTOR_OFF =>
                    Keeps("CPCP_ERROR")
               /\ p.currentState = "CPCP_HAS_DATA" /\ b = 0 =>
                    q = Command(p, "CPCP_DONE", p.dataSize, p.code, p.hasData, Store(p.data, p.dataSize, 0))
               /\ p.currentState = "CPCP_HAS_DATA" /\ b = 1 =>
                    q = Command(p, "CPCP_READ_DATA", p.dataSize, p.code, 1, p.data)
               /\ p.currentState = "CPCP_HAS_DATA" /\ b \notin {0, 1} => Keeps("CPCP_ERROR")
               /\ p.currentState = "CPCP_READ_DATA" /\ p.dataSize = MAX_DATA_SIZE => Keeps("CPCP_ERROR")
               /\ p.currentState = "CPCP_READ_DATA" /\ p.dataSize # MAX_DATA_SIZE /\ b = NewLine =>
                    q = Command(p, "CPCP_DONE", p.dataSize + 1, p.code, p.hasData,
                                Store(data, p.dataSize + 1, 0))
               /\ p.currentState = "CPCP_READ_DATA" /\ p.dataSize # MAX_DATA_SIZE /\ b # NewLine =>
                    q = Command(p, "CPCP_READ_DATA", p.dataSize + 1, p.code, p.hasData, data)
<1> DEFINE r == cpcpParseByte(p, b)
<1>1. \A x, k, code, hasData, data :
        LET c == Command(p, x, k, code, hasData, data)
        IN  /\ c.currentState = x /\ c.data = data /\ c.dataSize = k
            /\ \A d : [c EXCEPT !.data = d] = Command(p, x, k, code, hasData, d)
  <2> TAKE x, k, code, hasData, data
  <2> DEFINE c == Command(p, x, k, code, hasData, data)
  <2>1. c.currentState = x /\ c.data = data /\ c.dataSize = k
    BY DEF CommandParser, Command
  <2>2. \A d : [c EXCEPT !.data = d] = Command(p, x, k, code, hasData, d)
    BY DEF CommandParser, Command
  <2> QED BY <2>1, <2>2
<1>2. \A x, k, code, hasData, data :
        r = Command(p, x, k, code, hasData, data) =>
          CommandByte(p, b) = Command(p, x, k, code, hasData,
                                      IF x = "CPCP_DONE" THEN Store(data, k, 0) ELSE data)
  <2> TAKE x, k, code, hasData, data
  <2> HAVE r = Command(p, x, k, code, hasData, data)
  <2>1. CommandByte(p, b) =
          IF r.currentState = "CPCP_DONE" THEN [r EXCEPT !.data = Store(r.data, r.dataSize, 0)] ELSE r
    BY DEF CommandByte
  <2> HIDE DEF r
  <2> QED BY <1>1, <2>1
<1>3. \A x, h : /\ [p EXCEPT !.currentState = x] = Command(p, x, p.dataSize, p.code, p.hasData, p.data)
                /\ [p EXCEPT !.hasData = h, !.currentState = x] =
                     Command(p, x, p.dataSize, p.code, h, p.data)
                /\ [p EXCEPT !.code = h, !.currentState = x] =
                     Command(p, x, p.dataSize, h, p.hasData, p.data)
  BY DEF CommandParser, Command
<1>4. CASE p.currentState = "CPCP_COMMAND_CODE" /\ b \in CP_ADD_USER..CP_DISSECTOR_OFF
  <2>1. r = [p EXCEPT !.code = b, !.currentState = "CPCP_HAS_DATA"]
    BY <1>4 DEF cpcpParseByte
  <2> HIDE DEF r
  <2>2. r = Command(p, "CPCP_HAS_DATA", p.dataSize, b, p.hasData, p.data)
    BY <1>3, <2>1, Zenon
  <2>3. CommandByte(p, b) = Command(p, "CPCP_HAS_DATA", p.dataSize, b, p.hasData, p.data)
    BY <1>2, <2>2
  <2> QED BY <1>4, <2>3
<1>5. CASE \/ p.currentState = "CPCP_COMMAND_CODE" /\ b \notin CP_ADD_USER..CP_DISSECTOR_OFF
           \/ p.currentState = "CPCP_HAS_DATA" /\ b \notin {0, 1}
           \/ p.currentState = "CPCP_READ_DATA" /\ p.dataSize = MAX_DATA_SIZE
  <2>1. r = [p EXCEPT !.currentState = "CPCP_ERROR"]
    BY <1>5 DEF cpcpParseByte
  <2> HIDE DEF r
  <2>2. r = Command(p, "CPCP_ERROR", p.dataSize, p.code, p.hasData, p.data)
    BY <1>3, <2>1, Zenon
  <2>3. CommandByte(p, b) = Command(p, "CPCP_ERROR", p.dataSize, p.code, p.hasData, p.data)
    BY <1>2, <2>2
  <2> QED BY <1>5, <2>3
<1>6. CASE p.currentState = "CPCP_HAS_DATA" /\ b = 0
  <2>1. r = [p EXCEPT !.currentState = "CPCP_DONE"]
    BY <1>6 DEF cpcpParseByte
  <2> HIDE DEF r
  <2>2. r = Command(p, "CPCP_DONE", p.dataSize, p.code, p.hasData, p.data)
    BY <1>3, <2>1, Zenon
  <2>3. CommandByte(p, b) = Command(p, "CPCP_DONE", p.dataSize, p.code, p.hasData, Store(p.data, p.dataSize, 0))
    BY <1>2, <2>2
  <2> QED BY <1>6, <2>3
<1>7. CASE p.currentState = "CPCP_HAS_DATA" /\ b = 1
  <2>1. r = [p EXCEPT !.hasData = 1, !.currentState = "CPCP_READ_DATA"]
    BY <1>7 DEF cpcpParseByte
  <2> HIDE DEF r
  <2>2. r = Command(p, "CPCP_READ_DATA", p.dataSize, p.code, 1, p.data)
    BY <1>3, <2>1, Zenon
  <2>3. CommandByte(p, b) = Command(p, "CPCP_READ_DATA", p.dataSize, p.code, 1, p.data)
    BY <1>2, <2>2
  <2> QED BY <1>7, <2>3
<1>8. CASE p.currentState = "CPCP_READ_DATA" /\ p.dataSize # MAX_DATA_SIZE
  <2> DEFINE data == Store(p.data, p.dataSize, b)
             x == IF b = NewLine THEN "CPCP_DONE" ELSE "CPCP_READ_DATA"
  <2>1. r = Command(p, x, p.dataSize + 1, p.code, p.hasData, data)
    BY <1>8 DEF cpcpParseByte, CommandParser, Command
  <2> HIDE DEF r, data, x
  <2>2. CommandByte(p, b) = Command(p, x, p.dataSize + 1, p.code, p.hasData,
                                    IF x = "CPCP_DONE" THEN Store(data, p.dataSize + 1, 0) ELSE data)
    BY <1>2, <2>1
  <2>3. CASE b = NewLine
    BY <1>8, <2>2, <2>3 DEF x, data
  <2>4. CASE b # NewLine
    BY <1>8, <2>2, <2>4 DEF x, data
  <2> QED BY <2>3, <2>4
<1> QED BY <1>4, <1>5, <1>6, <1>7, <1>8

\* The types of a command's fields.
LEMMA CommandTypes ==
    ASSUME NEW p \in CommandParser
    PROVE  /\ p.dataSize \in Nat /\ p.code \in Byte /\ p.hasData \in Byte
           /\ p.data \in [0..MAX_DATA_SIZE -> Cell] /\ p.currentState \in CommandState
BY DEF CommandParser

CommandBecomes(x, k, code, hasData, data) ==
    /\ parser' \in CommandParser
    /\ parser'.currentState = x /\ parser'.dataSize = k /\ parser'.code = code
    /\ parser'.hasData = hasData /\ parser'.data = data

\* A command whose fields have their types is one.
LEMMA CommandIs ==
    ASSUME parser \in CommandParser, NEW x \in CommandState, NEW k \in Nat, NEW code \in Byte,
           NEW hasData \in Byte, NEW data \in [0..MAX_DATA_SIZE -> Cell],
           parser' = Command(parser, x, k, code, hasData, data)
    PROVE  CommandBecomes(x, k, code, hasData, data)
BY DEF Command, CommandParser, CommandBecomes

\* cpcpParseByte and the terminator keep what is known of a command.
LEMMA CommandStep ==
    ASSUME reader = "executeRead", seen \in Seq(Byte), CommandInv, NEW b \in Byte,
           Verdict = "MORE", ParseByte(b)
    PROVE  CommandInv'
<1> DEFINE n == Len(seen)
           s == seen'
           p == parser
<1>1. parser' = CommandByte(p, b) /\ reader' = reader /\ s = Append(seen, b)
  BY DEF ParseByte
<1>2. /\ s \in Seq(Byte) /\ n \in Nat /\ Len(s) = n + 1
      /\ s[n + 1] = b
      /\ \A i \in 1..n : s[i] = seen[i] /\ seen[i] \in Byte
  BY <1>1, Grows
<1>3. BadHeader' <=> (n = 0 /\ b \notin CP_ADD_USER..CP_DISSECTOR_OFF) \/ (n = 1 /\ b \notin {0, 1})
  <2> DEFINE H == Header[reader]'
  <2>1. DOMAIN H = 1..2 /\ H[1] = CP_ADD_USER..CP_DISSECTOR_OFF /\ H[2] = {0, 1}
    BY <1>1 DEF Header
  <2>2. BadHeader' <=> Len(s) \in DOMAIN H /\ s[Len(s)] \notin H[Len(s)]
    BY DEF BadHeader
  <2> HIDE DEF H, n
  <2>3. BadHeader' <=> n + 1 \in 1..2 /\ b \notin H[n + 1]
    BY <1>2, <2>1, <2>2
  <2>4. n + 1 \in 1..2 <=> n = 0 \/ n = 1
    BY <1>2
  <2>5. CASE n = 0
    <3>1. n + 1 = 1
      BY <2>5
    <3> QED BY <2>1, <2>3, <2>4, <2>5, <3>1
  <2>6. CASE n = 1
    <3>1. n + 1 = 2
      BY <2>6
    <3> QED BY <2>1, <2>3, <2>4, <2>6, <3>1
  <2> QED BY <2>3, <2>4, <2>5, <2>6
<1>4. /\ p \in CommandParser /\ b \in Nat /\ 0 \in Byte /\ 1 \in Byte
      /\ p.data \in [0..MAX_DATA_SIZE -> Cell] /\ p.dataSize \in Nat /\ p.dataSize + 1 \in Nat
      /\ p.code \in Byte /\ p.hasData \in Byte /\ MAX_DATA_SIZE \in Nat
      /\ p.currentState \in CommandState
  <2>1. p \in CommandParser
    BY DEF CommandInv
  <2>2. 0 \in Byte /\ 1 \in Byte /\ b \in Nat
    BY ByteIsNat DEF Byte
  <2> QED BY <2>1, <2>2, CommandTypes, ParsersAssumption
<1>5. /\ "CPCP_HAS_DATA" \in CommandState /\ "CPCP_READ_DATA" \in CommandState
      /\ "CPCP_DONE" \in CommandState /\ "CPCP_ERROR" \in CommandState
      /\ "CPCP_HAS_DATA" # "CPCP_DONE" /\ "CPCP_READ_DATA" # "CPCP_DONE"
      /\ "CPCP_ERROR" # "CPCP_DONE"
  BY DEF CommandState
<1>6. \A k \in 0..MAX_DATA_SIZE, c \in Byte :
        Store(p.data, k, c) \in [0..MAX_DATA_SIZE -> Cell] /\ Store(p.data, k, c)[k] = c
  <2>1. MAX_DATA_SIZE \in Int
    BY <1>4
  <2> QED BY <1>4, <2>1, BytesAreCells DEF Store
<1>7. ASSUME parser' = Command(p, "CPCP_ERROR", p.dataSize, p.code, p.hasData, p.data)
      PROVE  parser' \in CommandParser /\ parser'.currentState = "CPCP_ERROR"
  <2>2. CommandBecomes("CPCP_ERROR", p.dataSize, p.code, p.hasData, p.data)
    BY <1>4, <1>5, <1>7, CommandIs
  <2> QED BY <2>2 DEF CommandBecomes
<1>8. CASE p.currentState = "CPCP_COMMAND_CODE"
  <2>1. n = 0 /\ p.dataSize = 0 /\ p.hasData = 0
    BY <1>8 DEF CommandInv
  <2>2. Len(s) = 1 /\ s[1] = b
    BY <1>2, <2>1
  <2>3. CASE b \in CP_ADD_USER..CP_DISSECTOR_OFF
    <3>1. parser' = Command(p, "CPCP_HAS_DATA", p.dataSize, b, p.hasData, p.data)
      BY <1>1, <1>4, <1>8, <2>3, DataByte
    <3>2. CommandBecomes("CPCP_HAS_DATA", p.dataSize, b, p.hasData, p.data)
      BY <1>4, <1>5, <3>1, CommandIs
    <3> QED BY <1>3, <2>1, <2>2, <2>3, <3>2 DEF CommandInv, CommandBecomes
  <2>4. CASE b \notin CP_ADD_USER..CP_DISSECTOR_OFF
    <3>1. parser' \in CommandParser /\ parser'.currentState = "CPCP_ERROR"
      BY <1>1, <1>4, <1>7, <1>8, <2>4, DataByte
    <3> QED BY <1>3, <2>1, <2>4, <3>1 DEF CommandInv
  <2> QED BY <2>3, <2>4
<1>9. CASE p.currentState = "CPCP_HAS_DATA"
  <2>1. n = 1 /\ p.dataSize = 0 /\ p.hasData = 0 /\ p.code = seen[1]
    BY <1>9 DEF CommandInv
  <2>2. Len(s) = 2 /\ s[1] = seen[1] /\ s[2] = b
    BY <1>2, <2>1
  <2>3. CASE b = 0
    <3> DEFINE data == Store(p.data, 0, 0)
    <3>1. data \in [0..MAX_DATA_SIZE -> Cell] /\ data[0] = 0
      <4>1. 0 \in 0..MAX_DATA_SIZE
        BY <1>4
      <4> QED BY <1>4, <1>6, <4>1
    <3>2. parser' = Command(p, "CPCP_DONE", p.dataSize, p.code, p.hasData, data)
      BY <1>1, <1>4, <1>9, <2>1, <2>3, DataByte
    <3> HIDE DEF data
    <3>3. CommandBecomes("CPCP_DONE", p.dataSize, p.code, p.hasData, data)
      BY <1>4, <1>5, <3>1, <3>2, CommandIs
    <3>4. Stored(data, 0, s, 3, 2 - 2)
      BY DEF Stored
    <3> QED BY <1>3, <1>4, <2>1, <2>2, <2>3, <3>1, <3>3, <3>4 DEF CommandInv, CommandBecomes
  <2>4. CASE b = 1
    <3>1. parser' = Command(p, "CPCP_READ_DATA", p.dataSize, p.code, 1, p.data)
      BY <1>1, <1>4, <1>9, <2>4, DataByte
    <3>2. CommandBecomes("CPCP_READ_DATA", p.dataSize, p.code, 1, p.data)
      BY <1>4, <1>5, <3>1, CommandIs
    <3>3. Stored(p.data, 0, s, 3, 2 - 2) /\ \A i \in 3..2 : s[i] # NewLine
      BY DEF Stored
    <3> QED BY <1>3, <1>4, <2>1, <2>2, <2>4, <3>2, <3>3 DEF CommandInv, CommandBecomes
  <2>5. CASE b \notin {0, 1}
    <3>1. parser' \in CommandParser /\ parser'.currentState = "CPCP_ERROR"
      BY <1>1, <1>4, <1>7, <1>9, <2>5, DataByte
    <3> QED BY <1>3, <2>1, <2>5, <3>1 DEF CommandInv
  <2> QED BY <2>3, <2>4, <2>5
<1>10. CASE p.currentState = "CPCP_READ_DATA"
  <2> DEFINE k == n - 2
  <2>1. /\ n >= 2 /\ seen[2] = 1 /\ p.dataSize = k /\ k <= MAX_DATA_SIZE
        /\ \A i \in 3..n : seen[i] # NewLine
        /\ Stored(p.data, 0, seen, 3, k) /\ p.code = seen[1] /\ p.hasData = seen[2]
    BY <1>2, <1>10 DEF CommandInv
  <2>2. k \in Nat /\ Len(seen) = 3 + k - 1 /\ 3 \in Nat \ {0} /\ seen \in Seq(Byte) /\ n = k + 2
    BY <1>2, <2>1
  <2>3. /\ ~BadHeader' /\ s[1] = seen[1] /\ s[2] = seen[2] /\ Len(s) >= 3 /\ Len(s) - 1 = n
        /\ Len(s) - 2 = k + 1 /\ s[Len(s)] = b
    BY <1>2, <1>3, <2>1
  <2>4. \A i \in 3..n : s[i] # NewLine
    BY <1>2, <2>1
  <2> HIDE DEF k
  <2>5. k \in 0..MAX_DATA_SIZE
    BY <2>1, <2>2
  <2> DEFINE new == Store(p.data, k, b)
  <2>6. ASSUME k # MAX_DATA_SIZE
        PROVE  /\ new \in [0..MAX_DATA_SIZE -> Cell] /\ Stored(new, 0, s, 3, k + 1)
               /\ k + 1 <= MAX_DATA_SIZE
    <3>1. Stored(new, 0, s, 3, k + 1)
      BY <1>1, <1>4, <2>1, <2>2, StoredGrows
    <3> QED BY <1>4, <1>6, <2>5, <2>6, <3>1
  <2>7. CASE k # MAX_DATA_SIZE /\ b = NewLine
    <3> DEFINE data == Store(new, k + 1, 0)
    <3>1. data \in [0..MAX_DATA_SIZE -> Cell] /\ data[k + 1] = 0
      <4>1. k + 1 \in 0..MAX_DATA_SIZE
        BY <1>4, <2>2, <2>6, <2>7
      <4> HIDE DEF new
      <4> QED BY <1>4, <2>6, <2>7, <4>1, BytesAreCells DEF Store
    <3>2. Stored(data, 0, s, 3, k + 1)
      <4> HIDE DEF new
      <4>1. \A j \in 0..k : data[j] = new[j]
        <5>1. \A j \in 0..k : j \in 0..MAX_DATA_SIZE /\ j # k + 1
          BY <1>4, <2>2, <2>6, <2>7
        <5> QED BY <2>6, <2>7, <5>1 DEF Store
      <4>2. (k + 1) - 1 = k /\ \A j \in 0..k : 0 + j = j
        BY <2>2
      <4> HIDE DEF data
      <4> QED BY <2>6, <2>7, <4>1, <4>2 DEF Stored
    <3>3. parser' = Command(p, "CPCP_DONE", p.dataSize + 1, p.code, p.hasData, data)
      BY <1>1, <1>4, <1>10, <2>1, <2>7, DataByte
    <3> HIDE DEF data
    <3>4. CommandBecomes("CPCP_DONE", p.dataSize + 1, p.code, p.hasData, data)
      BY <1>4, <1>5, <3>1, <3>3, CommandIs
    <3> QED BY <2>1, <2>3, <2>4, <2>6, <2>7, <3>1, <3>2, <3>4 DEF CommandInv, CommandBecomes
  <2>8. CASE k # MAX_DATA_SIZE /\ b # NewLine
    <3>1. parser' = Command(p, "CPCP_READ_DATA", p.dataSize + 1, p.code, p.hasData, new)
      BY <1>1, <1>4, <1>10, <2>1, <2>8, DataByte
    <3>2. \A i \in 3..Len(s) : s[i] # NewLine
      <4> HIDE DEF n
      <4>1. \A i \in 3..(n + 1) : i \in 3..n \/ i = n + 1
        BY <1>2
      <4> QED BY <1>2, <2>4, <2>8, <4>1
    <3> HIDE DEF new
    <3>3. CommandBecomes("CPCP_READ_DATA", p.dataSize + 1, p.code, p.hasData, new)
      BY <1>4, <1>5, <2>6, <2>8, <3>1, CommandIs
    <3> QED BY <2>1, <2>3, <2>6, <2>8, <3>2, <3>3 DEF CommandInv, CommandBecomes
  <2>9. CASE k = MAX_DATA_SIZE
    <3>1. parser' \in CommandParser /\ parser'.currentState = "CPCP_ERROR"
      BY <1>1, <1>4, <1>7, <1>10, <2>1, <2>9, DataByte
    <3>2. Len(s) = 3 + MAX_DATA_SIZE
      BY <1>2, <2>2, <2>9
    <3> QED BY <2>3, <2>4, <3>1, <3>2 DEF CommandInv
  <2> QED BY <2>7, <2>8, <2>9
<1> QED BY <1>4, <1>8, <1>9, <1>10, CommandVerdict DEF CommandState

\* With that, its verdict is the one of the grammar.
LEMMA CommandMeans ==
    ASSUME reader = "executeRead", seen \in Seq(Byte), CommandInv, Verdict # "ERROR" => HeaderOK
    PROVE  Verdict = Grammar
<1> DEFINE n == Len(seen)
           fits == n <= 2 + MAX_DATA_SIZE
           st == parser.currentState
           line_ends == \E i \in 3..n : seen[i] = NewLine
<1>1. n \in Nat /\ MAX_DATA_SIZE \in Nat
  BY SeenAreNumbers, ParsersAssumption
<1>2. Grammar = IF ~HeaderOK THEN "ERROR" ELSE IF ~fits THEN "ERROR"
                ELSE IF n = TotalLength THEN "DONE" ELSE "MORE"
  BY DEF Grammar, HeaderOK, LineFits
<1>3. TotalLength = IF n >= 2 /\ seen[2] = 0 THEN 2
                    ELSE IF n >= 2 /\ line_ends THEN n ELSE n + 1
  <2>1. EndOfLine = IF line_ends THEN n ELSE n + 1
    BY DEF EndOfLine
  <2> HIDE DEF line_ends
  <2> QED BY <2>1 DEF TotalLength
<1>4. parser \in CommandParser
  BY DEF CommandInv
<1>5. st = "CPCP_ERROR" => BadHeader \/ ~fits
  BY <1>1 DEF CommandInv
<1> HIDE DEF n, line_ends
<1>6. st \in {"CPCP_COMMAND_CODE", "CPCP_HAS_DATA"} => fits /\ n # TotalLength
  <2>1. st \in {"CPCP_COMMAND_CODE", "CPCP_HAS_DATA"} => n = 0 \/ n = 1
    BY DEF CommandInv, n
  <2> QED BY <1>1, <1>3, <2>1
<1>7. st = "CPCP_READ_DATA" => fits /\ n # TotalLength
  <2>1. st = "CPCP_READ_DATA" =>
          n >= 2 /\ n - 2 <= MAX_DATA_SIZE /\ seen[2] = 1 /\ ~line_ends
    BY DEF CommandInv, n, line_ends
  <2>2. st = "CPCP_READ_DATA" => seen[2] # 0
    BY <2>1
  <2> QED BY <1>1, <1>3, <2>1, <2>2
<1>8. st = "CPCP_DONE" => fits /\ n = TotalLength
  <2>1. st = "CPCP_DONE" =>
          /\ n >= 2 /\ n - 2 <= MAX_DATA_SIZE
          /\ IF seen[2] = 0 THEN n = 2 ELSE n >= 3 /\ seen[n] = NewLine
    BY DEF CommandInv, n
  <2>2. st = "CPCP_DONE" /\ seen[2] # 0 => line_ends
    <3>1. n >= 3 => n \in 3..n
      BY <1>1
    <3> QED BY <2>1, <3>1 DEF line_ends
  <2> QED BY <1>1, <1>3, <2>1, <2>2
<1>9. st \in CommandState
  BY <1>4 DEF CommandParser
<1> HIDE DEF fits
<1> QED BY <1>2, <1>4, <1>5, <1>6, <1>7, <1>8, <1>9, BadIsNotOK, CommandVerdict
      DEF ControlReader, CommandState

\* The command read is the one sent.
LEMMA CommandFieldsSent ==
    ASSUME reader = "executeRead", seen \in Seq(Byte), CommandInv, Verdict = "DONE"
    PROVE  CommandFields
<1> DEFINE k == Len(seen) - 2
           m == MAX_DATA_SIZE + 1
           block == parser.data
<1>1. /\ parser \in CommandParser /\ Len(seen) >= 2 /\ k <= MAX_DATA_SIZE
      /\ Stored(block, 0, seen, 3, k) /\ block[k] = 0
      /\ parser.code = seen[1] /\ parser.hasData = seen[2]
  <2>1. parser \in CommandParser /\ parser.currentState = "CPCP_DONE"
    BY CommandVerdict DEF CommandInv
  <2>2. Len(seen) >= 2 /\ k <= MAX_DATA_SIZE /\ Stored(block, 0, seen, 3, k) /\ block[k] = 0
    BY <2>1 DEF CommandInv
  <2> QED BY <2>1, <2>2, SeenAreNumbers DEF CommandInv
<1>2. /\ m \in Nat /\ block \in [0..(m - 1) -> Cell] /\ 3 + k <= Len(seen) + 1 /\ k < m
      /\ k \in Nat /\ 3 \in Nat \ {0}
  <2>1. m - 1 = MAX_DATA_SIZE /\ m \in Nat /\ k < m /\ k \in Nat /\ 3 + k <= Len(seen) + 1
    BY <1>1, SeenAreNumbers, ParsersAssumption
  <2>2. block \in [0..MAX_DATA_SIZE -> Cell]
    BY <1>1, CommandTypes
  <2> HIDE DEF m, block
  <2> QED BY <2>1, <2>2
<1> HIDE DEF k, m, block
<1>3. TextAt(block, 0, m) = UpToNul(Sent(3, k))
  BY <1>1, <1>2, FirstFieldReadsBack
<1> QED BY <1>1, <1>3 DEF CommandFields, k, m, block

-----------------------------------------------------------------------------
(* All readers. *)

ReaderName == SocksReader \cup ControlReader \cup {"copy_read"}

ReadersInv == reader \in ReaderName /\ ReaderInv /\ SnifferInv

\* The readers, one by one.
LEMMA Readers5 ==
    \A r : r \in SocksReader \cup ControlReader <=>
             \/ r = "hello_read" \/ r = "auth_read" \/ r = "req_read"
             \/ r = "authRead" \/ r = "executeRead"
BY DEF SocksReader, ControlReader

\* The first byte of a header has place 1.
LEMMA HeadersHavePlaces ==
    /\ 0 \notin DOMAIN Header["hello_read"] /\ 0 \notin DOMAIN Header["auth_read"]
    /\ 0 \notin DOMAIN Header["req_read"] /\ 0 \notin DOMAIN Header["authRead"]
    /\ 0 \notin DOMAIN Header["executeRead"]
BY DEF Header

\* Cleared memory holds bytes.
LEMMA ZerosAreBytes == ASSUME NEW n PROVE Zeros(n) \in [0..(n - 1) -> Cell]
BY DEF Zeros, Byte, Cell

\* Nothing was written behind a cleared array.
LEMMA ClearedIsCells ==
    ASSUME NEW n \in Nat
    PROVE  Cleared(n) \in [0..n -> Cell] /\ Cleared(n)[n] = Unused
BY DEF Cleared, Byte, Cell, Unused

\* auth_parser_init makes any parser of a user and password a new one.
LEMMA AuthBegins ==
    ASSUME NEW p \in AuthParser
    PROVE  auth_parser_init(p) \in AuthParser /\ auth_parser_init(p).state = "AUTH_VER"
<1>1. ASSUME NEW x \in AuthState, NEW k \in Int, NEW at \in Int
      PROVE  LET q == [p EXCEPT !.state = x, !.to_parse = k, !.where_to = at]
             IN  q \in AuthParser /\ q.state = x
  BY DEF AuthParser
<1>2. "AUTH_VER" \in AuthState /\ 0 \in Int
  BY DEF AuthState
<1> QED BY <1>1, <1>2, Zenon DEF auth_parser_init

\* The same of req_parser_init.
LEMMA ReqBegins ==
    ASSUME NEW p \in ReqParser
    PROVE  req_parser_init(p) \in ReqParser /\ req_parser_init(p).state = "REQ_VER"
<1>1. Zeros(REQ_DST_PORT_BYTES) \in [0..(REQ_DST_PORT_BYTES - 1) -> Cell]
  BY DEF Zeros, Byte, Cell
<1>2. ASSUME NEW z \in Byte, z = 0
      PROVE  req_parser_init(p) \in ReqParser /\ req_parser_init(p).state = "REQ_VER"
  <2> DEFINE q == [p EXCEPT !.state = "REQ_VER", !.to_parse = z, !.where_to = z,
                            !.cmd = z, !.type = z, !.port = Zeros(REQ_DST_PORT_BYTES)]
  <2>1. req_parser_init(p) = q
    BY <1>2 DEF req_parser_init
  <2>2. z \in Int
    BY ByteIsNat
  <2>3. q \in ReqParser /\ q.state = "REQ_VER"
    BY <1>1, <2>2 DEF ReqParser, ReqState
  <2> QED BY <2>1, <2>3
<1>3. 0 \in Byte
  BY DEF Byte
<1> QED BY <1>2, <1>3

\* The same of initCpCommandParser.
LEMMA CommandBegins ==
    ASSUME NEW p \in CommandParser
    PROVE  LET q == initCpCommandParser(p)
           IN  q \in CommandParser /\ q.currentState = "CPCP_COMMAND_CODE" /\ q.dataSize = 0 /\ q.hasData = 0
<1>1. ASSUME NEW x \in CommandState, NEW k \in Nat, NEW code \in Byte, NEW hasData \in Byte
      PROVE  LET q == [p EXCEPT !.currentState = x, !.dataSize = k, !.code = code, !.hasData = hasData]
             IN  q \in CommandParser /\ q.currentState = x /\ q.dataSize = k /\ q.hasData = hasData
  BY DEF CommandParser
<1>2. "CPCP_COMMAND_CODE" \in CommandState /\ 0 \in Nat /\ 0 \in Byte
  BY DEF CommandState, Byte
<1> DEFINE q == [p EXCEPT !.currentState = "CPCP_COMMAND_CODE", !.dataSize = 0, !.code = 0,
                          !.hasData = 0]
<1>3. q \in CommandParser /\ q.currentState = "CPCP_COMMAND_CODE" /\ q.dataSize = 0 /\ q.hasData = 0
  BY <1>2 DEF CommandParser
<1> QED BY <1>3 DEF initCpCommandParser

\* Before the first byte nothing contradicts a header.
LEMMA NothingSeen ==
    ASSUME seen = <<>>
    PROVE  /\ seen \in Seq(Byte) /\ Len(seen) = 0 /\ HeaderOK
           /\ reader \in SocksReader \cup ControlReader => ~BadHeader
<1>1. Len(seen) = 0 /\ DOMAIN seen = {} /\ seen \in Seq(Byte)
  OBVIOUS
<1> QED BY <1>1, HeadersHavePlaces, Readers5 DEF HeaderOK, BadHeader

\* The same after a step.
LEMMA NothingSeenNext ==
    ASSUME seen' = <<>>
    PROVE  /\ seen' \in Seq(Byte) /\ Len(seen') = 0 /\ HeaderOK'
           /\ reader' \in SocksReader \cup ControlReader => ~BadHeader'
<1>1. Len(seen') = 0 /\ DOMAIN seen' = {} /\ seen' \in Seq(Byte)
  OBVIOUS
<1>2. Header' = Header
  BY DEF Header
<1> QED BY <1>1, <1>2, HeadersHavePlaces, Readers5 DEF HeaderOK, BadHeader

\* A new connection satisfies the invariant.
LEMMA InitReaders ==
    ASSUME Init
    PROVE  ReaderInv
<1>1. /\ seen = <<>> /\ reader \in ReaderName /\ parser = NewParser[reader]
  BY DEF Init, ReaderName
<1>2. /\ seen \in Seq(Byte) /\ Len(seen) = 0 /\ HeaderOK
      /\ reader \in SocksReader \cup ControlReader => ~BadHeader
  BY <1>1, NothingSeen
<1>3. ASSUME reader = "hello_read" PROVE HelloInv
  <2>1. parser = start_connection_parser
    BY <1>1, <1>3 DEF NewParser
  <2>2. parser \in HelloParser /\ parser.state = "CONN_VERSION" /\ parser.auth = NO_METHODS
    BY <2>1 DEF start_connection_parser, HelloParser, HelloState, NO_METHODS, Byte
  <2>3. HelloFields
    BY <1>2, <2>2 DEF HelloFields
  <2> QED BY <1>2, <1>3, <2>2, <2>3, Readers5 DEF HelloInv
<1>4. ASSUME reader = "auth_read" PROVE AuthInv
  <2>1. parser = auth_parser_init([state |-> "AUTH_VER", to_parse |-> 0, where_to |-> 0,
                                   text |-> Cleared(AuthArrays)])
    BY <1>1, <1>4 DEF NewParser
  <2>2. Cleared(AuthArrays) \in [0..(2 * MAX_LEN) -> Cell]
    <3>1. AuthArrays \in Nat /\ AuthArrays = 2 * MAX_LEN
      BY ParsersAssumption DEF AuthArrays
    <3> QED BY <3>1, ClearedIsCells
  <2>3. parser \in AuthParser /\ parser.state = "AUTH_VER"
    <3> DEFINE p == [state |-> "AUTH_VER", to_parse |-> 0, where_to |-> 0, text |-> Cleared(AuthArrays)]
    <3>1. p \in AuthParser
      BY <2>2 DEF AuthParser, AuthState
    <3> HIDE DEF p
    <3>2. parser = auth_parser_init(p)
      BY <2>1 DEF p
    <3> QED BY <3>1, <3>2, AuthBegins
  <2> QED BY <1>2, <1>4, <2>3, Readers5 DEF AuthInv
<1>5. ASSUME reader = "req_read" PROVE ReqInv
  <2>1. parser = req_parser_init([state |-> "REQ_VER", to_parse |-> 0, where_to |-> 0, cmd |-> 0,
                                  type |-> 0, fqdn |-> Cleared(MAX_FQDN_SIZE),
                                  ip |-> Zeros(IPv6_BYTES), port |-> Zeros(REQ_DST_PORT_BYTES)])
    BY <1>1, <1>5 DEF NewParser
  <2>2. /\ Cleared(MAX_FQDN_SIZE) \in [0..MAX_FQDN_SIZE -> Cell]
        /\ Zeros(IPv6_BYTES) \in [0..(IPv6_BYTES - 1) -> Cell]
        /\ Zeros(REQ_DST_PORT_BYTES) \in [0..(REQ_DST_PORT_BYTES - 1) -> Cell]
    BY ParsersAssumption, ClearedIsCells, ZerosAreBytes
  <2>3. parser \in ReqParser /\ parser.state = "REQ_VER"
    <3> DEFINE p == [state |-> "REQ_VER", to_parse |-> 0, where_to |-> 0, cmd |-> 0, type |-> 0,
                     fqdn |-> Cleared(MAX_FQDN_SIZE), ip |-> Zeros(IPv6_BYTES),
                     port |-> Zeros(REQ_DST_PORT_BYTES)]
    <3>1. p \in ReqParser
      BY <2>2 DEF ReqParser, ReqState, Byte
    <3> HIDE DEF p
    <3>2. parser = req_parser_init(p)
      BY <2>1 DEF p
    <3> QED BY <3>1, <3>2, ReqBegins
  <2> QED BY <1>2, <1>5, <2>3, Readers5 DEF ReqInv
<1>6. ASSUME reader = "authRead" PROVE PassInv
  <2>1. parser = initCpAuthParser([currentState |-> "CPAP_CHECK_AUTH_COMMAND", passLen |-> 0,
                                   inputPassword |-> Cleared(MAX_PASS_LEN)])
    BY <1>1, <1>6 DEF NewParser
  <2>2. Cleared(MAX_PASS_LEN) \in [0..MAX_PASS_LEN -> Cell]
    BY ParsersAssumption, ClearedIsCells
  <2>3. parser \in PassParser /\ parser.currentState = "CPAP_CHECK_AUTH_COMMAND"
        /\ parser.passLen = 0
    BY <2>1, <2>2 DEF initCpAuthParser, PassParser, PassState
  <2> QED BY <1>2, <1>6, <2>3, Readers5 DEF PassInv
<1>7. ASSUME reader = "executeRead" PROVE CommandInv
  <2>1. parser = initCpCommandParser([currentState |-> "CPCP_COMMAND_CODE", code |-> 0, hasData |-> 0,
                                      data |-> Zeros(MAX_DATA_SIZE + 1), dataSize |-> 0])
    BY <1>1, <1>7 DEF NewParser
  <2>2. Zeros(MAX_DATA_SIZE + 1) \in [0..MAX_DATA_SIZE -> Cell]
    <3>1. (MAX_DATA_SIZE + 1) - 1 = MAX_DATA_SIZE
      BY ParsersAssumption
    <3> QED BY <3>1, ZerosAreBytes
  <2>3. parser \in CommandParser /\ parser.currentState = "CPCP_COMMAND_CODE"
        /\ parser.dataSize = 0 /\ parser.hasData = 0
    <3> DEFINE p == [currentState |-> "CPCP_COMMAND_CODE", code |-> 0, hasData |-> 0,
                     data |-> Zeros(MAX_DATA_SIZE + 1), dataSize |-> 0]
    <3>1. p \in CommandParser
      BY <2>2 DEF CommandParser, CommandState, Byte
    <3> HIDE DEF p
    <3>2. parser = initCpCommandParser(p)
      BY <2>1 DEF p
    <3> QED BY <3>1, <3>2, CommandBegins
  <2> QED BY <1>2, <1>7, <2>3, Readers5 DEF CommandInv
<1> QED BY <1>2, <1>3, <1>4, <1>5, <1>6, <1>7 DEF ReaderInv

\* A reader that begins anew keeps only what it stored.
LEMMA BeginAnew ==
    ASSUME ReaderInv, reader' = reader, ReadAgain \/ NextMessage
    PROVE  ReaderInv'
<1>1. seen' = <<>> /\ reader \in SocksReader \cup ControlReader
  BY DEF ReadAgain, NextMessage
<1>2. /\ seen' \in Seq(Byte) /\ Len(seen') = 0 /\ HeaderOK' /\ ~BadHeader'
  BY <1>1, NothingSeenNext
<1>3. ASSUME reader = "hello_read" PROVE HelloInv'
  <2>1. parser' = start_connection_parser
    BY <1>3 DEF ReadAgain, NextMessage, ControlReader
  <2>2. parser' \in HelloParser /\ parser'.state = "CONN_VERSION" /\ parser'.auth = NO_METHODS
    BY <2>1 DEF start_connection_parser, HelloParser, HelloState, NO_METHODS, Byte
  <2>3. HelloFields'
    BY <1>2, <2>2 DEF HelloFields
  <2> QED BY <1>2, <2>2, <2>3 DEF HelloInv
<1>4. ASSUME reader = "auth_read" PROVE AuthInv'
  <2>1. parser' = auth_parser_init(parser) /\ parser \in AuthParser
    BY <1>4 DEF ReadAgain, NextMessage, ControlReader, ReaderInv, AuthInv
  <2>2. parser' \in AuthParser /\ parser'.state = "AUTH_VER"
    BY <2>1, AuthBegins
  <2> QED BY <1>2, <2>2 DEF AuthInv
<1>5. ASSUME reader = "req_read" PROVE ReqInv'
  <2>1. parser' = req_parser_init(parser) /\ parser \in ReqParser
    BY <1>5 DEF ReadAgain, NextMessage, ControlReader, ReaderInv, ReqInv
  <2>2. Zeros(REQ_DST_PORT_BYTES) \in [0..(REQ_DST_PORT_BYTES - 1) -> Cell]
    BY ZerosAreBytes
  <2>3. parser' \in ReqParser /\ parser'.state = "REQ_VER"
    BY <2>1, ReqBegins
  <2> QED BY <1>2, <2>3 DEF ReqInv
<1>6. ASSUME reader = "authRead" PROVE PassInv'
  <2>1. parser' = initCpAuthParser(parser) /\ parser \in PassParser
    BY <1>6 DEF ReadAgain, NextMessage, SocksReader, ReaderInv, PassInv
  <2>2. parser' \in PassParser /\ parser'.currentState = "CPAP_CHECK_AUTH_COMMAND"
        /\ parser'.passLen = 0
    BY <2>1 DEF initCpAuthParser, PassParser, PassState
  <2> QED BY <1>2, <2>2 DEF PassInv
<1>7. ASSUME reader = "executeRead" PROVE CommandInv'
  <2>1. parser' = initCpCommandParser(parser) /\ parser \in CommandParser
    BY <1>7 DEF ReadAgain, NextMessage, SocksReader, ReaderInv, CommandInv
  <2>2. parser' \in CommandParser /\ parser'.currentState = "CPCP_COMMAND_CODE"
        /\ parser'.dataSize = 0 /\ parser'.hasData = 0
    BY <2>1, CommandBegins
  <2> QED BY <1>2, <2>2 DEF CommandInv
<1> QED BY <1>2, <1>3, <1>4, <1>5, <1>6, <1>7 DEF ReaderInv

\* The bytes tried are bytes, and the lengths fit the fields.
LEMMA OfferedIsByte ==
    ASSUME ReaderInv, reader \in SocksReader \cup ControlReader, Verdict = "MORE",
           NEW b \in Offered(reader, StateOf(parser))
    PROVE  /\ b \in Byte
           /\ reader = "auth_read" /\ parser.state \in {"AUTH_ULEN", "AUTH_PLEN"} => b <= MAX_LEN
           /\ reader = "req_read" /\ parser.state = "REQ_DST_ADDR" => b <= MAX_FQDN_SIZE
<1>1. StateOf(parser) \in Waiting
  <2>1. CASE reader = "hello_read"
    BY <2>1 DEF ReaderInv, HelloInv, HelloParser, HelloState, Verdict, StateOf, SocksReader, Waiting
  <2>2. CASE reader = "auth_read"
    BY <2>2 DEF ReaderInv, AuthInv, AuthParser, AuthState, Verdict, StateOf, SocksReader, Waiting
  <2>3. CASE reader = "req_read"
    BY <2>3 DEF ReaderInv, ReqInv, ReqParser, ReqState, Verdict, StateOf, SocksReader, Waiting
  <2>4. CASE reader = "authRead"
    BY <2>4 DEF ReaderInv, PassInv, PassParser, PassState, Verdict, StateOf, SocksReader, Waiting
  <2>5. CASE reader = "executeRead"
    BY <2>5 DEF ReaderInv, CommandInv, CommandParser, CommandState, Verdict, StateOf, SocksReader, Waiting
  <2> QED BY <2>1, <2>2, <2>3, <2>4, <2>5, Readers5
<1>2. b \in Byte
  BY <1>1, ReadersAssumption
<1>3. ASSUME reader = "auth_read", parser.state \in {"AUTH_ULEN", "AUTH_PLEN"} PROVE b <= MAX_LEN
  <2>1. StateOf(parser) = parser.state
    BY <1>3 DEF StateOf, SocksReader
  <2>2. b \in 0..MAX_LEN
    BY <1>3, <2>1, ReadersAssumption
  <2> QED BY <2>2
<1>4. ASSUME reader = "req_read", parser.state = "REQ_DST_ADDR" PROVE b <= MAX_FQDN_SIZE
  <2>1. StateOf(parser) = parser.state
    BY <1>4 DEF StateOf, SocksReader
  <2>2. b \in 0..MAX_FQDN_SIZE
    BY <1>4, <2>1, ReadersAssumption
  <2> QED BY <2>2
<1> QED BY <1>2, <1>3, <1>4

\* A byte keeps the invariant of every reader.
LEMMA ByteKeepsInv ==
    ASSUME ReaderInv, reader \in SocksReader \cup ControlReader,
           NEW b \in Offered(reader, StateOf(parser)), ParseByte(b)
    PROVE  ReaderInv'
<1>1. /\ Verdict = "MORE" /\ reader' = reader /\ seen' = Append(seen, b) /\ seen \in Seq(Byte)
  BY DEF ParseByte, ReaderInv
<1>2. /\ b \in Byte
      /\ reader = "auth_read" /\ parser.state \in {"AUTH_ULEN", "AUTH_PLEN"} => b <= MAX_LEN
      /\ reader = "req_read" /\ parser.state = "REQ_DST_ADDR" => b <= MAX_FQDN_SIZE
  BY <1>1, OfferedIsByte
<1>3. HeaderOK
  BY <1>1 DEF ReaderInv
<1>4. seen' \in Seq(Byte) /\ (~BadHeader' => HeaderOK')
  BY <1>1, <1>2, <1>3, Grows, HeaderGrows
<1>5. CASE reader = "hello_read"
  <2>1. HelloInv'
    BY <1>1, <1>2, <1>5, HelloStep DEF ReaderInv
  <2>2. Verdict' # "ERROR" => ~BadHeader'
    BY <1>1, <1>5, <2>1 DEF HelloInv, Verdict, StateOf, SocksReader
  <2> QED BY <1>1, <1>4, <1>5, <2>1, <2>2 DEF ReaderInv
<1>6. CASE reader = "auth_read"
  <2>1. AuthInv'
    BY <1>1, <1>2, <1>6, AuthStep DEF ReaderInv
  <2>2. Verdict' # "ERROR" => ~BadHeader'
    BY <1>1, <1>6, <2>1 DEF AuthInv, Verdict, StateOf, SocksReader
  <2> QED BY <1>1, <1>4, <1>6, <2>1, <2>2 DEF ReaderInv
<1>7. CASE reader = "req_read"
  <2>1. ReqInv'
    BY <1>1, <1>2, <1>7, ReqStep DEF ReaderInv
  <2>2. Verdict' # "ERROR" => ~BadHeader'
    BY <1>1, <1>7, <2>1 DEF ReqInv, Verdict, StateOf, SocksReader
  <2> QED BY <1>1, <1>4, <1>7, <2>1, <2>2 DEF ReaderInv
<1>8. CASE reader = "authRead"
  <2>1. PassInv'
    BY <1>1, <1>2, <1>8, PassStep DEF ReaderInv
  <2>2. Verdict' # "ERROR" => ~BadHeader'
    BY <1>1, <1>8, <2>1 DEF PassInv, Verdict, StateOf, SocksReader
  <2> QED BY <1>1, <1>4, <1>8, <2>1, <2>2 DEF ReaderInv
<1>9. CASE reader = "executeRead"
  <2>1. CommandInv'
    BY <1>1, <1>2, <1>9, CommandStep DEF ReaderInv
  <2>2. Verdict' # "ERROR" => ~BadHeader'
    BY <1>1, <1>9, <2>1 DEF CommandInv, Verdict, StateOf, SocksReader
  <2> QED BY <1>1, <1>4, <1>9, <2>1, <2>2 DEF ReaderInv
<1> QED BY <1>5, <1>6, <1>7, <1>8, <1>9, Readers5

\* What nobody touches stays true.
LEMMA SameReader ==
    ASSUME ReaderInv, reader' = reader, readerVars' = readerVars
    PROVE  ReaderInv'
<1>1. parser' = parser /\ seen' = seen /\ required' = required
  BY DEF readerVars
<1>2. Header' = Header
  BY DEF Header
<1>3. HeaderOK' = HeaderOK /\ BadHeader' = BadHeader
  BY <1>1, <1>2 DEF HeaderOK, BadHeader
<1>4. Verdict' = Verdict
  BY <1>1 DEF Verdict, StateOf
<1>5. HelloInv' = HelloInv
  BY <1>1, <1>3 DEF HelloInv, HelloFields
<1>6. AuthInv' = AuthInv
  BY <1>1, <1>3 DEF AuthInv
<1>7. ReqInv' = ReqInv
  BY <1>1, <1>3 DEF ReqInv
<1>8. PassInv' = PassInv
  BY <1>1, <1>3 DEF PassInv
<1>9. CommandInv' = CommandInv
  BY <1>1, <1>3 DEF CommandInv
<1> QED BY <1>1, <1>3, <1>4, <1>5, <1>6, <1>7, <1>8, <1>9 DEF ReaderInv

\* The invariant of the readers is inductive.
LEMMA ReadersStep == ReadersInv /\ [Next]_vars => ReadersInv'
<1> SUFFICES ASSUME ReadersInv, [Next]_vars PROVE ReadersInv'
  OBVIOUS
<1>1. reader \in ReaderName /\ ReaderInv /\ SnifferInv
  BY DEF ReadersInv
<1>2. ASSUME snifferVars' = snifferVars PROVE SnifferInv'
  BY <1>1, <1>2, SnifferStep
<1>3. ASSUME reader # "copy_read", NEW b \in Offered(reader, StateOf(parser)), ParseByte(b)
      PROVE  ReadersInv'
  <2>1. reader \in SocksReader \cup ControlReader /\ reader' = reader /\ snifferVars' = snifferVars
    BY <1>1, <1>3 DEF ReaderName, ParseByte
  <2> QED BY <1>1, <1>2, <1>3, <2>1, ByteKeepsInv DEF ReadersInv
<1>4. ASSUME ReadAgain \/ NextMessage PROVE ReadersInv'
  <2>1. reader' = reader /\ snifferVars' = snifferVars
    BY <1>4 DEF ReadAgain, NextMessage
  <2> QED BY <1>1, <1>2, <1>4, <2>1, BeginAnew DEF ReadersInv
<1>5. ASSUME SnifferNext, UNCHANGED <<reader, readerVars>> PROVE ReadersInv'
  BY <1>1, <1>5, SnifferStep, SameReader DEF ReadersInv
<1>6. ASSUME UNCHANGED vars PROVE ReadersInv'
  <2>1. reader' = reader /\ readerVars' = readerVars /\ snifferVars' = snifferVars
    BY <1>6 DEF vars
  <2> QED BY <1>1, <1>2, <2>1, SameReader DEF ReadersInv
<1> QED BY <1>3, <1>4, <1>5, <1>6 DEF Next

\* What is known of the bytes seen, in each state of each automaton, is an
\* invariant of the readers.
THEOREM ReadersInductive == Spec => []ReadersInv
<1>1. Init => ReadersInv
  BY InitReaders, SnifferInitInv DEF Init, ReadersInv, ReaderName
<1> QED BY <1>1, ReadersStep, PTL DEF Spec

-----------------------------------------------------------------------------
(* What is written behind the arrays. *)

\* Behind its first n bytes an array is as it was cleared, or a NUL is.
Behind(array, n) == array[n] \in {Unused, 0}

BehindOK ==
    /\ reader = "auth_read" => Behind(parser.text, AuthArrays)
    /\ reader = "req_read" => Behind(parser.fqdn, MAX_FQDN_SIZE)
    /\ reader = "authRead" => Behind(parser.inputPassword, MAX_PASS_LEN)

\* Storing keeps that: within the array, or a NUL anywhere.
LEMMA StoreBehind ==
    ASSUME NEW n \in Nat, NEW array \in [0..n -> Cell], Behind(array, n),
           NEW i \in 0..n, NEW v, i # n \/ v = 0
    PROVE  Behind(Store(array, i, v), n)
BY DEF Store, Behind, Unused

\* What a byte stores of a user name or a password.
LEMMA AuthByteText ==
    ASSUME NEW p \in AuthParser, NEW b \in Byte
    PROVE  LET q == auth_parse_byte(p, b)
           IN  /\ p.state = "AUTH_VER" => q.text = p.text
               /\ p.state \in {"AUTH_ULEN", "AUTH_PLEN"} /\ b = 0 => q.text = p.text
               /\ p.state = "AUTH_ULEN" /\ b # 0 => q.text = Store(p.text, b, 0)
               /\ p.state = "AUTH_PLEN" /\ b # 0 => q.text = Store(p.text, MAX_LEN + b, 0)
               /\ p.state \in {"AUTH_UNAME", "AUTH_PASSWD"} => q.text = Store(p.text, p.where_to, b)
<1>1. CASE p.state = "AUTH_VER"
  BY <1>1 DEF auth_parse_byte, AuthParser
<1>2. CASE p.state = "AUTH_ULEN"
  <2>1. 0 + b = b
    BY ByteIsNat
  <2> QED BY <1>2, <2>1 DEF auth_parse_byte, set_len_to_parse, AuthParser
<1>3. CASE p.state = "AUTH_PLEN"
  BY <1>3 DEF auth_parse_byte, set_len_to_parse, AuthParser
<1>4. CASE p.state \in {"AUTH_UNAME", "AUTH_PASSWD"}
  <2>1. CASE p.to_parse > 1
    BY <1>4, <2>1 DEF auth_parse_byte, plain_parse_byte, AuthParser
  <2>2. CASE ~(p.to_parse > 1)
    BY <1>4, <2>2 DEF auth_parse_byte, plain_parse_byte, AuthParser
  <2> QED BY <2>1, <2>2
<1> QED BY <1>1, <1>2, <1>3, <1>4 DEF AuthParser, AuthState

\* Of a name, a request.
LEMMA ReqByteName ==
    ASSUME NEW p \in ReqParser, NEW b \in Byte,
           p.state \in {"REQ_VER", "REQ_CMD", "REQ_RSV", "REQ_ATYP", "REQ_DST_ADDR", "REQ_DST_PORT"}
    PROVE  LET q == req_parse_byte(p, b)
               length == p.to_parse = FIRST_FQDN_BYTE_PARSE
           IN  /\ p.state # "REQ_DST_ADDR" \/ p.type # FQDN => q.fqdn = p.fqdn
               /\ p.state = "REQ_DST_ADDR" /\ p.type = FQDN /\ length /\ b = 0 => q.fqdn = p.fqdn
               /\ p.state = "REQ_DST_ADDR" /\ p.type = FQDN /\ length /\ b # 0 =>
                    q.fqdn = Store(p.fqdn, b, 0)
               /\ p.state = "REQ_DST_ADDR" /\ p.type = FQDN /\ ~length =>
                    q.fqdn = Store(p.fqdn, p.where_to, b)
<1> DEFINE q == req_parse_byte(p, b)
<1>1. CASE p.state \in {"REQ_VER", "REQ_CMD", "REQ_RSV"}
  <2>1. q.fqdn = p.fqdn
    BY <1>1 DEF req_parse_byte, ReqParser
  <2> QED BY <1>1, <2>1
<1>2. CASE p.state = "REQ_ATYP"
  <2>1. q.fqdn = p.fqdn
    BY <1>2 DEF req_parse_byte, AddressType, ReqParser, IPv4, IPv6, FQDN
  <2> QED BY <1>2, <2>1
<1>3. CASE p.state = "REQ_DST_PORT"
  <2>1. q.fqdn = p.fqdn
    BY <1>3 DEF req_parse_byte, PortByte, ReqParser
  <2> QED BY <1>3, <2>1
<1>4. CASE p.state = "REQ_DST_ADDR" /\ p.type = FQDN /\ p.to_parse = FIRST_FQDN_BYTE_PARSE
  <2>1. q = FqdnLength(p, b)
    BY <1>4 DEF req_parse_byte
  <2> HIDE DEF q
  <2>2. q.fqdn = IF b = 0 THEN p.fqdn ELSE Store(p.fqdn, b, 0)
    BY <2>1 DEF FqdnLength, set_dst_port_config, ReqParser
  <2> QED BY <1>4, <2>2 DEF q
<1>5. CASE p.state = "REQ_DST_ADDR" /\ ~(p.type = FQDN /\ p.to_parse = FIRST_FQDN_BYTE_PARSE)
  <2>1. q = parse_addr_byte(p, b)
    BY <1>5 DEF req_parse_byte
  <2> HIDE DEF q
  <2>2. q.fqdn = IF p.type = FQDN THEN Store(p.fqdn, p.where_to, b) ELSE p.fqdn
    BY <2>1 DEF parse_addr_byte, set_dst_port_config, ReqParser
  <2> QED BY <1>5, <2>2 DEF q
<1> QED BY <1>1, <1>2, <1>3, <1>4, <1>5

\* And of a password of the management protocol.
LEMMA PassByteText ==
    ASSUME NEW p \in PassParser, NEW b \in Byte
    PROVE  LET q == cpapParseByte(p, b)
               reading == p.currentState = "CPAP_READ_PASSWORD"
           IN  /\ ~reading \/ (b # NewLine /\ p.passLen = MAX_PASS_LEN) =>
                    q.inputPassword = p.inputPassword
               /\ reading /\ b = NewLine => q.inputPassword = Store(p.inputPassword, p.passLen, 0)
               /\ reading /\ b # NewLine /\ p.passLen # MAX_PASS_LEN =>
                    q.inputPassword = Store(p.inputPassword, p.passLen, b)
<1>1. CASE p.currentState = "CPAP_READ_PASSWORD"
  BY <1>1 DEF cpapParseByte, PassParser
<1>2. CASE p.currentState # "CPAP_READ_PASSWORD"
  BY <1>2 DEF cpapParseByte, PassParser
<1> QED BY <1>1, <1>2

\* auth_parse_byte stores a byte of a field within the arrays.
LEMMA AuthBehind ==
    ASSUME seen \in Seq(Byte), AuthInv, Behind(parser.text, AuthArrays), NEW b \in Byte,
           parser.state \in {"AUTH_VER", "AUTH_ULEN", "AUTH_UNAME", "AUTH_PLEN", "AUTH_PASSWD"},
           parser.state \in {"AUTH_ULEN", "AUTH_PLEN"} => b <= MAX_LEN,
           parser' = auth_parse_byte(parser, b)
    PROVE  Behind(parser'.text, AuthArrays)
<1> DEFINE n == Len(seen)
           at == parser.where_to
<1>1. parser \in AuthParser /\ n \in Nat /\ AuthArrays \in Nat /\ AuthArrays = 2 * MAX_LEN
      /\ parser.text \in [0..AuthArrays -> Cell] /\ b \in Nat /\ MAX_LEN \in Nat
  BY ParsersAssumption, ByteIsNat DEF AuthInv, AuthParser, AuthArrays
<1>2. ASSUME NEW i \in 0..AuthArrays, NEW v, i # AuthArrays \/ v = 0,
             parser'.text = Store(parser.text, i, v)
      PROVE  Behind(parser'.text, AuthArrays)
  BY <1>1, <1>2, StoreBehind
<1>3. CASE parser.state = "AUTH_VER"
  BY <1>1, <1>3, AuthByteText
<1>4. CASE parser.state = "AUTH_ULEN"
  <2>1. CASE b = 0
    BY <1>1, <1>4, <2>1, AuthByteText
  <2>2. CASE b # 0
    <3>1. parser'.text = Store(parser.text, b, 0)
      BY <1>1, <1>4, <2>2, AuthByteText
    <3>2. b \in 0..AuthArrays
      BY <1>1, <1>4
    <3> QED BY <1>2, <3>1, <3>2
  <2> QED BY <2>1, <2>2
<1>5. CASE parser.state = "AUTH_PLEN"
  <2>1. CASE b = 0
    BY <1>1, <1>5, <2>1, AuthByteText
  <2>2. CASE b # 0
    <3>1. parser'.text = Store(parser.text, MAX_LEN + b, 0)
      BY <1>1, <1>5, <2>2, AuthByteText
    <3>2. MAX_LEN + b \in 0..AuthArrays
      BY <1>1, <1>5
    <3> QED BY <1>2, <3>1, <3>2
  <2> QED BY <2>1, <2>2
<1>6. CASE parser.state = "AUTH_UNAME"
  <2>1. n >= 2 /\ seen[2] <= MAX_LEN /\ n - 2 < seen[2] /\ at = n - 2
    BY <1>6 DEF AuthInv
  <2>2. seen[2] \in Nat
    BY <1>1, <2>1, SeenAreNumbers
  <2>3. at \in 0..AuthArrays /\ at # AuthArrays
    BY <1>1, <2>1, <2>2
  <2>4. parser'.text = Store(parser.text, at, b)
    BY <1>1, <1>6, AuthByteText
  <2> QED BY <1>2, <2>3, <2>4
<1>7. CASE parser.state = "AUTH_PASSWD"
  <2> DEFINE ulen == seen[2]
             plen == seen[3 + ulen]
             x == n - 3 - ulen
  <2>1. n >= 2 /\ ulen <= MAX_LEN /\ x >= 0 /\ x < plen /\ plen <= MAX_LEN /\ at = MAX_LEN + x
    BY <1>7 DEF AuthInv
  <2>2. ulen \in Nat
    BY <1>1, <2>1, SeenAreNumbers
  <2>3. x \in Nat /\ 3 + ulen \in 1..n
    BY <1>1, <2>1, <2>2
  <2>4. plen \in Nat
    BY <2>3, SeenAreNumbers
  <2> HIDE DEF x, plen
  <2>5. at \in 0..AuthArrays /\ at # AuthArrays
    BY <1>1, <2>1, <2>3, <2>4
  <2>6. parser'.text = Store(parser.text, at, b)
    BY <1>1, <1>7, AuthByteText
  <2> QED BY <1>2, <2>5, <2>6
<1> QED BY <1>3, <1>4, <1>5, <1>6, <1>7

\* req_parse_byte stores a byte of a name within its array.
LEMMA ReqBehind ==
    ASSUME seen \in Seq(Byte), ReqInv, Behind(parser.fqdn, MAX_FQDN_SIZE), NEW b \in Byte,
           parser.state \in {"REQ_VER", "REQ_CMD", "REQ_RSV", "REQ_ATYP", "REQ_DST_ADDR", "REQ_DST_PORT"},
           parser.state = "REQ_DST_ADDR" => b <= MAX_FQDN_SIZE,
           parser' = req_parse_byte(parser, b)
    PROVE  Behind(parser'.fqdn, MAX_FQDN_SIZE)
<1> DEFINE n == Len(seen)
           at == parser.where_to
<1>1. parser \in ReqParser /\ n \in Nat /\ MAX_FQDN_SIZE \in Nat
      /\ parser.fqdn \in [0..MAX_FQDN_SIZE -> Cell] /\ b \in Nat
  BY ParsersAssumption, ByteIsNat DEF ReqInv, ReqParser
<1>2. ASSUME NEW i \in 0..MAX_FQDN_SIZE, NEW v, i # MAX_FQDN_SIZE \/ v = 0,
             parser'.fqdn = Store(parser.fqdn, i, v)
      PROVE  Behind(parser'.fqdn, MAX_FQDN_SIZE)
  BY <1>1, <1>2, StoreBehind
<1>3. ASSUME parser'.fqdn = parser.fqdn PROVE Behind(parser'.fqdn, MAX_FQDN_SIZE)
  BY <1>3
<1>4. CASE parser.state # "REQ_DST_ADDR" \/ parser.type # FQDN
  <2>1. parser'.fqdn = parser.fqdn
    BY <1>1, <1>4, ReqByteName
  <2> QED BY <1>3, <2>1
<1>5. CASE parser.state = "REQ_DST_ADDR" /\ parser.type = FQDN /\ parser.to_parse = FIRST_FQDN_BYTE_PARSE
  <2>1. CASE b = 0
    <3>1. parser'.fqdn = parser.fqdn
      BY <1>1, <1>5, <2>1, ReqByteName
    <3> QED BY <1>3, <3>1
  <2>2. CASE b # 0
    <3>1. parser'.fqdn = Store(parser.fqdn, b, 0)
      BY <1>1, <1>5, <2>2, ReqByteName
    <3>2. b \in 0..MAX_FQDN_SIZE
      BY <1>1, <1>5
    <3> QED BY <1>2, <3>1, <3>2
  <2> QED BY <2>1, <2>2
<1>6. CASE parser.state = "REQ_DST_ADDR" /\ parser.type = FQDN /\ parser.to_parse # FIRST_FQDN_BYTE_PARSE
  <2>1. n >= 4
    BY <1>6, ReqWhere
  <2>2. seen[4] = FQDN /\ RequestStored(parser, seen)
    BY <1>6, <2>1 DEF ReqInv
  <2>3. n > 4 /\ n - 5 < seen[5] /\ seen[5] <= MAX_FQDN_SIZE /\ at = n - 5
    BY <1>6, <2>2 DEF RequestStored
  <2>4. seen[5] \in Nat
    BY <1>1, <2>3, SeenAreNumbers
  <2>5. at \in 0..MAX_FQDN_SIZE /\ at # MAX_FQDN_SIZE
    BY <1>1, <2>3, <2>4
  <2>6. parser'.fqdn = Store(parser.fqdn, at, b)
    BY <1>1, <1>6, ReqByteName
  <2> QED BY <1>2, <2>5, <2>6
<1> QED BY <1>4, <1>5, <1>6

\* cpapParseByte stores a byte of a password within its array.
LEMMA PassBehind ==
    ASSUME seen \in Seq(Byte), PassInv, Behind(parser.inputPassword, MAX_PASS_LEN), NEW b \in Byte,
           parser.currentState \in {"CPAP_CHECK_AUTH_COMMAND", "CPAP_HAS_DATA", "CPAP_READ_PASSWORD"},
           parser' = cpapParseByte(parser, b)
    PROVE  Behind(parser'.inputPassword, MAX_PASS_LEN)
<1>1. parser \in PassParser /\ MAX_PASS_LEN \in Nat /\ parser.passLen \in Nat
      /\ parser.inputPassword \in [0..MAX_PASS_LEN -> Cell]
  BY ParsersAssumption DEF PassInv, PassParser
<1>2. CASE parser.currentState \in {"CPAP_CHECK_AUTH_COMMAND", "CPAP_HAS_DATA"}
  <2>1. parser'.inputPassword = parser.inputPassword
    BY <1>1, <1>2, PassByteText
  <2> QED BY <2>1
<1>3. CASE parser.currentState = "CPAP_READ_PASSWORD"
  <2>1. parser.passLen \in 0..MAX_PASS_LEN
    <3>1. parser.passLen <= MAX_PASS_LEN
      BY <1>3 DEF PassInv
    <3> QED BY <1>1, <3>1
  <2>2. CASE b = NewLine
    <3>1. parser'.inputPassword = Store(parser.inputPassword, parser.passLen, 0)
      BY <1>1, <1>3, <2>2, PassByteText
    <3> QED BY <1>1, <2>1, <3>1, StoreBehind
  <2>3. CASE b # NewLine /\ parser.passLen # MAX_PASS_LEN
    <3>1. parser'.inputPassword = Store(parser.inputPassword, parser.passLen, b)
      BY <1>1, <1>3, <2>3, PassByteText
    <3> QED BY <1>1, <2>1, <2>3, <3>1, StoreBehind
  <2>4. CASE b # NewLine /\ parser.passLen = MAX_PASS_LEN
    <3>1. parser'.inputPassword = parser.inputPassword
      BY <1>1, <1>3, <2>4, PassByteText
    <3> QED BY <3>1
  <2> QED BY <2>2, <2>3, <2>4
<1> QED BY <1>2, <1>3

\* A byte keeps what is behind the arrays.
LEMMA ByteKeepsBehind ==
    ASSUME ReaderInv, BehindOK, reader \in SocksReader \cup ControlReader,
           NEW b \in Offered(reader, StateOf(parser)), ParseByte(b)
    PROVE  BehindOK'
<1>1. /\ Verdict = "MORE" /\ reader' = reader /\ seen \in Seq(Byte)
  BY DEF ParseByte, ReaderInv
<1>2. /\ b \in Byte
      /\ reader = "auth_read" /\ parser.state \in {"AUTH_ULEN", "AUTH_PLEN"} => b <= MAX_LEN
      /\ reader = "req_read" /\ parser.state = "REQ_DST_ADDR" => b <= MAX_FQDN_SIZE
  BY <1>1, OfferedIsByte
<1>3. ASSUME reader = "auth_read" PROVE Behind(parser'.text, AuthArrays)
  <2>1. AuthInv /\ Behind(parser.text, AuthArrays) /\ parser' = auth_parse_byte(parser, b)
    BY <1>3 DEF ReaderInv, BehindOK, ParseByte
  <2>2. parser.state \in {"AUTH_VER", "AUTH_ULEN", "AUTH_UNAME", "AUTH_PLEN", "AUTH_PASSWD"}
    BY <1>1, <1>3, <2>1, AuthVerdict DEF AuthInv, AuthParser, AuthState
  <2> QED BY <1>1, <1>2, <1>3, <2>1, <2>2, AuthBehind
<1>4. ASSUME reader = "req_read" PROVE Behind(parser'.fqdn, MAX_FQDN_SIZE)
  <2>1. ReqInv /\ Behind(parser.fqdn, MAX_FQDN_SIZE) /\ parser' = req_parse_byte(parser, b)
    BY <1>4 DEF ReaderInv, BehindOK, ParseByte
  <2>2. parser.state \in {"REQ_VER", "REQ_CMD", "REQ_RSV", "REQ_ATYP", "REQ_DST_ADDR", "REQ_DST_PORT"}
    BY <1>1, <1>4, <2>1, ReqVerdict DEF ReqInv, ReqParser, ReqState
  <2> QED BY <1>1, <1>2, <1>4, <2>1, <2>2, ReqBehind
<1>5. ASSUME reader = "authRead" PROVE Behind(parser'.inputPassword, MAX_PASS_LEN)
  <2>1. PassInv /\ Behind(parser.inputPassword, MAX_PASS_LEN) /\ parser' = cpapParseByte(parser, b)
    BY <1>5 DEF ReaderInv, BehindOK, ParseByte
  <2>2. parser.currentState \in {"CPAP_CHECK_AUTH_COMMAND", "CPAP_HAS_DATA", "CPAP_READ_PASSWORD"}
    BY <1>1, <1>5, <2>1, PassVerdict DEF PassInv, PassParser, PassState
  <2> QED BY <1>1, <1>2, <2>1, <2>2, PassBehind
<1> QED BY <1>1, <1>3, <1>4, <1>5 DEF BehindOK

\* So does beginning anew, which clears no array.
LEMMA BeginAnewBehind ==
    ASSUME ReaderInv, BehindOK, ReadAgain \/ NextMessage
    PROVE  BehindOK'
<1>1. reader' = reader
  BY DEF ReadAgain, NextMessage
<1>2. ASSUME reader = "auth_read" PROVE Behind(parser'.text, AuthArrays)
  <2>1. parser' = auth_parser_init(parser) /\ parser \in AuthParser
    BY <1>2 DEF ReadAgain, NextMessage, ControlReader, ReaderInv, AuthInv
  <2>2. parser'.text = parser.text
    BY <2>1 DEF auth_parser_init, AuthParser
  <2> QED BY <1>2, <2>2 DEF BehindOK
<1>3. ASSUME reader = "req_read" PROVE Behind(parser'.fqdn, MAX_FQDN_SIZE)
  <2>1. parser' = req_parser_init(parser) /\ parser \in ReqParser
    BY <1>3 DEF ReadAgain, NextMessage, ControlReader, ReaderInv, ReqInv
  <2>2. parser'.fqdn = parser.fqdn
    BY <2>1 DEF req_parser_init, ReqParser
  <2> QED BY <1>3, <2>2 DEF BehindOK
<1>4. ASSUME reader = "authRead" PROVE Behind(parser'.inputPassword, MAX_PASS_LEN)
  <2>1. parser' = initCpAuthParser(parser) /\ parser \in PassParser
    BY <1>4 DEF ReadAgain, NextMessage, SocksReader, ReaderInv, PassInv
  <2>2. parser'.inputPassword = parser.inputPassword
    BY <2>1 DEF initCpAuthParser, PassParser
  <2> QED BY <1>4, <2>2 DEF BehindOK
<1> QED BY <1>1, <1>2, <1>3, <1>4 DEF BehindOK

\* Behind the arrays of a new connection nothing was written.
LEMMA InitBehind ==
    ASSUME Init
    PROVE  BehindOK
<1>1. /\ Cleared(AuthArrays)[AuthArrays] = Unused
      /\ Cleared(MAX_FQDN_SIZE)[MAX_FQDN_SIZE] = Unused
      /\ Cleared(MAX_PASS_LEN)[MAX_PASS_LEN] = Unused
  <2>1. AuthArrays \in Nat /\ MAX_FQDN_SIZE \in Nat /\ MAX_PASS_LEN \in Nat
    BY ParsersAssumption DEF AuthArrays
  <2> QED BY <2>1, ClearedIsCells
<1>2. parser = NewParser[reader]
  BY DEF Init
<1>3. ASSUME reader = "auth_read" PROVE parser.text = Cleared(AuthArrays)
  <2>1. parser = auth_parser_init([state |-> "AUTH_VER", to_parse |-> 0, where_to |-> 0,
                                   text |-> Cleared(AuthArrays)])
    BY <1>2, <1>3 DEF NewParser
  <2> QED BY <2>1 DEF auth_parser_init
<1>4. ASSUME reader = "req_read" PROVE parser.fqdn = Cleared(MAX_FQDN_SIZE)
  <2>1. parser = req_parser_init([state |-> "REQ_VER", to_parse |-> 0, where_to |-> 0, cmd |-> 0,
                                  type |-> 0, fqdn |-> Cleared(MAX_FQDN_SIZE),
                                  ip |-> Zeros(IPv6_BYTES), port |-> Zeros(REQ_DST_PORT_BYTES)])
    BY <1>2, <1>4 DEF NewParser
  <2> QED BY <2>1 DEF req_parser_init
<1>5. ASSUME reader = "authRead" PROVE parser.inputPassword = Cleared(MAX_PASS_LEN)
  <2>1. parser = initCpAuthParser([currentState |-> "CPAP_CHECK_AUTH_COMMAND", passLen |-> 0,
                                   inputPassword |-> Cleared(MAX_PASS_LEN)])
    BY <1>2, <1>5 DEF NewParser
  <2> QED BY <2>1 DEF initCpAuthParser
<1> QED BY <1>1, <1>3, <1>4, <1>5 DEF BehindOK, Behind

\* Together with the invariant of the readers that is inductive.
LEMMA BehindStep == ReadersInv /\ BehindOK /\ [Next]_vars => BehindOK'
<1> SUFFICES ASSUME ReadersInv, BehindOK, [Next]_vars PROVE BehindOK'
  OBVIOUS
<1>1. reader \in ReaderName /\ ReaderInv
  BY DEF ReadersInv
<1>2. ASSUME reader # "copy_read", NEW b \in Offered(reader, StateOf(parser)), ParseByte(b)
      PROVE  BehindOK'
  <2>1. reader \in SocksReader \cup ControlReader
    BY <1>1, <1>2 DEF ReaderName
  <2> QED BY <1>1, <1>2, <2>1, ByteKeepsBehind
<1>3. ASSUME ReadAgain \/ NextMessage PROVE BehindOK'
  BY <1>1, <1>3, BeginAnewBehind
<1>4. ASSUME UNCHANGED <<reader, readerVars>> PROVE BehindOK'
  BY <1>4 DEF BehindOK, readerVars
<1>5. ASSUME UNCHANGED vars PROVE BehindOK'
  BY <1>5 DEF BehindOK, readerVars, vars
<1> QED BY <1>2, <1>3, <1>4, <1>5 DEF Next

\* Every byte of a message is stored in the array of its field, whatever the bytes,
\* their cuts and the sizes of the arrays; what may be written behind an array is one
\* NUL, the terminator of the longest user's password, name or password, and nothing
\* else; and the sniffer stays inside its arrays.
THEOREM ReadersStayInside == Spec => []ParserBlocks
<1>1. Init => BehindOK
  BY InitBehind
<1>2. ASSUME ReadersInv, BehindOK PROVE ParserBlocks
  <2>1. reader = "auth_read" =>
          /\ OnlyNulBehind(parser.text, AuthArrays)
          /\ parser.state = "AUTH_UNAME" => parser.where_to + parser.to_parse <= MAX_LEN
          /\ parser.state = "AUTH_PASSWD" =>
               /\ parser.where_to >= MAX_LEN
               /\ parser.where_to + parser.to_parse <= AuthArrays
    <3> SUFFICES ASSUME reader = "auth_read"
                 PROVE  /\ OnlyNulBehind(parser.text, AuthArrays)
                        /\ parser.state = "AUTH_UNAME" => parser.where_to + parser.to_parse <= MAX_LEN
                        /\ parser.state = "AUTH_PASSWD" =>
                             /\ parser.where_to >= MAX_LEN
                             /\ parser.where_to + parser.to_parse <= AuthArrays
      OBVIOUS
    <3>1. AuthInv /\ seen \in Seq(Byte) /\ Behind(parser.text, AuthArrays)
      BY <1>2 DEF ReadersInv, ReaderInv, BehindOK
    <3>2. AuthArrays = 2 * MAX_LEN /\ DOMAIN parser.text = 0..(2 * MAX_LEN) /\ MAX_LEN \in Nat
      BY <3>1, ParsersAssumption DEF AuthArrays, AuthInv, AuthParser
    <3> DEFINE n == Len(seen)
               ulen == seen[2]
               plen == seen[3 + ulen]
               x == n - 3 - ulen
    <3>3. ASSUME parser.state = "AUTH_UNAME" PROVE parser.where_to + parser.to_parse <= MAX_LEN
      <4>1. n >= 2 /\ ulen <= MAX_LEN /\ parser.where_to = n - 2 /\ parser.to_parse = ulen - (n - 2)
        BY <3>1, <3>3 DEF AuthInv
      <4>2. n \in Nat /\ ulen \in Nat
        BY <3>1, <4>1, SeenAreNumbers
      <4> QED BY <3>2, <4>1, <4>2
    <3>4. ASSUME parser.state = "AUTH_PASSWD"
          PROVE  /\ parser.where_to >= MAX_LEN
                 /\ parser.where_to + parser.to_parse <= AuthArrays
      <4>1. n >= 2 /\ x >= 0 /\ x < plen /\ plen <= MAX_LEN /\ parser.where_to = MAX_LEN + x
            /\ parser.to_parse = plen - x
        BY <3>1, <3>4 DEF AuthInv
      <4>2. n \in Nat /\ ulen \in Nat
        BY <3>1, <4>1, SeenAreNumbers
      <4>3. x \in Nat /\ 3 + ulen \in 1..n
        BY <4>1, <4>2
      <4>4. plen \in Nat
        BY <3>1, <4>3, SeenAreNumbers
      <4> HIDE DEF x, plen
      <4> QED BY <3>2, <4>1, <4>3, <4>4
    <3> QED BY <3>1, <3>2, <3>3, <3>4 DEF OnlyNulBehind, Behind
  <2>2. reader = "req_read" => /\ OnlyNulBehind(parser.fqdn, MAX_FQDN_SIZE)
                               /\ DOMAIN parser.ip = 0..(IPv6_BYTES - 1)
                               /\ DOMAIN parser.port = 0..(REQ_DST_PORT_BYTES - 1)
    BY <1>2 DEF ReadersInv, ReaderInv, ReqInv, ReqParser, BehindOK, Behind, OnlyNulBehind
  <2>3. reader = "authRead" => OnlyNulBehind(parser.inputPassword, MAX_PASS_LEN)
    BY <1>2 DEF ReadersInv, ReaderInv, PassInv, PassParser, BehindOK, Behind, OnlyNulBehind
  <2>4. reader = "executeRead" => DOMAIN parser.data = 0..MAX_DATA_SIZE
    BY <1>2 DEF ReadersInv, ReaderInv, CommandInv, CommandParser
  <2> QED BY <1>2, <2>1, <2>2, <2>3, <2>4, SnifferInvInBounds DEF ParserBlocks, ReadersInv
<1> QED BY <1>1, <1>2, BehindStep, ReadersInductive, PTL DEF Spec

\* Every automaton is done, in error or waiting exactly as the grammar of its
\* message says of the bytes seen.
THEOREM VerdictsFollowTheGrammars == Spec => []VerdictIsTheGrammars
<1>1. ASSUME ReadersInv PROVE VerdictIsTheGrammars
  <2> SUFFICES ASSUME reader # "copy_read" PROVE Verdict = Grammar
    BY DEF VerdictIsTheGrammars
  <2>1. reader \in SocksReader \cup ControlReader /\ ReaderInv
    BY <1>1 DEF ReadersInv, ReaderName
  <2>2. seen \in Seq(Byte) /\ (Verdict # "ERROR" => HeaderOK)
    BY <2>1 DEF ReaderInv
  <2> QED BY <2>1, <2>2, Readers5, HelloMeans, AuthMeans, ReqMeans, PassMeans, CommandMeans
          DEF ReaderInv
<1> QED BY <1>1, ReadersInductive, PTL

\* The fields of a whole message are what was sent, whatever earlier reads or
\* messages left in the parser.
THEOREM ReadersDeliverWhatWasSent == Spec => []FieldsAreWhatWasSent
<1>1. ASSUME ReadersInv PROVE FieldsAreWhatWasSent
  <2> SUFFICES ASSUME reader # "copy_read", Verdict = "DONE"
               PROVE  CASE reader = "hello_read" -> HelloFields
                        [] reader = "auth_read" -> AuthFields
                        [] reader = "req_read" -> RequestFields
                        [] reader = "authRead" -> PasswordField
                        [] reader = "executeRead" -> CommandFields
    BY DEF FieldsAreWhatWasSent
  <2>1. reader \in SocksReader \cup ControlReader /\ ReaderInv /\ seen \in Seq(Byte)
    BY <1>1 DEF ReadersInv, ReaderName, ReaderInv
  <2>2. CASE reader = "hello_read"
    BY <2>1, <2>2 DEF ReaderInv, HelloInv
  <2>3. CASE reader = "auth_read"
    BY <2>1, <2>3, AuthFieldsSent DEF ReaderInv
  <2>4. CASE reader = "req_read"
    BY <2>1, <2>4, ReqFieldsSent DEF ReaderInv
  <2>5. CASE reader = "authRead"
    BY <2>1, <2>5, PassFieldSent DEF ReaderInv
  <2>6. CASE reader = "executeRead"
    BY <2>1, <2>6, CommandFieldsSent DEF ReaderInv
  <2> QED BY <2>1, <2>2, <2>3, <2>4, <2>5, <2>6, Readers5
<1> QED BY <1>1, ReadersInductive, PTL
==============================================================================
