---------------------------- MODULE ClientProofs ----------------------------
(***************************************************************************)
(* The management client prints each row of a list once and whole, and is  *)
(* never an answer behind, for any lists, any errors and any cuts of the   *)
(* stream short of the ones a recv cannot be told from a whole answer by.  *)
(*                                                                         *)
(* First the rows of a text and how the rows of its parts make those of    *)
(* the whole; then the client, by action.                                  *)
(***************************************************************************)
EXTENDS Client, WellFoundedInduction, TLAPS

-----------------------------------------------------------------------------
(* Induction. *)

\* A set of numbers that has one has a least one.
LEMMA Least ==
    ASSUME NEW T, T \subseteq Nat, T # {}
    PROVE  \E n \in T : \A m \in T : n <= m
<1>1. PICK n \in T : \A m \in T : ~(<<m, n>> \in OpToRel(<, Nat))
  BY NatLessThanWellFounded, WFMin
<1>2. \A m \in T : ~(m < n)
  BY <1>1, Zenon DEF OpToRel
<1> QED BY <1>2

\* A set of numbers with 0 and, up to a bound, the successor of each has all up to it.
LEMMA CountTo ==
    ASSUME NEW N \in Nat, NEW S, 0 \in S, \A n \in 0..(N - 1) : n \in S => n + 1 \in S
    PROVE  0..N \subseteq S
<1> DEFINE T == (0..N) \ S
<1>1. SUFFICES ASSUME T # {} PROVE FALSE
  OBVIOUS
<1>2. PICK n \in T : \A m \in T : n <= m
  <2>1. T \subseteq Nat
    OBVIOUS
  <2> HIDE DEF T
  <2> QED BY <1>1, <2>1, Least
<1>3. n # 0 /\ n - 1 \in 0..(N - 1) /\ n - 1 \in S
  BY <1>2
<1> QED BY <1>2, <1>3

Text == Seq(Byte)

\* What the empty text has, and a text with one byte more when it has it, every
\* text has.
LEMMA TextInduction ==
    ASSUME NEW S, <<>> \in S, \A t \in Text, c \in Byte : t \in S => Append(t, c) \in S
    PROVE  Text \subseteq S
<1> SUFFICES ASSUME NEW s \in Text PROVE s \in S
  OBVIOUS
<1> DEFINE N == Len(s)
           T == {n \in 0..N : \A t \in Text : Len(t) = n => t \in S}
<1>1. N \in Nat
  BY DEF Text
<1>2. 0 \in T
  <2>1. \A t \in Text : Len(t) = 0 => t = <<>>
    BY DEF Text
  <2> QED BY <1>1, <2>1
<1>3. ASSUME NEW n \in 0..(N - 1), n \in T PROVE n + 1 \in T
  <2>1. ASSUME NEW t \in Text, Len(t) = n + 1 PROVE t \in S
    <3> DEFINE u == SubSeq(t, 1, n)
    <3>1. u \in Text /\ Len(u) = n /\ t[n + 1] \in Byte /\ t = Append(u, t[n + 1])
      BY <1>1, <2>1 DEF Text
    <3> HIDE DEF u
    <3>2. u \in S
      BY <1>3, <3>1
    <3> QED BY <3>1, <3>2
  <2> QED BY <1>1, <2>1
<1>4. N \in T
  <2> HIDE DEF T, N
  <2>1. 0..N \subseteq T
    BY <1>1, <1>2, <1>3, CountTo
  <2> QED BY <1>1, <2>1
<1> QED BY <1>4

-----------------------------------------------------------------------------
(* The rows of a text. *)

Rows == Seq(Text) \ {<<>>}

\* One byte more makes rows, one more of them if it is a TOKEN.
LEMMA FedIsRows ==
    ASSUME NEW rows \in Rows, NEW c \in Byte
    PROVE  /\ Fed(rows, c) \in Rows
           /\ Len(Fed(rows, c)) = IF c = TOKEN THEN Len(rows) + 1 ELSE Len(rows)
<1>1. Len(rows) \in Nat \ {0} /\ rows[Len(rows)] \in Text
  BY DEF Rows
<1>2. CASE c = TOKEN
  <2>1. <<>> \in Text
    BY DEF Text
  <2> QED BY <1>1, <1>2, <2>1 DEF Fed, Rows
<1>3. CASE c # TOKEN
  <2> DEFINE last == Append(rows[Len(rows)], c)
  <2>1. last \in Text
    BY <1>1 DEF Text
  <2>2. Fed(rows, c) = [rows EXCEPT ![Len(rows)] = last]
    BY <1>3 DEF Fed
  <2> HIDE DEF last
  <2>3. Fed(rows, c) \in Seq(Text) /\ Len(Fed(rows, c)) = Len(rows)
    BY <1>1, <2>1, <2>2 DEF Rows
  <2> QED BY <1>1, <1>3, <2>3 DEF Rows
<1> QED BY <1>2, <1>3

\* Split is a function on the number of its bytes.
LEMMA SplitExists ==
    ASSUME NEW s, NEW N \in Nat
    PROVE  \E f : f = [n \in 0..N |-> IF n = 0 THEN <<<<>>>> ELSE Fed(f[n - 1], s[n])]
<1> DEFINE Is(h, m) == h = [n \in 0..m |-> IF n = 0 THEN <<<<>>>> ELSE Fed(h[n - 1], s[n])]
           S == {m \in 0..N : \E h : Is(h, m)}
<1>1. 0 \in S
  <2>1. Is([n \in 0..0 |-> <<<<>>>>], 0)
    OBVIOUS
  <2>2. \E h : Is(h, 0)
    <3> HIDE DEF Is
    <3> QED BY <2>1
  <2> QED BY <2>2
<1>2. ASSUME NEW m \in 0..(N - 1), m \in S PROVE m + 1 \in S
  <2>1. PICK f : Is(f, m)
    BY <1>2
  <2> DEFINE g == [n \in 0..(m + 1) |-> IF n = m + 1 THEN Fed(f[m], s[m + 1]) ELSE f[n]]
  <2>2. \A n \in 0..m : f[n] = IF n = 0 THEN <<<<>>>> ELSE Fed(f[n - 1], s[n])
    BY <2>1
  <2>3. \A n \in 0..(m + 1) : g[n] = IF n = 0 THEN <<<<>>>> ELSE Fed(g[n - 1], s[n])
    <3> TAKE n \in 0..(m + 1)
    <3>1. CASE n = 0
      BY <2>2, <3>1
    <3>2. CASE n \in 1..m
      <4>1. g[n] = f[n] /\ g[n - 1] = f[n - 1] /\ n # 0
        BY <3>2
      <4> QED BY <2>2, <3>2, <4>1
    <3>3. CASE n = m + 1
      <4>1. g[n] = Fed(f[m], s[m + 1]) /\ g[n - 1] = f[m] /\ n # 0
        BY <3>3
      <4> QED BY <3>3, <4>1
    <3> QED BY <3>1, <3>2, <3>3
  <2>4. Is(g, m + 1)
    BY <2>3
  <2>5. \E h : Is(h, m + 1)
    <3> HIDE DEF Is, g
    <3> QED BY <2>4
  <2> QED BY <2>5
<1>3. N \in S
  <2> HIDE DEF S
  <2>1. 0..N \subseteq S
    BY <1>1, <1>2, CountTo
  <2> QED BY <2>1
<1> QED BY <1>3

\* The function that Split is the last value of.
LEMMA SplitIs ==
    ASSUME NEW s, Len(s) \in Nat
    PROVE  \E f : /\ f[0] = <<<<>>>> /\ f[Len(s)] = Split(s)
                  /\ \A n \in 1..Len(s) : f[n] = Fed(f[n - 1], s[n])
<1> DEFINE N == Len(s)
           f == CHOOSE h : h = [n \in 0..N |-> IF n = 0 THEN <<<<>>>> ELSE Fed(h[n - 1], s[n])]
<1>1. f = [n \in 0..N |-> IF n = 0 THEN <<<<>>>> ELSE Fed(f[n - 1], s[n])]
  <2> N \in Nat
    OBVIOUS
  <2> HIDE DEF N
  <2> QED BY SplitExists
<1>2. f[N] = Split(s)
  BY DEF Split
<1> HIDE DEF f
<1>3. f[0] = <<<<>>>> /\ \A n \in 1..N : f[n] = Fed(f[n - 1], s[n])
  BY <1>1
<1> QED BY <1>2, <1>3

\* The empty text has one row, an empty one.
LEMMA SplitEmpty == Split(<<>>) = <<<<>>>>
<1>1. Len(<<>>) = 0
  OBVIOUS
<1> QED BY <1>1, SplitIs

\* Splitting a text with one byte more.
LEMMA SplitAppend ==
    ASSUME NEW s \in Text, NEW c \in Byte
    PROVE  Split(Append(s, c)) = Fed(Split(s), c)
<1> DEFINE t == Append(s, c)
           N == Len(s)
<1>1. N \in Nat /\ Len(t) = N + 1 /\ t[N + 1] = c /\ \A n \in 1..N : t[n] = s[n]
  BY DEF Text
<1> HIDE DEF t
<1>2. PICK f : f[0] = <<<<>>>> /\ f[N] = Split(s) /\ \A n \in 1..N : f[n] = Fed(f[n - 1], s[n])
  BY <1>1, SplitIs
<1>3. PICK g : /\ g[0] = <<<<>>>> /\ g[N + 1] = Split(t)
               /\ \A n \in 1..(N + 1) : g[n] = Fed(g[n - 1], t[n])
  <2>1. Len(t) \in Nat
    BY <1>1
  <2>2. \E g : /\ g[0] = <<<<>>>> /\ g[Len(t)] = Split(t)
               /\ \A n \in 1..Len(t) : g[n] = Fed(g[n - 1], t[n])
    BY <2>1, SplitIs
  <2> QED BY <1>1, <2>2
<1> DEFINE S == {n \in 0..N : f[n] = g[n]}
<1>4. 0 \in S /\ \A n \in 0..(N - 1) : n \in S => n + 1 \in S
  <2>1. 0 \in S
    <3> f[0] = g[0]
      BY <1>2, <1>3
    <3> QED BY <1>1
  <2>2. ASSUME NEW n \in 0..(N - 1), n \in S PROVE n + 1 \in S
    <3>1. n + 1 \in 1..N /\ n + 1 \in 1..(N + 1) /\ (n + 1) - 1 = n /\ f[n] = g[n]
      BY <1>1, <2>2
    <3>2. f[n + 1] = Fed(f[n], s[n + 1]) /\ g[n + 1] = Fed(g[n], t[n + 1])
      BY <1>2, <1>3, <3>1
    <3>3. f[n + 1] = g[n + 1]
      BY <1>1, <3>1, <3>2
    <3> QED BY <1>1, <3>1, <3>3
  <2> QED BY <2>1, <2>2
<1>5. N \in S
  <2> HIDE DEF S, N
  <2>1. 0..N \subseteq S
    BY <1>1, <1>4, CountTo
  <2> QED BY <1>1, <2>1
<1>6. g[N + 1] = Fed(g[N], c)
  BY <1>1, <1>3
<1> QED BY <1>2, <1>3, <1>5, <1>6 DEF t

\* A text has rows, one at least.
LEMMA SplitIsRows ==
    ASSUME NEW s \in Text
    PROVE  Split(s) \in Rows /\ Len(Split(s)) \in Nat \ {0}
<1> DEFINE S == {t \in Text : Split(t) \in Rows}
<1>1. <<>> \in S
  <2>1. <<>> \in Text /\ <<<<>>>> \in Rows
    BY DEF Text, Rows
  <2> QED BY <2>1, SplitEmpty
<1>2. ASSUME NEW t \in Text, NEW c \in Byte, t \in S PROVE Append(t, c) \in S
  <2>1. Append(t, c) \in Text
    BY DEF Text
  <2> QED BY <1>2, <2>1, SplitAppend, FedIsRows
<1>3. s \in S
  <2> HIDE DEF S
  <2>1. Text \subseteq S
    BY <1>1, <1>2, TextInduction
  <2> QED BY <2>1
<1> QED BY <1>3 DEF Rows

\* A text without a TOKEN is the beginning of one row; one with a TOKEN has a row
\* that is whole.
LEMMA OneRow ==
    ASSUME NEW s \in Text
    PROVE  IF HasToken(s) THEN Len(Split(s)) >= 2 ELSE Split(s) = <<s>>
<1> DEFINE S == {t \in Text : IF HasToken(t) THEN Len(Split(t)) >= 2 ELSE Split(t) = <<t>>}
<1>1. <<>> \in S
  <2>1. <<>> \in Text /\ ~HasToken(<<>>)
    BY DEF Text, HasToken
  <2> QED BY <2>1, SplitEmpty
<1>2. ASSUME NEW t \in Text, NEW c \in Byte, t \in S PROVE Append(t, c) \in S
  <2> DEFINE u == Append(t, c)
  <2>1. u \in Text /\ Split(u) = Fed(Split(t), c)
    BY SplitAppend DEF Text
  <2>2. HasToken(u) <=> HasToken(t) \/ c = TOKEN
    <3>1. Len(u) = Len(t) + 1 /\ u[Len(t) + 1] = c /\ Len(t) \in Nat
          /\ \A i \in 1..Len(t) : u[i] = t[i]
      BY DEF Text
    <3>2. DOMAIN u = 1..(Len(t) + 1) /\ DOMAIN t = 1..Len(t)
      BY <2>1, <3>1 DEF Text
    <3> HIDE DEF u
    <3> QED BY <3>1, <3>2 DEF HasToken
  <2>3. Len(Split(u)) = (IF c = TOKEN THEN Len(Split(t)) + 1 ELSE Len(Split(t)))
        /\ Len(Split(t)) \in Nat \ {0}
    BY <2>1, SplitIsRows, FedIsRows
  <2>4. CASE HasToken(u)
    BY <1>2, <2>1, <2>2, <2>3, <2>4
  <2>5. CASE ~HasToken(u)
    <3>1. c # TOKEN /\ Split(t) = <<t>>
      BY <1>2, <2>2, <2>5
    <3>2. Fed(<<t>>, c) = <<u>>
      BY <3>1 DEF Fed
    <3> QED BY <2>1, <2>5, <3>1, <3>2
  <2> QED BY <2>4, <2>5
<1>3. s \in S
  <2> HIDE DEF S
  <2>1. Text \subseteq S
    BY <1>1, <1>2, TextInduction
  <2> QED BY <2>1
<1> QED BY <1>3

\* Rows that were being received, continued by those of what follows.
Join(rows, more) ==
    [i \in 1..(Len(rows) + Len(more) - 1) |->
        IF i < Len(rows) THEN rows[i]
        ELSE IF i = Len(rows) THEN rows[i] \o more[1]
        ELSE more[i - Len(rows) + 1]]

\* Texts put together are texts.
LEMMA Concat ==
    ASSUME NEW x \in Text
    PROVE  /\ x \o <<>> = x /\ <<>> \o x = x
           /\ \A y \in Text : x \o y \in Text
BY DEF Text

\* One byte more of the second is one more of both.
LEMMA ConcatAppend ==
    ASSUME NEW x \in Text, NEW y \in Text, NEW c \in Byte
    PROVE  x \o Append(y, c) = Append(x \o y, c)
BY DEF Text

\* It does not matter which two are put together first.
LEMMA ConcatTwice ==
    ASSUME NEW x \in Text, NEW y \in Text, NEW z \in Text
    PROVE  x \o (y \o z) = (x \o y) \o z
BY DEF Text

\* A function of texts on 1..N is N rows.
LEMMA FunctionIsRows ==
    ASSUME NEW N \in Nat \ {0}, NEW r \in [1..N -> Text]
    PROVE  r \in Rows /\ Len(r) = N
BY DEF Rows

\* Each of the rows is a text.
LEMMA RowsAreTexts ==
    ASSUME NEW rows \in Rows
    PROVE  /\ Len(rows) \in Nat \ {0} /\ DOMAIN rows = 1..Len(rows)
           /\ \A i \in 1..Len(rows) : rows[i] \in Text
BY DEF Rows

\* Rows are what they are by number.
LEMMA RowsEqual ==
    ASSUME NEW p \in Rows, NEW q \in Rows, Len(p) = Len(q), \A i \in 1..Len(p) : p[i] = q[i]
    PROVE  p = q
BY DEF Rows

\* Joined rows are rows: all but the last of the first, the two that meet in one,
\* and all but the first of the second.
LEMMA JoinIsRows ==
    ASSUME NEW p \in Rows, NEW q \in Rows
    PROVE  /\ Join(p, q) \in Rows
           /\ Len(Join(p, q)) = Len(p) + Len(q) - 1
           /\ \A i \in 1..(Len(p) - 1) : Join(p, q)[i] = p[i]
           /\ Join(p, q)[Len(p)] = p[Len(p)] \o q[1]
           /\ \A i \in 2..Len(q) : Join(p, q)[Len(p) + i - 1] = q[i]
<1> DEFINE N == Len(p) + Len(q) - 1
           r == Join(p, q)
<1>1. /\ Len(p) \in Nat \ {0} /\ Len(q) \in Nat \ {0}
      /\ \A i \in 1..Len(p) : p[i] \in Text
      /\ \A i \in 1..Len(q) : q[i] \in Text
  BY RowsAreTexts
<1>2. p[Len(p)] \o q[1] \in Text
  BY <1>1 DEF Text
<1>3. r = [i \in 1..N |-> IF i < Len(p) THEN p[i]
                          ELSE IF i = Len(p) THEN p[i] \o q[1] ELSE q[i - Len(p) + 1]]
  BY DEF Join
<1>4. N \in Nat \ {0}
  BY <1>1
<1> HIDE DEF r
<1>5. \A i \in 1..N : r[i] \in Text
  BY <1>1, <1>2, <1>3
<1>6. r \in Rows /\ Len(r) = N
  <2> HIDE DEF N
  <2>1. r \in [1..N -> Text]
    BY <1>3, <1>5
  <2> QED BY <1>4, <2>1, FunctionIsRows
<1>7. \A i \in 1..(Len(p) - 1) : r[i] = p[i]
  BY <1>1, <1>3
<1>8. r[Len(p)] = p[Len(p)] \o q[1]
  <2>1. Len(p) \in 1..N /\ ~(Len(p) < Len(p))
    BY <1>1
  <2> HIDE DEF N
  <2> QED BY <1>3, <2>1
<1>9. \A i \in 2..Len(q) : r[Len(p) + i - 1] = q[i]
  <2> TAKE i \in 2..Len(q)
  <2>1. Len(p) + i - 1 \in 1..N /\ ~(Len(p) + i - 1 < Len(p)) /\ Len(p) + i - 1 # Len(p)
        /\ (Len(p) + i - 1) - Len(p) + 1 = i
    BY <1>1
  <2> QED BY <1>3, <2>1
<1> QED BY <1>6, <1>7, <1>8, <1>9 DEF r

\* Where an element of joined rows comes from.
LEMMA JoinAt ==
    ASSUME NEW p \in Rows, NEW q \in Rows, NEW i \in 1..(Len(p) + Len(q) - 1)
    PROVE  Join(p, q)[i] = IF i < Len(p) THEN p[i]
                           ELSE IF i = Len(p) THEN p[i] \o q[1] ELSE q[i - Len(p) + 1]
BY DEF Join

\* Joining the rows of nothing changes nothing.
LEMMA JoinNothing ==
    ASSUME NEW p \in Rows
    PROVE  Join(p, <<<<>>>>) = p
<1>1. <<<<>>>> \in Rows /\ Len(<<<<>>>>) = 1
  BY DEF Rows, Text
<1>2. Len(p) \in Nat \ {0} /\ \A i \in 1..Len(p) : p[i] \in Text
  BY RowsAreTexts
<1>3. Join(p, <<<<>>>>) \in Rows /\ Len(Join(p, <<<<>>>>)) = Len(p)
  <2> DEFINE e == <<<<>>>>
  <2> HIDE DEF e
  <2>1. e \in Rows /\ Len(e) = 1
    BY <1>1 DEF e
  <2>2. Join(p, e) \in Rows /\ Len(Join(p, e)) = Len(p) + Len(e) - 1
    BY <2>1, JoinIsRows
  <2>3. Len(p) + 1 - 1 = Len(p)
    BY <1>2
  <2> QED BY <2>1, <2>2, <2>3 DEF e
<1>4. \A i \in 1..Len(p) : Join(p, <<<<>>>>)[i] = p[i]
  <2> TAKE i \in 1..Len(p)
  <2>1. i \in 1..(Len(p) + Len(<<<<>>>>) - 1)
    BY <1>1, <1>2
  <2>2. CASE i < Len(p)
    BY <1>1, <2>1, <2>2, JoinAt
  <2>3. CASE i = Len(p)
    <3>1. Join(p, <<<<>>>>)[i] = p[i] \o <<>>
      <4>1. ~(i < Len(p))
        BY <1>2, <2>3
      <4>2. Join(p, <<<<>>>>)[i] = p[i] \o <<<<>>>>[1]
        BY <1>1, <2>1, <2>3, <4>1, JoinAt
      <4> QED BY <4>2
    <3>2. p[i] \o <<>> = p[i]
      BY <1>2, Concat
    <3> QED BY <3>1, <3>2
  <2> QED BY <1>2, <2>2, <2>3
<1> QED BY <1>3, <1>4, RowsEqual

\* Feeding a byte to the second rows feeds it to the joined ones.
LEMMA JoinFed ==
    ASSUME NEW p \in Rows, NEW q \in Rows, NEW c \in Byte
    PROVE  Join(p, Fed(q, c)) = Fed(Join(p, q), c)
<1> DEFINE m == Len(p)
           n == Len(q)
           l == Join(p, Fed(q, c))
           j == Join(p, q)
           r == Fed(j, c)
<1>1. /\ m \in Nat \ {0} /\ n \in Nat \ {0}
      /\ \A i \in 1..m : p[i] \in Text
      /\ \A i \in 1..n : q[i] \in Text
  BY RowsAreTexts
<1>2. j \in Rows /\ Len(j) = m + n - 1
  BY JoinIsRows
<1>3. Fed(q, c) \in Rows /\ r \in Rows
  BY <1>2, FedIsRows
<1>4. Len(Fed(q, c)) = IF c = TOKEN THEN n + 1 ELSE n
  BY FedIsRows
<1>5. Len(r) = IF c = TOKEN THEN m + n ELSE m + n - 1
  <2> HIDE DEF j
  <2>1. Len(r) = IF c = TOKEN THEN Len(j) + 1 ELSE Len(j)
    BY <1>2, FedIsRows
  <2> QED BY <1>1, <1>2, <2>1
<1>6. l \in Rows /\ Len(l) = m + Len(Fed(q, c)) - 1
  BY <1>3, JoinIsRows
<1>7. Len(l) = Len(r)
  BY <1>1, <1>4, <1>5, <1>6
<1>8. \A i \in 1..Len(l) : l[i] = r[i]
  <2> TAKE i \in 1..Len(l)
  <2>1. l[i] = IF i < m THEN p[i] ELSE IF i = m THEN p[i] \o Fed(q, c)[1] ELSE Fed(q, c)[i - m + 1]
    BY <1>3, <1>6, JoinAt
  <2>2. i \in 1..(m + n - 1) =>
          j[i] = IF i < m THEN p[i] ELSE IF i = m THEN p[i] \o q[1] ELSE q[i - m + 1]
    BY JoinAt
  <2>3. CASE c = TOKEN
    <3>1. Fed(q, c) = Append(q, <<>>) /\ r = Append(j, <<>>)
      BY <2>3 DEF Fed
    <3>2. i \in 1..(m + n)
      BY <1>1, <1>4, <1>6, <2>3
    <3>3. /\ \A k \in 1..n : Fed(q, c)[k] = q[k]
          /\ Fed(q, c)[n + 1] = <<>>
      BY <1>1, <3>1 DEF Rows
    <3>4. /\ \A k \in 1..(m + n - 1) : r[k] = j[k]
          /\ r[m + n] = <<>>
      <4> HIDE DEF j, r
      <4> QED BY <1>1, <1>2, <3>1 DEF Rows
    <3> HIDE DEF l, r, j
    <3>5. CASE i = m + n
      <4>1. i - m + 1 = n + 1 /\ ~(i < m) /\ i # m
        BY <1>1, <3>5
      <4> HIDE DEF n, m
      <4> QED BY <2>1, <3>3, <3>4, <3>5, <4>1
    <3>6. CASE i # m + n
      <4>1. i \in 1..(m + n - 1) /\ 1 \in 1..n
        BY <1>1, <3>2, <3>6
      <4>2. i > m => i - m + 1 \in 1..n
        BY <1>1, <4>1
      <4>3. i < m \/ i = m \/ i > m
        BY <1>1
      <4> HIDE DEF n, m
      <4> QED BY <2>1, <2>2, <3>3, <3>4, <4>1, <4>2, <4>3
    <3> QED BY <3>5, <3>6
  <2>4. CASE c # TOKEN
    <3>1. i \in 1..(m + n - 1)
      BY <1>1, <1>4, <1>6, <2>4
    <3>2. \A k \in 1..n : Fed(q, c)[k] = IF k = n THEN Append(q[n], c) ELSE q[k]
      BY <1>1, <2>4 DEF Fed, Rows
    <3>3. \A k \in 1..(m + n - 1) : r[k] = IF k = m + n - 1 THEN Append(j[m + n - 1], c) ELSE j[k]
      <4> HIDE DEF j
      <4> QED BY <1>1, <1>2, <2>4 DEF Fed, Rows
    <3> HIDE DEF l, r, j
    <3>4. CASE i # m + n - 1
      <4>1. i = m => 1 \in 1..n /\ 1 # n
        BY <1>1, <3>4
      <4>2. i > m => i - m + 1 \in 1..n /\ i - m + 1 # n
        BY <1>1, <3>1, <3>4
      <4>3. i < m \/ i = m \/ i > m
        BY <1>1
      <4> HIDE DEF n, m
      <4> QED BY <2>1, <2>2, <3>1, <3>2, <3>3, <3>4, <4>1, <4>2, <4>3
    <3>5. CASE i = m + n - 1
      <4>1. CASE n = 1
        <5>1. i = m /\ 1 \in 1..n
          BY <1>1, <3>5, <4>1
        <5>2. p[m] \o Append(q[1], c) = Append(p[m] \o q[1], c)
          <6>1. p[m] \in Text /\ q[1] \in Text
            BY <1>1, <5>1
          <6> QED BY <6>1, ConcatAppend
        <5>3. l[i] = p[m] \o Append(q[1], c) /\ r[i] = Append(p[m] \o q[1], c)
          <6>1. ~(m < m) /\ m \in 1..(m + n - 1) /\ m = m + n - 1
            BY <1>1, <4>1
          <6> HIDE DEF n, m
          <6>2. l[i] = p[m] \o Append(q[1], c)
            BY <2>1, <3>2, <4>1, <5>1, <6>1
          <6>3. j[m] = p[m] \o q[1]
            BY <2>2, <5>1, <6>1
          <6>4. r[m] = Append(j[m], c)
            BY <3>3, <6>1
          <6> QED BY <5>1, <6>2, <6>3, <6>4
        <5> QED BY <5>2, <5>3
      <4>2. CASE n # 1
        <5>1. i > m /\ i - m + 1 = n /\ n \in 1..n
          <6> HIDE DEF n, m
          <6> QED BY <1>1, <3>5, <4>2
        <5>2. ~(i < m) /\ i # m
          BY <1>1, <5>1
        <5> HIDE DEF n, m
        <5> QED BY <2>1, <2>2, <3>1, <3>2, <3>3, <3>5, <5>1, <5>2
      <4> QED BY <4>1, <4>2
    <3> QED BY <3>4, <3>5
  <2> QED BY <2>3, <2>4
<1> QED BY <1>3, <1>6, <1>7, <1>8, RowsEqual

\* The rows of a text are those of its parts, joined where it was cut.
LEMMA SplitConcat ==
    ASSUME NEW s \in Text, NEW t \in Text
    PROVE  s \o t \in Text /\ Split(s \o t) = Join(Split(s), Split(t))
<1> DEFINE S == {u \in Text : Split(s \o u) = Join(Split(s), Split(u))}
<1>1. <<>> \in S
  <2>1. <<>> \in Text /\ s \o <<>> = s
    BY DEF Text
  <2> QED BY <2>1, SplitEmpty, SplitIsRows, JoinNothing
<1>2. ASSUME NEW u \in Text, NEW c \in Byte, u \in S PROVE Append(u, c) \in S
  <2>1. Append(u, c) \in Text /\ s \o u \in Text /\ s \o Append(u, c) = Append(s \o u, c)
    BY DEF Text
  <2>2. Split(s \o Append(u, c)) = Fed(Split(s \o u), c)
    BY <2>1, SplitAppend
  <2>3. Split(Append(u, c)) = Fed(Split(u), c)
    BY SplitAppend
  <2>4. Split(s \o u) = Join(Split(s), Split(u))
    BY <1>2
  <2>5. Join(Split(s), Fed(Split(u), c)) = Fed(Join(Split(s), Split(u)), c)
    BY SplitIsRows, JoinFed
  <2> QED BY <2>1, <2>2, <2>3, <2>4, <2>5
<1>3. t \in S
  <2> HIDE DEF S
  <2>1. Text \subseteq S
    BY <1>1, <1>2, TextInduction
  <2> QED BY <2>1
<1>4. s \o t \in Text
  BY DEF Text
<1> QED BY <1>3, <1>4

\* It does not matter which two are joined first.
LEMMA JoinTwice ==
    ASSUME NEW p \in Rows, NEW q \in Rows, NEW r \in Rows
    PROVE  Join(p, Join(q, r)) = Join(Join(p, q), r)
<1> DEFINE a == Len(p)
           b == Len(q)
           d == Len(r)
           qr == Join(q, r)
           pq == Join(p, q)
<1>1. /\ a \in Nat \ {0} /\ b \in Nat \ {0} /\ d \in Nat \ {0}
      /\ p[a] \in Text /\ q[1] \in Text /\ q[b] \in Text /\ r[1] \in Text
  BY RowsAreTexts
<1>2. pq \in Rows /\ qr \in Rows /\ Len(pq) = a + b - 1 /\ Len(qr) = b + d - 1
  BY JoinIsRows
<1>3. /\ Join(p, qr) \in Rows /\ Len(Join(p, qr)) = a + (b + d - 1) - 1
      /\ Join(pq, r) \in Rows /\ Len(Join(pq, r)) = (a + b - 1) + d - 1
  <2> HIDE DEF pq, qr
  <2>1. Join(p, qr) \in Rows /\ Len(Join(p, qr)) = Len(p) + Len(qr) - 1
    BY <1>2, JoinIsRows
  <2>2. Join(pq, r) \in Rows /\ Len(Join(pq, r)) = Len(pq) + Len(r) - 1
    BY <1>2, JoinIsRows
  <2> QED BY <1>2, <2>1, <2>2
<1>4. \A i \in 1..(a + b + d - 2) : Join(p, qr)[i] = Join(pq, r)[i]
  <2> TAKE i \in 1..(a + b + d - 2)
  <2>1. Join(p, qr)[i] = IF i < a THEN p[i] ELSE IF i = a THEN p[i] \o qr[1] ELSE qr[i - a + 1]
    <3> HIDE DEF pq, qr
    <3>1. i \in 1..(Len(p) + Len(qr) - 1)
      BY <1>1, <1>2
    <3> QED BY <1>2, <3>1, JoinAt
  <2>2. Join(pq, r)[i] = IF i < a + b - 1 THEN pq[i]
                         ELSE IF i = a + b - 1 THEN pq[i] \o r[1] ELSE r[i - (a + b - 1) + 1]
    <3> HIDE DEF pq, qr
    <3>1. i \in 1..(Len(pq) + Len(r) - 1)
      BY <1>1, <1>2
    <3>2. Join(pq, r)[i] = IF i < Len(pq) THEN pq[i]
                           ELSE IF i = Len(pq) THEN pq[i] \o r[1] ELSE r[i - Len(pq) + 1]
      BY <1>2, <3>1, JoinAt
    <3> QED BY <1>2, <3>2
  <2>3. \A k \in 1..(b + d - 1) :
          qr[k] = IF k < b THEN q[k] ELSE IF k = b THEN q[k] \o r[1] ELSE r[k - b + 1]
    BY JoinAt
  <2>4. \A k \in 1..(a + b - 1) :
          pq[k] = IF k < a THEN p[k] ELSE IF k = a THEN p[k] \o q[1] ELSE q[k - a + 1]
    BY JoinAt
  <2> HIDE DEF pq, qr
  <2>5. CASE i < a
    <3>1. i \in 1..(a + b - 1) /\ (i < a + b - 1 \/ (i = a + b - 1 /\ FALSE))
      BY <1>1, <2>5
    <3> HIDE DEF a, b, d
    <3> QED BY <2>1, <2>2, <2>4, <2>5, <3>1
  <2>6. CASE i = a
    <3>1. a \in 1..(a + b - 1) /\ 1 \in 1..(b + d - 1) /\ ~(a < a) /\ 1 <= b
      BY <1>1
    <3>2. CASE b = 1
      <4>1. p[a] \o (q[1] \o r[1]) = (p[a] \o q[1]) \o r[1]
        BY <1>1, ConcatTwice
      <4>2. ~(a < a + b - 1) /\ a = a + b - 1 /\ ~(1 < b)
        BY <1>1, <3>2
      <4>3. Join(p, qr)[i] = p[a] \o (q[1] \o r[1])
        <5> HIDE DEF a, b, d
        <5> QED BY <2>1, <2>3, <2>6, <3>1, <3>2, <4>2
      <4>4. Join(pq, r)[i] = (p[a] \o q[1]) \o r[1]
        <5> HIDE DEF a, b, d
        <5> QED BY <2>2, <2>4, <2>6, <3>1, <3>2, <4>2
      <4> QED BY <4>1, <4>3, <4>4
    <3>3. CASE b # 1
      <4>1. a < a + b - 1 /\ 1 < b
        <5> HIDE DEF a, b
        <5> QED BY <1>1, <3>3
      <4> HIDE DEF a, b, d
      <4> QED BY <2>1, <2>2, <2>3, <2>4, <2>6, <3>1, <4>1
    <3> QED BY <3>2, <3>3
  <2>7. CASE i > a
    <3> DEFINE k == i - a + 1
    <3>1. k \in 1..(b + d - 1) /\ ~(i < a) /\ i # a
      BY <1>1, <2>7
    <3>2. Join(p, qr)[i] = IF k < b THEN q[k] ELSE IF k = b THEN q[k] \o r[1] ELSE r[k - b + 1]
      <4> HIDE DEF k, a, b, d
      <4>1. Join(p, qr)[i] = qr[k]
        BY <2>1, <3>1 DEF k
      <4> QED BY <2>3, <3>1, <4>1
    <3>3. i \in 1..(a + b - 1) => pq[i] = q[k]
      <4> HIDE DEF a, b, d
      <4> QED BY <2>4, <3>1 DEF k
    <3>4. /\ i < a + b - 1 <=> k < b
          /\ i = a + b - 1 <=> k = b
          /\ k <= b => i \in 1..(a + b - 1)
          /\ i - (a + b - 1) + 1 = k - b + 1
          /\ k < b \/ k = b \/ k > b
          /\ k < b => k <= b
          /\ k = b => k <= b
      BY <1>1, <2>7
    <3> HIDE DEF k, a, b, d
    <3> QED BY <2>2, <3>2, <3>3, <3>4
  <2>8. i < a \/ i = a \/ i > a
    BY <1>1
  <2> QED BY <2>5, <2>6, <2>7, <2>8
<1>5. Len(Join(p, qr)) = a + b + d - 2 /\ Len(Join(pq, r)) = a + b + d - 2
  BY <1>1, <1>3
<1> HIDE DEF pq, qr
<1> QED BY <1>3, <1>4, <1>5, RowsEqual DEF pq, qr

\* Texts and one more are rows.
LEMMA AppendIsRows ==
    ASSUME NEW p \in Seq(Text), NEW x \in Text
    PROVE  /\ Append(p, x) \in Rows /\ Len(Append(p, x)) = Len(p) + 1
           /\ Append(p, x)[Len(p) + 1] = x /\ \A i \in 1..Len(p) : Append(p, x)[i] = p[i]
BY DEF Rows

\* Joining one row to the last.
LEMMA JoinLast ==
    ASSUME NEW p \in Seq(Text), NEW x \in Text, NEW y \in Text
    PROVE  Append(p, x) \in Rows /\ Join(Append(p, x), <<y>>) = Append(p, x \o y)
<1> DEFINE a == Append(p, x)
           e == <<y>>
           m == Len(p)
<1>1. m \in Nat /\ a \in Rows /\ Len(a) = m + 1 /\ a[m + 1] = x /\ \A i \in 1..m : a[i] = p[i]
  BY AppendIsRows
<1>2. e \in Rows /\ Len(e) = 1 /\ e[1] = y
  BY DEF Rows
<1>3. x \o y \in Text
  BY Concat
<1> DEFINE z == x \o y
           b == Append(p, z)
<1>4. b \in Rows /\ Len(b) = m + 1 /\ b[m + 1] = z /\ \A i \in 1..m : b[i] = p[i]
  <2> HIDE DEF z
  <2> QED BY <1>3, AppendIsRows DEF z
<1> HIDE DEF a, e, b
<1>5. Join(a, e) \in Rows /\ Len(Join(a, e)) = m + 1
  <2>1. Join(a, e) \in Rows /\ Len(Join(a, e)) = Len(a) + Len(e) - 1
    BY <1>1, <1>2, JoinIsRows
  <2> HIDE DEF m
  <2> QED BY <1>1, <1>2, <2>1
<1>6. \A i \in 1..(m + 1) : Join(a, e)[i] = b[i]
  <2> TAKE i \in 1..(m + 1)
  <2>1. Join(a, e)[i] = IF i < m + 1 THEN a[i] ELSE IF i = m + 1 THEN a[i] \o e[1] ELSE e[i - (m + 1) + 1]
    <3> HIDE DEF m
    <3>1. i \in 1..(Len(a) + Len(e) - 1)
      BY <1>1, <1>2
    <3> QED BY <1>1, <1>2, <3>1, JoinAt
  <2>2. (i \in 1..m /\ i < m + 1) \/ (i = m + 1 /\ ~(i < m + 1))
    <3>1. m \in Nat
      BY <1>1
    <3> HIDE DEF m
    <3> QED BY <3>1
  <2> HIDE DEF m
  <2> QED BY <1>1, <1>2, <1>4, <2>1, <2>2
<1> HIDE DEF m, z
<1>7. Join(a, e) = b
  BY <1>1, <1>4, <1>5, <1>6, RowsEqual
<1> QED BY <1>1, <1>7 DEF a, b, e, z

\* The same for rows that are whole but for the last.
LEMMA WholeRow ==
    ASSUME NEW t \in Text, NEW rows \in Seq(Text), Split(t) = Append(rows, <<>>),
           NEW row \in Text, ~HasToken(row)
    PROVE  /\ t \o row \o <<TOKEN>> \in Text
           /\ Split(t \o row \o <<TOKEN>>) = Append(Append(rows, row), <<>>)
<1>1. <<>> \in Text /\ TOKEN \in Byte /\ <<>> \o row = row
  BY DEF Text, Byte, TOKEN
<1>2. Split(row) = <<row>>
  BY OneRow
<1>3. t \o row \in Text /\ Split(t \o row) = Join(Append(rows, <<>>), <<row>>)
  BY <1>2, SplitConcat
<1>4. Split(t \o row) = Append(rows, row)
  BY <1>1, <1>3, JoinLast
<1>5. t \o row \o <<TOKEN>> = Append(t \o row, TOKEN) /\ Append(t \o row, TOKEN) \in Text
  BY <1>1, <1>3 DEF Text
<1>6. Split(Append(t \o row, TOKEN)) = Fed(Append(rows, row), TOKEN)
  BY <1>1, <1>3, <1>4, SplitAppend
<1> QED BY <1>5, <1>6 DEF Fed

Printable(s) == \A i \in DOMAIN s : s[i] # 0

\* Texts without NUL make one without.
LEMMA PrintableConcat ==
    ASSUME NEW s \in Text, NEW t \in Text, Printable(s), Printable(t)
    PROVE  Printable(s \o t)
BY DEF Text, Printable

\* Lines is a function on the number of its rows.
LEMMA LinesExists ==
    ASSUME NEW rows, NEW N \in Nat
    PROVE  \E f : f = [n \in 0..N |-> IF n = 0 THEN <<>> ELSE f[n - 1] \o rows[n] \o <<TOKEN>>]
<1> DEFINE Is(h, m) == h = [n \in 0..m |->
                              IF n = 0 THEN <<>> ELSE h[n - 1] \o rows[n] \o <<TOKEN>>]
           S == {m \in 0..N : \E h : Is(h, m)}
<1>1. 0 \in S
  <2>1. Is([n \in 0..0 |-> <<>>], 0)
    OBVIOUS
  <2>2. \E h : Is(h, 0)
    <3> HIDE DEF Is
    <3> QED BY <2>1
  <2> HIDE DEF Is
  <2> QED BY <2>2
<1>2. ASSUME NEW m \in 0..(N - 1), m \in S PROVE m + 1 \in S
  <2>1. PICK f : Is(f, m)
    BY <1>2
  <2> DEFINE next == f[m] \o rows[m + 1] \o <<TOKEN>>
             g == [n \in 0..(m + 1) |-> IF n = m + 1 THEN next ELSE f[n]]
  <2>2. \A n \in 0..m : f[n] = IF n = 0 THEN <<>> ELSE f[n - 1] \o rows[n] \o <<TOKEN>>
    BY <2>1
  <2>3. \A n \in 0..(m + 1) : g[n] = IF n = 0 THEN <<>> ELSE g[n - 1] \o rows[n] \o <<TOKEN>>
    <3> TAKE n \in 0..(m + 1)
    <3>1. CASE n = 0
      <4>1. g[0] = f[0] /\ f[0] = <<>>
        BY <2>2
      <4> QED BY <3>1, <4>1
    <3>2. CASE n \in 1..m
      <4>1. g[n] = f[n] /\ g[n - 1] = f[n - 1] /\ n # 0
        <5> HIDE DEF next
        <5> QED BY <3>2
      <4>2. f[n] = f[n - 1] \o rows[n] \o <<TOKEN>>
        <5> n \in 0..m
          BY <3>2
        <5> QED BY <2>2, <4>1
      <4> HIDE DEF g, next
      <4> QED BY <4>1, <4>2
    <3>3. CASE n = m + 1
      <4>1. g[n] = next /\ g[n - 1] = f[m] /\ n # 0
        <5> HIDE DEF next
        <5> QED BY <3>3
      <4> HIDE DEF g
      <4> QED BY <3>3, <4>1
    <3> QED BY <3>1, <3>2, <3>3
  <2>4. Is(g, m + 1)
    <3> HIDE DEF next
    <3>1. g = [n \in 0..(m + 1) |-> g[n]]
      OBVIOUS
    <3> HIDE DEF g
    <3> QED BY <2>3, <3>1
  <2>5. \E h : Is(h, m + 1)
    <3> HIDE DEF Is, g
    <3> QED BY <2>4
  <2> HIDE DEF Is
  <2> QED BY <2>5
<1>3. N \in S
  <2> HIDE DEF S
  <2>1. 0..N \subseteq S
    BY <1>1, <1>2, CountTo
  <2> QED BY <2>1
<1> QED BY <1>3

\* The rows of lines are those the lines were made of.
LEMMA SplitLines ==
    ASSUME NEW rows \in Seq(Text),
           \A i \in 1..Len(rows) : Printable(rows[i]) /\ ~HasToken(rows[i])
    PROVE  /\ Lines(rows) \in Text /\ Split(Lines(rows)) = Append(rows, <<>>)
           /\ Printable(Lines(rows))
           /\ Len(rows) > 0 /\ rows[1] # <<>> =>
                Lines(rows) # <<>> /\ Lines(rows)[1] = rows[1][1]
<1> DEFINE N == Len(rows)
           f == CHOOSE h : h = [n \in 0..N |->
                   IF n = 0 THEN <<>> ELSE h[n - 1] \o rows[n] \o <<TOKEN>>]
<1>0. N \in Nat /\ \A i \in 1..N : rows[i] \in Text
  OBVIOUS
<1>1. f = [n \in 0..N |-> IF n = 0 THEN <<>> ELSE f[n - 1] \o rows[n] \o <<TOKEN>>]
  <2> HIDE DEF N
  <2> QED BY <1>0, LinesExists
<1>2. f[N] = Lines(rows)
  BY DEF Lines
<1> HIDE DEF f
<1>3. f[0] = <<>> /\ \A n \in 1..N : f[n] = f[n - 1] \o rows[n] \o <<TOKEN>>
  <2>1. 0 \in 0..N /\ \A n \in 1..N : n \in 0..N /\ n # 0
    BY <1>0
  <2> HIDE DEF N
  <2> QED BY <1>1, <2>1
<1> DEFINE S == {n \in 0..N : /\ f[n] \in Text /\ Printable(f[n])
                              /\ Split(f[n]) = Append(SubSeq(rows, 1, n), <<>>)
                              /\ n > 0 /\ rows[1] # <<>> => f[n] # <<>> /\ f[n][1] = rows[1][1]}
<1>4. 0 \in S
  <2>1. SubSeq(rows, 1, 0) = <<>> /\ Append(<<>>, <<>>) = <<<<>>>> /\ <<>> \in Text
        /\ Printable(<<>>)
    BY DEF Text, Printable
  <2> HIDE DEF N
  <2> QED BY <1>0, <1>3, <2>1, SplitEmpty
<1>5. ASSUME NEW n \in 0..(N - 1), n \in S PROVE n + 1 \in S
  <2> DEFINE row == rows[n + 1]
             t == f[n]
             u == f[n + 1]
             p == SubSeq(rows, 1, n)
  <2>1. n + 1 \in 1..N /\ n + 1 \in 0..N /\ (n + 1) - 1 = n
    BY <1>0
  <2>2. row \in Text /\ Printable(row) /\ ~HasToken(row)
    BY <1>0, <2>1
  <2>3. t \in Text /\ Printable(t) /\ Split(t) = Append(p, <<>>)
    BY <1>5
  <2>4. u = t \o row \o <<TOKEN>>
    <3> HIDE DEF N
    <3> QED BY <1>3, <2>1
  <2>5. p \in Seq(Text) /\ Append(p, row) = SubSeq(rows, 1, n + 1)
    BY <1>0, <2>1
  <2>6. n > 0 /\ rows[1] # <<>> => t # <<>> /\ t[1] = rows[1][1]
    BY <1>5
  <2> HIDE DEF t, row, p, u, N
  <2>7. u \in Text /\ Split(u) = Append(Append(p, row), <<>>)
    BY <2>2, <2>3, <2>4, <2>5, WholeRow
  <2>8. Printable(u)
    <3>1. <<TOKEN>> \in Text /\ Printable(<<TOKEN>>)
      BY DEF Text, Byte, TOKEN, Printable
    <3>2. t \o row \in Text /\ Printable(t \o row)
      BY <2>2, <2>3, Concat, PrintableConcat
    <3> QED BY <2>4, <3>1, <3>2, PrintableConcat
  <2>9. rows[1] # <<>> => u # <<>> /\ u[1] = rows[1][1]
    <3>1. CASE n = 0
      <4>1. t = <<>> /\ row = rows[1] /\ t \o row = row
        <5>1. t = <<>> /\ row = rows[1]
          BY <1>3, <3>1 DEF t, row
        <5> QED BY <2>2, <5>1, Concat
      <4>2. u = row \o <<TOKEN>>
        BY <2>4, <4>1
      <4> QED BY <2>2, <4>1, <4>2 DEF Text
    <3>2. CASE n # 0
      <4>1. n > 0
        BY <3>2, <2>1
      <4>2. t # <<>> => u # <<>> /\ u[1] = t[1]
        BY <2>2, <2>3, <2>4 DEF Text
      <4> QED BY <2>6, <4>1, <4>2
    <3> QED BY <3>1, <3>2
  <2> QED BY <2>1, <2>5, <2>7, <2>8, <2>9 DEF u
<1>6. N \in S
  <2> HIDE DEF S, N
  <2>1. 0..N \subseteq S
    BY <1>0, <1>4, <1>5, CountTo
  <2> QED BY <1>0, <2>1
<1>7. SubSeq(rows, 1, N) = rows
  OBVIOUS
<1> QED BY <1>2, <1>6, <1>7

-----------------------------------------------------------------------------
(* A piece of a list. *)

\* The rows from the second to a later one.
LEMMA SubRows ==
    ASSUME NEW q \in Seq(Text), NEW n \in 1..Len(q)
    PROVE  /\ SubSeq(q, 2, n) \in Seq(Text) /\ Len(SubSeq(q, 2, n)) = n - 1
           /\ \A i \in 1..(n - 1) : SubSeq(q, 2, n)[i] = q[i + 1]
OBVIOUS

\* Sequences of texts put together.
LEMMA ConcatRows ==
    ASSUME NEW p \in Seq(Text), NEW q \in Seq(Text)
    PROVE  /\ p \o q \in Seq(Text) /\ Len(p \o q) = Len(p) + Len(q)
           /\ \A i \in 1..Len(p) : (p \o q)[i] = p[i]
           /\ \A i \in 1..Len(q) : (p \o q)[Len(p) + i] = q[i]
OBVIOUS

\* Sequences with one text more are the same only if both parts are.
LEMMA AppendInjective ==
    ASSUME NEW p \in Seq(Text), NEW q \in Seq(Text), NEW x \in Text, NEW y \in Text,
           Append(p, x) = Append(q, y)
    PROVE  p = q /\ x = y
<1>1. Len(p) = Len(q)
  <2>1. Len(Append(p, x)) = Len(p) + 1 /\ Len(Append(q, y)) = Len(q) + 1
    BY AppendIsRows
  <2>2. Len(p) + 1 = Len(q) + 1 /\ Len(p) \in Nat /\ Len(q) \in Nat
    BY <2>1
  <2> QED BY <2>2
<1>2. x = y /\ \A i \in 1..Len(p) : p[i] = q[i]
  BY <1>1, AppendIsRows
<1> QED BY <1>1, <1>2

\* Joined rows as a concatenation.
LEMMA JoinForm ==
    ASSUME NEW p \in Seq(Text), NEW x \in Text, NEW q \in Rows, Len(q) >= 2
    PROVE  LET first == p \o <<x \o q[1]>> \o SubSeq(q, 2, Len(q) - 1)
           IN  /\ first \in Seq(Text) /\ Len(first) = Len(p) + Len(q) - 1
               /\ q[Len(q)] \in Text
               /\ Append(first, q[Len(q)]) = Join(Append(p, x), q)
<1> DEFINE m == Len(p)
           n == Len(q)
           a == Append(p, x)
           y == x \o q[1]
           mid == SubSeq(q, 2, n - 1)
           py == p \o <<y>>
           first == py \o mid
           last == q[n]
           b == Append(first, last)
<1>1. m \in Nat /\ n \in Nat /\ n >= 2 /\ \A i \in 1..n : q[i] \in Text
  BY RowsAreTexts
<1>2. a \in Rows /\ Len(a) = m + 1 /\ a[m + 1] = x /\ \A i \in 1..m : a[i] = p[i]
  BY AppendIsRows
<1>3. last \in Text /\ y \in Text
  <2>1. 1 \in 1..n /\ n \in 1..n
    BY <1>1
  <2>2. q[1] \in Text /\ q[n] \in Text
    BY <1>1, <2>1
  <2> QED BY <2>2, Concat
<1>4. mid \in Seq(Text) /\ Len(mid) = n - 2 /\ \A i \in 1..(n - 2) : mid[i] = q[i + 1]
  <2>1. q \in Seq(Text) /\ n - 1 \in 1..Len(q) /\ (n - 1) - 1 = n - 2
    BY <1>1 DEF Rows
  <2> HIDE DEF n
  <2> QED BY <2>1, SubRows
<1> HIDE DEF y, mid, last
<1>5. py = Append(p, y)
  BY <1>3
<1>6. py \in Seq(Text) /\ Len(py) = m + 1 /\ py[m + 1] = y /\ \A i \in 1..m : py[i] = p[i]
  BY <1>3, <1>5, AppendIsRows DEF Rows
<1> HIDE DEF py
<1>7. /\ first \in Seq(Text) /\ Len(first) = m + n - 1
      /\ \A i \in 1..(m + 1) : first[i] = py[i]
      /\ \A i \in 1..(n - 2) : first[m + 1 + i] = mid[i]
  <2>1. m + 1 + (n - 2) = m + n - 1
    BY <1>1
  <2>2. /\ first \in Seq(Text) /\ Len(first) = Len(py) + Len(mid)
        /\ \A i \in 1..Len(py) : first[i] = py[i]
        /\ \A i \in 1..Len(mid) : first[Len(py) + i] = mid[i]
    BY <1>4, <1>6, ConcatRows
  <2> HIDE DEF m, n, first
  <2> QED BY <1>4, <1>6, <2>1, <2>2
<1> HIDE DEF first
<1>8. b \in Rows /\ Len(b) = m + n /\ b[m + n] = last /\ \A i \in 1..(m + n - 1) : b[i] = first[i]
  <2>1. b \in Rows /\ Len(b) = Len(first) + 1 /\ b[Len(first) + 1] = last
        /\ \A i \in 1..Len(first) : b[i] = first[i]
    BY <1>3, <1>7, AppendIsRows
  <2>2. (m + n - 1) + 1 = m + n
    BY <1>1
  <2> HIDE DEF m, n, b
  <2> QED BY <1>7, <2>1, <2>2
<1> HIDE DEF a, b
<1>9. Join(a, q) \in Rows /\ Len(Join(a, q)) = m + n
  <2>1. Join(a, q) \in Rows /\ Len(Join(a, q)) = Len(a) + n - 1
    BY <1>2, JoinIsRows
  <2>2. (m + 1) + n - 1 = m + n
    BY <1>1
  <2> HIDE DEF m, n
  <2> QED BY <1>2, <2>1, <2>2
<1>10. \A i \in 1..(m + n) : b[i] = Join(a, q)[i]
  <2> TAKE i \in 1..(m + n)
  <2>1. Join(a, q)[i] = IF i < m + 1 THEN a[i] ELSE IF i = m + 1 THEN a[i] \o q[1] ELSE q[i - (m + 1) + 1]
    <3>1. i \in 1..(Len(a) + Len(q) - 1)
      BY <1>1, <1>2
    <3>2. Join(a, q)[i] = IF i < Len(a) THEN a[i] ELSE IF i = Len(a) THEN a[i] \o q[1] ELSE q[i - Len(a) + 1]
      BY <1>2, <3>1, JoinAt
    <3> HIDE DEF m, n
    <3> QED BY <1>2, <3>2
  <2> HIDE DEF m, n
  <2>2. CASE i \in 1..m
    <3>1. i < m + 1 /\ i \in 1..(m + n - 1) /\ i \in 1..(m + 1)
      BY <1>1, <2>2
    <3> QED BY <1>2, <1>6, <1>7, <1>8, <2>1, <2>2, <3>1
  <2>3. CASE i = m + 1
    <3>1. ~(i < m + 1) /\ i \in 1..(m + n - 1) /\ i \in 1..(m + 1)
      BY <1>1, <2>3
    <3> QED BY <1>2, <1>6, <1>7, <1>8, <2>1, <2>3, <3>1 DEF y
  <2>4. CASE i \in (m + 2)..(m + n - 1)
    <3> DEFINE k == i - (m + 1)
    <3>1. ~(i < m + 1) /\ i # m + 1 /\ i \in 1..(m + n - 1) /\ k \in 1..(n - 2) /\ i = m + 1 + k
      BY <1>1, <2>4
    <3> HIDE DEF k
    <3>2. b[i] = mid[k]
      BY <1>7, <1>8, <3>1
    <3>3. Join(a, q)[i] = q[k + 1]
      BY <2>1, <3>1 DEF k
    <3> QED BY <1>4, <3>1, <3>2, <3>3
  <2>5. CASE i = m + n
    <3>1. ~(i < m + 1) /\ i # m + 1 /\ i - (m + 1) + 1 = n
      BY <1>1, <2>5
    <3> QED BY <1>8, <2>1, <2>5, <3>1 DEF last, n
  <2>6. i \in 1..m \/ i = m + 1 \/ i \in (m + 2)..(m + n - 1) \/ i = m + n
    BY <1>1
  <2> QED BY <2>2, <2>3, <2>4, <2>5, <2>6
<1>11. b = Join(a, q)
  <2> HIDE DEF m, n
  <2> QED BY <1>2, <1>8, <1>9, <1>10, RowsEqual
<1> QED BY <1>3, <1>7, <1>11 DEF a, b, first, last, py, y, mid

\* The rows of a text that ends with the last of them.
Whole(rows) == Append(rows, <<>>)

\* What a piece s makes of the rows printed before it, base, and the row being
\* received, last.
Completes(base, last, s, rest, rows) ==
    LET tokens == Split(s)
        k == Len(tokens) - 1
        done == Append(base, last \o tokens[1]) \o SubSeq(tokens, 2, k)
    IN  /\ k \in Nat \ {0}
        /\ done \in Seq(Text) /\ tokens[k + 1] \in Text
        /\ Len(done) = Len(base) + k /\ Len(done) <= Len(rows)
        /\ Join(Append(done, tokens[k + 1]), Split(rest)) = Whole(rows)
        /\ Len(done) = Len(rows) => done = rows /\ rest = <<>>

\* What a piece adds to the rows that were printed, when it ends one.
LEMMA RowsOfPiece ==
    ASSUME NEW base \in Seq(Text), NEW last \in Text, NEW s \in Text, HasToken(s),
           NEW rest \in Text, NEW rows \in Seq(Text),
           Join(Join(Append(base, last), Split(s)), Split(rest)) = Whole(rows)
    PROVE  Completes(base, last, s, rest, rows)
<1> DEFINE tokens == Split(s)
           k == Len(tokens) - 1
           done == Append(base, last \o tokens[1]) \o SubSeq(tokens, 2, k)
           left == tokens[k + 1]
           both == Join(Append(base, last), tokens)
<1>1. tokens \in Rows /\ Len(tokens) \in Nat /\ Len(tokens) >= 2 /\ Len(tokens) = k + 1
  <2>1. tokens \in Rows /\ Len(tokens) \in Nat /\ Len(tokens) >= 2
    BY SplitIsRows, OneRow
  <2> HIDE DEF tokens
  <2> QED BY <2>1
<1>2. k \in Nat \ {0}
  <2> HIDE DEF tokens
  <2> QED BY <1>1
<1>3. /\ done \in Seq(Text) /\ Len(done) = Len(base) + Len(tokens) - 1
      /\ left \in Text /\ Append(done, left) = both
  <2> HIDE DEF tokens
  <2>1. LET first == base \o <<last \o tokens[1]>> \o SubSeq(tokens, 2, Len(tokens) - 1)
        IN  /\ first \in Seq(Text) /\ Len(first) = Len(base) + Len(tokens) - 1
            /\ tokens[Len(tokens)] \in Text
            /\ Append(first, tokens[Len(tokens)]) = Join(Append(base, last), tokens)
    BY <1>1, JoinForm
  <2>2. k = Len(tokens) - 1 /\ k + 1 = Len(tokens)
    BY <1>1
  <2>3. base \o <<last \o tokens[1]>> = Append(base, last \o tokens[1])
    OBVIOUS
  <2> QED BY <2>1, <2>2, <2>3
<1> HIDE DEF tokens, done, left, both
<1>4. Len(done) = Len(base) + k
  BY <1>1, <1>2, <1>3 DEF k
<1>5. both \in Rows /\ Len(both) = Len(done) + 1
  BY <1>3, AppendIsRows
<1>6. Join(both, Split(rest)) = Whole(rows)
  BY DEF both, tokens
<1>7. Len(rows) = Len(done) + Len(Split(rest)) - 1
  <2>1. Len(Join(both, Split(rest))) = Len(both) + Len(Split(rest)) - 1
    BY <1>5, SplitIsRows, JoinIsRows
  <2>2. Len(Whole(rows)) = Len(rows) + 1
    BY DEF Whole
  <2>3. Len(rows) + 1 = (Len(done) + 1) + Len(Split(rest)) - 1
    BY <1>5, <1>6, <2>1, <2>2
  <2>4. Len(rows) \in Nat /\ Len(done) \in Nat /\ Len(Split(rest)) \in Nat
    BY <1>3, SplitIsRows
  <2> QED BY <2>3, <2>4
<1>8. Len(rows) \in Nat /\ Len(done) \in Nat /\ Len(Split(rest)) \in Nat \ {0}
  BY <1>3, SplitIsRows
<1>9. Len(done) <= Len(rows)
  BY <1>7, <1>8
<1>10. ASSUME Len(done) = Len(rows) PROVE done = rows /\ rest = <<>>
  <2>1. Len(Split(rest)) = 1
    <3> DEFINE a == Len(rows)
               b == Len(done)
               c == Len(Split(rest))
    <3>1. a = b + c - 1 /\ a \in Nat /\ b \in Nat /\ c \in Nat /\ b = a
      BY <1>7, <1>8, <1>10
    <3> HIDE DEF a, b, c
    <3>2. c = 1
      BY <3>1
    <3> QED BY <3>2 DEF c
  <2>2. Split(rest) = <<rest>>
    <3>1. ~(Len(Split(rest)) >= 2)
      BY <2>1
    <3> QED BY <3>1, OneRow
  <2>3. Append(done, left \o rest) = Whole(rows)
    <3>1. Join(Append(done, left), <<rest>>) = Append(done, left \o rest)
      BY <1>3, JoinLast
    <3> QED BY <1>3, <1>6, <2>2, <3>1
  <2> DEFINE y == left \o rest
  <2>4. y \in Text
    BY <1>3, Concat
  <2> HIDE DEF y
  <2>5. y = <<>> /\ done = rows
    <3>1. Append(done, y) = Whole(rows)
      BY <2>3 DEF y
    <3>2. <<>> \in Text
      BY DEF Text
    <3> QED BY <1>3, <2>4, <3>1, <3>2, AppendInjective DEF Whole
  <2>6. rest = <<>>
    <3>1. left \o rest = <<>>
      BY <2>5 DEF y
    <3> QED BY <1>3, <3>1 DEF Text
  <2> QED BY <2>5, <2>6
<1>11. Join(Append(done, left), Split(rest)) = Whole(rows)
  BY <1>3, <1>6
<1> QED BY <1>2, <1>3, <1>4, <1>9, <1>10, <1>11 DEF Completes, tokens, done, left

-----------------------------------------------------------------------------
(* Strings. *)

\* A string that starts in a text is a text, and all of it when it holds no NUL.
LEMMA UpToNulIsText ==
    ASSUME NEW s \in Text
    PROVE  /\ UpToNul(s) \in Text
           /\ Printable(s) => UpToNul(s) = s
<1> DEFINE N == Len(s)
           End(i) == (i > N \/ s[i] = 0) /\ \A j \in 1..(i - 1) : s[j] # 0
           end == CHOOSE i \in 1..(N + 1) : End(i)
           T == {i \in 1..(N + 1) : i > N \/ s[i] = 0}
<1>1. N \in Nat /\ DOMAIN s = 1..N
  BY DEF Text
<1>2. PICK e \in T : \A i \in T : e <= i
  <2>1. T \subseteq Nat /\ N + 1 \in T
    BY <1>1
  <2> HIDE DEF T
  <2> QED BY <2>1, Least
<1>3. e \in 1..(N + 1) /\ End(e)
  <2> HIDE DEF N
  <2> QED BY <1>1, <1>2
<1>4. end \in 1..(N + 1) /\ End(end)
  <2> HIDE DEF End, N
  <2> QED BY <1>3
<1>5. UpToNul(s) = SubSeq(s, 1, end - 1)
  BY DEF UpToNul
<1>6. end - 1 \in 0..N
  <2> HIDE DEF end, N
  <2> QED BY <1>1, <1>4
<1>7. Printable(s) => end - 1 = N
  <2> SUFFICES ASSUME Printable(s) PROVE end - 1 = N
    OBVIOUS
  <2>1. \A i \in 1..N : s[i] # 0
    BY <1>1 DEF Printable
  <2> HIDE DEF end, N
  <2> QED BY <1>1, <1>4, <2>1
<1> HIDE DEF end
<1>8. SubSeq(s, 1, end - 1) \in Text
  BY <1>1, <1>6 DEF Text
<1>9. SubSeq(s, 1, N) = s
  BY DEF Text
<1> QED BY <1>5, <1>7, <1>8, <1>9

\* strtok skips one leading TOKEN, nothing else.
LEMMA strtokIsText ==
    ASSUME NEW s \in Text
    PROVE  /\ strtok(s) \in Text
           /\ s # <<>> /\ s[1] = TOKEN => s = <<TOKEN>> \o strtok(s)
<1>1. s # <<>> => Tail(s) \in Text /\ s = <<s[1]>> \o Tail(s)
  BY DEF Text
<1> QED BY <1>1 DEF strtok

\* The bytes of a text from the i-th to the n-th.
LEMMA Cut ==
    ASSUME NEW s \in Text, NEW i \in 1..(Len(s) + 1), NEW n \in (i - 1)..Len(s)
    PROVE  /\ SubSeq(s, i, n) \in Text /\ Len(SubSeq(s, i, n)) = n - i + 1
           /\ \A j \in 1..(n - i + 1) : SubSeq(s, i, n)[j] = s[i + j - 1]
           /\ Printable(s) => Printable(SubSeq(s, i, n))
<1>1. /\ SubSeq(s, i, n) \in Text /\ Len(SubSeq(s, i, n)) = n - i + 1
      /\ \A j \in 1..(n - i + 1) : SubSeq(s, i, n)[j] = s[i + j - 1]
  BY DEF Text
<1>2. DOMAIN SubSeq(s, i, n) = 1..(n - i + 1) /\ DOMAIN s = 1..Len(s)
  BY <1>1 DEF Text
<1>3. \A j \in 1..(n - i + 1) : i + j - 1 \in 1..Len(s)
  BY DEF Text
<1> QED BY <1>1, <1>2, <1>3 DEF Printable

\* The bytes of two texts put together.
LEMMA ConcatTexts ==
    ASSUME NEW x \in Text, NEW y \in Text
    PROVE  /\ x \o y \in Text /\ Len(x \o y) = Len(x) + Len(y)
           /\ \A i \in 1..Len(x) : (x \o y)[i] = x[i]
           /\ \A i \in 1..Len(y) : (x \o y)[Len(x) + i] = y[i]
BY DEF Text

\* A text is what comes up to a byte and what comes after it.
LEMMA CutInTwo ==
    ASSUME NEW s \in Text, NEW i \in 1..(Len(s) + 1), NEW n \in (i - 1)..Len(s)
    PROVE  SubSeq(s, i, Len(s)) = SubSeq(s, i, n) \o SubSeq(s, n + 1, Len(s))
<1> DEFINE N == Len(s)
           a == SubSeq(s, i, n)
           b == SubSeq(s, n + 1, N)
           c == SubSeq(s, i, N)
<1>1. N \in Nat /\ i \in Int /\ n \in Int
  BY DEF Text
<1>2. /\ a \in Text /\ Len(a) = n - i + 1 /\ \A j \in 1..(n - i + 1) : a[j] = s[i + j - 1]
  BY Cut
<1>3. /\ b \in Text /\ Len(b) = N - n /\ \A j \in 1..(N - n) : b[j] = s[n + j]
  <2>1. n + 1 \in 1..(N + 1) /\ N \in ((n + 1) - 1)..N
    BY <1>1
  <2>2. b \in Text /\ Len(b) = N - (n + 1) + 1 /\ \A j \in 1..(N - (n + 1) + 1) : b[j] = s[(n + 1) + j - 1]
    BY <2>1, Cut
  <2> HIDE DEF b, N
  <2>3. N - (n + 1) + 1 = N - n /\ \A j \in Int : (n + 1) + j - 1 = n + j
    BY <1>1
  <2> QED BY <2>2, <2>3
<1>4. /\ c \in Text /\ Len(c) = N - i + 1 /\ \A j \in 1..(N - i + 1) : c[j] = s[i + j - 1]
  <2>1. N \in (i - 1)..N
    BY <1>1
  <2> QED BY <2>1, Cut
<1> HIDE DEF N, a, b, c
<1>5. /\ a \o b \in Seq(Byte) /\ Len(a \o b) = N - i + 1
      /\ \A j \in 1..(N - i + 1) : (a \o b)[j] = s[i + j - 1]
  <2>1. a \o b \in Seq(Byte) /\ Len(a \o b) = Len(a) + Len(b)
    BY <1>2, <1>3, ConcatTexts DEF Text
  <2>2. Len(a \o b) = N - i + 1
    BY <1>1, <1>2, <1>3, <2>1 DEF N
  <2>3. ASSUME NEW j \in 1..(N - i + 1) PROVE (a \o b)[j] = s[i + j - 1]
    <3>1. CASE j <= n - i + 1
      <4>1. j \in 1..(n - i + 1) /\ j \in 1..Len(a)
        BY <1>1, <1>2, <3>1 DEF N
      <4>2. (a \o b)[j] = a[j]
        BY <1>2, <1>3, <4>1, ConcatTexts
      <4> QED BY <1>2, <4>1, <4>2
    <3>2. CASE j > n - i + 1
      <4> DEFINE k == j - Len(a)
      <4>1. k \in 1..(N - n) /\ k = j - (n - i + 1) /\ j = Len(a) + k /\ k \in 1..Len(b) /\ n + k = i + j - 1
        BY <1>1, <1>2, <1>3, <3>2 DEF N
      <4> HIDE DEF k
      <4>2. (a \o b)[Len(a) + k] = b[k]
        BY <1>2, <1>3, <4>1, ConcatTexts
      <4> QED BY <1>3, <4>1, <4>2
    <3>3. j <= n - i + 1 \/ j > n - i + 1
      BY <1>1
    <3> QED BY <3>1, <3>2, <3>3
  <2> QED BY <2>1, <2>2, <2>3
<1>6. c = a \o b
  <2> DEFINE d == a \o b
  <2>1. d \in Seq(Byte) /\ c \in Seq(Byte) /\ Len(d) = Len(c) /\ \A j \in 1..Len(c) : d[j] = c[j]
    BY <1>4, <1>5 DEF Text
  <2> HIDE DEF d
  <2>2. c = d
    BY <2>1
  <2> QED BY <2>2 DEF d
<1> QED BY <1>6 DEF N, a, b, c

-----------------------------------------------------------------------------
(* The invariant. *)

Idle == requests = <<>> /\ wire = <<>>

\* The service has the command still, or is gone without an answer.
Asked(c) ==
    /\ wire = <<>>
    /\ \/ requests = <<c>> /\ service = "ready"
       \/ requests = <<>> /\ service = "closed"

\* The whole answer to a password is on its way.
AuthAnswered ==
    /\ requests = <<>>
    /\ \/ wire = <<SUCCESS, 0>> /\ service \in {"ready", "closed"}
       \/ wire = Failure(CPERROR_INVALID_PASSWORD) /\ service \in {"auth", "closed"}

\* The whole answer to a command is.
Answered ==
    /\ requests = <<>>
    /\ \/ wire # <<>> /\ wire[1] = SUCCESS /\ told.outcome = Done
       \/ \E code \in ErrorCodes : wire = Failure(code) /\ told.outcome = code

\* A list of which nothing was received.
WholeList ==
    /\ requests = <<>> /\ told.outcome = Done
    /\ row_count = 0 /\ printed = <<>> /\ offset = <<>>
    /\ \E names \in Lists :
         LET rows == <<Header>> \o names
         IN  /\ wire = <<SUCCESS, Len(rows)>> \o Lines(rows)
             /\ told.rows = IF names = <<>> THEN <<>> ELSE rows

\* What was printed of a list, the row being received and the bytes on their way
\* make its rows.
RestOfList ==
    /\ requests = <<>> /\ told.outcome = Done
    /\ Len(printed) < Len(told.rows) /\ row_count = Len(told.rows) - Len(printed)
    /\ Join(Append(printed, offset), Split(wire)) = Whole(told.rows)
    /\ Printable(wire)

\* What is on its way, by what the client waits for.
InOrder ==
    /\ pc = "hello" => wire = Hello /\ requests = <<>> /\ service \in {"auth", "closed"}
    /\ pc = "typing" => Idle /\ service \in {"auth", "closed"}
    /\ pc = "auth" =>
         \/ wire = <<>> /\ requests = <<"password">> /\ service = "auth"
         \/ Idle /\ service = "closed"
         \/ AuthAnswered
    /\ pc \in {"prompt", "reply", "list"} => service \in {"ready", "closed"}
    /\ pc = "prompt" =>
         /\ Idle
         /\ ret # NoReturn => ret = told.outcome
         /\ ret = Done /\ cmd = "list" => printed = told.rows
    /\ pc = "reply" => cmd \in {"simple", "metrics"} /\ (Asked(cmd) \/ Answered)
    /\ pc = "list" =>
         /\ cmd = "list"
         /\ \/ Asked("list") /\ row_count = 0 /\ printed = <<>> /\ offset = <<>>
            \/ WholeList
            \/ RestOfList

Types ==
    /\ TypeOK
    /\ pc = "hello" => tries = 0 /\ ~cut
    /\ pc = "typing" => tries <= 2
    /\ pc \in {"hello", "typing", "auth"} => ret = NoReturn
    /\ pc = "list" => row_count >= 0
    /\ requests \in Seq({"password", "simple", "list", "metrics"})
    /\ wire \in Text /\ offset \in Text
    /\ printed \in Seq(Text)
    /\ told \in [outcome : Int, rows : Seq(Text)]

\* What was cut where the client cannot tell is only known to have its types.
Inv == Types /\ (~cut => InOrder)

-----------------------------------------------------------------------------
(* A piece of a list arrives. *)

\* PrintRows keeps the types, whatever the piece.
LEMMA PrintRowsTypes ==
    ASSUME printed \in Seq(Text), offset \in Text, row_count \in -2..255, pc = "list", row_count >= 0,
           NEW piece, NEW text \in Text, NEW rows \in 0..255, PrintRows(piece, text, rows)
    PROVE  /\ pc' \in {"list", "prompt", "returned", "crashed"}
           /\ row_count' \in -2..255 /\ (pc' = "list" => row_count' >= 0)
           /\ offset' \in Text /\ printed' \in Seq(Text)
<1> DEFINE s == strtok(UpToNul(text))
           tokens == Split(s)
           n == Len(tokens) - 1
           lead == piece[1] = TOKEN
           left == FirstRow(rows, lead)
           more == IF n <= 1 \/ left <= 0 THEN 0 ELSE IF left < n - 1 THEN left ELSE n - 1
           beyond == Len(UpToNul(text)) < Len(text)
           firsts == IF lead THEN <<offset, tokens[1]>> ELSE <<offset \o tokens[1]>>
           crash == s = <<>> \/ (beyond /\ left > more)
<1>1. tokens \in Rows /\ Len(tokens) \in Nat \ {0}
  BY UpToNulIsText, strtokIsText, SplitIsRows
<1>2. left \in -2..254 /\ left \in Int
  BY DEF FirstRow
<1> HIDE DEF s, tokens, left, lead
<1>3. n \in Nat
  BY <1>1
<1> HIDE DEF n
<1>4. more \in Nat /\ more <= n /\ (left <= 0 => more = 0) /\ (left > 0 => more <= left)
  BY <1>2, <1>3
<1> HIDE DEF more
<1>5. left - more \in -2..255 /\ (left > more => left - more >= 0)
  BY <1>2, <1>4
<1>6. IF crash THEN pc' = "crashed" /\ UNCHANGED <<row_count, offset, printed, ret>>
      ELSE /\ printed' = printed \o firsts \o SubSeq(tokens, 2, more + 1)
           /\ row_count' = left - more
           /\ offset' = IF n = 0 THEN <<>> ELSE tokens[n + 1]
           /\ IF left > more THEN UNCHANGED <<pc, ret>>
              ELSE Returns(IF left < 0 THEN FAILURE ELSE Done)
  BY DEF PrintRows, s, tokens, n, lead, left, more
<1>7. CASE crash
  BY <1>6, <1>7
<1>8. CASE ~crash
  <2> HIDE DEF crash
  <2>1. printed' \in Seq(Text)
    <3>1. tokens \in Seq(Text) /\ more + 1 \in 1..Len(tokens) /\ tokens[1] \in Text
      BY <1>1, <1>3, <1>4 DEF n, Rows
    <3>2. SubSeq(tokens, 2, more + 1) \in Seq(Text)
      BY <3>1, SubRows
    <3>3. offset \o tokens[1] \in Text
      BY <3>1, Concat
    <3>4. firsts \in Seq(Text)
      <4> DEFINE y == offset \o tokens[1]
      <4>1. y \in Text
        BY <3>3
      <4> HIDE DEF y
      <4>2. <<y>> \in Seq(Text)
        BY <4>1
      <4>3. <<offset, tokens[1]>> \in Seq(Text)
        BY <3>1
      <4> QED BY <4>2, <4>3 DEF y
    <3> HIDE DEF firsts
    <3>5. printed \o firsts \in Seq(Text)
      BY <3>4, ConcatRows
    <3>6. (printed \o firsts) \o SubSeq(tokens, 2, more + 1) \in Seq(Text)
      BY <3>2, <3>5, ConcatRows
    <3> QED BY <1>6, <1>8, <3>6
  <2>2. offset' \in Text
    <3>1. n # 0 => tokens[n + 1] \in Text
      BY <1>1, <1>3 DEF n, Rows
    <3>2. <<>> \in Text
      BY DEF Text
    <3> QED BY <1>6, <1>8, <3>1, <3>2
  <2>3. row_count' \in -2..255
    BY <1>5, <1>6, <1>8
  <2>4. CASE left > more
    BY <1>5, <1>6, <1>8, <2>1, <2>2, <2>3, <2>4
  <2>5. CASE ~(left > more)
    <3>1. pc' \in {"prompt", "returned"}
      <4>1. Returns(IF left < 0 THEN FAILURE ELSE Done)
        BY <1>6, <1>8, <2>5
      <4> QED BY <4>1 DEF Returns, analyze_return
    <3> QED BY <2>1, <2>2, <2>3, <3>1
  <2> QED BY <2>4, <2>5
<1> QED BY <1>7, <1>8

\* PrintRows of a piece that ends a row: what was printed, the row being received
\* and the rest on its way still make the rows of the list.
LEMMA PrintRowsOf ==
    ASSUME printed \in Seq(Text), offset \in Text, pc = "list",
           NEW list \in Seq(Text), NEW text \in Text, NEW rest \in Text, NEW piece, NEW rows,
           Printable(text), HasToken(strtok(text)), piece[1] = TOKEN <=> text[1] = TOKEN,
           Len(printed) < Len(list), rows = Len(list) - Len(printed),
           Join(Append(printed, offset), Split(text \o rest)) = Whole(list),
           PrintRows(piece, text, rows)
    PROVE  \/ /\ pc' = "prompt" /\ ret' = Done
              /\ printed' = list /\ rest = <<>>
           \/ /\ pc' = "list" /\ UNCHANGED ret
              /\ Len(printed') < Len(list) /\ row_count' = Len(list) - Len(printed')
              /\ Join(Append(printed', offset'), Split(rest)) = Whole(list)
<1> DEFINE s == strtok(text)
           tokens == Split(s)
           n == Len(tokens) - 1
           lead == piece[1] = TOKEN
           left == FirstRow(rows, lead)
           more == IF n <= 1 \/ left <= 0 THEN 0 ELSE IF left < n - 1 THEN left ELSE n - 1
           base == IF lead THEN Append(printed, offset) ELSE printed
           last == IF lead THEN <<>> ELSE offset
           firsts == IF lead THEN <<offset, tokens[1]>> ELSE <<offset \o tokens[1]>>
           done == Append(base, last \o tokens[1]) \o SubSeq(tokens, 2, n)
<1>1. UpToNul(text) = text /\ s \in Text /\ text # <<>> /\ s # <<>>
  <2>1. ~HasToken(<<>>)
    BY DEF HasToken
  <2>2. text # <<>>
    BY <2>1 DEF strtok
  <2> QED BY <2>1, <2>2, UpToNulIsText, strtokIsText
<1>2. tokens \in Rows /\ tokens[1] \in Text
  BY <1>1, SplitIsRows, RowsAreTexts
<1>3. base \in Seq(Text) /\ last \in Text /\ Len(base) = IF lead THEN Len(printed) + 1 ELSE Len(printed)
  <2>1. <<>> \in Text
    BY DEF Text
  <2>2. Append(printed, offset) \in Seq(Text) /\ Len(Append(printed, offset)) = Len(printed) + 1
    BY AppendIsRows DEF Rows
  <2> QED BY <2>1, <2>2
<1>4. Join(Append(printed, offset), Split(text)) = Join(Append(base, last), tokens)
  <2>1. CASE lead
    <3> DEFINE p == Append(printed, offset)
    <3>1. p \in Rows
      BY AppendIsRows
    <3>2. <<TOKEN>> \in Text /\ <<>> \in Text /\ TOKEN \in Byte /\ <<TOKEN>> = Append(<<>>, TOKEN)
      BY DEF Text, Byte, TOKEN
    <3>3. Split(<<TOKEN>>) = Fed(<<<<>>>>, TOKEN)
      BY <3>2, SplitAppend, SplitEmpty
    <3>4. <<<<>>>> \in Rows /\ Split(<<TOKEN>>) \in Rows
      BY <3>2, SplitIsRows, SplitEmpty
    <3>5. Join(p, Split(<<TOKEN>>)) = Fed(p, TOKEN)
      BY <3>1, <3>2, <3>3, <3>4, JoinFed, JoinNothing
    <3>6. Fed(p, TOKEN) = Append(base, last)
      BY <2>1 DEF Fed
    <3>7. text = <<TOKEN>> \o s
      BY <1>1, <2>1, strtokIsText
    <3>8. Split(text) = Join(Split(<<TOKEN>>), tokens)
      BY <1>1, <3>2, <3>7, SplitConcat
    <3> HIDE DEF p, base, last, tokens
    <3>9. Join(p, Split(text)) = Join(Join(p, Split(<<TOKEN>>)), tokens)
      BY <1>2, <3>1, <3>4, <3>8, JoinTwice
    <3> QED BY <3>5, <3>6, <3>9 DEF p
  <2>2. CASE ~lead
    <3>1. s = text
      BY <2>2 DEF strtok
    <3> QED BY <2>2, <3>1
  <2> QED BY <2>1, <2>2
<1>5. Join(Join(Append(base, last), tokens), Split(rest)) = Whole(list)
  <2>1. Split(text \o rest) = Join(Split(text), Split(rest))
    BY SplitConcat
  <2>2. Append(printed, offset) \in Rows /\ Split(text) \in Rows /\ Split(rest) \in Rows
    BY AppendIsRows, SplitIsRows
  <2>3. Join(Append(printed, offset), Join(Split(text), Split(rest)))
          = Join(Join(Append(printed, offset), Split(text)), Split(rest))
    BY <2>2, JoinTwice
  <2> QED BY <1>4, <2>1, <2>3
<1>6. /\ n \in Nat \ {0}
      /\ done \in Seq(Text) /\ tokens[n + 1] \in Text
      /\ Len(done) = Len(base) + n /\ Len(done) <= Len(list)
      /\ Join(Append(done, tokens[n + 1]), Split(rest)) = Whole(list)
      /\ Len(done) = Len(list) => done = list /\ rest = <<>>
  <2>1. HasToken(s) /\ s \in Text
    BY <1>1
  <2>2. base \in Seq(Text) /\ last \in Text
    BY <1>3
  <2>3. Join(Join(Append(base, last), Split(s)), Split(rest)) = Whole(list)
    BY <1>5
  <2> HIDE DEF base, last, s, lead, left, more, firsts
  <2>4. Completes(base, last, s, rest, list)
    <3> HIDE DEF tokens, n, done
    <3> QED BY <2>1, <2>2, <2>3, RowsOfPiece
  <2> QED BY <2>4 DEF Completes
<1>7. done = printed \o firsts \o SubSeq(tokens, 2, n)
  <2>1. Append(base, last \o tokens[1]) = printed \o firsts
    <3>1. CASE lead
      <4>1. <<>> \o tokens[1] = tokens[1]
        BY <1>2, Concat
      <4> DEFINE y == tokens[1]
      <4>2. y \in Text /\ <<>> \o y = y
        BY <1>2, <4>1
      <4> HIDE DEF y
      <4>3. Append(printed, offset) \o <<y>> = printed \o <<offset, y>>
        BY <4>2
      <4> QED BY <3>1, <4>2, <4>3 DEF y
    <3>2. CASE ~lead
      <4> DEFINE y == offset \o tokens[1]
      <4>1. y \in Text
        BY <1>2, Concat
      <4> HIDE DEF y
      <4>2. Append(printed, y) = printed \o <<y>>
        BY <4>1
      <4> QED BY <3>2, <4>2 DEF y
    <3> QED BY <3>1, <3>2
  <2> HIDE DEF base, last, firsts, tokens
  <2> QED BY <2>1
<1>8. Len(printed) \in Nat /\ Len(list) \in Nat /\ Len(base) \in Nat
  BY <1>3
<1>9. left = Len(list) - Len(base) - 1 /\ left >= n - 1
  <2> HIDE DEF base, done, tokens, lead
  <2>1. Len(base) + n <= Len(list)
    BY <1>6
  <2>2. left = IF lead THEN rows - 2 ELSE rows - 1
    BY DEF FirstRow
  <2> HIDE DEF n, left
  <2> QED BY <1>3, <1>6, <1>8, <2>1, <2>2
<1>10. more = n - 1 /\ left \in Int /\ n \in Int
  <2> HIDE DEF left, n
  <2>1. left \in Int
    BY <1>8, <1>9
  <2> QED BY <1>6, <1>9, <2>1
<1> HIDE DEF base, last, left, n, more, done, firsts
<1>11. /\ printed' = printed \o firsts \o SubSeq(tokens, 2, more + 1)
       /\ row_count' = left - more
       /\ offset' = IF n = 0 THEN <<>> ELSE tokens[n + 1]
       /\ IF left > more THEN UNCHANGED <<pc, ret>>
          ELSE Returns(IF left < 0 THEN FAILURE ELSE Done)
  <2>1. ~(Len(text) < Len(text))
    BY DEF Text
  <2> QED BY <1>1, <2>1 DEF PrintRows, s, tokens, n, lead, left, more, firsts
<1>12. printed' = done /\ offset' = tokens[n + 1] /\ row_count' = Len(list) - Len(done)
  <2>1. more + 1 = n /\ n # 0
    BY <1>6, <1>10
  <2>2. left - more = Len(list) - Len(done)
    BY <1>6, <1>8, <1>9, <1>10
  <2> QED BY <1>7, <1>11, <2>1, <2>2
<1>13. left > more <=> Len(done) < Len(list)
  BY <1>6, <1>8, <1>9, <1>10
<1>14. CASE left > more
  BY <1>6, <1>11, <1>12, <1>13, <1>14
<1>15. CASE ~(left > more)
  <2>1. Len(done) = Len(list)
    BY <1>6, <1>8, <1>13, <1>15
  <2>2. ~(left < 0)
    BY <1>6, <1>9, <1>10
  <2>3. Returns(Done)
    BY <1>11, <1>15, <2>2
  <2>4. pc' = "prompt" /\ ret' = Done
    BY <2>3 DEF Returns, analyze_return, Done, Failed, NoMore, CPERROR_GENERAL_ERROR
  <2> QED BY <1>6, <1>12, <2>1, <2>4
<1> QED BY <1>14, <1>15

-----------------------------------------------------------------------------
(* The answers. *)

\* An answer of two bytes and a text.
LEMMA BehindTwo ==
    ASSUME NEW a \in Byte, NEW b \in Byte, NEW s \in Text
    PROVE  LET w == <<a, b>> \o s
           IN  /\ w \in Text /\ Len(w) = 2 + Len(s) /\ w[1] = a /\ w[2] = b
               /\ \A i \in 1..Len(s) : w[2 + i] = s[i]
               /\ SubSeq(w, 3, Len(w)) = s
<1> DEFINE h == <<a, b>>
           w == h \o s
<1>1. h \in Text /\ Len(h) = 2 /\ h[1] = a /\ h[2] = b
  BY DEF Text
<1> HIDE DEF h
<1>2. /\ w \in Text /\ Len(w) = 2 + Len(s) /\ w[1] = a /\ w[2] = b
      /\ \A i \in 1..Len(s) : w[2 + i] = s[i]
  <2>1. /\ w \in Text /\ Len(w) = Len(h) + Len(s)
        /\ \A i \in 1..Len(h) : w[i] = h[i]
        /\ \A i \in 1..Len(s) : w[Len(h) + i] = s[i]
    BY <1>1, ConcatTexts
  <2>2. 1 \in 1..Len(h) /\ 2 \in 1..Len(h)
    BY <1>1
  <2> HIDE DEF w
  <2> QED BY <1>1, <2>1, <2>2
<1>3. SubSeq(w, 3, Len(w)) = s
  <2> DEFINE d == SubSeq(w, 3, Len(w))
  <2>1. Len(s) \in Nat
    BY DEF Text
  <2> HIDE DEF w
  <2>2. 3 \in 1..(Len(w) + 1) /\ Len(w) \in (3 - 1)..Len(w)
    BY <1>2, <2>1
  <2>3. d \in Text /\ Len(d) = Len(w) - 3 + 1 /\ \A j \in 1..(Len(w) - 3 + 1) : d[j] = w[3 + j - 1]
    BY <1>2, <2>2, Cut
  <2> HIDE DEF d
  <2>4. Len(d) = Len(s) /\ \A j \in 1..Len(s) : d[j] = s[j]
    <3>1. Len(w) - 3 + 1 = Len(s)
      BY <1>2, <2>1
    <3>2. ASSUME NEW j \in 1..Len(s) PROVE d[j] = s[j]
      <4>1. 3 + j - 1 = 2 + j
        BY <2>1
      <4> QED BY <1>2, <2>3, <3>1, <4>1
    <3> QED BY <2>3, <3>1, <3>2
  <2>5. d = s
    BY <2>3, <2>4 DEF Text
  <2> QED BY <2>5 DEF d
<1> QED BY <1>2, <1>3 DEF h

\* The answers without data, and the hello, are texts.
LEMMA Answers ==
    /\ <<>> \in Text /\ Hello \in Text /\ <<SUCCESS>> \in Text /\ <<SUCCESS, 0>> \in Text
    /\ Hello[1] = SUCCESS /\ <<SUCCESS>>[1] = SUCCESS /\ <<SUCCESS, 0>>[1] = SUCCESS
    /\ <<SUCCESS>> # <<>> /\ <<SUCCESS, 0>> # <<>>
BY DEF Text, Hello, Byte, SUCCESS, HAS_DATA, TOKEN

\* An error's answer carries its code in the third byte.
LEMMA Failures ==
    ASSUME NEW code \in Byte
    PROVE  /\ Failure(code) \in Text /\ Len(Failure(code)) = 4
           /\ Failure(code)[1] = FAILURE /\ Failure(code)[2] = HAS_DATA /\ Failure(code)[3] = code
BY DEF Text, Failure, Byte, FAILURE, HAS_DATA, TOKEN

\* The rows of a list make a text of which they are the rows.
LEMMA ListRows ==
    ASSUME NEW names \in Lists
    PROVE  LET rows == <<Header>> \o names
           IN  /\ rows \in Seq(Text) /\ Len(rows) = Len(names) + 1 /\ Len(rows) \in 1..255
               /\ Lines(rows) \in Text /\ Split(Lines(rows)) = Whole(rows)
               /\ Printable(Lines(rows)) /\ Lines(rows) # <<>> /\ Lines(rows)[1] # TOKEN
<1> DEFINE h == <<Header>>
           rows == h \o names
<1>1. names \in Seq(Seq(Byte \ {0, TOKEN}) \ {<<>>}) /\ Len(names) < 255 /\ Len(names) \in Nat
  BY ClientAssumption
<1>2. /\ Header \in Text /\ Printable(Header) /\ ~HasToken(Header) /\ Header # <<>> /\ Header[1] # TOKEN
  BY DEF Header, Text, Byte, Printable, HasToken, TOKEN
<1>3. h \in Seq(Text) /\ Len(h) = 1 /\ h[1] = Header
  <2> DEFINE x == Header
  <2>1. x \in Text
    BY <1>2
  <2> HIDE DEF x
  <2>2. <<x>> \in Seq(Text) /\ Len(<<x>>) = 1 /\ <<x>>[1] = x
    BY <2>1
  <2> QED BY <2>2 DEF x
<1>4. ASSUME NEW i \in 1..Len(names)
      PROVE  names[i] \in Text /\ Printable(names[i]) /\ ~HasToken(names[i])
  <2>1. names[i] \in Seq(Byte \ {0, TOKEN})
    BY <1>1
  <2> DEFINE x == names[i]
  <2> HIDE DEF x
  <2>2. x \in Seq(Byte \ {0, TOKEN})
    BY <2>1 DEF x
  <2>3. x \in Text /\ \A j \in DOMAIN x : x[j] # 0 /\ x[j] # TOKEN
    BY <2>2 DEF Text
  <2> QED BY <2>3 DEF x, Printable, HasToken
<1>5. names \in Seq(Text)
  BY <1>1, <1>4
<1> HIDE DEF h
<1>6. /\ rows \in Seq(Text) /\ Len(rows) = Len(names) + 1
      /\ rows[1] = Header /\ \A i \in 1..Len(names) : rows[1 + i] = names[i]
  <2>1. /\ rows \in Seq(Text) /\ Len(rows) = Len(h) + Len(names)
        /\ \A i \in 1..Len(h) : rows[i] = h[i]
        /\ \A i \in 1..Len(names) : rows[Len(h) + i] = names[i]
    BY <1>3, <1>5, ConcatRows
  <2>2. 1 \in 1..Len(h)
    BY <1>3
  <2> HIDE DEF rows
  <2>3. Len(rows) = Len(names) + 1
    <3> DEFINE m == Len(names)
    <3> HIDE DEF m
    <3>1. m \in Nat /\ Len(rows) = 1 + m
      BY <1>1, <1>3, <2>1 DEF m
    <3>2. Len(rows) = m + 1
      BY <3>1
    <3> QED BY <3>2 DEF m
  <2> QED BY <1>3, <2>1, <2>2, <2>3
<1> HIDE DEF rows
<1>7. \A i \in 1..Len(rows) : Printable(rows[i]) /\ ~HasToken(rows[i])
  <2> SUFFICES ASSUME NEW i \in 1..Len(rows) PROVE Printable(rows[i]) /\ ~HasToken(rows[i])
    OBVIOUS
  <2>1. CASE i = 1
    BY <1>2, <1>6, <2>1
  <2>2. CASE i # 1
    <3>1. i - 1 \in 1..Len(names) /\ 1 + (i - 1) = i
      BY <1>1, <1>6, <2>2
    <3> QED BY <1>4, <1>6, <3>1
  <2> QED BY <2>1, <2>2
<1>8. Len(rows) > 0 /\ Len(rows) \in 1..255
  <2> DEFINE m == Len(names)
  <2> HIDE DEF m
  <2>1. m \in Nat /\ m < 255 /\ Len(rows) = m + 1
    BY <1>1, <1>6 DEF m
  <2> QED BY <2>1
<1>9. rows[1] # <<>>
  BY <1>2, <1>6
<1>10. /\ Lines(rows) \in Text /\ Split(Lines(rows)) = Append(rows, <<>>)
       /\ Printable(Lines(rows)) /\ Lines(rows) # <<>> /\ Lines(rows)[1] = rows[1][1]
  BY <1>6, <1>7, <1>8, <1>9, SplitLines
<1> QED BY <1>2, <1>6, <1>8, <1>10 DEF Whole, rows, h

\* The counts and the rows of metrics.
LEMMA Metrics ==
    LET bytes == <<SUCCESS, 2>> \o Lines(<<<<99>>, <<57>>>>)
    IN  bytes \in Text /\ bytes # <<>> /\ bytes[1] = SUCCESS
<1> DEFINE x == <<99>>
           y == <<57>>
           rows == <<x, y>>
<1>1. /\ x \in Text /\ Printable(x) /\ ~HasToken(x)
      /\ y \in Text /\ Printable(y) /\ ~HasToken(y)
  BY DEF Text, Byte, Printable, HasToken, TOKEN
<1> HIDE DEF x, y
<1>2. rows \in Seq(Text) /\ \A i \in 1..Len(rows) : Printable(rows[i]) /\ ~HasToken(rows[i])
  BY <1>1
<1> HIDE DEF rows
<1>3. Lines(rows) \in Text
  BY <1>2, SplitLines
<1> DEFINE s == Lines(rows)
           w == <<SUCCESS, 2>> \o s
<1> HIDE DEF s
<1>4. SUCCESS \in Byte /\ 2 \in Byte /\ s \in Text /\ Len(s) \in Nat
  BY <1>3 DEF Byte, SUCCESS, s, Text
<1>5. w \in Text /\ Len(w) = 2 + Len(s) /\ w[1] = SUCCESS
  BY <1>4, BehindTwo
<1>6. w # <<>>
  <2> HIDE DEF w
  <2> QED BY <1>4, <1>5
<1> QED BY <1>5, <1>6 DEF w, s, rows, x, y

\* What one recv takes and what it leaves.
LEMMA Recv ==
    ASSUME wire \in Text, NEW n \in 1..Len(wire), Take(n)
    PROVE  /\ wire # <<>> /\ Received(n) \in Text /\ Len(Received(n)) = n
           /\ \A i \in 1..n : Received(n)[i] = wire[i]
           /\ wire' \in Text /\ (Printable(wire) => Printable(Received(n)) /\ Printable(wire'))
           /\ wire = Received(n) \o wire'
           /\ n = Len(wire) => Received(n) = wire /\ wire' = <<>>
           /\ UNCHANGED <<service, requests, told>>
<1> DEFINE N == Len(wire)
<1>1. N \in Nat /\ n \in 1..N /\ wire # <<>>
  BY DEF Text
<1>2. wire' = SubSeq(wire, n + 1, N) /\ UNCHANGED <<service, requests, told>>
  BY DEF Take
<1>3. 1 \in 1..(N + 1) /\ n \in (1 - 1)..N /\ n + 1 \in 1..(N + 1) /\ N \in ((n + 1) - 1)..N
  <2> HIDE DEF N
  <2> QED BY <1>1
<1>4. /\ Received(n) \in Text /\ Len(Received(n)) = n - 1 + 1
      /\ \A j \in 1..(n - 1 + 1) : Received(n)[j] = wire[1 + j - 1]
      /\ Printable(wire) => Printable(Received(n))
  BY <1>3, Cut DEF Received
<1>5. /\ SubSeq(wire, n + 1, N) \in Text
      /\ Printable(wire) => Printable(SubSeq(wire, n + 1, N))
  BY <1>3, Cut
<1>6. SubSeq(wire, 1, N) = Received(n) \o SubSeq(wire, n + 1, N)
  BY <1>3, CutInTwo DEF Received
<1>7. SubSeq(wire, 1, N) = wire
  BY DEF Text
<1>8. Len(Received(n)) = n /\ \A i \in 1..n : Received(n)[i] = wire[i]
  <2>1. n - 1 + 1 = n /\ \A i \in Int : 1 + i - 1 = i
    OBVIOUS
  <2> QED BY <1>4, <2>1
<1>9. n = N => SubSeq(wire, n + 1, N) = <<>> /\ Received(n) = wire
  <2>1. SubSeq(wire, N + 1, N) = <<>>
    BY DEF Text
  <2> QED BY <1>7, <2>1 DEF Received
<1> QED BY <1>1, <1>2, <1>4, <1>5, <1>6, <1>7, <1>8, <1>9

-----------------------------------------------------------------------------
(* Each action keeps the invariant. *)

\* Nothing was received: the hello is on its way.
LEMMA InvInit == Init => Inv
<1>0. SUFFICES ASSUME Init PROVE Inv
  OBVIOUS
<1>1. TypeOK
  <2>1. /\ pc = "hello" /\ tries = 0 /\ row_count = 0 /\ typed = 0
        /\ service = "auth" /\ cut = FALSE
    BY <1>0 DEF Init
  <2>2. MaxCommands \in Nat
    BY ClientAssumption
  <2>3. 0 \in 0..MaxCommands /\ 0 \in -2..255 /\ 0 \in 0..3
    BY <2>2
  <2>4. pc \in {"hello"} \cup Ended
    BY <2>1
  <2> QED BY <2>1, <2>3, <2>4, Zenon DEF TypeOK
<1> USE <1>0 DEF Init
<1>2. wire \in Text /\ offset \in Text
  BY Answers
<1>3. requests \in Seq({"password", "simple", "list", "metrics"}) /\ printed \in Seq(Text)
  OBVIOUS
<1>4. told \in [outcome : Int, rows : Seq(Text)]
  BY DEF NoReturn
<1>5. Types
  BY <1>1, <1>2, <1>3, <1>4 DEF Types
<1>6. InOrder
  BY DEF InOrder
<1> QED BY <1>5, <1>6 DEF Inv

\* The hello is received whole, or cut.
LEMMA HelloArrivesInv == Inv /\ HelloArrives => Inv'
<1> SUFFICES ASSUME Inv, HelloArrives PROVE Inv'
  OBVIOUS
<1>1. PICK n \in 1..Len(wire) :
        /\ Take(n)
        /\ pc' = IF wire[1] = SUCCESS THEN "typing" ELSE "returned"
        /\ cut' = (n < Len(wire))
  BY DEF HelloArrives
<1>2. /\ pc = "hello" /\ UNCHANGED <<tries, cmd, row_count, offset, printed, ret, typed>>
      /\ pc' \in {"typing", "returned"}
  BY <1>1 DEF HelloArrives
<1>3. Types
  BY DEF Inv
<1>4. wire' \in Text /\ (n = Len(wire) => wire' = <<>>) /\ UNCHANGED <<service, requests, told>>
  BY <1>1, <1>3, Recv DEF Types
<1>5. Types'
  <2>1. cut' \in BOOLEAN
    <3>1. (n < Len(wire)) \in BOOLEAN
      BY <1>3 DEF Types, Text
    <3> QED BY <1>1, <3>1, Zenon
  <2>2. TypeOK' /\ tries' = 0 /\ ret' = NoReturn
    BY <1>2, <1>3, <1>4, <2>1 DEF Types, TypeOK, Ended
  <2> QED BY <1>2, <1>3, <1>4, <2>2 DEF Types
<1>6. ASSUME ~cut' PROVE InOrder'
  <2>1. Len(wire) \in Nat
    BY <1>3 DEF Types, Text
  <2>2. n = Len(wire)
    <3>1. ~(n < Len(wire))
      BY <1>1, <1>6, Zenon
    <3> QED BY <2>1, <3>1
  <2>3. wire' = <<>>
    BY <1>4, <2>2
  <2>4. requests = <<>> /\ service \in {"auth", "closed"}
    BY <1>2, <1>3 DEF Inv, InOrder, Types
  <2> QED BY <1>2, <1>4, <2>3, <2>4 DEF InOrder, Idle
<1> QED BY <1>5, <1>6 DEF Inv

\* A password is sent, or lost with the connection.
LEMMA TypePasswordInv == Inv /\ TypePassword => Inv'
<1> SUFFICES ASSUME Inv, TypePassword PROVE Inv'
  OBVIOUS
<1>1. /\ pc = "typing" /\ Send("password", "auth") /\ tries' = tries + 1
      /\ UNCHANGED <<cmd, row_count, offset, printed, ret, typed, cut>>
  BY DEF TypePassword
<1>2. /\ requests' = IF service = "closed" THEN requests ELSE Append(requests, "password")
      /\ UNCHANGED <<service, wire, told>>
      /\ pc' = "auth" \/ (service = "closed" /\ pc' = "killed")
  BY <1>1 DEF Send
<1>3. Types
  BY DEF Inv
<1>4. Types'
  <2>1. tries' \in 0..3
    BY <1>1, <1>3 DEF Types, TypeOK
  <2>2. TypeOK'
    BY <1>1, <1>2, <1>3, <2>1 DEF Types, TypeOK, Ended
  <2>3. requests' \in Seq({"password", "simple", "list", "metrics"})
    BY <1>2, <1>3 DEF Types
  <2> QED BY <1>1, <1>2, <1>3, <2>2, <2>3 DEF Types
<1>5. ASSUME ~cut' PROVE InOrder'
  <2>1. requests = <<>> /\ wire = <<>> /\ service \in {"auth", "closed"}
    BY <1>1, <1>5 DEF Inv, InOrder, Idle
  <2>2. Append(<<>>, "password") = <<"password">>
    OBVIOUS
  <2> QED BY <1>1, <1>2, <2>1, <2>2 DEF InOrder, Idle
<1> QED BY <1>4, <1>5 DEF Inv

\* The answer to a password.
LEMMA AuthAnswerArrivesInv == Inv /\ AuthAnswerArrives => Inv'
<1> SUFFICES ASSUME Inv, AuthAnswerArrives PROVE Inv'
  OBVIOUS
<1>1. PICK n \in 1..Len(wire) :
        /\ Take(n)
        /\ \E r \in receive_simple_response(Received(n)) : pc' = admin_auth(r)
        /\ cut' = (cut \/ n < Len(wire))
  BY DEF AuthAnswerArrives
<1>2. PICK r \in receive_simple_response(Received(n)) : pc' = admin_auth(r)
  BY <1>1
<1>3. pc = "auth" /\ UNCHANGED <<tries, cmd, row_count, offset, printed, ret, typed>>
  BY DEF AuthAnswerArrives
<1>4. Types
  BY DEF Inv
<1>5. /\ wire # <<>> /\ wire' \in Text /\ UNCHANGED <<service, requests, told>>
      /\ n = Len(wire) => wire' = <<>> /\ Received(n) = wire
  BY <1>1, <1>4, Recv DEF Types
<1>6. pc' \in {"prompt", "typing", "returned"} /\ (pc' = "typing" => tries # 3)
  BY <1>2 DEF admin_auth
<1>7. Types'
  <2>1. pc' = "typing" => tries' <= 2
    BY <1>3, <1>4, <1>6 DEF Types, TypeOK
  <2>2. TypeOK'
    BY <1>1, <1>3, <1>4, <1>5, <1>6 DEF Types, TypeOK, Ended
  <2> QED BY <1>3, <1>4, <1>5, <1>6, <2>1, <2>2 DEF Types
<1>8. ASSUME ~cut' PROVE InOrder'
  <2>1. Len(wire) \in Nat
    BY <1>4 DEF Types, Text
  <2>2. n = Len(wire) /\ ~cut
    <3>1. ~(n < Len(wire)) /\ ~cut
      BY <1>1, <1>8, Zenon
    <3> QED BY <2>1, <3>1
  <2>3. wire' = <<>> /\ r \in receive_simple_response(wire)
    BY <1>2, <1>5, <2>2
  <2>4. AuthAnswered
    BY <1>3, <1>5, <2>2 DEF Inv, InOrder, Idle
  <2>5. CASE wire = <<SUCCESS, 0>> /\ service \in {"ready", "closed"}
    <3>1. r = Done
      BY <2>3, <2>5, Answers DEF receive_simple_response, SUCCESS, FAILURE
    <3>2. pc' = "prompt"
      BY <1>2, <3>1 DEF admin_auth
    <3>3. Idle'
      BY <1>5, <2>3, <2>4 DEF Idle, AuthAnswered
    <3>4. ret' = NoReturn /\ NoReturn # Done
      BY <1>3, <1>4 DEF Types, NoReturn, Done
    <3> QED BY <1>5, <2>5, <3>2, <3>3, <3>4 DEF InOrder
  <2>6. CASE wire = Failure(CPERROR_INVALID_PASSWORD) /\ service \in {"auth", "closed"}
    <3>1. r = CPERROR_INVALID_PASSWORD
      <4>1. CPERROR_INVALID_PASSWORD \in Byte
        BY DEF CPERROR_INVALID_PASSWORD, Byte
      <4> DEFINE f == Failure(CPERROR_INVALID_PASSWORD)
      <4>2. Len(f) = 4 /\ f[1] = FAILURE /\ f[2] = HAS_DATA /\ f[3] = CPERROR_INVALID_PASSWORD
        BY <4>1, Failures
      <4> HIDE DEF f
      <4>3. r \in receive_simple_response(f)
        BY <2>3, <2>6 DEF f
      <4> QED BY <4>2, <4>3 DEF receive_simple_response
    <3>2. pc' \in {"typing", "returned"}
      BY <1>2, <3>1 DEF admin_auth, CPERROR_INVALID_PASSWORD, Done, NoMore
    <3>3. Idle'
      BY <1>5, <2>3, <2>4 DEF Idle, AuthAnswered
    <3> QED BY <1>5, <2>6, <3>2, <3>3 DEF InOrder
  <2> QED BY <2>4, <2>5, <2>6 DEF AuthAnswered
<1> QED BY <1>7, <1>8 DEF Inv

\* A command is sent with nothing on its way.
LEMMA CommandInv ==
    ASSUME Inv, NEW c \in {"simple", "list", "metrics"}, Command(c)
    PROVE  Inv'
<1>1. /\ pc = "prompt" /\ typed < MaxCommands
      /\ cmd' = c /\ typed' = typed + 1 /\ printed' = <<>> /\ ret' = NoReturn
      /\ row_count' = 0 /\ offset' = <<>>
      /\ UNCHANGED <<tries, cut>>
  BY DEF Command
<1>2. /\ requests' = IF service = "closed" THEN requests ELSE Append(requests, c)
      /\ UNCHANGED <<service, wire, told>>
      /\ \/ pc' = IF c = "list" THEN "list" ELSE "reply"
         \/ service = "closed" /\ pc' = "killed"
  BY DEF Command, Send
<1>3. Types
  BY DEF Inv
<1>4. Types'
  <2>1. typed' \in 0..MaxCommands
    BY <1>1, <1>3, ClientAssumption DEF Types, TypeOK
  <2>2. TypeOK'
    BY <1>1, <1>2, <1>3, <2>1 DEF Types, TypeOK, Ended
  <2>3. requests' \in Seq({"password", "simple", "list", "metrics"})
    BY <1>2, <1>3 DEF Types
  <2>4. printed' \in Seq(Text) /\ offset' \in Text
    BY <1>1, Answers
  <2> QED BY <1>1, <1>2, <1>3, <2>2, <2>3, <2>4 DEF Types
<1>5. ASSUME ~cut' PROVE InOrder'
  <2>1. requests = <<>> /\ wire = <<>> /\ service \in {"ready", "closed"}
    BY <1>1, <1>5 DEF Inv, InOrder, Idle
  <2>2. Append(<<>>, c) = <<c>>
    OBVIOUS
  <2>3. Asked(c)'
    BY <1>1, <1>2, <2>1, <2>2 DEF Asked
  <2>4. CASE pc' = "killed"
    BY <2>4 DEF InOrder
  <2>5. CASE pc' = "list" /\ c = "list"
    BY <1>1, <1>2, <2>1, <2>3, <2>5 DEF InOrder
  <2>6. CASE pc' = "reply" /\ c \in {"simple", "metrics"}
    BY <1>1, <1>2, <2>1, <2>3, <2>6 DEF InOrder
  <2> QED BY <1>2, <2>4, <2>5, <2>6
<1> QED BY <1>4, <1>5 DEF Inv

\* Lines that send nothing.
LEMMA OtherLineInv == Inv /\ OtherLine => Inv'
<1> SUFFICES ASSUME Inv, OtherLine PROVE Inv'
  OBVIOUS
<1>1. /\ pc = "prompt" /\ typed < MaxCommands /\ typed' = typed + 1
      /\ UNCHANGED <<tries, cmd, row_count, offset, printed, ret, cut>>
      /\ UNCHANGED <<service, requests, wire, told>>
  BY DEF OtherLine, serviceVars
<1>2. pc' \in {"prompt", "returned", "crashed"}
  BY DEF OtherLine, analyze_return
<1>3. Types
  BY DEF Inv
<1>4. Types'
  <2>1. typed' \in 0..MaxCommands
    BY <1>1, <1>3, ClientAssumption DEF Types, TypeOK
  <2> QED BY <1>1, <1>2, <1>3, <2>1 DEF Types, TypeOK, Ended
<1>5. ASSUME ~cut' PROVE InOrder'
  BY <1>1, <1>2, <1>5 DEF Inv, InOrder, Idle
<1> QED BY <1>4, <1>5 DEF Inv

\* The answer to a command that is not list_users.
LEMMA ReplyArrivesInv == Inv /\ ReplyArrives => Inv'
<1> SUFFICES ASSUME Inv, ReplyArrives PROVE Inv'
  OBVIOUS
<1>1. PICK n \in 1..Len(wire) :
        /\ Take(n)
        /\ cut' = (cut \/ n < Len(wire))
        /\ \/ \E r \in receive_simple_response(Received(n)) : Returns(r)
           \/ pc' = "crashed"
  BY DEF ReplyArrives
<1>2. pc = "reply" /\ UNCHANGED <<tries, cmd, row_count, offset, printed, typed>>
  BY DEF ReplyArrives
<1>3. Types
  BY DEF Inv
<1>4. /\ wire # <<>> /\ wire' \in Text /\ UNCHANGED <<service, requests, told>>
      /\ n = Len(wire) => wire' = <<>> /\ Received(n) = wire
  BY <1>1, <1>3, Recv DEF Types
<1>5. pc' \in {"prompt", "returned", "crashed"}
  BY <1>1 DEF Returns, analyze_return
<1>6. Types'
  <2>1. TypeOK'
    BY <1>1, <1>2, <1>3, <1>4, <1>5 DEF Types, TypeOK, Ended
  <2> QED BY <1>2, <1>3, <1>4, <1>5, <2>1 DEF Types
<1>7. ASSUME ~cut' PROVE InOrder'
  <2>1. Len(wire) \in Nat
    BY <1>3 DEF Types, Text
  <2>2. n = Len(wire) /\ ~cut
    <3>1. ~(n < Len(wire)) /\ ~cut
      BY <1>1, <1>7, Zenon
    <3> QED BY <2>1, <3>1
  <2>3. wire' = <<>> /\ Received(n) = wire
    BY <1>4, <2>2
  <2>4. Answered /\ cmd \in {"simple", "metrics"} /\ service \in {"ready", "closed"}
    BY <1>2, <1>4, <2>2 DEF Inv, InOrder, Asked
  <2>5. CASE pc' = "crashed"
    BY <2>5 DEF InOrder
  <2>6. ASSUME NEW r \in receive_simple_response(wire), Returns(r) PROVE InOrder'
    <3>1. r = told.outcome
      <4>1. CASE wire[1] = SUCCESS /\ told.outcome = Done
        BY <2>6, <4>1 DEF receive_simple_response, SUCCESS, FAILURE
      <4>2. ASSUME NEW code \in ErrorCodes, wire = Failure(code), told.outcome = code
            PROVE  r = told.outcome
        <5> DEFINE f == Failure(code)
        <5>1. Len(f) = 4 /\ f[1] = FAILURE /\ f[2] = HAS_DATA /\ f[3] = code
          BY ClientAssumption, Failures
        <5> HIDE DEF f
        <5>2. r \in receive_simple_response(f)
          BY <2>6, <4>2 DEF f
        <5> QED BY <4>2, <5>1, <5>2 DEF receive_simple_response
      <4> QED BY <2>4, <4>1, <4>2 DEF Answered
    <3>2. ret' = told'.outcome /\ pc' \in {"prompt", "returned"}
      BY <1>4, <2>6, <3>1 DEF Returns, analyze_return
    <3>3. Idle'
      BY <1>4, <2>3, <2>4 DEF Idle, Answered
    <3> QED BY <1>2, <1>4, <2>4, <3>2, <3>3 DEF InOrder
  <2> QED BY <1>1, <2>3, <2>5, <2>6
<1> QED BY <1>6, <1>7 DEF Inv

\* The stream ends with nothing on its way.
LEMMA EndOfStreamInv == Inv /\ EndOfStream => Inv'
<1> SUFFICES ASSUME Inv, EndOfStream PROVE Inv'
  OBVIOUS
<1>1. /\ service = "closed" /\ wire = <<>>
      /\ UNCHANGED <<tries, cmd, row_count, offset, printed, typed, cut>>
      /\ UNCHANGED <<service, requests, wire, told>>
  BY DEF EndOfStream, serviceVars
<1>2. \/ pc' = "returned"
      \/ pc = "auth" /\ pc' = "typing" /\ tries # 3 /\ UNCHANGED ret
  BY DEF EndOfStream, admin_auth, Returns, analyze_return, NoMore, Failed, Done
<1>3. Types
  BY DEF Inv
<1>4. Types'
  <2>1. pc' = "typing" => tries' <= 2 /\ ret' = NoReturn
    BY <1>1, <1>2, <1>3 DEF Types, TypeOK
  <2>2. TypeOK'
    BY <1>1, <1>2, <1>3 DEF Types, TypeOK, Ended
  <2> QED BY <1>1, <1>2, <1>3, <2>1, <2>2 DEF Types
<1>5. ASSUME ~cut' PROVE InOrder'
  <2>1. CASE pc' = "returned"
    BY <2>1 DEF InOrder
  <2>2. CASE pc = "auth" /\ pc' = "typing"
    <3>1. requests = <<>>
      BY <1>1, <1>5, <2>2 DEF Inv, InOrder, Idle, AuthAnswered
    <3> QED BY <1>1, <2>2, <3>1 DEF InOrder, Idle
  <2> QED BY <1>2, <2>1, <2>2
<1> QED BY <1>4, <1>5 DEF Inv

\* The service may go with its answer on its way.
LEMMA ServiceClosesInv == Inv /\ ServiceCloses => Inv'
<1> SUFFICES ASSUME Inv, ServiceCloses PROVE Inv'
  OBVIOUS
<1>1. /\ service' = "closed" /\ requests' = <<>> /\ UNCHANGED <<wire, told>>
      /\ UNCHANGED <<pc, tries, cmd, row_count, offset, printed, ret, typed, cut>>
  BY DEF ServiceCloses, Closes, clientVars
<1>2. Types
  BY DEF Inv
<1>3. Types'
  BY <1>1, <1>2 DEF Types, TypeOK
<1>4. ASSUME ~cut' PROVE InOrder'
  <2>1. InOrder
    BY <1>1, <1>4 DEF Inv
  <2>2. WholeList => WholeList'
    BY <1>1 DEF WholeList
  <2>3. RestOfList => RestOfList'
    BY <1>1 DEF RestOfList
  <2>4. Answered => Answered'
    BY <1>1 DEF Answered
  <2>5. AuthAnswered => AuthAnswered'
    BY <1>1 DEF AuthAnswered
  <2>6. \A c : Asked(c) => Asked(c)'
    BY <1>1 DEF Asked
  <2> QED BY <1>1, <2>1, <2>2, <2>3, <2>4, <2>5, <2>6 DEF InOrder, Idle
<1> QED BY <1>3, <1>4 DEF Inv

\* What the service's answer to a command adds to the bytes on their way.
LEMMA AnswerCommandIs ==
    ASSUME wire \in Text, NEW c \in {"simple", "list", "metrics"}, AnswerCommand(c)
    PROVE  /\ wire' \in Text /\ told' \in [outcome : Int, rows : Seq(Text)]
           /\ wire = <<>> =>
                IF c = "list"
                  THEN /\ told'.outcome = Done
                       /\ \E names \in Lists :
                            LET rows == <<Header>> \o names
                            IN  /\ wire' = <<SUCCESS, Len(rows)>> \o Lines(rows)
                                /\ told'.rows = IF names = <<>> THEN <<>> ELSE rows
                  ELSE \/ wire' # <<>> /\ wire'[1] = SUCCESS /\ told'.outcome = Done
                       \/ \E code \in ErrorCodes : wire' = Failure(code) /\ told'.outcome = code
<1>1. \A bytes \in Text : wire \o bytes \in Text /\ (wire = <<>> => wire \o bytes = bytes)
  BY Concat
<1>2. Done \in Int /\ <<>> \in Seq(Text)
  BY DEF Done
<1>3. CASE c = "simple"
  <2>1. CASE Answer(<<SUCCESS>>, Done, <<>>)
    <3>1. wire' = wire \o <<SUCCESS>> /\ told' = [outcome |-> Done, rows |-> <<>>]
      BY <2>1 DEF Answer
    <3> DEFINE b == <<SUCCESS>>
    <3>2. b \in Text /\ b # <<>> /\ b[1] = SUCCESS
      BY Answers
    <3> HIDE DEF b
    <3>3. wire' = wire \o b
      BY <3>1 DEF b
    <3>4. told' \in [outcome : Int, rows : Seq(Text)] /\ told'.outcome = Done
      BY <1>2, <3>1
    <3> QED BY <1>1, <1>3, <3>2, <3>3, <3>4
  <2>2. CASE \E code \in ErrorCodes : Answer(Failure(code), code, <<>>)
    <3>1. PICK code \in ErrorCodes : Answer(Failure(code), code, <<>>)
      BY <2>2
    <3>2. wire' = wire \o Failure(code) /\ told' = [outcome |-> code, rows |-> <<>>]
      BY <3>1 DEF Answer
    <3>3. code \in Byte /\ Failure(code) \in Text
      BY ClientAssumption, Failures
    <3>4. code \in Int
      BY <3>3 DEF Byte
    <3>5. told' \in [outcome : Int, rows : Seq(Text)] /\ told'.outcome = code
      BY <1>2, <3>2, <3>4
    <3> QED BY <1>1, <1>3, <3>2, <3>3, <3>5
  <2> QED BY <1>3, <2>1, <2>2 DEF AnswerCommand
<1>4. CASE c = "metrics"
  <2> DEFINE b == <<SUCCESS, 2>> \o Lines(<<<<99>>, <<57>>>>)
  <2>1. Answer(b, Done, <<>>)
    BY <1>4 DEF AnswerCommand
  <2>2. b \in Text /\ b # <<>> /\ b[1] = SUCCESS
    BY Metrics
  <2> HIDE DEF b
  <2>3. wire' = wire \o b /\ told' = [outcome |-> Done, rows |-> <<>>]
    BY <2>1 DEF Answer
  <2>4. told' \in [outcome : Int, rows : Seq(Text)] /\ told'.outcome = Done
    BY <1>2, <2>3
  <2> QED BY <1>1, <1>4, <2>2, <2>3, <2>4
<1>5. CASE c = "list"
  <2>1. PICK names \in Lists :
          LET rows == <<Header>> \o names
          IN  Answer(<<SUCCESS, Len(rows)>> \o Lines(rows), Done,
                     IF names = <<>> THEN <<>> ELSE rows)
    BY <1>5 DEF AnswerCommand
  <2> DEFINE rows == <<Header>> \o names
             b == <<SUCCESS, Len(rows)>> \o Lines(rows)
             shown == IF names = <<>> THEN <<>> ELSE rows
  <2>2. rows \in Seq(Text) /\ Len(rows) \in 1..255 /\ Lines(rows) \in Text
    BY ListRows
  <2>3. Answer(b, Done, shown)
    BY <2>1
  <2>4. b \in Text
    <3>1. SUCCESS \in Byte /\ Len(rows) \in Byte
      BY <2>2 DEF Byte, SUCCESS
    <3> HIDE DEF rows
    <3> QED BY <2>2, <3>1, BehindTwo
  <2>5. shown \in Seq(Text)
    BY <1>2, <2>2
  <2>6. wire' = wire \o b /\ told' = [outcome |-> Done, rows |-> shown]
    BY <2>3 DEF Answer
  <2>7. wire' \in Text /\ (wire = <<>> => wire' = b)
    <3> HIDE DEF b, shown
    <3> QED BY <1>1, <2>4, <2>6
  <2>8. told' \in [outcome : Int, rows : Seq(Text)] /\ told'.outcome = Done /\ told'.rows = shown
    <3> HIDE DEF b, shown
    <3> QED BY <1>2, <2>5, <2>6
  <2>9. wire = <<>> =>
          \E x \in Lists :
             LET r == <<Header>> \o x
             IN  /\ wire' = <<SUCCESS, Len(r)>> \o Lines(r)
                 /\ told'.rows = IF x = <<>> THEN <<>> ELSE r
    BY <2>7, <2>8
  <2> HIDE DEF b, shown, rows
  <2> QED BY <1>5, <2>7, <2>8, <2>9
<1> QED BY <1>3, <1>4, <1>5

\* The service answers the one message it has.
LEMMA ServiceAnswersInv == Inv /\ ServiceAnswers => Inv'
<1> SUFFICES ASSUME Inv, ServiceAnswers PROVE Inv'
  OBVIOUS
<1> DEFINE r == Head(requests)
<1>1. /\ service # "closed" /\ requests # <<>>
      /\ UNCHANGED <<pc, tries, cmd, row_count, offset, printed, ret, typed, cut>>
      /\ \/ /\ service = "auth" /\ r = "password"
            /\ \/ Answer(<<SUCCESS, 0>>, Done, <<>>) /\ service' = "ready"
               \/ /\ Answer(Failure(CPERROR_INVALID_PASSWORD), CPERROR_INVALID_PASSWORD, <<>>)
                  /\ UNCHANGED service
            /\ requests' = Tail(requests)
         \/ service = "ready" /\ r # "password" /\ AnswerCommand(r)
            /\ requests' = Tail(requests) /\ UNCHANGED service
         \/ service = "auth" /\ r # "password" /\ Parks
         \/ service = "ready" /\ r = "password" /\ Parks
         \/ service = "error" /\ Closes
  BY DEF ServiceAnswers, clientVars
<1>2. Types
  BY DEF Inv
<1>3. r \in {"password", "simple", "list", "metrics"}
  <2>1. requests \in Seq({"password", "simple", "list", "metrics"}) /\ requests # <<>>
    BY <1>1, <1>2 DEF Types
  <2> QED BY <2>1
<1>4. requests' \in Seq({"password", "simple", "list", "metrics"})
  <2>1. requests \in Seq({"password", "simple", "list", "metrics"}) /\ requests # <<>>
    BY <1>1, <1>2 DEF Types
  <2>2. requests' = Tail(requests) \/ requests' = <<>>
    BY <1>1 DEF Closes, Parks
  <2>3. /\ Tail(requests) \in Seq({"password", "simple", "list", "metrics"})
        /\ <<>> \in Seq({"password", "simple", "list", "metrics"})
    BY <2>1
  <2> QED BY <2>2, <2>3
<1>5. wire \in Text
  BY <1>2 DEF Types
<1>6. CPERROR_INVALID_PASSWORD \in Byte /\ CPERROR_INVALID_PASSWORD \in Int /\ Done \in Int
  BY DEF CPERROR_INVALID_PASSWORD, Byte, Done
<1>7. wire' \in Text /\ told' \in [outcome : Int, rows : Seq(Text)]
  <2>0. <<>> \in Seq(Text) /\ told \in [outcome : Int, rows : Seq(Text)]
    BY <1>2 DEF Types
  <2>1. CASE Answer(<<SUCCESS, 0>>, Done, <<>>)
    <3>1. wire' = wire \o <<SUCCESS, 0>> /\ told' = [outcome |-> Done, rows |-> <<>>]
      BY <2>1 DEF Answer
    <3>2. wire' \in Text
      <4> DEFINE b == <<SUCCESS, 0>>
      <4>1. b \in Text /\ wire' = wire \o b
        BY <3>1, Answers
      <4> HIDE DEF b
      <4> QED BY <1>5, <4>1, Concat
    <3> QED BY <1>6, <2>0, <3>1, <3>2
  <2>2. CASE Answer(Failure(CPERROR_INVALID_PASSWORD), CPERROR_INVALID_PASSWORD, <<>>)
    <3>1. /\ wire' = wire \o Failure(CPERROR_INVALID_PASSWORD)
          /\ told' = [outcome |-> CPERROR_INVALID_PASSWORD, rows |-> <<>>]
      BY <2>2 DEF Answer
    <3>2. wire' \in Text
      BY <1>5, <1>6, <3>1, Concat, Failures
    <3> QED BY <1>6, <2>0, <3>1, <3>2
  <2>3. CASE r # "password" /\ AnswerCommand(r)
    <3>1. r \in {"simple", "list", "metrics"}
      BY <1>3, <2>3
    <3> HIDE DEF r
    <3> QED BY <1>5, <2>3, <3>1, AnswerCommandIs
  <2>4. CASE Closes \/ Parks
    BY <1>5, <2>0, <2>4 DEF Closes, Parks
  <2> QED BY <1>1, <2>1, <2>2, <2>3, <2>4
<1>8. service' \in {"auth", "ready", "error", "closed"}
  BY <1>1, <1>2 DEF Types, TypeOK, Closes, Parks
<1>9. Types'
  BY <1>1, <1>2, <1>4, <1>7, <1>8 DEF Types, TypeOK
<1>10. ASSUME ~cut' PROVE InOrder'
  <2>1. InOrder
    BY <1>1, <1>10 DEF Inv
  <2>2. CASE pc = "auth"
    <3>1. wire = <<>> /\ requests = <<"password">> /\ service = "auth"
      BY <1>1, <2>1, <2>2 DEF InOrder, Idle, AuthAnswered
    <3>2. r = "password" /\ Tail(requests) = <<>>
      BY <3>1
    <3>3. /\ requests' = <<>>
          /\ \/ Answer(<<SUCCESS, 0>>, Done, <<>>) /\ service' = "ready"
             \/ Answer(Failure(CPERROR_INVALID_PASSWORD), CPERROR_INVALID_PASSWORD, <<>>)
                /\ service' = "auth"
      <4> HIDE DEF r
      <4> QED BY <1>1, <3>1, <3>2
    <3>4. \A b \in Text : wire \o b = b
      BY <3>1, Concat
    <3>5. /\ wire \o <<SUCCESS, 0>> = <<SUCCESS, 0>>
          /\ wire \o Failure(CPERROR_INVALID_PASSWORD) = Failure(CPERROR_INVALID_PASSWORD)
      BY <1>6, <3>4, Answers, Failures
    <3>6. AuthAnswered'
      BY <3>3, <3>5 DEF Answer, AuthAnswered
    <3> QED BY <1>1, <2>2, <3>6 DEF InOrder
  <2>3. CASE pc = "reply"
    <3>1. Asked(cmd) /\ cmd \in {"simple", "metrics"}
      BY <1>1, <2>1, <2>3 DEF InOrder, Answered
    <3>2. wire = <<>> /\ requests = <<cmd>> /\ service = "ready"
      BY <1>1, <3>1 DEF Asked
    <3>3. r = cmd /\ Tail(requests) = <<>>
      BY <3>2
    <3>4. AnswerCommand(cmd) /\ requests' = <<>> /\ service' = "ready"
      <4> HIDE DEF r
      <4> QED BY <1>1, <3>1, <3>2, <3>3
    <3>5. \/ wire' # <<>> /\ wire'[1] = SUCCESS /\ told'.outcome = Done
          \/ \E code \in ErrorCodes : wire' = Failure(code) /\ told'.outcome = code
      BY <1>5, <3>1, <3>2, <3>4, AnswerCommandIs
    <3>6. Answered'
      BY <3>4, <3>5 DEF Answered
    <3> QED BY <1>1, <2>3, <3>1, <3>4, <3>6 DEF InOrder
  <2>4. CASE pc = "list"
    <3>1. Asked("list") /\ row_count = 0 /\ printed = <<>> /\ offset = <<>> /\ cmd = "list"
      BY <1>1, <2>1, <2>4 DEF InOrder, WholeList, RestOfList
    <3>2. wire = <<>> /\ requests = <<"list">> /\ service = "ready"
      BY <1>1, <3>1 DEF Asked
    <3>3. r = "list" /\ Tail(requests) = <<>>
      BY <3>2
    <3>4. AnswerCommand("list") /\ requests' = <<>> /\ service' = "ready"
      <4> HIDE DEF r
      <4> QED BY <1>1, <3>1, <3>2, <3>3
    <3>5. /\ told'.outcome = Done
          /\ \E names \in Lists :
               LET rows == <<Header>> \o names
               IN  /\ wire' = <<SUCCESS, Len(rows)>> \o Lines(rows)
                   /\ told'.rows = IF names = <<>> THEN <<>> ELSE rows
      BY <1>5, <3>2, <3>4, AnswerCommandIs
    <3>6. WholeList'
      BY <1>1, <3>1, <3>4, <3>5 DEF WholeList
    <3> QED BY <1>1, <2>4, <3>1, <3>4, <3>6 DEF InOrder
  <2>5. CASE pc \in {"hello", "typing", "prompt"}
    BY <1>1, <2>1, <2>5 DEF InOrder, Idle
  <2>6. CASE pc \in Ended
    BY <1>1, <2>6 DEF InOrder, Ended
  <2>7. pc \in {"hello", "typing", "auth", "prompt", "reply", "list"} \cup Ended
    BY <1>2 DEF Types, TypeOK
  <2> QED BY <2>2, <2>3, <2>4, <2>5, <2>6, <2>7
<1> QED BY <1>9, <1>10 DEF Inv

\* The string that starts at the third byte of a piece.
LEMMA ThirdOn ==
    ASSUME NEW s \in Text
    PROVE  SubSeq(s, 3, Len(s)) \in Text
<1>1. Len(s) \in Nat
  BY DEF Text
<1>2. CASE Len(s) >= 2
  <2>1. 3 \in 1..(Len(s) + 1) /\ Len(s) \in (3 - 1)..Len(s)
    BY <1>1, <1>2
  <2> QED BY <2>1, Cut
<1>3. CASE Len(s) < 2
  <2>1. SubSeq(s, 3, Len(s)) = <<>>
    BY <1>1, <1>3 DEF Text
  <2> QED BY <2>1, Answers
<1> QED BY <1>1, <1>2, <1>3

\* The same string in the whole list.
LEMMA ThirdOnOfList ==
    ASSUME NEW w \in Text, NEW n \in 3..Len(w)
    PROVE  /\ SubSeq(w, 3, n) \in Text
           /\ SubSeq(SubSeq(w, 1, n), 3, n) = SubSeq(w, 3, n)
           /\ SubSeq(w, 3, n)[1] = w[3]
           /\ SubSeq(w, 3, Len(w)) = SubSeq(w, 3, n) \o SubSeq(w, n + 1, Len(w))
           /\ Printable(SubSeq(w, 3, Len(w))) =>
                Printable(SubSeq(w, 3, n)) /\ Printable(SubSeq(w, n + 1, Len(w)))
<1> DEFINE N == Len(w)
           p == SubSeq(w, 1, n)
           a == SubSeq(w, 3, n)
           b == SubSeq(p, 3, n)
           rest == SubSeq(w, n + 1, N)
<1>1. N \in Nat /\ n \in Nat /\ n >= 3 /\ n <= N
  BY DEF Text
<1>2. /\ 1 \in 1..(N + 1) /\ 3 \in 1..(N + 1) /\ n + 1 \in 1..(N + 1)
      /\ n \in (1 - 1)..N /\ n \in (3 - 1)..N /\ N \in ((n + 1) - 1)..N
  <2> HIDE DEF N
  <2> QED BY <1>1
<1>3. /\ p \in Text /\ Len(p) = n - 1 + 1 /\ \A j \in 1..(n - 1 + 1) : p[j] = w[1 + j - 1]
  BY <1>2, Cut
<1>4. /\ a \in Text /\ Len(a) = n - 3 + 1 /\ \A j \in 1..(n - 3 + 1) : a[j] = w[3 + j - 1]
  BY <1>2, Cut
<1>5. rest \in Text
  BY <1>2, Cut
<1>6. SubSeq(w, 3, N) = a \o rest
  BY <1>2, CutInTwo
<1> HIDE DEF N, p, a, rest
<1>7. Len(p) = n /\ \A j \in 1..n : p[j] = w[j]
  <2>1. n - 1 + 1 = n /\ \A j \in Int : 1 + j - 1 = j
    BY <1>1
  <2> QED BY <1>3, <2>1
<1>8. /\ b \in Text /\ Len(b) = n - 3 + 1 /\ \A j \in 1..(n - 3 + 1) : b[j] = p[3 + j - 1]
  <2>1. 3 \in 1..(Len(p) + 1) /\ n \in (3 - 1)..Len(p)
    BY <1>1, <1>7
  <2> QED BY <1>3, <2>1, Cut
<1> HIDE DEF b
<1>9. b = a
  <2>1. \A j \in 1..(n - 3 + 1) : 3 + j - 1 \in 1..n
    BY <1>1
  <2>2. \A j \in 1..(n - 3 + 1) : b[j] = a[j]
    BY <1>4, <1>7, <1>8, <2>1
  <2> QED BY <1>4, <1>8, <2>2 DEF Text
<1>10. a[1] = w[3]
  <2>1. 1 \in 1..(n - 3 + 1) /\ 3 + 1 - 1 = 3
    BY <1>1
  <2> QED BY <1>4, <2>1
<1>11. ASSUME Printable(a \o rest) PROVE Printable(a) /\ Printable(rest)
  <2>1. /\ Len(a \o rest) = Len(a) + Len(rest)
        /\ \A j \in 1..Len(a) : (a \o rest)[j] = a[j]
        /\ \A j \in 1..Len(rest) : (a \o rest)[Len(a) + j] = rest[j]
        /\ a \o rest \in Text
    BY <1>4, <1>5, ConcatTexts
  <2>2. /\ DOMAIN a = 1..Len(a) /\ Len(a) \in Nat /\ DOMAIN rest = 1..Len(rest) /\ Len(rest) \in Nat
        /\ DOMAIN (a \o rest) = 1..Len(a \o rest)
    BY <1>4, <1>5, <2>1 DEF Text
  <2>3. ASSUME NEW j \in 1..Len(a) PROVE a[j] # 0
    <3>1. j \in 1..Len(a \o rest)
      BY <2>1, <2>2
    <3> QED BY <1>11, <2>1, <2>2, <3>1 DEF Printable
  <2>4. ASSUME NEW j \in 1..Len(rest) PROVE rest[j] # 0
    <3>1. Len(a) + j \in 1..Len(a \o rest)
      BY <2>1, <2>2
    <3> QED BY <1>11, <2>1, <2>2, <3>1 DEF Printable
  <2> QED BY <2>2, <2>3, <2>4 DEF Printable
<1> QED BY <1>4, <1>6, <1>9, <1>10, <1>11 DEF N, p, a, b, rest

\* The types after a piece of a list, whatever it is.
LEMMA ListArrivesTypes ==
    ASSUME Types, ListArrives
    PROVE  Types'
<1>1. PICK n \in 1..Len(wire) :
        Take(n) /\ IF row_count = 0 THEN FirstPiece(n) ELSE LaterPiece(n)
  BY DEF ListArrives
<1>2. pc = "list" /\ UNCHANGED <<tries, cmd, typed>>
  BY DEF ListArrives
<1>3. /\ printed \in Seq(Text) /\ offset \in Text /\ row_count \in -2..255 /\ row_count >= 0
      /\ wire \in Text /\ told \in [outcome : Int, rows : Seq(Text)]
  BY <1>2 DEF Types, TypeOK
<1>4. /\ Received(n) \in Text /\ Len(Received(n)) = n /\ wire' \in Text
      /\ UNCHANGED <<service, requests, told>>
  BY <1>1, <1>3, Recv
<1>5. /\ pc' \in {"list", "prompt", "returned", "crashed"}
      /\ row_count' \in -2..255 /\ (pc' = "list" => row_count' >= 0)
      /\ offset' \in Text /\ printed' \in Seq(Text)
  <2>1. CASE row_count = 0
    <3> DEFINE piece == Received(n)
               at(i) == IF i <= n THEN piece[i] ELSE 0
               text == SubSeq(piece, 3, n)
    <3>1. FirstPiece(n)
      BY <1>1, <2>1
    <3>2. \/ /\ Returns(IF at(2) = HAS_DATA THEN at(3) ELSE Failed)
             /\ UNCHANGED <<row_count, offset, printed>>
          \/ /\ Returns(Done) /\ row_count' = 1
             /\ UNCHANGED <<offset, printed>>
          \/ PrintRows(piece, text, at(2))
      BY <3>1 DEF FirstPiece
    <3>3. text \in Text
      BY <1>4, ThirdOn
    <3>4. at(2) \in 0..255
      <4>1. CASE 2 <= n
        <5>1. 2 \in 1..Len(piece)
          BY <1>4, <4>1
        <5>2. piece[2] \in Byte
          <6> HIDE DEF piece
          <6>1. piece \in Text
            BY <1>4 DEF piece
          <6> QED BY <5>1, <6>1 DEF Text
        <5> QED BY <4>1, <5>2 DEF Byte
      <4>2. CASE ~(2 <= n)
        BY <4>2
      <4> QED BY <4>1, <4>2
    <3>5. CASE PrintRows(piece, text, at(2))
      <4> DEFINE m == at(2)
      <4>1. m \in 0..255 /\ PrintRows(piece, text, m)
        BY <3>4, <3>5
      <4> HIDE DEF m, text, piece
      <4> QED BY <1>2, <1>3, <3>3, <4>1, PrintRowsTypes
    <3>6. CASE (\E r : Returns(r)) /\ UNCHANGED <<offset, printed>>
               /\ (UNCHANGED row_count \/ row_count' = 1)
      <4>1. pc' \in {"prompt", "returned"}
        BY <3>6 DEF Returns, analyze_return
      <4>2. row_count' \in -2..255
        <5>1. row_count' = row_count \/ row_count' = 1
          BY <3>6, Zenon
        <5>2. 1 \in -2..255
          OBVIOUS
        <5> QED BY <1>3, <5>1, <5>2
      <4> QED BY <1>3, <3>6, <4>1, <4>2
    <3> HIDE DEF at, text, piece
    <3> QED BY <3>2, <3>5, <3>6
  <2>2. CASE row_count # 0
    <3> DEFINE piece == Received(n)
    <3>1. PrintRows(piece, piece, row_count)
      BY <1>1, <2>2 DEF LaterPiece
    <3>2. piece \in Text /\ row_count \in 0..255
      BY <1>3, <1>4
    <3> HIDE DEF piece
    <3> QED BY <1>2, <1>3, <3>1, <3>2, PrintRowsTypes
  <2> QED BY <2>1, <2>2
<1>6. cut' \in BOOLEAN
  <2>1. \/ cut' = (cut \/ ~HasToken(SubSeq(Received(n), 3, n))
                       \/ ((IF 2 <= n THEN Received(n)[2] ELSE 0) = 1 /\ n < Len(wire)))
        \/ cut' = (cut \/ ~HasToken(strtok(Received(n))))
    BY <1>1 DEF FirstPiece, LaterPiece
  <2> QED BY <2>1, Zenon
<1>7. TypeOK'
  BY <1>2, <1>4, <1>5, <1>6 DEF Types, TypeOK, Ended
<1> QED BY <1>2, <1>4, <1>5, <1>7 DEF Types

\* A piece of a list of which nothing was printed.
LEMMA FirstPieceInOrder ==
    ASSUME Types, WholeList, pc = "list", cmd = "list", service \in {"ready", "closed"},
           NEW n \in 1..Len(wire), Take(n), FirstPiece(n), ~cut', UNCHANGED cmd
    PROVE  InOrder'
<1>1. PICK names \in Lists :
        LET rows == <<Header>> \o names
        IN  /\ wire = <<SUCCESS, Len(rows)>> \o Lines(rows)
            /\ told.rows = IF names = <<>> THEN <<>> ELSE rows
  BY DEF WholeList
<1> DEFINE rows == <<Header>> \o names
           L == Lines(rows)
           N == Len(wire)
           piece == Received(n)
           at(i) == IF i <= n THEN piece[i] ELSE 0
           text == SubSeq(piece, 3, n)
<1>2. /\ rows \in Seq(Text) /\ Len(rows) = Len(names) + 1 /\ Len(rows) \in 1..255
      /\ L \in Text /\ Split(L) = Whole(rows)
      /\ Printable(L) /\ L # <<>> /\ L[1] # TOKEN
  BY ListRows
<1>3. wire = <<SUCCESS, Len(rows)>> \o L /\ told.rows = IF names = <<>> THEN <<>> ELSE rows
  BY <1>1
<1>4. SUCCESS \in Byte /\ Len(rows) \in Byte
  BY <1>2 DEF Byte, SUCCESS
<1> HIDE DEF rows, L
<1>5. /\ wire \in Text /\ N = 2 + Len(L) /\ wire[1] = SUCCESS /\ wire[2] = Len(rows)
      /\ \A i \in 1..Len(L) : wire[2 + i] = L[i]
      /\ SubSeq(wire, 3, N) = L
  <2> DEFINE m == Len(rows)
             w == <<SUCCESS, m>> \o L
  <2>1. m \in Byte
    BY <1>4
  <2> HIDE DEF m
  <2>2. /\ w \in Text /\ Len(w) = 2 + Len(L) /\ w[1] = SUCCESS /\ w[2] = m
        /\ \A i \in 1..Len(L) : w[2 + i] = L[i]
        /\ SubSeq(w, 3, Len(w)) = L
    BY <1>2, <1>4, <2>1, BehindTwo
  <2>3. wire = w
    BY <1>3 DEF m
  <2> HIDE DEF w
  <2> QED BY <2>2, <2>3 DEF m
<1>6. Len(L) \in Nat \ {0}
  BY <1>2 DEF Text
<1>7. n \in Nat /\ n >= 1 /\ n <= N /\ N \in Nat
  BY <1>5, <1>6
<1>8. /\ piece \in Text /\ Len(piece) = n /\ \A i \in 1..n : piece[i] = wire[i]
      /\ wire' \in Text /\ (n = N => wire' = <<>>)
      /\ UNCHANGED <<service, requests, told>>
  BY <1>5, Recv
<1>9. wire' = SubSeq(wire, n + 1, N)
  BY DEF Take
<1>10. /\ cut' = (cut \/ ~HasToken(text) \/ (at(2) = 1 /\ n < N))
       /\ \/ at(1) = FAILURE
          \/ /\ at(2) = 1 /\ Returns(Done) /\ UNCHANGED <<offset, printed>>
          \/ at(2) # 1 /\ PrintRows(piece, text, at(2))
  BY DEF FirstPiece
<1>11. HasToken(text) /\ ~(at(2) = 1 /\ n < N)
  BY <1>10, Zenon
<1>12. n >= 3
  <2> SUFFICES ASSUME n < 3 PROVE FALSE
    BY <1>7
  <2>1. SubSeq(piece, 3, n) = <<>>
    BY <1>7, <1>8 DEF Text
  <2>2. ~HasToken(<<>>)
    BY DEF HasToken
  <2> QED BY <1>11, <2>1, <2>2
<1>13. at(1) = SUCCESS /\ at(2) = Len(rows) /\ at(1) # FAILURE
  <2>1. 1 \in 1..n /\ 2 \in 1..n
    BY <1>7, <1>12
  <2> HIDE DEF piece, N
  <2> QED BY <1>5, <1>7, <1>8, <1>12, <2>1 DEF SUCCESS, FAILURE
<1>14. /\ told'.outcome = Done /\ requests' = <<>> /\ service' \in {"ready", "closed"} /\ cmd' = "list"
       /\ printed = <<>> /\ offset = <<>>
  BY <1>8 DEF WholeList
<1>15. CASE at(2) = 1
  <2>1. ~(n < N)
    BY <1>11, <1>15, Zenon
  <2>2. n = N
    BY <1>7, <2>1
  <2>3. wire' = <<>>
    BY <1>8, <2>2
  <2>4. ret' = Done /\ pc' = "prompt" /\ UNCHANGED <<offset, printed>>
    <3>1. Returns(Done) /\ UNCHANGED <<offset, printed>>
      <4> HIDE DEF at, text, piece
      <4> QED BY <1>10, <1>13, <1>15
    <3> QED BY <3>1 DEF Returns, analyze_return, Done, Failed, NoMore, CPERROR_GENERAL_ERROR
  <2>5. told.rows = <<>>
    <3>1. Len(rows) = 1
      <4> HIDE DEF at
      <4> QED BY <1>13, <1>15
    <3>2. Len(names) + 1 = 1 /\ names \in Seq(Seq(Byte \ {0, TOKEN}) \ {<<>>})
      BY <1>2, <3>1, ClientAssumption
    <3>3. names = <<>>
      BY <3>2
    <3> QED BY <1>3, <3>3
  <2>6. printed' = told'.rows
    BY <1>8, <1>14, <2>4, <2>5
  <2> HIDE DEF at, text, piece
  <2> QED BY <1>14, <2>3, <2>4, <2>6 DEF InOrder, Idle
<1>16. CASE at(2) # 1
  <2>1. PrintRows(piece, text, Len(rows))
    <3> HIDE DEF at, text, piece
    <3> QED BY <1>10, <1>13, <1>16
  <2>2. told.rows = rows
    <3>1. Len(rows) # 1
      <4> HIDE DEF at
      <4> QED BY <1>13, <1>16
    <3>2. names # <<>>
      <4>1. names = <<>> => Len(names) = 0
        OBVIOUS
      <4> QED BY <1>2, <3>1, <4>1
    <3> QED BY <1>3, <3>2
  <2>3. /\ text \in Text /\ text[1] = wire[3] /\ L = text \o wire'
        /\ Printable(text) /\ Printable(wire')
    <3>1. n \in 3..Len(wire)
      BY <1>7, <1>12
    <3>2. /\ SubSeq(wire, 3, n) \in Text
          /\ SubSeq(SubSeq(wire, 1, n), 3, n) = SubSeq(wire, 3, n)
          /\ SubSeq(wire, 3, n)[1] = wire[3]
          /\ SubSeq(wire, 3, N) = SubSeq(wire, 3, n) \o SubSeq(wire, n + 1, N)
          /\ Printable(SubSeq(wire, 3, N)) =>
               Printable(SubSeq(wire, 3, n)) /\ Printable(SubSeq(wire, n + 1, N))
      BY <1>5, <3>1, ThirdOnOfList
    <3> QED BY <1>2, <1>5, <1>9, <3>2 DEF Received
  <2>4. text[1] # TOKEN /\ piece[1] # TOKEN
    <3>1. 1 \in 1..Len(L)
      BY <1>6
    <3>2. wire[2 + 1] = L[1]
      BY <1>5, <3>1
    <3>3. text[1] = L[1]
      <4>1. 2 + 1 = 3
        OBVIOUS
      <4> HIDE DEF text, piece, N
      <4> QED BY <2>3, <3>2, <4>1
    <3>4. piece[1] = SUCCESS
      <4>1. 1 \in 1..n
        BY <1>7
      <4> QED BY <1>5, <1>8, <4>1
    <3>5. SUCCESS # TOKEN
      BY DEF SUCCESS, TOKEN
    <3> HIDE DEF text, piece, N, at
    <3> QED BY <1>2, <3>3, <3>4, <3>5
  <2>5. HasToken(strtok(text))
    BY <1>11, <2>4 DEF strtok
  <2>6. Join(Append(printed, offset), Split(text \o wire')) = Whole(rows)
    <3>1. Append(<<>>, <<>>) = <<<<>>>>
      OBVIOUS
    <3>2. Split(<<>> \o L) = Join(Split(<<>>), Split(L)) /\ <<>> \o L = L
      BY <1>2, Answers, SplitConcat, Concat
    <3>3. Join(<<<<>>>>, Split(L)) = Split(L)
      BY <3>2, SplitEmpty
    <3> QED BY <1>2, <1>14, <2>3, <3>1, <3>3
  <2>7. /\ printed \in Seq(Text) /\ offset \in Text /\ Len(printed) = 0
        /\ Len(printed) < Len(rows) /\ Len(rows) = Len(rows) - Len(printed)
    BY <1>2, <1>14, Answers
  <2> HIDE DEF text, piece, at, N
  <2>8. \/ /\ pc' = "prompt" /\ ret' = Done
           /\ printed' = rows /\ wire' = <<>>
        \/ /\ pc' = "list" /\ UNCHANGED ret
           /\ Len(printed') < Len(rows) /\ row_count' = Len(rows) - Len(printed')
           /\ Join(Append(printed', offset'), Split(wire')) = Whole(rows)
    <3> DEFINE list == rows
               rest == wire'
    <3>1. /\ list \in Seq(Text) /\ text \in Text /\ rest \in Text
          /\ Printable(text) /\ HasToken(strtok(text)) /\ (piece[1] = TOKEN <=> text[1] = TOKEN)
          /\ Len(printed) < Len(list) /\ Len(rows) = Len(list) - Len(printed)
          /\ Join(Append(printed, offset), Split(text \o rest)) = Whole(list)
          /\ PrintRows(piece, text, Len(rows))
      BY <1>2, <1>8, <2>1, <2>3, <2>4, <2>5, <2>6, <2>7
    <3> HIDE DEF list, rest
    <3>2. \/ /\ pc' = "prompt" /\ ret' = Done
             /\ printed' = list /\ rest = <<>>
          \/ /\ pc' = "list" /\ UNCHANGED ret
             /\ Len(printed') < Len(list) /\ row_count' = Len(list) - Len(printed')
             /\ Join(Append(printed', offset'), Split(rest)) = Whole(list)
      BY <2>7, <3>1, PrintRowsOf
    <3> QED BY <3>2 DEF list, rest
  <2>9. told'.rows = rows
    BY <1>8, <2>2
  <2>10. CASE pc' = "prompt" /\ ret' = Done /\ printed' = rows /\ wire' = <<>>
    BY <1>14, <2>9, <2>10 DEF InOrder, Idle
  <2>11. CASE /\ pc' = "list" /\ Len(printed') < Len(rows) /\ row_count' = Len(rows) - Len(printed')
              /\ Join(Append(printed', offset'), Split(wire')) = Whole(rows)
    <3>1. RestOfList'
      BY <1>14, <2>3, <2>9, <2>11 DEF RestOfList
    <3> QED BY <1>14, <2>11, <3>1 DEF InOrder
  <2> QED BY <2>8, <2>10, <2>11
<1> HIDE DEF at, text, piece
<1> QED BY <1>15, <1>16

\* A piece of the rest.
LEMMA LaterPieceInOrder ==
    ASSUME Types, RestOfList, pc = "list", cmd = "list", service \in {"ready", "closed"},
           NEW n \in 1..Len(wire), Take(n), LaterPiece(n), ~cut', UNCHANGED cmd
    PROVE  InOrder'
<1> DEFINE piece == Received(n)
           list == told.rows
           rest == wire'
<1>1. /\ printed \in Seq(Text) /\ offset \in Text /\ wire \in Text /\ list \in Seq(Text)
  BY DEF Types
<1>2. /\ requests = <<>> /\ told.outcome = Done
      /\ Len(printed) < Len(list) /\ row_count = Len(list) - Len(printed)
      /\ Join(Append(printed, offset), Split(wire)) = Whole(list)
      /\ Printable(wire)
  BY DEF RestOfList
<1>3. /\ piece \in Text /\ rest \in Text /\ Printable(piece) /\ Printable(rest)
      /\ wire = piece \o rest
      /\ UNCHANGED <<service, requests, told>>
  BY <1>1, <1>2, Recv
<1>4. cut' = (cut \/ ~HasToken(strtok(piece))) /\ PrintRows(piece, piece, row_count)
  BY DEF LaterPiece
<1>5. HasToken(strtok(piece))
  BY <1>4, Zenon
<1> HIDE DEF piece, list, rest
<1>6. Join(Append(printed, offset), Split(piece \o rest)) = Whole(list)
  BY <1>2, <1>3
<1>7. \/ /\ pc' = "prompt" /\ ret' = Done
         /\ printed' = list /\ rest = <<>>
      \/ /\ pc' = "list" /\ UNCHANGED ret
         /\ Len(printed') < Len(list) /\ row_count' = Len(list) - Len(printed')
         /\ Join(Append(printed', offset'), Split(rest)) = Whole(list)
  BY <1>1, <1>2, <1>3, <1>4, <1>5, <1>6, PrintRowsOf
<1>8. /\ told'.rows = list /\ told'.outcome = Done /\ requests' = <<>>
      /\ service' \in {"ready", "closed"} /\ cmd' = "list"
  BY <1>2, <1>3 DEF list
<1>9. CASE pc' = "prompt" /\ ret' = Done /\ printed' = list /\ rest = <<>>
  BY <1>8, <1>9 DEF InOrder, Idle, rest
<1>10. CASE /\ pc' = "list" /\ Len(printed') < Len(list) /\ row_count' = Len(list) - Len(printed')
            /\ Join(Append(printed', offset'), Split(rest)) = Whole(list)
  <2>1. RestOfList'
    BY <1>3, <1>8, <1>10 DEF RestOfList, rest
  <2> QED BY <1>8, <1>10, <2>1 DEF InOrder
<1> QED BY <1>7, <1>9, <1>10

\* A piece of a list arrives.
LEMMA ListArrivesInv == Inv /\ ListArrives => Inv'
<1> SUFFICES ASSUME Inv, ListArrives PROVE Inv'
  OBVIOUS
<1>1. Types /\ Types'
  BY ListArrivesTypes DEF Inv
<1>2. ASSUME ~cut' PROVE InOrder'
  <2>1. PICK n \in 1..Len(wire) :
          Take(n) /\ IF row_count = 0 THEN FirstPiece(n) ELSE LaterPiece(n)
    BY DEF ListArrives
  <2>2. pc = "list" /\ UNCHANGED cmd
    BY DEF ListArrives
  <2>3. wire # <<>>
    BY <1>1, <2>1, Recv DEF Types
  <2>4. ~cut
    <3>1. \/ cut' = (cut \/ ~HasToken(SubSeq(Received(n), 3, n))
                         \/ ((IF 2 <= n THEN Received(n)[2] ELSE 0) = 1 /\ n < Len(wire)))
          \/ cut' = (cut \/ ~HasToken(strtok(Received(n))))
      BY <2>1 DEF FirstPiece, LaterPiece
    <3> QED BY <1>2, <3>1, Zenon
  <2>5. cmd = "list" /\ service \in {"ready", "closed"} /\ (WholeList \/ RestOfList)
    BY <2>2, <2>3, <2>4 DEF Inv, InOrder, Asked
  <2>6. CASE row_count = 0
    <3>1. ~RestOfList
      <4> SUFFICES ASSUME RestOfList PROVE FALSE
        OBVIOUS
      <4> DEFINE a == Len(printed)
                 b == Len(told.rows)
      <4>1. a \in Nat /\ b \in Nat
        BY <1>1 DEF Types
      <4>2. a < b /\ row_count = b - a
        BY DEF RestOfList
      <4> HIDE DEF a, b
      <4> QED BY <2>6, <4>1, <4>2
    <3> QED BY <1>1, <1>2, <2>1, <2>2, <2>5, <2>6, <3>1, FirstPieceInOrder
  <2>7. CASE row_count # 0
    <3>1. ~WholeList
      BY <2>7 DEF WholeList
    <3> QED BY <1>1, <1>2, <2>1, <2>2, <2>5, <2>7, <3>1, LaterPieceInOrder
  <2> QED BY <2>6, <2>7
<1> QED BY <1>1, <1>2 DEF Inv

-----------------------------------------------------------------------------
(* The client and the service. *)

\* Every step keeps the invariant.
LEMMA InvNext == Inv /\ [Next]_vars => Inv'
<1> SUFFICES ASSUME Inv, [Next]_vars PROVE Inv'
  OBVIOUS
<1>1. CASE HelloArrives
  BY <1>1, HelloArrivesInv
<1>2. CASE AuthAnswerArrives
  BY <1>2, AuthAnswerArrivesInv
<1>3. CASE ReplyArrives
  BY <1>3, ReplyArrivesInv
<1>4. CASE ListArrives
  BY <1>4, ListArrivesInv
<1>5. CASE EndOfStream
  BY <1>5, EndOfStreamInv
<1>6. CASE TypePassword
  BY <1>6, TypePasswordInv
<1>7. CASE \E c \in {"simple", "list", "metrics"} : Command(c)
  BY <1>7, CommandInv
<1>8. CASE OtherLine
  BY <1>8, OtherLineInv
<1>9. CASE ServiceAnswers
  BY <1>9, ServiceAnswersInv
<1>10. CASE ServiceCloses
  BY <1>10, ServiceClosesInv
<1>11. CASE UNCHANGED vars
  <2>1. /\ UNCHANGED <<pc, tries, cmd, row_count, offset, printed, ret, typed>>
        /\ UNCHANGED <<service, requests, wire, told, cut>>
    BY <1>11 DEF vars, clientVars, serviceVars
  <2>2. Types => Types'
    BY <2>1 DEF Types, TypeOK
  <2>3. /\ WholeList => WholeList'
        /\ RestOfList => RestOfList'
        /\ Answered => Answered'
        /\ AuthAnswered => AuthAnswered'
        /\ \A c : Asked(c) => Asked(c)'
    BY <2>1 DEF WholeList, RestOfList, Answered, AuthAnswered, Asked
  <2>4. InOrder => InOrder'
    BY <2>1, <2>3 DEF InOrder, Idle
  <2> QED BY <2>1, <2>2, <2>4 DEF Inv
<1> QED BY <1>1, <1>2, <1>3, <1>4, <1>5, <1>6, <1>7, <1>8, <1>9, <1>10, <1>11 DEF Next, Arrives

\* The invariant of the client and the bytes on their way (commands.c, client.c):
\* as long as no recv took part of an answer for all of it, they are an answer, or
\* the rest of a list, that the client waits for.
THEOREM ClientInOrder == Spec => []Inv
<1>1. Init => Inv
  BY InvInit
<1>2. Inv /\ [Next]_vars => Inv'
  BY InvNext
<1> QED BY <1>1, <1>2, PTL DEF Spec

\* The client's counters stay in their ranges: it sends three passwords at most,
\* and row_count, which the last piece of a list may take below zero, no further
\* than to -2 (admin_auth, parse_users_message).
THEOREM ClientTypeCorrect == Spec => []TypeOK
<1>1. Inv => TypeOK
  BY DEF Inv, Types
<1> QED BY <1>1, ClientInOrder, PTL

\* At the prompt nothing of an answer is left to come, and what was shown is what
\* the service answered, each row of a list once and whole, for any users and any
\* pieces that each end a row (parse_users_message, receive_simple_response).
THEOREM ClientStaysInStep == Spec => []InStep
<1>1. Inv => InStep
  BY DEF Inv, InOrder, Idle, InStep
<1> QED BY <1>1, ClientInOrder, PTL

=============================================================================
