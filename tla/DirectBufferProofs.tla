------------------------- MODULE DirectBufferProofs -------------------------
(***************************************************************************)
(* buffer.c implements a queue, for every size and every set of bytes.     *)
(***************************************************************************)
EXTENDS DirectBuffer, SequenceTheorems, TLAPS

\* A function of bytes on 1..n is a sequence of n bytes.
LEMMA BytesAreSequence ==
    ASSUME NEW n \in Nat, NEW s \in [1..n -> Byte]
    PROVE  s \in Seq(Byte) /\ Len(s) = n
OBVIOUS

\* The bytes between two offsets of the block, as a sequence.
LEMMA BlockIsSequence ==
    ASSUME NEW d \in [0..(Limit - 1) -> Byte], NEW r \in Nat, NEW n \in Nat, r + n <= Limit,
           NEW s, s = [i \in 1..n |-> d[r + i - 1]]
    PROVE  /\ s \in Seq(Byte)
           /\ Len(s) = n
           /\ \A i \in 1..n : s[i] = d[r + i - 1]
<1>1. \A i \in 1..n : r + i - 1 \in 0..(Limit - 1)
  BY LimitAssumption
<1>2. s \in [1..n -> Byte]
  BY <1>1
<1> QED BY <1>2, BytesAreSequence

\* The pending bytes of a well-formed buffer.
LEMMA ContentIsSequence ==
    ASSUME NEW d \in [0..(Limit - 1) -> Byte], NEW p \in Pointers, WellFormed(p)
    PROVE  /\ Content(d, p) \in Seq(Byte)
           /\ Len(Content(d, p)) = Pending(p)
           /\ Pending(p) \in Nat
           /\ p.read \in Nat /\ p.read + Pending(p) = p.write /\ p.write <= Limit
           /\ \A i \in 1..Pending(p) : Content(d, p)[i] = d[p.read + i - 1]
<1>1. /\ Pending(p) \in Nat /\ p.read \in Nat
      /\ p.read + Pending(p) = p.write /\ p.write <= Limit
  BY LimitAssumption DEF Pointers, WellFormed, Pending
<1>2. p.read + Pending(p) <= Limit
  BY <1>1
<1> DEFINE s == Content(d, p)
<1>3. s = [i \in 1..Pending(p) |-> d[p.read + i - 1]]
  BY DEF Content
<1> HIDE DEF s
<1>4. /\ s \in Seq(Byte) /\ Len(s) = Pending(p)
      /\ \A i \in 1..Pending(p) : s[i] = d[p.read + i - 1]
  <2>1. \A i \in 1..Pending(p) : p.read + i - 1 \in 0..(Limit - 1)
    BY <1>1, <1>2, LimitAssumption
  <2>2. s \in [1..Pending(p) -> Byte]
    BY <1>3, <2>1
  <2>3. s \in Seq(Byte) /\ Len(s) = Pending(p)
    BY <1>1, <2>2, BytesAreSequence
  <2> QED BY <1>3, <2>3
<1> QED BY <1>1, <1>4 DEF s

\* A sequence that agrees with the pending bytes is their content.
LEMMA ContentEqual ==
    ASSUME NEW d \in [0..(Limit - 1) -> Byte], NEW p \in Pointers, WellFormed(p),
           NEW q \in Seq(Byte), NEW n \in Nat, n = Pending(p), Len(q) = n,
           \A i \in 1..n : q[i] = d[p.read + i - 1]
    PROVE  Content(d, p) = q
<1>1. /\ Content(d, p) \in Seq(Byte) /\ Len(Content(d, p)) = n
      /\ \A i \in 1..n : Content(d, p)[i] = q[i]
  BY ContentIsSequence
<1> QED BY <1>1, SeqEqual

\* The operation that takes the first n bytes, by ReadThrough and buffer_read.
LEMMA TakeSteps ==
    ASSUME TypeOK, NEW n \in 0..Pending(ptr)
    PROVE  LET p == buffer_read_adv(ptr, n)
               q == Content(data, ptr)
           IN  /\ p \in Pointers /\ WellFormed(p)
               /\ n \in 0..Len(q)
               /\ [i \in 1..n |-> data[ptr.read + i - 1]] = SubSeq(q, 1, n)
               /\ [i \in 1..n |-> data[ptr.read + i - 1]] \in Seq(Byte)
               /\ Content(data, p) = SubSeq(q, n + 1, Len(q))
<1> DEFINE p == buffer_read_adv(ptr, n)
           q == Content(data, ptr)
           r == [i \in 1..n |-> data[ptr.read + i - 1]]
<1>1. /\ q \in Seq(Byte) /\ Len(q) = Pending(ptr) /\ Pending(ptr) \in Nat
      /\ ptr.read \in Nat /\ ptr.read + Pending(ptr) = ptr.write /\ ptr.write <= Limit
      /\ \A i \in 1..Pending(ptr) : q[i] = data[ptr.read + i - 1]
  BY ContentIsSequence DEF TypeOK
<1>2. /\ r \in Seq(Byte) /\ Len(r) = n
      /\ \A i \in 1..n : r[i] = data[ptr.read + i - 1]
  <2>1. n \in Nat /\ ptr.read + n <= Limit
    BY <1>1, LimitAssumption
  <2>2. \A i \in 1..n : ptr.read + i - 1 \in 0..(Limit - 1)
    BY <1>1, <2>1, LimitAssumption
  <2>3. r \in [1..n -> Byte]
    BY <2>2 DEF TypeOK
  <2> QED BY <2>1, <2>3, BytesAreSequence
<1>3. ptr \in Pointers /\ p = IF n = Pending(ptr) THEN [read |-> 0, write |-> 0]
                              ELSE [read |-> ptr.read + n, write |-> ptr.write]
  <2>1. [ptr EXCEPT !.read = @ + n] = [read |-> ptr.read + n, write |-> ptr.write]
    BY DEF TypeOK, Pointers
  <2>2. ptr.read + n = ptr.write <=> n = Pending(ptr)
    BY <1>1
  <2>3. [read |-> 0, write |-> ptr.write - ptr.write] = [read |-> 0, write |-> 0]
    BY DEF TypeOK, Pointers
  <2> QED BY <2>1, <2>2, <2>3 DEF buffer_read_adv, buffer_compact, TypeOK
<1>4. p \in Pointers /\ WellFormed(p) /\ Pending(p) = Pending(ptr) - n
  BY <1>1, <1>3, LimitAssumption DEF Pointers, WellFormed, Pending
<1> HIDE DEF p, q, r
<1>5. /\ SubSeq(q, 1, n) \in Seq(Byte) /\ Len(SubSeq(q, 1, n)) = n
      /\ \A i \in 1..n : SubSeq(q, 1, n)[i] = q[i]
  <2>1. \A i \in 1..n : q[i] \in Byte
    BY <1>1, ElementOfSeq
  <2> QED BY <1>1, <2>1, SubSeqProperties
<1>6. r = SubSeq(q, 1, n)
  <2>1. ASSUME NEW i \in 1..n PROVE r[i] = SubSeq(q, 1, n)[i]
    <3>1. i \in 1..Pending(ptr)
      BY <1>1
    <3> QED BY <1>1, <1>2, <1>5, <3>1
  <2> QED BY <1>2, <1>5, <2>1, SeqEqual
<1>7. /\ SubSeq(q, n + 1, Len(q)) \in Seq(Byte)
      /\ Len(SubSeq(q, n + 1, Len(q))) = Pending(ptr) - n
      /\ \A i \in 1..(Pending(ptr) - n) : SubSeq(q, n + 1, Len(q))[i] = q[n + i]
  <2>1. \A i \in (n + 1)..Len(q) : q[i] \in Byte
    BY <1>1, ElementOfSeq
  <2>2. n + 1 \in Int /\ Len(q) \in Int
    BY <1>1
  <2> QED BY <1>1, <2>1, <2>2, SubSeqProperties
<1>8. Content(data, p) = SubSeq(q, n + 1, Len(q))
  <2> DEFINE m == Pending(ptr) - n
             t == SubSeq(q, n + 1, Len(q))
  <2>1. m \in Nat
    BY <1>1
  <2>2. ASSUME NEW i \in 1..m PROVE t[i] = data[p.read + i - 1]
    <3>1. n # Pending(ptr) /\ n + i \in 1..Pending(ptr)
      BY <1>1
    <3>2. p.read = ptr.read + n
      BY <1>3, <3>1 DEF p
    <3>3. ptr.read + (n + i) - 1 = p.read + i - 1
      BY <1>1, <3>2
    <3>4. t[i] = q[n + i] /\ q[n + i] = data[ptr.read + (n + i) - 1]
      BY <1>1, <1>7, <3>1
    <3> QED BY <3>3, <3>4
  <2>3. t \in Seq(Byte) /\ Len(t) = m /\ m = Pending(p)
    BY <1>4, <1>7
  <2> HIDE DEF m, t
  <2>4. Content(data, p) = t
    BY <1>4, <2>1, <2>2, <2>3, ContentEqual DEF TypeOK
  <2> QED BY <2>4 DEF t
<1> QED BY <1>1, <1>2, <1>4, <1>6, <1>8 DEF p, q, r

\* d is the block after a caller wrote the n bytes s at the write pointer.
Filled(d, n, s) ==
    \A i \in 0..(Limit - 1) :
        d[i] = IF i \in ptr.write..(ptr.write + n - 1)
               THEN s[i - ptr.write + 1] ELSE data[i]

\* The operation that appends bytes, by WriteThrough and buffer_write.
LEMMA PutSteps ==
    ASSUME TypeOK, NEW n \in 0..WriteSpace(ptr), NEW s \in [1..n -> Byte],
           NEW d \in [0..(Limit - 1) -> Byte], Filled(d, n, s)
    PROVE  LET p == buffer_write_adv(ptr, n)
               q == Content(data, ptr)
           IN  /\ p \in Pointers /\ WellFormed(p)
               /\ n \in 0..(Limit - Len(q))
               /\ Content(d, p) = q \o s
<1> DEFINE p == buffer_write_adv(ptr, n)
           q == Content(data, ptr)
<1>1. /\ q \in Seq(Byte) /\ Len(q) = Pending(ptr) /\ Pending(ptr) \in Nat
      /\ ptr.read \in Nat /\ ptr.read + Pending(ptr) = ptr.write /\ ptr.write <= Limit
      /\ \A i \in 1..Pending(ptr) : q[i] = data[ptr.read + i - 1]
  BY ContentIsSequence DEF TypeOK
<1>2. n \in Nat /\ ptr.write + n <= Limit /\ ptr.write \in Nat
  BY <1>1, LimitAssumption DEF WriteSpace
<1>3. s \in Seq(Byte) /\ Len(s) = n
  BY <1>2, BytesAreSequence
<1>4. p = [read |-> ptr.read, write |-> ptr.write + n]
  BY DEF buffer_write_adv, TypeOK, Pointers
<1>5. p \in Pointers /\ WellFormed(p) /\ Pending(p) = Pending(ptr) + n
  <2>1. ptr.read \in 0..Limit /\ ptr.write + n \in 0..Limit /\ ptr.read <= ptr.write + n
    BY <1>1, <1>2, LimitAssumption
  <2>2. p \in Pointers /\ WellFormed(p)
    BY <1>4, <2>1 DEF Pointers, WellFormed
  <2>3. Pending(p) = ptr.write + n - ptr.read
    <3>1. p.read = ptr.read /\ p.write = ptr.write + n
      BY <1>4
    <3> HIDE DEF p
    <3> QED BY <1>1, <1>2, <3>1 DEF Pending
  <2> QED BY <1>1, <1>2, <2>2, <2>3
<1> HIDE DEF p, q
<1>6. /\ q \o s \in Seq(Byte) /\ Len(q \o s) = Pending(ptr) + n
      /\ \A i \in 1..(Pending(ptr) + n) :
            (q \o s)[i] = IF i <= Pending(ptr) THEN q[i] ELSE s[i - Pending(ptr)]
  <2>1. /\ q \o s \in Seq(Byte) /\ Len(q \o s) = Len(q) + Len(s)
        /\ \A i \in 1..(Len(q) + Len(s)) :
              (q \o s)[i] = IF i <= Len(q) THEN q[i] ELSE s[i - Len(q)]
    BY <1>1, <1>3, ConcatProperties
  <2> QED BY <1>1, <1>3, <2>1
<1>7. ASSUME NEW i \in 1..(Pending(ptr) + n) PROVE (q \o s)[i] = d[p.read + i - 1]
  <2>1. p.read = ptr.read
    BY <1>4 DEF p
  <2>2. ptr.read + i - 1 \in 0..(Limit - 1)
    BY <1>1, <1>2, LimitAssumption
  <2>3. CASE i <= Pending(ptr)
    <3>1. i \in 1..Pending(ptr) /\ ptr.read + i - 1 \notin ptr.write..(ptr.write + n - 1)
      BY <1>1, <1>2, <2>3
    <3>2. d[ptr.read + i - 1] = data[ptr.read + i - 1]
      BY <2>2, <3>1 DEF Filled
    <3>3. (q \o s)[i] = q[i]
      BY <1>6, <2>3
    <3> QED BY <1>1, <2>1, <3>1, <3>2, <3>3
  <2>4. CASE ~(i <= Pending(ptr))
    <3>1. /\ ptr.read + i - 1 \in ptr.write..(ptr.write + n - 1)
          /\ ptr.read + i - 1 - ptr.write + 1 = i - Pending(ptr)
      BY <1>1, <1>2, <2>4
    <3>2. d[ptr.read + i - 1] = s[i - Pending(ptr)]
      <4> DEFINE k == ptr.read + i - 1
      <4>1. d[k] = IF k \in ptr.write..(ptr.write + n - 1)
                   THEN s[k - ptr.write + 1] ELSE data[k]
        BY <2>2 DEF Filled
      <4>2. k \in ptr.write..(ptr.write + n - 1) /\ k - ptr.write + 1 = i - Pending(ptr)
        BY <1>1, <1>2, <3>1
      <4> HIDE DEF k
      <4>3. d[k] = s[i - Pending(ptr)]
        BY <4>1, <4>2
      <4> QED BY <4>3 DEF k
    <3>3. (q \o s)[i] = s[i - Pending(ptr)]
      BY <1>6, <2>4
    <3> QED BY <2>1, <3>2, <3>3
  <2> QED BY <2>3, <2>4
<1>8. Content(d, p) = q \o s
  <2>1. Pending(ptr) + n \in Nat
    BY <1>1, <1>2
  <2> QED BY <1>5, <1>6, <1>7, <2>1, ContentEqual
<1> QED BY <1>1, <1>2, <1>5, <1>8, LimitAssumption DEF p, q

\* Nothing is pending exactly when the queue is empty.
LEMMA EmptyContent ==
    ASSUME TypeOK
    PROVE  /\ ~buffer_can_read(ptr) => Content(data, ptr) = <<>>
           /\ Content(data, buffer_reset) = <<>>
           /\ buffer_can_read(ptr) => 1 \in 0..Pending(ptr)
<1>1. ~buffer_can_read(ptr) => Pending(ptr) = 0
  BY DEF TypeOK, Pointers, WellFormed, Pending, buffer_can_read
<1>2. Pending(buffer_reset) = 0
  BY DEF Pending, buffer_reset
<1>3. buffer_reset \in Pointers /\ WellFormed(buffer_reset)
  BY LimitAssumption DEF Pointers, WellFormed, buffer_reset
<1>5. ASSUME NEW p \in Pointers, WellFormed(p), Pending(p) = 0
      PROVE  Content(data, p) = <<>>
  <2>1. Content(data, p) \in Seq(Byte) /\ Len(Content(data, p)) = 0
    BY <1>5, ContentIsSequence DEF TypeOK
  <2> QED BY <2>1, EmptySeq
<1>6. ~buffer_can_read(ptr) => Content(data, ptr) = <<>>
  BY <1>1, <1>5 DEF TypeOK
<1>7. buffer_can_read(ptr) => 1 \in 0..Pending(ptr)
  BY DEF TypeOK, Pointers, Pending, buffer_can_read
<1> QED BY <1>2, <1>3, <1>5, <1>6, <1>7

\* Each operation is a step of the queue and keeps the buffer well formed.
LEMMA StepIsQueueStep ==
    ASSUME TypeOK, Next
    PROVE  TypeOK' /\ Queue!Next
<1> USE DEF Queue!Next
<1>1. CASE WriteThrough
  <2>1. PICK n \in 0..WriteSpace(ptr) : \E s \in [1..n -> Byte] :
          /\ data' = [i \in 0..(Limit - 1) |->
                          IF i \in ptr.write..(ptr.write + n - 1)
                          THEN s[i - ptr.write + 1] ELSE data[i]]
          /\ ptr' = buffer_write_adv(ptr, n)
          /\ got' = <<>>
    BY <1>1 DEF WriteThrough
  <2>1a. PICK s \in [1..n -> Byte] :
          /\ data' = [i \in 0..(Limit - 1) |->
                          IF i \in ptr.write..(ptr.write + n - 1)
                          THEN s[i - ptr.write + 1] ELSE data[i]]
          /\ ptr' = buffer_write_adv(ptr, n)
          /\ got' = <<>>
    BY <2>1
  <2>2. data' \in [0..(Limit - 1) -> Byte]
    <3>1. \A i \in ptr.write..(ptr.write + n - 1) : s[i - ptr.write + 1] \in Byte
      BY LimitAssumption DEF TypeOK, Pointers, WriteSpace
    <3> QED BY <2>1a, <3>1 DEF TypeOK
  <2>3. Filled(data', n, s)
    BY <2>1a DEF Filled
  <2>4. /\ ptr' \in Pointers /\ WellFormed(ptr')
        /\ n \in 0..(Limit - Len(Content(data, ptr)))
        /\ Content(data', ptr') = Content(data, ptr) \o s
    BY <2>1a, <2>2, <2>3, PutSteps
  <2>5. Queue!Put
    BY <2>1a, <2>4 DEF Queue!Put
  <2> QED BY <2>1a, <2>2, <2>4, <2>5, EmptySeq DEF TypeOK
<1>2. CASE ReadThrough
  <2>1. PICK n \in 0..Pending(ptr) :
          /\ got' = [i \in 1..n |-> data[ptr.read + i - 1]]
          /\ ptr' = buffer_read_adv(ptr, n)
          /\ UNCHANGED data
    BY <1>2 DEF ReadThrough
  <2>2. Queue!Take
    BY <2>1, TakeSteps DEF Queue!Take
  <2> QED BY <2>1, <2>2, TakeSteps DEF TypeOK
<1>3. CASE buffer_read
  <2>1. CASE buffer_can_read(ptr)
    <3>1. 1 \in 0..Pending(ptr)
      BY <2>1, EmptyContent
    <3>2. [i \in 1..1 |-> data[ptr.read + i - 1]] = <<data[ptr.read]>>
      BY DEF TypeOK, Pointers
    <3>3. Queue!Take
      BY <1>3, <2>1, <3>1, <3>2, TakeSteps DEF buffer_read, Queue!Take
    <3>4. ptr' \in Pointers /\ WellFormed(ptr') /\ got' \in Seq(Byte) /\ data' = data
      BY <1>3, <2>1, <3>1, <3>2, TakeSteps DEF buffer_read
    <3> QED BY <3>3, <3>4 DEF TypeOK
  <2>2. CASE ~buffer_can_read(ptr)
    <3>1. Queue!Miss
      BY <1>3, <2>2, EmptyContent DEF buffer_read, Queue!Miss
    <3> QED BY <1>3, <2>2, <3>1, EmptySeq DEF buffer_read, TypeOK
  <2> QED BY <2>1, <2>2
<1>4. CASE buffer_write
  <2>1. CASE buffer_can_write(ptr)
    <3>1. PICK c \in Byte : /\ data' = [data EXCEPT ![ptr.write] = c]
                            /\ ptr' = buffer_write_adv(ptr, 1)
                            /\ got' = <<>>
      BY <1>4, <2>1 DEF buffer_write
    <3> DEFINE s == [i \in 1..1 |-> c]
    <3>2. 1 \in 0..WriteSpace(ptr) /\ ptr.write \in 0..(Limit - 1) /\ s \in [1..1 -> Byte]
      BY <2>1, LimitAssumption DEF buffer_can_write, WriteSpace, TypeOK, Pointers
    <3>3. data' \in [0..(Limit - 1) -> Byte]
      BY <3>1, <3>2 DEF TypeOK
    <3>4. Filled(data', 1, s)
      BY <3>1, <3>2 DEF TypeOK, Filled
    <3> HIDE DEF s
    <3>5. /\ ptr' \in Pointers /\ WellFormed(ptr')
          /\ 1 \in 0..(Limit - Len(Content(data, ptr)))
          /\ Content(data', ptr') = Content(data, ptr) \o s
      BY <3>1, <3>2, <3>3, <3>4, PutSteps
    <3>6. Queue!Put
      BY <3>1, <3>2, <3>5 DEF Queue!Put
    <3> QED BY <3>1, <3>3, <3>5, <3>6, EmptySeq DEF TypeOK
  <2>2. CASE ~buffer_can_write(ptr)
    BY <1>4, <2>2, EmptySeq DEF buffer_write, TypeOK, Queue!Idle
  <2> QED BY <2>1, <2>2
<1>5. CASE compact
  <2> DEFINE q == Content(data, ptr)
  <2>1. /\ q \in Seq(Byte) /\ Len(q) = Pending(ptr) /\ Pending(ptr) \in Nat
        /\ ptr.read \in Nat /\ ptr.read + Pending(ptr) = ptr.write /\ ptr.write <= Limit
        /\ \A i \in 1..Pending(ptr) : q[i] = data[ptr.read + i - 1]
    BY ContentIsSequence DEF TypeOK
  <2> HIDE DEF q
  <2>2. ptr' = [read |-> 0, write |-> Pending(ptr)]
    BY <1>5 DEF compact, buffer_compact, Pending
  <2>3. ptr' \in Pointers /\ WellFormed(ptr') /\ Pending(ptr') = Pending(ptr) /\ ptr'.read = 0
    BY <2>1, <2>2, LimitAssumption DEF Pointers, WellFormed, Pending
  <2>4. data' = [i \in 0..(Limit - 1) |-> IF i < Pending(ptr) THEN data[ptr.read + i] ELSE data[i]]
    BY <1>5 DEF compact
  <2>5. data' \in [0..(Limit - 1) -> Byte]
    <3>1. \A i \in 0..(Limit - 1) : i < Pending(ptr) => ptr.read + i \in 0..(Limit - 1)
      BY <2>1, LimitAssumption
    <3> QED BY <2>4, <3>1 DEF TypeOK
  <2>6. ASSUME NEW i \in 1..Pending(ptr) PROVE q[i] = data'[ptr'.read + i - 1]
    <3>1. 0 + i - 1 \in 0..(Limit - 1) /\ 0 + i - 1 < Pending(ptr) /\ ptr.read + (0 + i - 1) = ptr.read + i - 1
      BY <2>1, <2>3, LimitAssumption
    <3> QED BY <2>1, <2>3, <2>4, <3>1
  <2>7. Content(data', ptr') = q
    BY <2>1, <2>3, <2>5, <2>6, ContentEqual
  <2>8. got' = <<>>
    BY <1>5 DEF compact
  <2>9. Queue!Idle
    BY <2>7, <2>8 DEF Queue!Idle, q
  <2> QED BY <2>3, <2>5, <2>8, <2>9, EmptySeq DEF TypeOK
<1>6. CASE reset
  <2>1. buffer_reset \in Pointers /\ WellFormed(buffer_reset)
    BY LimitAssumption DEF Pointers, WellFormed, buffer_reset
  <2> QED BY <1>6, <2>1, EmptyContent, EmptySeq DEF reset, TypeOK, Queue!Clear
<1> QED BY <1>1, <1>2, <1>3, <1>4, <1>5, <1>6 DEF Next

\* The pointers stay ordered and the block keeps its bytes: the assertions of
\* buffer.c never fail.
THEOREM BufferTypeCorrect == Spec => []TypeOK
<1>1. buffer_init => TypeOK
  BY LimitAssumption, EmptySeq DEF buffer_init, TypeOK, buffer_reset, Pointers, WellFormed
<1>2. TypeOK /\ [Next]_vars => TypeOK'
  <2>1. TypeOK /\ UNCHANGED vars => TypeOK'
    BY DEF TypeOK, vars
  <2> QED BY <2>1, StepIsQueueStep
<1> QED BY <1>1, <1>2, PTL DEF Spec

\* buffer.c implements the bounded queue its callers rely on.
THEOREM BufferIsQueue == Spec => IsQueue
<1>1. buffer_init => Queue!Init
  <2> SUFFICES ASSUME buffer_init PROVE Queue!Init
    OBVIOUS
  <2>1. TypeOK
    BY LimitAssumption, EmptySeq DEF buffer_init, TypeOK, buffer_reset, Pointers, WellFormed
  <2>2. ptr = buffer_reset /\ got = <<>>
    BY DEF buffer_init
  <2> QED BY <2>1, <2>2, EmptyContent DEF Queue!Init
<1>2. TypeOK /\ [Next]_vars => [Queue!Next]_<<Content(data, ptr), got>>
  <2>1. UNCHANGED vars => UNCHANGED <<Content(data, ptr), got>>
    BY DEF vars, Content
  <2> QED BY <2>1, StepIsQueueStep
<1> QED BY <1>1, <1>2, BufferTypeCorrect, PTL DEF Spec, IsQueue, Queue!Spec
=============================================================================
