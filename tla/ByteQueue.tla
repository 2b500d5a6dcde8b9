----------------------------- MODULE ByteQueue -----------------------------
(***************************************************************************)
(* What buffer.c promises its callers: a bounded queue of bytes.  Bytes    *)
(* leave in the order in which they came, each exactly once.  got is what  *)
(* the last operation handed to its caller.                                *)
(***************************************************************************)
EXTENDS Integers, Sequences

CONSTANTS Byte, Capacity

VARIABLES queue, got

Init == queue = <<>> /\ got = <<>>

Put ==
    \E n \in 0..(Capacity - Len(queue)) : \E s \in [1..n -> Byte] :
        queue' = queue \o s /\ got' = <<>>

Take ==
    \E n \in 0..Len(queue) :
        /\ got' = SubSeq(queue, 1, n)
        /\ queue' = SubSeq(queue, n + 1, Len(queue))

\* A read of an empty queue yields no byte of it.
Miss == queue = <<>> /\ queue' = queue /\ got' = <<>>

Idle == queue' = queue /\ got' = <<>>

Clear == queue' = <<>> /\ got' = <<>>

Next == Put \/ Take \/ Miss \/ Idle \/ Clear

Spec == Init /\ [][Next]_<<queue, got>>
=============================================================================
