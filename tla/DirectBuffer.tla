---------------------------- MODULE DirectBuffer ----------------------------
(***************************************************************************)
(* buffer.c with its bytes: one buffer, every public operation an action.  *)
(* Callers fill the space buffer_write_ptr shows them before they call     *)
(* buffer_write_adv, and take the bytes buffer_read_ptr shows them before  *)
(* they call buffer_read_adv; the selector thread is the only caller, so   *)
(* each pair is one action.                                                *)
(***************************************************************************)
EXTENDS BufferOps, Sequences

CONSTANT Byte

VARIABLES
    data,       \* the block of Limit bytes, not initialised by malloc
    ptr,        \* the two pointers
    got         \* the bytes the last operation handed to its caller

vars == <<data, ptr, got>>

TypeOK ==
    /\ data \in [0..(Limit - 1) -> Byte]
    /\ ptr \in Pointers
    /\ WellFormed(ptr)
    /\ got \in Seq(Byte)

Content(d, p) == [i \in 1..Pending(p) |-> d[p.read + i - 1]]

buffer_init ==
    /\ data \in [0..(Limit - 1) -> Byte]
    /\ ptr = buffer_reset
    /\ got = <<>>

\* buffer_write_ptr, a recv of n bytes, buffer_write_adv(n).
WriteThrough ==
    \E n \in 0..WriteSpace(ptr) : \E s \in [1..n -> Byte] :
        /\ data' = [i \in 0..(Limit - 1) |->
                        IF i \in ptr.write..(ptr.write + n - 1)
                        THEN s[i - ptr.write + 1] ELSE data[i]]
        /\ ptr' = buffer_write_adv(ptr, n)
        /\ got' = <<>>

\* buffer_read_ptr, a send that takes n bytes, buffer_read_adv(n).
ReadThrough ==
    \E n \in 0..Pending(ptr) :
        /\ got' = [i \in 1..n |-> data[ptr.read + i - 1]]
        /\ ptr' = buffer_read_adv(ptr, n)
        /\ UNCHANGED data

\* buffer_read of one byte; 0 stands for no byte when there is none.
buffer_read ==
    IF buffer_can_read(ptr)
      THEN /\ got' = <<data[ptr.read]>>
           /\ ptr' = buffer_read_adv(ptr, 1)
           /\ UNCHANGED data
      ELSE got' = <<>> /\ UNCHANGED <<data, ptr>>

\* buffer_write of one byte: dropped when there is no room.
buffer_write ==
    IF buffer_can_write(ptr)
      THEN \E c \in Byte :
             /\ data' = [data EXCEPT ![ptr.write] = c]
             /\ ptr' = buffer_write_adv(ptr, 1)
             /\ got' = <<>>
      ELSE got' = <<>> /\ UNCHANGED <<data, ptr>>

\* Compaction on demand: memmove of the pending bytes to the start.
compact ==
    /\ data' = [i \in 0..(Limit - 1) |->
                    IF i < Pending(ptr) THEN data[ptr.read + i] ELSE data[i]]
    /\ ptr' = buffer_compact(ptr)
    /\ got' = <<>>

reset == ptr' = buffer_reset /\ got' = <<>> /\ UNCHANGED data

Next == WriteThrough \/ ReadThrough \/ buffer_read \/ buffer_write \/ compact \/ reset

Spec == buffer_init /\ [][Next]_vars

-----------------------------------------------------------------------------

Queue == INSTANCE ByteQueue WITH Capacity <- Limit, queue <- Content(data, ptr)

\* The buffer is a queue: whatever the mixture of partial reads, writes,
\* compactions and resets, no byte is lost, repeated or reordered.
IsQueue == Queue!Spec
=============================================================================
