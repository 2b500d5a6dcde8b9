----------------------------- MODULE BufferOps -----------------------------
(***************************************************************************)
(* The pointers of buffer.c.  A buffer is a block of Limit bytes with a    *)
(* read and a write pointer, kept here as offsets from buffer.data; the    *)
(* bytes themselves are in module DirectBuffer.  Every operator has the    *)
(* name of the C function and returns the buffer that function leaves.     *)
(***************************************************************************)
EXTENDS Integers

CONSTANT Limit          \* BUFF_SIZE, buffer.limit - buffer.data

ASSUME LimitAssumption == Limit \in Nat \ {0}

Pointers == [read : 0..Limit, write : 0..Limit]

\* R <= W <= limit, the invariant buffer.h states and buffer.c asserts.
WellFormed(b) == b.read <= b.write

\* Once everything is read both pointers are back at the start, so that a
\* buffer without room always holds something to send.
Compacted(b) == b.read = b.write => b.write = 0

buffer_reset == [read |-> 0, write |-> 0]

buffer_can_write(b) == Limit - b.write > 0
buffer_can_read(b)  == b.write - b.read > 0

\* What buffer_write_ptr and buffer_read_ptr return in *nbyte.
WriteSpace(b) == Limit - b.write
Pending(b)    == b.write - b.read

\* Mutants: the form a plausible bug would give to the definition each is named
\* for.  PROJECT.json says which property refutes it.
buffer_compact_KeepsWrite(b) == [read |-> 0, write |-> b.write]
buffer_write_adv_OffByOne(b, n) == [b EXCEPT !.write = @ + n + 1]
buffer_read_adv_NoCompact(b, n) == [b EXCEPT !.read = @ + n]

\* The three branches of the C code leave the same two offsets: nothing to
\* do when read = 0, both reset when nothing is pending, memmove otherwise.
buffer_compact(b) == [read |-> 0, write |-> b.write - b.read]

buffer_write_adv(b, n) == [b EXCEPT !.write = @ + n]

buffer_read_adv(b, n) ==
    LET c == [b EXCEPT !.read = @ + n]
    IN  IF c.read = c.write THEN buffer_compact(c) ELSE c
=============================================================================
